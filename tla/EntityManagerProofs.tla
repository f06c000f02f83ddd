-------------------------- MODULE EntityManagerProofs --------------------------
(***************************************************************************)
(* Proofs about EntityManager, for any threads, components, dependencies   *)
(* and values, and any bounds.  The inductive invariant IInv is stated in  *)
(* parts: Entities (slots, rows and places), Recorded (the commands in the *)
(* storages), PendingFresh (what they will create is unused) and Phases    *)
(* (what holds between lock() and the end of unlock()).  Operations are    *)
(* first reduced to what they do to one entity (Created, Moved, Written,   *)
(* Destroyed, Adopted, Discarded); StepEffect then says so of every step,  *)
(* and serves the proofs that rest on the invariant: the allocator's       *)
(* steps, and the validity of rows with one creating thread.               *)
(***************************************************************************)
EXTENDS EntityManager, TLAPS, FiniteSetTheorems, WellFoundedInduction

-----------------------------------------------------------------------------
(* The handle allocator.                                                   *)

USE BoundsAssumption DEF Ids, Versions, Handles, NullHandle

SlotsInv == SlotsTypeOK /\ TailIsNull /\ FreeListInv

LEMMA InitOK == SlotsInit => SlotsInv
<1> SUFFICES ASSUME SlotsInit PROVE SlotsInv
  OBVIOUS
<1>1. SlotsTypeOK /\ TailIsNull
  BY DEF SlotsInit, SlotsTypeOK, TailIsNull, NoSlots
<1>2. IsFreeList([i \in 1..emptySlots |-> 0])
  BY DEF SlotsInit, IsFreeList, Free
<1>3. FreeListInv
  <2>1. [i \in 1..emptySlots |-> 0] \in [1..emptySlots -> Ids]
    BY DEF SlotsInit
  <2> QED BY <1>2, <2>1 DEF FreeListInv
<1> QED BY <1>1, <1>3 DEF SlotsInv

(* What an action must keep of the free list f to keep the invariant. *)
LEMMA FreeSlotFacts ==
  ASSUME SlotsTypeOK, NEW f \in [1..emptySlots -> Ids], IsFreeList(f), emptySlots > 0
  PROVE  /\ nextSlot \in Ids
         /\ Free(nextSlot)
         /\ slots[nextSlot] # NullHandle
         /\ NewHandle \in [id : Ids, ver : Versions]
<1>1. nextSlot = f[1] /\ f[1] \in Ids
  BY DEF SlotsTypeOK, IsFreeList
<1>2. Free(nextSlot)
  <2>1. 1 \in 1..emptySlots
    BY DEF SlotsTypeOK
  <2> QED BY <1>1, <2>1 DEF IsFreeList
<1>3. slots[nextSlot] # NullHandle
  BY <1>2 DEF Free, Gap
<1>4. slots[nextSlot] \in [id : 0..MaxEntities, ver : Versions]
  BY <1>1, <1>3 DEF SlotsTypeOK
<1> QED BY <1>1, <1>2, <1>3, <1>4 DEF NewHandle

LEMMA AcquireOK == SlotsInv /\ Acquire => SlotsInv'
<1> SUFFICES ASSUME SlotsInv, Acquire PROVE SlotsInv'
  OBVIOUS
<1> PICK f \in [1..emptySlots -> Ids] : IsFreeList(f)
  BY DEF SlotsInv, FreeListInv
<1>1. CASE emptySlots = 0
  <2>1. /\ size < MaxEntities /\ size \in Ids /\ size' = size + 1
        /\ slots' = [slots EXCEPT ![size] = [id |-> size, ver |-> 0]]
        /\ UNCHANGED <<nextSlot, emptySlots>>
    BY <1>1 DEF Acquire, NewHandle, SlotsInv, SlotsTypeOK
  <2>2. SlotsTypeOK'
    BY <2>1 DEF SlotsInv, SlotsTypeOK
  <2>3. TailIsNull'
    BY <2>1 DEF SlotsInv, TailIsNull, SlotsTypeOK
  <2>4. IsFreeList(f)'
    BY <1>1, <2>1 DEF SlotsInv, SlotsTypeOK, IsFreeList, Free, Used, Gap
  <2> QED BY <2>1, <2>2, <2>3, <2>4 DEF SlotsInv, FreeListInv
<1>2. CASE emptySlots > 0
  <2> PICK g \in [1..(emptySlots - 1) -> Ids] : \A i \in 1..(emptySlots - 1) : g[i] = f[i + 1]
    <3> DEFINE h == [i \in 1..(emptySlots - 1) |-> f[i + 1]]
    <3>1. h \in [1..(emptySlots - 1) -> Ids]
      BY DEF SlotsInv, SlotsTypeOK
    <3> QED BY <3>1
  <2>0. /\ nextSlot \in Ids /\ Free(nextSlot) /\ slots[nextSlot] # NullHandle
        /\ nextSlot = f[1] /\ nextSlot < size
    BY <1>2, FreeSlotFacts DEF SlotsInv, IsFreeList, Free
  <2>1. /\ nextSlot' = slots[nextSlot].id
        /\ slots' = [slots EXCEPT ![nextSlot] = [id |-> nextSlot, ver |-> slots[nextSlot].ver]]
        /\ emptySlots' = emptySlots - 1 /\ size' = size
    BY <1>2 DEF Acquire, NewHandle
  <2>2. slots[nextSlot] \in [id : 0..MaxEntities, ver : Versions]
    BY <2>0 DEF SlotsInv, SlotsTypeOK
  <2>3. SlotsTypeOK'
    BY <1>2, <2>0, <2>1, <2>2 DEF SlotsInv, SlotsTypeOK
  <2>4. TailIsNull'
    BY <2>0, <2>1 DEF SlotsInv, TailIsNull, SlotsTypeOK
  <2>5. g \in [1..emptySlots' -> Ids]
    BY <2>1
  <2>6. IsFreeList(g)'
    <3>1. \A i, j \in 1..emptySlots' : g[i] = g[j] => i = j
      BY <1>2, <2>1 DEF SlotsInv, SlotsTypeOK, IsFreeList
    <3>2. ASSUME NEW id \in Ids
          PROVE  Free(id)' <=> \E i \in 1..emptySlots' : g[i] = id
      <4>1. CASE id = nextSlot
        <5>1. ~Free(id)'
          BY <4>1, <2>0, <2>1 DEF Free, Used, SlotsInv, SlotsTypeOK
        <5>2. ASSUME NEW i \in 1..emptySlots' PROVE g[i] # id
          BY <1>2, <4>1, <2>0, <2>1 DEF SlotsInv, SlotsTypeOK, IsFreeList
        <5> QED BY <5>1, <5>2
      <4>2. CASE id # nextSlot
        <5>1. Free(id)' <=> Free(id)
          BY <4>2, <2>0, <2>1 DEF Free, Used, Gap, SlotsInv, SlotsTypeOK
        <5>2. Free(id) <=> \E i \in 1..emptySlots : f[i] = id
          BY DEF IsFreeList
        <5>3. ASSUME NEW i \in 1..emptySlots, f[i] = id
              PROVE  \E j \in 1..emptySlots' : g[j] = id
          <6>1. i # 1 /\ i - 1 \in 1..emptySlots'
            BY <1>2, <5>3, <4>2, <2>0, <2>1 DEF SlotsInv, SlotsTypeOK
          <6>2. g[i - 1] = id
            BY <6>1, <5>3, <2>1 DEF SlotsInv, SlotsTypeOK
          <6> QED BY <6>1, <6>2
        <5>4. ASSUME NEW i \in 1..emptySlots', g[i] = id
              PROVE  \E j \in 1..emptySlots : f[j] = id
          <6>1. i + 1 \in 1..emptySlots /\ f[i + 1] = id
            BY <5>4, <2>1 DEF SlotsInv, SlotsTypeOK
          <6> QED BY <6>1
        <5> QED BY <5>1, <5>2, <5>3, <5>4
      <4> QED BY <4>1, <4>2
    <3>3. emptySlots' > 0 => nextSlot' = g[1]
      BY <1>2, <2>0, <2>1 DEF SlotsInv, SlotsTypeOK, IsFreeList
    <3>4. ASSUME NEW i \in 1..(emptySlots' - 1)
          PROVE  slots'[g[i]].id = g[i + 1]
      <4>1. /\ i + 1 \in 1..(emptySlots - 1) /\ 1 \in 1..emptySlots /\ i + 1 \in 1..emptySlots
            /\ g[i] = f[i + 1] /\ g[i + 1] = f[i + 2]
        BY <2>1 DEF SlotsInv, SlotsTypeOK
      <4>2. f[i + 1] # nextSlot /\ f[i + 1] \in Ids
        BY <4>1, <2>0 DEF IsFreeList
      <4>3. slots[f[i + 1]].id = f[(i + 1) + 1]
        BY <4>1 DEF IsFreeList
      <4> QED BY <4>1, <4>2, <4>3, <2>1 DEF SlotsInv, SlotsTypeOK
    <3> QED BY <3>1, <3>2, <3>3, <3>4 DEF IsFreeList
  <2> QED BY <2>3, <2>4, <2>5, <2>6 DEF SlotsInv, FreeListInv
<1> QED BY <1>1, <1>2 DEF SlotsInv, SlotsTypeOK

(* A handle that may be released names a slot that is not on the list. *)
LEMMA ReleasableFacts ==
  ASSUME SlotsInv, NEW e \in Releasable
  PROVE  e.id \in Ids /\ e.ver \in Versions /\ ~Free(e.id)
BY DEF Releasable, LockedHandles, Valid, Free, Used, SlotsInv, SlotsTypeOK

LEMMA ReleaseOK ==
  ASSUME SlotsInv, NEW e \in Releasable, Release(e)
  PROVE  SlotsInv'
<1> PICK f \in [1..emptySlots -> Ids] : IsFreeList(f)
  BY DEF SlotsInv, FreeListInv
<1> DEFINE next == IF emptySlots > 0 THEN nextSlot ELSE e.id + 1
<1>0. /\ e.id \in Ids /\ e.ver \in Versions /\ e.ver + 1 \in Versions
      /\ emptySlots \in Nat /\ size \in 0..MaxEntities
      /\ ~Free(e.id)
  <2>1. e.id \in Ids /\ e.ver \in Versions /\ ~Free(e.id)
    BY ReleasableFacts
  <2>2. e.ver < MaxVersion
    BY DEF Release
  <2>3. emptySlots \in Nat /\ size \in 0..MaxEntities
    BY DEF SlotsInv, SlotsTypeOK
  <2> QED BY <2>1, <2>2, <2>3
<1>1. /\ size' = (IF size >= e.id + 1 THEN size ELSE e.id + 1)
      /\ slots' = [slots EXCEPT ![e.id] = [id |-> next, ver |-> e.ver + 1]]
      /\ nextSlot' = e.id
      /\ emptySlots' = emptySlots + 1
  BY DEF Release, Max2
<1>2. emptySlots > 0 => nextSlot = f[1] /\ nextSlot \in Ids /\ nextSlot # e.id
  <2>1. emptySlots > 0 => 1 \in 1..emptySlots
    BY <1>0
  <2> QED BY <1>0, <2>1 DEF IsFreeList
<1>3. next \in 0..MaxEntities /\ next # e.id
  BY <1>0, <1>2
<1>4. /\ SlotsTypeOK'
      /\ slots'[e.id].id = next /\ slots'[e.id] # NullHandle
      /\ \A id \in Ids : id # e.id => slots'[id] = slots[id]
  <2> HIDE DEF next
  <2>1. [id |-> next, ver |-> e.ver + 1] \in [id : 0..MaxEntities, ver : Versions]
    BY <1>0, <1>3
  <2>2. slots' \in [Ids -> [id : 0..MaxEntities, ver : Versions] \cup {NullHandle}]
    BY <1>0, <1>1, <2>1 DEF SlotsInv, SlotsTypeOK
  <2>3. slots'[e.id] = [id |-> next, ver |-> e.ver + 1]
    BY <1>0, <1>1 DEF SlotsInv, SlotsTypeOK
  <2>4. size' \in 0..MaxEntities /\ nextSlot' \in 0..MaxEntities /\ emptySlots' \in Nat
    BY <1>0, <1>1
  <2>5. slots'[e.id] # NullHandle
    BY <2>3, <1>3
  <2>6. \A id \in Ids : id # e.id => slots'[id] = slots[id]
    BY <1>1 DEF SlotsInv, SlotsTypeOK
  <2>7. slots'[e.id].id = next
    BY <2>3
  <2>8. SlotsTypeOK'
    BY <2>2, <2>4 DEF SlotsTypeOK
  <2> QED BY <2>5, <2>6, <2>7, <2>8
<1>5. TailIsNull'
  BY <1>0, <1>1 DEF SlotsInv, SlotsTypeOK, TailIsNull
<1> PICK g \in [1..(emptySlots + 1) -> Ids] :
           \A i \in 1..(emptySlots + 1) : g[i] = IF i = 1 THEN e.id ELSE f[i - 1]
  <2> DEFINE h == [i \in 1..(emptySlots + 1) |-> IF i = 1 THEN e.id ELSE f[i - 1]]
  <2>1. h \in [1..(emptySlots + 1) -> Ids]
    BY <1>0
  <2> QED BY <2>1
<1>6. IsFreeList(g)'
  <2>1. \A i, j \in 1..emptySlots' : g[i] = g[j] => i = j
    <3> SUFFICES ASSUME NEW i \in 1..emptySlots', NEW j \in 1..emptySlots', g[i] = g[j]
                 PROVE  i = j
      OBVIOUS
    <3>0. \A k \in 1..emptySlots : f[k] # e.id
      BY <1>0 DEF IsFreeList
    <3>1. \A k \in 1..emptySlots' : /\ k = 1 => g[k] = e.id
                                   /\ k # 1 => /\ k - 1 \in 1..emptySlots
                                               /\ g[k] = f[k - 1]
      BY <1>0, <1>1
    <3>1a. g[1] = e.id
      BY <1>0
    <3>2. CASE i # 1 /\ j # 1
      <4>1. i - 1 \in 1..emptySlots /\ j - 1 \in 1..emptySlots /\ f[i - 1] = f[j - 1]
        BY <3>1, <3>2
      <4>2. i - 1 = j - 1
        BY <4>1 DEF IsFreeList
      <4> QED BY <4>2, <1>0, <1>1
    <3>3. CASE i = 1 /\ j # 1
      <4>1. g[i] = e.id
        BY <3>1a, <3>3
      <4>2. g[j] = f[j - 1] /\ j - 1 \in 1..emptySlots
        BY <3>1, <3>3
      <4> QED BY <4>1, <4>2, <3>0
    <3>4. CASE i # 1 /\ j = 1
      <4>1. g[j] = e.id
        BY <3>1a, <3>4
      <4>2. g[i] = f[i - 1] /\ i - 1 \in 1..emptySlots
        BY <3>1, <3>4
      <4> QED BY <4>1, <4>2, <3>0
    <3> QED BY <3>2, <3>3, <3>4
  <2>2. ASSUME NEW id \in Ids
        PROVE  Free(id)' <=> \E i \in 1..emptySlots' : g[i] = id
    <3>1. CASE id = e.id
      <4>1. Free(id)'
        <5>1. id < size'
          BY <3>1, <1>0, <1>1
        <5>2. slots'[id].id # id /\ slots'[id] # NullHandle
          BY <3>1, <1>3, <1>4
        <5> QED BY <5>1, <5>2 DEF Free, Used, Gap
      <4>2. 1 \in 1..emptySlots' /\ g[1] = id
        BY <3>1, <1>0, <1>1
      <4> QED BY <4>1, <4>2
    <3>2. CASE id # e.id
      <4>1. Free(id)' <=> Free(id)
        <5>1. slots'[id] = slots[id] /\ (id < size => id < size')
          BY <3>2, <1>0, <1>1, <1>4
        <5>2. id >= size => slots[id] = NullHandle
          BY DEF SlotsInv, TailIsNull
        <5> QED BY <5>1, <5>2, <1>0 DEF Free, Used, Gap
      <4>2. ASSUME NEW i \in 1..emptySlots, f[i] = id
            PROVE  \E j \in 1..emptySlots' : g[j] = id
        <5>1. i + 1 \in 1..emptySlots' /\ g[i + 1] = id
          BY <4>2, <1>0, <1>1
        <5> QED BY <5>1
      <4>3. ASSUME NEW i \in 1..emptySlots', g[i] = id
            PROVE  \E j \in 1..emptySlots : f[j] = id
        <5>1. i \in 1..(emptySlots + 1) /\ g[i] = IF i = 1 THEN e.id ELSE f[i - 1]
          BY <1>1
        <5>2. i # 1
          BY <5>1, <4>3, <3>2
        <5>3. i - 1 \in 1..emptySlots
          BY <5>1, <5>2, <1>0
        <5> QED BY <4>3, <5>1, <5>2, <5>3
      <4> QED BY <4>1, <4>2, <4>3 DEF IsFreeList
    <3> QED BY <3>1, <3>2
  <2>3. emptySlots' > 0 => nextSlot' = g[1]
    BY <1>0, <1>1
  <2>4. ASSUME NEW i \in 1..(emptySlots' - 1)
        PROVE  slots'[g[i]].id = g[i + 1]
    <3>1. CASE i = 1
      BY <3>1, <1>0, <1>1, <1>2 DEF SlotsInv, SlotsTypeOK
    <3>2. CASE i # 1
      <4>1. /\ i - 1 \in 1..(emptySlots - 1) /\ i - 1 \in 1..emptySlots
            /\ g[i] = f[i - 1] /\ g[i + 1] = f[(i - 1) + 1]
        <5>1. i \in 1..emptySlots /\ i - 1 \in 1..(emptySlots - 1) /\ i - 1 \in 1..emptySlots
          BY <3>2, <1>0, <1>1
        <5>2. i \in 1..(emptySlots + 1) /\ i + 1 \in 1..(emptySlots + 1)
              /\ i + 1 # 1 /\ (i + 1) - 1 = (i - 1) + 1
          BY <5>1, <1>0
        <5>3. g[i] = f[i - 1] /\ g[i + 1] = f[(i + 1) - 1]
          BY <5>2, <3>2
        <5> QED BY <5>1, <5>2, <5>3
      <4>2. f[i - 1] # e.id /\ f[i - 1] \in Ids
        BY <4>1, <1>0 DEF IsFreeList
      <4>3. slots[f[i - 1]].id = f[(i - 1) + 1]
        BY <4>1 DEF IsFreeList
      <4> QED BY <4>1, <4>2, <4>3, <1>0, <1>1 DEF SlotsInv, SlotsTypeOK
    <3> QED BY <3>1, <3>2
  <2> QED BY <2>1, <2>2, <2>3, <2>4 DEF IsFreeList
<1>7. g \in [1..emptySlots' -> Ids]
  BY <1>1
<1> QED BY <1>4, <1>5, <1>6, <1>7 DEF SlotsInv, FreeListInv

(* What clearArchetype writes, row by row. *)
LEMMA ReleaseAllSteps ==
  ASSUME NEW es \in Batches, ReleaseAll(es)
  PROVE  /\ Len(es) \in Nat \ {0}
         /\ \A k \in 1..Len(es) : /\ es[k] \in Releasable /\ es[k] \in Handles
                                   /\ es[k].id < size
                                   /\ es[k].ver + 1 \in Versions
         /\ \A j, k \in 1..Len(es) : es[j].id = es[k].id => j = k
         /\ \A k \in 1..Len(es) :
               slots'[es[k].id] = [id |-> slots'[es[k].id].id, ver |-> es[k].ver + 1]
         /\ \A k \in 1..Len(es) : k > 1 => slots'[es[k].id].id = es[k - 1].id
         /\ slots'[es[1].id].id = IF emptySlots > 0 THEN nextSlot ELSE es[1].id + 1
         /\ \A id \in Ids : (\A k \in 1..Len(es) : es[k].id # id) => slots'[id] = slots[id]
         /\ slots' = [id \in Ids |-> slots'[id]]
         /\ nextSlot' = es[Len(es)].id /\ emptySlots' = emptySlots + Len(es) /\ size' = size
<1> DEFINE n == Len(es)
<1>1. n \in 1..MaxEntities /\ es \in [1..n -> Releasable]
  BY DEF Batches
<1>2. /\ n \in Nat \ {0}
      /\ \A k \in 1..n : es[k] \in Releasable /\ es[k].id < size
      /\ \A j, k \in 1..n : es[j].id = es[k].id => j = k
  BY <1>1 DEF Batches, Distinct
<1>3. ASSUME NEW k \in 1..n
      PROVE  es[k] \in Handles /\ es[k].ver + 1 \in Versions
  <2>1. es[k] \in Handles
    BY <1>2 DEF Releasable
  <2>2. es[k].ver < MaxVersion
    BY <1>2 DEF ReleaseAll
  <2> QED BY <2>1, <2>2
<1> DEFINE Rank(id) == CHOOSE k \in 1..n : es[k].id = id
           nxt(k) == IF k > 1 THEN es[k - 1].id
                     ELSE IF emptySlots > 0 THEN nextSlot ELSE es[1].id + 1
<1>4. slots' = [id \in Ids |-> IF id \in {es[k].id : k \in 1..n}
                              THEN [id |-> nxt(Rank(id)), ver |-> es[Rank(id)].ver + 1]
                              ELSE slots[id]]
  BY <1>2 DEF ReleaseAll
<1>5. ASSUME NEW k \in 1..n PROVE Rank(es[k].id) = k
  BY <1>2
<1>6. ASSUME NEW k \in 1..n
      PROVE  slots'[es[k].id] = [id |-> nxt(k), ver |-> es[k].ver + 1]
  <2>1. es[k].id \in {es[j].id : j \in 1..n} /\ es[k].id \in Ids
    BY <1>3
  <2> HIDE DEF nxt, Rank
  <2> QED BY <1>4, <1>5, <2>1
<1> HIDE DEF n
<1>7. \A k \in 1..n : /\ slots'[es[k].id] = [id |-> slots'[es[k].id].id, ver |-> es[k].ver + 1]
                      /\ slots'[es[k].id].id = nxt(k)
  <2> HIDE DEF nxt
  <2> SUFFICES ASSUME NEW k \in 1..n
               PROVE  /\ slots'[es[k].id] = [id |-> slots'[es[k].id].id, ver |-> es[k].ver + 1]
                      /\ slots'[es[k].id].id = nxt(k)
    OBVIOUS
  <2>1. slots'[es[k].id] = [id |-> nxt(k), ver |-> es[k].ver + 1]
    BY <1>6
  <2>2. slots'[es[k].id].id = nxt(k)
    BY <2>1
  <2> QED BY <2>1, <2>2
<1>8. slots'[es[1].id].id = IF emptySlots > 0 THEN nextSlot ELSE es[1].id + 1
  <2>1. 1 \in 1..n /\ nxt(1) = IF emptySlots > 0 THEN nextSlot ELSE es[1].id + 1
    BY <1>2
  <2> HIDE DEF nxt
  <2> QED BY <1>7, <2>1
<1>9. \A k \in 1..n : k > 1 => slots'[es[k].id].id = es[k - 1].id
  BY <1>7
<1>10. /\ \A id \in Ids : (\A k \in 1..n : es[k].id # id) => slots'[id] = slots[id]
       /\ slots' = [id \in Ids |-> slots'[id]]
  BY <1>4
<1>11. nextSlot' = es[n].id /\ emptySlots' = emptySlots + n /\ size' = size
  BY <1>2 DEF ReleaseAll, n
<1> QED BY <1>2, <1>3, <1>7, <1>8, <1>9, <1>10, <1>11 DEF n

LEMMA ReleaseAllOK ==
  ASSUME SlotsInv, NEW es \in Batches, ReleaseAll(es)
  PROVE  SlotsInv'
<1> PICK f \in [1..emptySlots -> Ids] : IsFreeList(f)
  BY DEF SlotsInv, FreeListInv
<1> DEFINE n == Len(es)
<1>0. emptySlots \in Nat /\ size \in 0..MaxEntities
      /\ slots \in [Ids -> [id : 0..MaxEntities, ver : Versions] \cup {NullHandle}]
  BY DEF SlotsInv, SlotsTypeOK
<1>1. /\ n \in Nat \ {0}
      /\ \A k \in 1..n : es[k] \in Releasable /\ es[k] \in Handles /\ es[k].id < size
                         /\ es[k].ver + 1 \in Versions
      /\ \A j, k \in 1..n : es[j].id = es[k].id => j = k
      /\ \A k \in 1..n : slots'[es[k].id] = [id |-> slots'[es[k].id].id, ver |-> es[k].ver + 1]
      /\ \A k \in 1..n : k > 1 => slots'[es[k].id].id = es[k - 1].id
      /\ slots'[es[1].id].id = IF emptySlots > 0 THEN nextSlot ELSE es[1].id + 1
      /\ \A id \in Ids : (\A k \in 1..n : es[k].id # id) => slots'[id] = slots[id]
      /\ slots' = [id \in Ids |-> slots'[id]]
      /\ nextSlot' = es[n].id /\ emptySlots' = emptySlots + n /\ size' = size
  BY ReleaseAllSteps
<1> HIDE DEF n
<1>2. ASSUME NEW k \in 1..n
      PROVE  es[k].id \in Ids /\ ~Free(es[k].id)
  <2>1. es[k] \in Releasable
    BY <1>1
  <2> QED BY <2>1, ReleasableFacts
<1>3. emptySlots > 0 => nextSlot = f[1] /\ nextSlot \in Ids /\ Free(nextSlot)
  <2>1. emptySlots > 0 => 1 \in 1..emptySlots
    BY <1>0
  <2> QED BY <2>1 DEF IsFreeList
<1>4. ASSUME NEW k \in 1..n
      PROVE  /\ slots'[es[k].id] \in [id : 0..MaxEntities, ver : Versions]
             /\ slots'[es[k].id].id # es[k].id
  <2>0. es[k].id \in Ids /\ es[k].ver + 1 \in Versions
    BY <1>1
  <2>1. slots'[es[k].id].id \in 0..MaxEntities /\ slots'[es[k].id].id # es[k].id
    <3>1. CASE k > 1
      <4>1. k - 1 \in 1..n /\ k - 1 # k
        BY <1>1, <3>1
      <4>2a. \A j \in 1..n : es[j].id = es[k].id => j = k
        BY <1>1
      <4>2. es[k - 1].id \in Ids /\ es[k - 1].id # es[k].id
        BY <1>2, <4>1, <4>2a
      <4>3. slots'[es[k].id].id = es[k - 1].id
        BY <1>1, <3>1
      <4> QED BY <4>2, <4>3
    <3>2. CASE k = 1 /\ emptySlots > 0
      <4>1. nextSlot # es[k].id /\ nextSlot \in Ids
        BY <1>2, <1>3, <3>2
      <4> QED BY <1>1, <3>2, <4>1
    <3>3. CASE k = 1 /\ ~(emptySlots > 0)
      BY <1>1, <2>0, <3>3
    <3> QED BY <1>1, <3>1, <3>2, <3>3
  <2>2. slots'[es[k].id] = [id |-> slots'[es[k].id].id, ver |-> es[k].ver + 1]
    BY <1>1
  <2> QED BY <2>0, <2>1, <2>2
<1>5. ASSUME NEW id \in Ids, \A k \in 1..n : es[k].id # id
      PROVE  slots'[id] = slots[id]
  BY <1>1, <1>5
<1>6. SlotsTypeOK' /\ TailIsNull'
  <2>1. \A id \in Ids : slots'[id] \in [id : 0..MaxEntities, ver : Versions] \cup {NullHandle}
    BY <1>0, <1>4, <1>5
  <2>2. slots' \in [Ids -> [id : 0..MaxEntities, ver : Versions] \cup {NullHandle}]
    BY <1>1, <2>1
  <2>3. n \in 1..n
    BY <1>1
  <2>4. nextSlot' \in 0..MaxEntities /\ emptySlots' \in Nat
    BY <1>0, <1>1, <1>2, <2>3
  <2>5. ASSUME NEW id \in Ids, id >= size PROVE slots'[id] = NullHandle
    <3>1. ASSUME NEW k \in 1..n PROVE es[k].id # id
      BY <1>0, <1>1, <1>2, <2>5
    <3>2. slots'[id] = slots[id]
      BY <1>5, <2>5, <3>1
    <3> QED BY <2>5, <3>2 DEF SlotsInv, TailIsNull
  <2>6. TailIsNull'
    BY <1>1, <2>5 DEF TailIsNull
  <2>7. size' \in 0..MaxEntities
    BY <1>0, <1>1
  <2> QED BY <2>2, <2>4, <2>6, <2>7 DEF SlotsTypeOK
<1> PICK g \in [1..(emptySlots + n) -> Ids] :
           \A i \in 1..(emptySlots + n) : g[i] = IF i <= n THEN es[n + 1 - i].id ELSE f[i - n]
  <2> DEFINE h == [i \in 1..(emptySlots + n) |-> IF i <= n THEN es[n + 1 - i].id ELSE f[i - n]]
  <2>1. \A i \in 1..(emptySlots + n) : /\ i <= n => n + 1 - i \in 1..n
                                       /\ ~(i <= n) => i - n \in 1..emptySlots
    BY <1>0, <1>1
  <2>2. h \in [1..(emptySlots + n) -> Ids]
    BY <1>1, <2>1
  <2> QED BY <2>2
<1>7. \A i \in 1..(emptySlots + n) :
         /\ i <= n => n + 1 - i \in 1..n /\ g[i] = es[n + 1 - i].id
         /\ i > n => i - n \in 1..emptySlots /\ g[i] = f[i - n] /\ Free(g[i])
  <2> TAKE i \in 1..(emptySlots + n)
  <2>1. g[i] = IF i <= n THEN es[n + 1 - i].id ELSE f[i - n]
    OBVIOUS
  <2>2. CASE i <= n
    <3>1. n + 1 - i \in 1..n /\ ~(i > n)
      BY <1>1, <2>2
    <3>2. g[i] = es[n + 1 - i].id
      BY <2>1, <2>2
    <3> QED BY <3>1, <3>2
  <2>3. CASE i > n
    <3>1. i - n \in 1..emptySlots /\ ~(i <= n)
      BY <1>0, <1>1, <2>3
    <3>2. g[i] = f[i - n]
      BY <2>1, <3>1
    <3>3. Free(f[i - n])
      BY <1>0, <3>1 DEF IsFreeList
    <3> QED BY <3>1, <3>2, <3>3
  <2> QED BY <1>1, <2>2, <2>3
<1>8. \A i, j \in 1..emptySlots' : g[i] = g[j] => i = j
  <2> SUFFICES ASSUME NEW i \in 1..(emptySlots + n), NEW j \in 1..(emptySlots + n), g[i] = g[j]
               PROVE  i = j
    BY <1>1
  <2>1. CASE i <= n /\ j <= n
    <3>0. \A k, l \in 1..n : es[k].id = es[l].id => k = l
      BY <1>1
    <3>1. n + 1 - i = n + 1 - j
      BY <1>7, <2>1, <3>0
    <3> QED BY <3>1, <1>0, <1>1
  <2>2. CASE i > n /\ j > n
    <3>1. i - n \in 1..emptySlots /\ j - n \in 1..emptySlots /\ f[i - n] = f[j - n]
      BY <1>7, <2>2
    <3>2. i - n = j - n
      BY <3>1 DEF IsFreeList
    <3> QED BY <3>2, <1>0, <1>1
  <2>3. CASE (i <= n /\ j > n) \/ (i > n /\ j <= n)
    BY <1>2, <1>7, <2>3
  <2> QED BY <2>1, <2>2, <2>3, <1>0, <1>1
<1>9. ASSUME NEW id \in Ids
      PROVE  Free(id)' <=> \E i \in 1..emptySlots' : g[i] = id
  <2>1. CASE \E k \in 1..n : es[k].id = id
    <3> PICK k \in 1..n : es[k].id = id
      BY <2>1
    <3>1. Free(id)'
      <4>1. slots'[id].id # id /\ slots'[id].id \in 0..MaxEntities
        BY <1>4
      <4>2. id < size'
        BY <1>1
      <4> QED BY <4>1, <4>2 DEF Free, Used, Gap
    <3>2. n + 1 - k \in 1..emptySlots' /\ n + 1 - k <= n /\ n + 1 - (n + 1 - k) = k
      <4>1. emptySlots' = emptySlots + n /\ n \in Nat /\ emptySlots \in Nat
        BY <1>0, <1>1
      <4> QED BY <4>1
    <3>3. g[n + 1 - k] = id
      BY <1>1, <1>7, <3>2
    <3> QED BY <3>1, <3>2, <3>3
  <2>2. CASE \A k \in 1..n : es[k].id # id
    <3>1. Free(id)' <=> Free(id)
      BY <1>1, <1>5, <2>2 DEF Free, Used, Gap
    <3>2. ASSUME NEW i \in 1..emptySlots, f[i] = id
          PROVE  \E j \in 1..emptySlots' : g[j] = id
      <4>1. i + n \in 1..emptySlots' /\ i + n > n /\ i + n - n = i
        BY <1>0, <1>1
      <4>2. g[i + n] = f[i]
        BY <1>1, <1>7, <4>1
      <4> QED BY <3>2, <4>1, <4>2
    <3>3. ASSUME NEW i \in 1..emptySlots', g[i] = id
          PROVE  Free(id)
      <4>1. i \in 1..(emptySlots + n)
        BY <1>1
      <4>2. ~(i <= n)
        BY <1>7, <2>2, <3>3, <4>1
      <4>3. i > n
        BY <4>1, <4>2, <1>0, <1>1
      <4> QED BY <1>7, <3>3, <4>1, <4>3
    <3> QED BY <3>1, <3>2, <3>3 DEF IsFreeList
  <2> QED BY <2>1, <2>2
<1>10. nextSlot' = g[1]
  <2>1. 1 \in 1..(emptySlots + n) /\ 1 <= n /\ n + 1 - 1 = n
    BY <1>0, <1>1
  <2>2. g[1] = es[n + 1 - 1].id
    BY <1>7, <2>1
  <2> QED BY <1>1, <2>1, <2>2
<1>11. ASSUME NEW i \in 1..(emptySlots' - 1)
       PROVE  slots'[g[i]].id = g[i + 1]
  <2>0. i \in 1..(emptySlots + n) /\ i + 1 \in 1..(emptySlots + n)
    BY <1>0, <1>1
  <2>1. CASE i < n
    <3> DEFINE k == n + 1 - i
    <3>1. k \in 1..n /\ k > 1 /\ k - 1 = n + 1 - (i + 1) /\ i <= n /\ i + 1 <= n
      BY <1>1, <2>0, <2>1
    <3>2. g[i] = es[k].id /\ g[i + 1] = es[k - 1].id
      BY <1>7, <2>0, <3>1
    <3>3. slots'[es[k].id].id = es[k - 1].id
      BY <1>1, <3>1
    <3> QED BY <3>2, <3>3
  <2>2. CASE i = n
    <3>1. g[i] = es[1].id
      <4>1. n + 1 - i = 1 /\ i <= n
        BY <1>1, <2>2
      <4> QED BY <1>7, <2>0, <4>1
    <3>2. emptySlots > 0 /\ g[i + 1] = f[1]
      <4>2. emptySlots > 0
        BY <1>0, <1>1, <2>0, <2>2
      <4>1. i + 1 \in 1..(emptySlots + n) /\ i + 1 > n /\ (i + 1) - n = 1
        BY <1>1, <2>0, <2>2
      <4> PICK k \in 1..(emptySlots + n) : k = i + 1 /\ k > n /\ k - n = 1
        BY <4>1
      <4>3. g[k] = f[k - n]
        BY <1>7
      <4> QED BY <4>2, <4>3
    <3>3. 1 \in 1..n
      BY <1>1
    <3> QED BY <1>1, <1>3, <3>1, <3>2, <3>3
  <2>3. CASE i > n
    <3>1. /\ i - n \in 1..(emptySlots - 1) /\ i - n \in 1..emptySlots
          /\ i + 1 > n /\ i + 1 - n = (i - n) + 1
      <4>1. i \in Int /\ n \in Int /\ emptySlots \in Int
        BY <1>0, <1>1
      <4>2. i + 1 <= emptySlots + n
        BY <2>0, <4>1
      <4> QED BY <2>3, <4>1, <4>2
    <3>2. g[i] = f[i - n] /\ g[i + 1] = f[(i - n) + 1]
      <4>0. \A k \in 1..(emptySlots + n) : k > n => g[k] = f[k - n]
        BY <1>7
      <4>1. g[i + 1] = f[i + 1 - n]
        <5>1. PICK j \in 1..(emptySlots + n) : j = i + 1
          BY <2>0
        <5>2. g[j] = f[j - n]
          BY <3>1, <4>0, <5>1
        <5>3. j - n = i + 1 - n
          <6>1. n \in Int /\ i \in Int /\ j \in Int
            BY <1>0, <1>1, <2>0
          <6> QED BY <5>1, <6>1
        <5> QED BY <5>1, <5>2, <5>3, Zenon
      <4> QED BY <1>7, <2>0, <2>3, <3>1, <4>1
    <3>3. slots[f[i - n]].id = f[(i - n) + 1]
      BY <3>1 DEF IsFreeList
    <3>4. g[i] \in Ids /\ \A k \in 1..n : es[k].id # g[i]
      BY <1>1, <1>2, <1>7, <2>0, <2>3
    <3> QED BY <1>5, <3>2, <3>3, <3>4
  <2> QED BY <1>1, <2>0, <2>1, <2>2, <2>3
<1>12. IsFreeList(g)' /\ g \in [1..emptySlots' -> Ids]
  BY <1>1, <1>8, <1>9, <1>10, <1>11 DEF IsFreeList
<1> QED BY <1>6, <1>12 DEF SlotsInv, FreeListInv

LEMMA AdoptOK ==
  ASSUME SlotsInv, NEW e \in LockedHandles, Adopt(e)
  PROVE  SlotsInv'
<1> PICK f \in [1..emptySlots -> Ids] : IsFreeList(f)
  BY DEF SlotsInv, FreeListInv
<1>1. e.id \in Ids /\ e.ver = 0 /\ e = [id |-> e.id, ver |-> 0]
  BY DEF LockedHandles
<1>2. CASE e.id >= size
  <2>1. /\ size' = e.id + 1 /\ slots' = [slots EXCEPT ![e.id] = e]
        /\ UNCHANGED <<nextSlot, emptySlots>>
    BY <1>2 DEF Adopt
  <2>2. SlotsTypeOK' /\ TailIsNull'
    BY <1>1, <1>2, <2>1 DEF SlotsInv, SlotsTypeOK, TailIsNull
  <2>3. \A id \in Ids : Free(id)' <=> Free(id)
    BY <1>1, <1>2, <2>1 DEF SlotsInv, SlotsTypeOK, TailIsNull, Free, Used, Gap
  <2>4. \A i \in 1..emptySlots : Free(f[i]) /\ f[i] # e.id
    BY <1>1, <1>2 DEF IsFreeList, Free, SlotsInv, SlotsTypeOK
  <2>5. \A i \in 1..(emptySlots - 1) : slots'[f[i]].id = f[i + 1]
    BY <1>1, <2>1, <2>4 DEF IsFreeList, SlotsInv, SlotsTypeOK
  <2>6. IsFreeList(f)'
    BY <2>1, <2>3, <2>5 DEF IsFreeList
  <2> QED BY <2>1, <2>2, <2>6 DEF SlotsInv, FreeListInv
<1>3. CASE ~(e.id >= size)
  <2>1. UNCHANGED slotVars
    BY <1>3 DEF Adopt, slotVars
  <2>2. IsFreeList(f)' /\ f \in [1..emptySlots' -> Ids]
    BY <2>1 DEF slotVars, IsFreeList, Free, Used, Gap
  <2> QED BY <2>1, <2>2 DEF slotVars, SlotsInv, SlotsTypeOK, TailIsNull, FreeListInv
<1> QED BY <1>2, <1>3

-----------------------------------------------------------------------------
LEMMA NextOK == SlotsInv /\ [SlotsNext]_slotVars => SlotsInv'
<1> SUFFICES ASSUME SlotsInv, [SlotsNext]_slotVars PROVE SlotsInv'
  OBVIOUS
<1>1. CASE Acquire
  BY <1>1, AcquireOK
<1>2. CASE \E e \in Releasable : Release(e)
  BY <1>2, ReleaseOK
<1>3. CASE \E es \in Batches : ReleaseAll(es)
  BY <1>3, ReleaseAllOK
<1>4. CASE \E e \in LockedHandles : Adopt(e)
  BY <1>4, AdoptOK
<1>5. CASE UNCHANGED slotVars
  <2> PICK f \in [1..emptySlots -> Ids] : IsFreeList(f)
    BY DEF SlotsInv, FreeListInv
  <2>1. IsFreeList(f)' /\ f \in [1..emptySlots' -> Ids]
    BY <1>5 DEF slotVars, IsFreeList, Free, Used, Gap
  <2> QED BY <1>5, <2>1 DEF slotVars, SlotsInv, SlotsTypeOK, TailIsNull, FreeListInv
<1> QED BY <1>1, <1>2, <1>3, <1>4, <1>5 DEF SlotsNext

(* The invariant of the allocator: the slots are well typed, those beyond  *)
(* locations_.size() are null, and the list that next_slot_ heads is the   *)
(* set of free slots, each once.                                           *)
THEOREM InvariantHolds == SlotsSpec => []SlotsInv
<1>1. SlotsInit => SlotsInv
  BY InitOK
<1>2. SlotsInv /\ [SlotsNext]_slotVars => SlotsInv'
  BY NextOK
<1> QED BY <1>1, <1>2, PTL DEF SlotsSpec

(* However createWithOutInit, releaseEntityIdUnsafe, clearArchetype and    *)
(* the application of locked creates interleave, the free list holds       *)
(* exactly the free slots, each once, and empty_slots_ is its length.      *)
THEOREM FreeListCorrect == SlotsSpec => []FreeListInv
<1>1. SlotsInv => FreeListInv
  BY DEF SlotsInv
<1> QED BY <1>1, InvariantHolds, PTL

(* What an entity handle outside the updated slots is, stays what it is.   *)
LEMMA SlotKept ==
  ASSUME NEW e \in Handles, Issued(e), size' >= size, size \in Int, size' \in Int,
         slots'[e.id] = slots[e.id]
  PROVE  Issued(e)' /\ (Valid(e)' => Valid(e))
BY DEF Issued, Valid

(* A slot rewritten with the next version forgets no handle, revives none. *)
LEMMA SlotReleased ==
  ASSUME SlotsInv, NEW r \in Releasable, NEW e \in Handles, Issued(e), e.id = r.id,
         size' >= size, size' \in Int, slots'[r.id].ver = r.ver + 1
  PROVE  Issued(e)' /\ (Valid(e)' => Valid(e))
<1>1. Valid(r)
  BY DEF SlotsInv, SlotsTypeOK, Releasable, LockedHandles, Issued, Valid, Gap
<1>2. e.ver <= r.ver /\ e.ver \in Int /\ r.ver \in Int /\ e.id < size
  BY <1>1 DEF Issued, Valid, Releasable
<1>3. e.ver < slots'[e.id].ver
  BY <1>2
<1> QED BY <1>2, <1>3 DEF Issued, Valid, SlotsInv, SlotsTypeOK

LEMMA DeadStaysDeadOK == SlotsInv /\ [SlotsNext]_slotVars => DeadStaysDead
<1> SUFFICES ASSUME SlotsInv, [SlotsNext]_slotVars, NEW e \in Handles, Issued(e)
             PROVE  Issued(e)' /\ (Valid(e)' => Valid(e))
  BY DEF DeadStaysDead
<1>0. size \in 0..MaxEntities /\ e.id \in Ids /\ e.ver \in Versions /\ e.id < size
      /\ slots \in [Ids -> [id : 0..MaxEntities, ver : Versions] \cup {NullHandle}]
  BY DEF SlotsInv, SlotsTypeOK, Issued
<1>1. CASE Acquire
  <2>1. CASE emptySlots = 0
    <3>1. size' = size + 1 /\ slots'[e.id] = slots[e.id]
      BY <1>0, <1>1, <2>1 DEF Acquire, SlotsInv, SlotsTypeOK
    <3> QED BY <1>0, <3>1, SlotKept
  <2>2. CASE emptySlots > 0
    <3> PICK f \in [1..emptySlots -> Ids] : IsFreeList(f)
      BY DEF SlotsInv, FreeListInv
    <3>1. nextSlot \in Ids /\ Free(nextSlot) /\ slots[nextSlot] # NullHandle
      BY <2>2, FreeSlotFacts DEF SlotsInv
    <3>2. /\ size' = size
          /\ slots' = [slots EXCEPT ![nextSlot] =
                          [id |-> nextSlot, ver |-> slots[nextSlot].ver]]
      BY <1>1, <2>2 DEF Acquire, NewHandle
    <3>3. CASE e.id # nextSlot
      BY <1>0, <3>2, <3>3, SlotKept
    <3>4. CASE e.id = nextSlot
      <4>1. ~Valid(e)
        BY <3>1, <3>4 DEF Free, Used, Valid
      <4>2. e.ver < slots[e.id].ver
        BY <4>1 DEF Issued
      <4>3. slots[nextSlot] \in [id : 0..MaxEntities, ver : Versions]
        BY <1>0, <3>1
      <4>4. slots'[e.id].ver = slots[e.id].ver
        BY <1>0, <3>1, <3>2, <3>4, <4>3
      <4> QED BY <1>0, <3>2, <3>4, <4>2, <4>3, <4>4 DEF Issued, Valid
    <3> QED BY <3>3, <3>4
  <2> QED BY <2>1, <2>2 DEF SlotsInv, SlotsTypeOK
<1>2. CASE \E r \in Releasable : Release(r)
  <2> PICK r \in Releasable : Release(r)
    BY <1>2
  <2>1. r.id \in Ids /\ r.ver \in Versions
    BY ReleasableFacts
  <2>2. size' >= size /\ size' \in Int
    BY <1>0, <2>1 DEF Release, Max2
  <2>3. CASE e.id = r.id
    <3>1. slots'[r.id].ver = r.ver + 1
      BY <1>0, <2>1 DEF Release
    <3> QED BY <2>2, <2>3, <3>1, SlotReleased
  <2>4. CASE e.id # r.id
    <3>1. slots'[e.id] = slots[e.id]
      BY <1>0, <2>4 DEF Release
    <3> QED BY <1>0, <2>2, <3>1, SlotKept
  <2> QED BY <2>3, <2>4
<1>3. CASE \E es \in Batches : ReleaseAll(es)
  <2> PICK es \in Batches : ReleaseAll(es)
    BY <1>3
  <2>1. size' = size
    BY DEF ReleaseAll
  <2>2. CASE \E k \in 1..Len(es) : es[k].id = e.id
    <3> PICK k \in 1..Len(es) : es[k].id = e.id
      BY <2>2
    <3>1. es[k] \in Releasable
      BY ReleaseAllSteps
    <3>2. slots'[es[k].id].ver = es[k].ver + 1
      <4>1. \A j \in 1..Len(es) :
               slots'[es[j].id] = [id |-> slots'[es[j].id].id, ver |-> es[j].ver + 1]
        BY ReleaseAllSteps
      <4>2. slots'[es[k].id] = [id |-> slots'[es[k].id].id, ver |-> es[k].ver + 1]
        BY <4>1, Zenon
      <4> QED BY <4>2
    <3>3. PICK r \in Releasable : e.id = r.id /\ slots'[r.id].ver = r.ver + 1
      BY <3>1, <3>2, Zenon
    <3>4. size' >= size /\ size' \in Int
      BY <1>0, <2>1
    <3> QED BY <3>3, <3>4, SlotReleased, Zenon
  <2>3. CASE \A k \in 1..Len(es) : es[k].id # e.id
    <3>1. slots'[e.id] = slots[e.id]
      BY <1>0, <2>3, ReleaseAllSteps
    <3> QED BY <1>0, <2>1, <3>1, SlotKept
  <2> QED BY <2>2, <2>3
<1>4. CASE \E h \in LockedHandles : Adopt(h)
  <2> PICK h \in LockedHandles : Adopt(h)
    BY <1>4
  <2>1. size' >= size /\ size' \in Int /\ slots'[e.id] = slots[e.id]
    BY <1>0 DEF Adopt, LockedHandles
  <2> QED BY <1>0, <2>1, SlotKept
<1>5. CASE UNCHANGED slotVars
  BY <1>0, <1>5, SlotKept DEF slotVars
<1> QED BY <1>1, <1>2, <1>3, <1>4, <1>5 DEF SlotsNext

(* A handle that isEntityValid has ever accepted, and then refused, is     *)
(* refused for good; the version of a slot only grows with its owners.     *)
THEOREM HandlesNeverReused == SlotsSpec => HandlesNotReused
<1>1. SlotsInv /\ [SlotsNext]_slotVars => [DeadStaysDead]_slotVars
  BY DeadStaysDeadOK
<1> QED BY <1>1, InvariantHolds, PTL DEF SlotsSpec, HandlesNotReused

HIDE BoundsAssumption DEF Ids, Versions, Handles, NullHandle

-----------------------------------------------------------------------------
(* Operations on archetypes and places: each keeps the two sides in         *)
(* agreement, and what rows and places it leaves.  This part is stated for  *)
(* any rows R and places P, so that a move is a removal followed by an      *)
(* insertion.                                                               *)

Rows(D) == [ent : Handles, data : D]
Tables(D) == [Masks -> Seq(Rows(D))]
Places == [Ids -> [arch : Masks, index : Nat]]

Agree(R, P) ==
    /\ \A id \in Ids : P[id] # NoPlace =>
          /\ P[id].index \in 1..Len(R[P[id].arch])
          /\ R[P[id].arch][P[id].index].ent.id = id
    /\ \A m \in Masks : \A k \in 1..Len(R[m]) :
          P[R[m][k].ent.id] = [arch |-> m, index |-> k]

(* PlacesAgree is Agree of the two variables.                              *)
LEMMA AgreeIsPlacesAgree ==
  ASSUME NEW D, rows \in Tables(D), place \in Places
  PROVE  PlacesAgree <=> Agree(rows, place)
<1>1. \A m \in Masks : DOMAIN rows[m] = 1..Len(rows[m])
  BY DEF Tables
<1>2. \A id \in Ids : place[id].arch \in Masks
  BY DEF Places
<1> QED
  BY <1>1, <1>2 DEF PlacesAgree, Agree, Placed, RowOf

(* A row of a table has an entity with an id, and data.                    *)
LEMMA RowFacts ==
  ASSUME NEW D, NEW R \in Tables(D), NEW m \in Masks, NEW k \in 1..Len(R[m])
  PROVE  /\ R[m] \in Seq(Rows(D)) /\ R[m][k] \in Rows(D)
         /\ R[m][k].ent \in Handles /\ R[m][k].ent.id \in Ids /\ R[m][k].data \in D
<1>1. R[m] \in Seq(Rows(D)) /\ R[m][k] \in Rows(D)
  BY DEF Tables
<1> QED
  BY <1>1 DEF Rows, Handles

(* Removing element i by moving the last one there: all others stay.       *)
LEMMA SwapRemoveFacts ==
  ASSUME NEW S, NEW s \in Seq(S), NEW i \in 1..Len(s)
  PROVE  /\ SwapRemove(s, i) \in Seq(S)
         /\ Len(SwapRemove(s, i)) = Len(s) - 1
         /\ \A k \in 1..(Len(s) - 1) : SwapRemove(s, i)[k] = IF k = i THEN s[Len(s)] ELSE s[k]
<1>1. Len(s) \in Nat /\ Len(s) >= 1
  OBVIOUS
<1>2. \A k \in 1..(Len(s) - 1) : (IF k = i THEN s[Len(s)] ELSE s[k]) \in S
  BY <1>1
<1>3. SwapRemove(s, i) \in [1..(Len(s) - 1) -> S]
  BY <1>2 DEF SwapRemove
<1>4. SwapRemove(s, i) \in Seq(S) /\ Len(SwapRemove(s, i)) = Len(s) - 1
  BY <1>1, <1>3
<1> QED
  BY <1>4 DEF SwapRemove

(* A place is a row of one archetype.                                      *)
LEMMA PlaceFacts ==
  ASSUME NEW m, NEW k, k # 0
  PROVE  [arch |-> m, index |-> k] # NoPlace
BY DEF NoPlace

(* Removing a row: the last row of the archetype takes its place.          *)
Removed(R, P, m, i, R2, P2) ==
    /\ R2 = [R EXCEPT ![m] = SwapRemove(R[m], i)]
    /\ P2 = [P EXCEPT ![R[m][i].ent.id] = NoPlace,
                      ![R[m][Len(R[m])].ent.id] =
                          IF i = Len(R[m]) THEN NoPlace ELSE [arch |-> m, index |-> i]]

AfterRemoval(D, R, P, m, i, R2, P2) ==
    /\ R2 \in Tables(D) /\ P2 \in Places /\ Agree(R2, P2)
    /\ P2[R[m][i].ent.id] = NoPlace
    /\ \A id \in Ids : id # R[m][i].ent.id => (P2[id] = NoPlace <=> P[id] = NoPlace)
    /\ \A n \in Masks : \A k \in 1..Len(R2[n]) :
          \E j \in 1..Len(R[n]) : R2[n][k] = R[n][j] /\ R[n][j].ent.id # R[m][i].ent.id
    /\ \A n \in Masks : n # m => R2[n] = R[n]

(* Removing a row keeps rows and places in agreement: the row moved into   *)
(* the hole is the only one whose place changes, and the removed entity    *)
(* has none.                                                               *)
LEMMA RemoveAgree ==
  ASSUME NEW D, NEW R \in Tables(D), NEW P \in Places, Agree(R, P),
         NEW m \in Masks, NEW i \in 1..Len(R[m]), NEW R2, NEW P2,
         Removed(R, P, m, i, R2, P2)
  PROVE  AfterRemoval(D, R, P, m, i, R2, P2)
<1> PICK n, x, l : n = Len(R[m]) /\ x = R[m][i].ent.id /\ l = R[m][n].ent.id
  OBVIOUS
<1>1. /\ R[m] \in Seq(Rows(D)) /\ n \in Nat /\ n >= 1 /\ i \in 1..n
      /\ x \in Ids /\ l \in Ids
  <2>1. R[m] \in Seq(Rows(D)) /\ n \in Nat /\ n >= 1 /\ i \in 1..n
    BY DEF Tables
  <2>2. n \in 1..Len(R[m])
    BY <2>1
  <2> QED
    BY <2>1, <2>2, RowFacts
<1>u. /\ \A id \in Ids : P[id] # NoPlace =>
            P[id].index \in 1..Len(R[P[id].arch]) /\ R[P[id].arch][P[id].index].ent.id = id
      /\ \A a \in Masks : \A k \in 1..Len(R[a]) : P[R[a][k].ent.id] = [arch |-> a, index |-> k]
  BY DEF Agree
<1>2. P[x] = [arch |-> m, index |-> i] /\ P[l] = [arch |-> m, index |-> n]
  BY <1>1, <1>u
<1>3. i # n => x # l
  BY <1>2
<1>4. /\ SwapRemove(R[m], i) \in Seq(Rows(D)) /\ Len(SwapRemove(R[m], i)) = n - 1
      /\ \A k \in 1..(n - 1) : SwapRemove(R[m], i)[k] = IF k = i THEN R[m][n] ELSE R[m][k]
  BY <1>1, SwapRemoveFacts
<1>5. /\ R2 \in Tables(D) /\ \A a \in Masks : a # m => R2[a] = R[a]
      /\ Len(R2[m]) = n - 1
      /\ \A k \in 1..(n - 1) : R2[m][k] = IF k = i THEN R[m][n] ELSE R[m][k]
  BY <1>4 DEF Tables, Removed
<1>6. /\ P2 \in Places /\ P2[x] = NoPlace
      /\ i # n => P2[l] = [arch |-> m, index |-> i]
      /\ \A id \in Ids : id # x /\ id # l => P2[id] = P[id]
  <2>0. P2 = [P EXCEPT ![x] = NoPlace,
                       ![l] = IF i = n THEN NoPlace ELSE [arch |-> m, index |-> i]]
    BY DEF Removed
  <2>1. NoPlace \in [arch : Masks, index : Nat] /\ [arch |-> m, index |-> i] \in [arch : Masks, index : Nat]
    BY <1>1 DEF NoPlace, Masks
  <2> PICK v : v = IF i = n THEN NoPlace ELSE [arch |-> m, index |-> i]
    OBVIOUS
  <2>2. v \in [arch : Masks, index : Nat]
    BY <2>1
  <2>3. PICK P1 : P1 = [P EXCEPT ![x] = NoPlace]
    OBVIOUS
  <2>4. P1 \in Places /\ P1[x] = NoPlace /\ \A id \in Ids : id # x => P1[id] = P[id]
    BY <1>1, <2>1, <2>3 DEF Places
  <2>5. P2 = [P1 EXCEPT ![l] = v]
    BY <2>0, <2>3
  <2>6. P2 \in [Ids -> [arch : Masks, index : Nat]] /\ P2[l] = v /\ \A id \in Ids : id # l => P2[id] = P1[id]
    BY ONLY <1>1, <2>2, <2>4, <2>5 DEF Places
  <2>7. i = n => x = l
    OBVIOUS
  <2> QED
    BY <1>1, <1>3, <2>4, <2>6, <2>7, <2>0 DEF Places
<1>7. ASSUME NEW a \in Masks, NEW k \in 1..Len(R2[a])
      PROVE  /\ \E j \in 1..Len(R[a]) : R2[a][k] = R[a][j] /\ R[a][j].ent.id # x
             /\ P2[R2[a][k].ent.id] = [arch |-> a, index |-> k]
  <2>1. CASE a # m
    <3>1. R2[a][k] = R[a][k] /\ k \in 1..Len(R[a]) /\ R[a][k].ent.id \in Ids
      BY <1>5, <2>1, RowFacts
    <3>2. P[R[a][k].ent.id] = [arch |-> a, index |-> k]
      BY <1>u, <3>1
    <3>3. R[a][k].ent.id # x /\ R[a][k].ent.id # l
      BY <1>2, <2>1, <3>2
    <3> QED
      BY <1>6, <3>1, <3>2, <3>3
  <2>2. CASE a = m /\ k = i
    <3>1. R2[a][k] = R[a][n] /\ i # n
      BY <1>1, <1>5, <2>2
    <3> QED
      BY <1>1, <1>3, <1>6, <2>2, <3>1
  <2>3. CASE a = m /\ k # i
    <3>1. R2[a][k] = R[a][k] /\ k \in 1..Len(R[a]) /\ k # n
      BY <1>1, <1>5, <2>3
    <3>2. P[R[a][k].ent.id] = [arch |-> a, index |-> k] /\ R[a][k].ent.id \in Ids
      BY <1>u, <3>1, RowFacts
    <3>3. R[a][k].ent.id # x /\ R[a][k].ent.id # l
      BY <1>2, <2>3, <3>1, <3>2
    <3> QED
      BY <1>6, <3>1, <3>2, <3>3
  <2> QED
    BY <2>1, <2>2, <2>3
<1>8. ASSUME NEW id \in Ids, P2[id] # NoPlace
      PROVE  /\ P[id] # NoPlace /\ P2[id].index \in 1..Len(R2[P2[id].arch])
             /\ R2[P2[id].arch][P2[id].index].ent.id = id
  <2>1. id # x
    BY <1>6, <1>8
  <2>2. CASE id = l
    <3>1. i # n /\ P2[id] = [arch |-> m, index |-> i]
      BY <1>6, <2>1, <2>2
    <3>2. R2[m][i] = R[m][n] /\ i \in 1..Len(R2[m])
      BY <1>1, <1>5, <3>1
    <3>3. P[id] # NoPlace
      BY <1>1, <1>2, <2>2, PlaceFacts
    <3>4. P2[id].arch = m /\ P2[id].index = i
      BY <3>1
    <3> QED
      BY <2>2, <3>2, <3>3, <3>4
  <2>3. CASE id # l
    <3>1. P2[id] = P[id]
      BY <1>6, <2>1, <2>3
    <3>2. P[id].index \in 1..Len(R[P[id].arch]) /\ R[P[id].arch][P[id].index].ent.id = id
      BY <1>u, <1>8, <3>1
    <3>3. P[id].arch \in Masks
      BY DEF Places
    <3>4. CASE P[id].arch # m
      BY <1>5, <1>8, <3>1, <3>2, <3>3, <3>4
    <3>5. CASE P[id].arch = m
      <4>1. P[id].index # i /\ P[id].index # n /\ P[id].index \in 1..(n - 1)
        BY <1>1, <2>1, <2>3, <3>2, <3>5
      <4>2. R2[m][P[id].index] = R[m][P[id].index]
        BY <1>5, <4>1
      <4> QED
        BY <1>5, <1>8, <3>1, <3>2, <3>5, <4>1, <4>2
    <3> QED
      BY <3>4, <3>5
  <2> QED
    BY <2>2, <2>3
<1>9. \A id \in Ids : id # x => (P2[id] = NoPlace <=> P[id] = NoPlace)
  <2>1. ASSUME NEW id \in Ids, id # x, P2[id] = NoPlace PROVE P[id] = NoPlace
    <3>1. i # n => id # l
      BY <1>1, <1>6, <2>1, PlaceFacts
    <3>2. id # l
      BY <2>1, <3>1
    <3> QED
      BY <1>6, <2>1, <3>2
  <2> QED
    BY <1>8, <2>1
<1>10. Agree(R2, P2)
  <2>1. \A a \in Masks : \A k \in 1..Len(R2[a]) : P2[R2[a][k].ent.id] = [arch |-> a, index |-> k]
    BY ONLY <1>7
  <2>2. \A id \in Ids : P2[id] # NoPlace =>
           P2[id].index \in 1..Len(R2[P2[id].arch]) /\ R2[P2[id].arch][P2[id].index].ent.id = id
    BY <1>8
  <2> QED
    BY <2>1, <2>2 DEF Agree
<1>11. \A a \in Masks : \A k \in 1..Len(R2[a]) :
          \E j \in 1..Len(R[a]) : R2[a][k] = R[a][j] /\ R[a][j].ent.id # x
  BY <1>7
<1> QED
  BY <1>5, <1>6, <1>9, <1>10, <1>11 DEF AfterRemoval

(* Inserting an entity that has no place.                                  *)
Pushed(R, P, e, m, d, R2, P2) ==
    /\ R2 = [R EXCEPT ![m] = Append(R[m], [ent |-> e, data |-> d])]
    /\ P2 = [P EXCEPT ![e.id] = [arch |-> m, index |-> Len(R[m]) + 1]]

AfterPush(D, R, P, e, m, d, R2, P2) ==
    /\ R2 \in Tables(D) /\ P2 \in Places /\ Agree(R2, P2)
    /\ P2[e.id] # NoPlace
    /\ \A id \in Ids : id # e.id => P2[id] = P[id]
    /\ \A n \in Masks : \A k \in 1..Len(R2[n]) :
          \/ n = m /\ R2[n][k] = [ent |-> e, data |-> d]
          \/ k \in 1..Len(R[n]) /\ R2[n][k] = R[n][k]

(* A row appended for an entity without a place keeps rows and places in   *)
(* agreement, and only that entity gets a place.                           *)
LEMMA InsertAgree ==
  ASSUME NEW D, NEW R \in Tables(D), NEW P \in Places, Agree(R, P),
         NEW m \in Masks, NEW e \in Handles, P[e.id] = NoPlace, NEW d \in D, NEW R2, NEW P2,
         Pushed(R, P, e, m, d, R2, P2)
  PROVE  AfterPush(D, R, P, e, m, d, R2, P2)
<1> PICK n, row : n = Len(R[m]) /\ row = [ent |-> e, data |-> d]
  OBVIOUS
<1>1. /\ R[m] \in Seq(Rows(D)) /\ n \in Nat /\ row \in Rows(D) /\ e.id \in Ids
      /\ row.ent = e
  <2>1. R[m] \in Seq(Rows(D))
    BY DEF Tables
  <2> QED
    BY <2>1 DEF Rows, Handles
<1>2. /\ Append(R[m], row) \in Seq(Rows(D)) /\ Len(Append(R[m], row)) = n + 1
      /\ Append(R[m], row)[n + 1] = row
      /\ \A k \in 1..n : Append(R[m], row)[k] = R[m][k]
  BY <1>1
<1>3. /\ R2 \in Tables(D) /\ \A a \in Masks : a # m => R2[a] = R[a]
      /\ Len(R2[m]) = n + 1 /\ R2[m][n + 1] = row
      /\ \A k \in 1..n : R2[m][k] = R[m][k]
  BY <1>2 DEF Tables, Pushed
<1>4. /\ P2 \in Places /\ P2[e.id] = [arch |-> m, index |-> n + 1]
      /\ \A id \in Ids : id # e.id => P2[id] = P[id]
  BY <1>1 DEF Places, Pushed
<1>5. P2[e.id] # NoPlace
  BY <1>1, <1>4, PlaceFacts
<1>6. ASSUME NEW a \in Masks, NEW k \in 1..Len(R2[a])
      PROVE  \/ a = m /\ k = n + 1 /\ R2[a][k] = row
             \/ k \in 1..Len(R[a]) /\ R2[a][k] = R[a][k]
  BY <1>1, <1>3
<1>7. ASSUME NEW a \in Masks, NEW k \in 1..Len(R2[a])
      PROVE  P2[R2[a][k].ent.id] = [arch |-> a, index |-> k]
  <2>1. CASE a = m /\ k = n + 1 /\ R2[a][k] = row
    BY <1>1, <1>4, <2>1
  <2>2. CASE k \in 1..Len(R[a]) /\ R2[a][k] = R[a][k]
    <3>1. P[R[a][k].ent.id] = [arch |-> a, index |-> k] /\ R[a][k].ent.id \in Ids
      BY <2>2, RowFacts DEF Agree
    <3>2. R[a][k].ent.id # e.id
      BY <2>2, <3>1, PlaceFacts
    <3> QED
      BY <1>4, <2>2, <3>1, <3>2
  <2> QED
    BY <1>6, <2>1, <2>2
<1>8. ASSUME NEW id \in Ids, P2[id] # NoPlace
      PROVE  /\ P2[id].index \in 1..Len(R2[P2[id].arch])
             /\ R2[P2[id].arch][P2[id].index].ent.id = id
  <2>1. CASE id = e.id
    BY <1>1, <1>3, <1>4, <2>1
  <2>2. CASE id # e.id
    <3>1. P2[id] = P[id] /\ P[id].arch \in Masks
      BY <1>4, <2>2 DEF Places
    <3>2. P[id].index \in 1..Len(R[P[id].arch]) /\ R[P[id].arch][P[id].index].ent.id = id
      BY <1>8, <3>1 DEF Agree
    <3>3. CASE P[id].arch = m
      BY <1>1, <1>3, <3>1, <3>2, <3>3
    <3>4. CASE P[id].arch # m
      BY <1>3, <3>1, <3>2, <3>4
    <3> QED
      BY <3>3, <3>4
  <2> QED
    BY <2>1, <2>2
<1>9. Agree(R2, P2)
  BY <1>7, <1>8 DEF Agree
<1> QED
  BY <1>3, <1>4, <1>5, <1>6, <1>9 DEF AfterPush

(* The same agreement, of the next state.                                  *)
LEMMA AgreeNext ==
  ASSUME NEW D, rows' \in Tables(D), place' \in Places, Agree(rows', place')
  PROVE  PlacesAgree'
<1>1. \A m \in Masks : DOMAIN rows'[m] = 1..Len(rows'[m])
  BY DEF Tables
<1>2. \A id \in Ids : place'[id].arch \in Masks
  BY DEF Places
<1> QED
  BY <1>1, <1>2 DEF PlacesAgree, Agree, Placed, RowOf

(* The same, for the actions on the two variables.                         *)
Table(D) == rows \in Tables(D) /\ place \in Places /\ PlacesAgree

(* InsertRow: the table stays in order, the new row is the only one added  *)
(* and its entity the only one placed.                                     *)
LEMMA InsertRowOK ==
  ASSUME NEW D, Table(D), NEW e \in Handles, NEW m \in Masks, NEW d \in D, ~Placed(e.id),
         InsertRow(e, m, d)
  PROVE  /\ Table(D)' /\ Placed(e.id)'
         /\ \A id \in Ids : id # e.id => (Placed(id)' <=> Placed(id))
         /\ \A n \in Masks : \A k \in DOMAIN rows'[n] :
               \/ n = m /\ rows'[n][k] = [ent |-> e, data |-> d]
               \/ k \in DOMAIN rows[n] /\ rows'[n][k] = rows[n][k]
<1>1. Agree(rows, place) /\ rows \in Tables(D) /\ place \in Places
  BY AgreeIsPlacesAgree DEF Table
<1>2. PICK R2, P2 : R2 = rows' /\ P2 = place'
  OBVIOUS
<1>3. Pushed(rows, place, e, m, d, R2, P2) /\ place[e.id] = NoPlace
  BY <1>2 DEF InsertRow, Placed, Pushed
<1>4. AfterPush(D, rows, place, e, m, d, R2, P2)
  BY ONLY <1>1, <1>3, InsertAgree, e \in Handles, m \in Masks, d \in D, Zenon
<1>5. rows' \in Tables(D) /\ place' \in Places /\ Agree(rows', place')
  BY <1>2, <1>4 DEF AfterPush
<1>6. PlacesAgree'
  BY <1>5, AgreeNext
<1>7. \A n \in Masks : DOMAIN rows[n] = 1..Len(rows[n]) /\ DOMAIN R2[n] = 1..Len(R2[n])
  BY <1>1, <1>4 DEF Tables, AfterPush
<1> QED
  BY <1>2, <1>4, <1>5, <1>6, <1>7 DEF Table, Placed, AfterPush

(* What is left of a removal, and what a move adds.                        *)
OldRowsBut(id) ==
    \A n \in Masks : \A k \in DOMAIN rows'[n] : \E j \in DOMAIN rows[n] :
        rows'[n][k] = rows[n][j] /\ rows[n][j].ent.id # id

(* The row a place names is in the table and holds that entity.            *)
LEMMA PlacedRow ==
  ASSUME NEW D, Table(D), NEW id \in Ids, Placed(id)
  PROVE  /\ place[id].arch \in Masks /\ place[id].index \in 1..Len(rows[place[id].arch])
         /\ RowOf(id) \in Rows(D) /\ RowOf(id).ent.id = id
<1>1. Agree(rows, place) /\ rows \in Tables(D) /\ place \in Places
  BY AgreeIsPlacesAgree DEF Table
<1>2. place[id].arch \in Masks /\ place[id].index \in 1..Len(rows[place[id].arch])
  BY <1>1 DEF Agree, Places, Placed
<1> QED
  BY <1>1, <1>2, RowFacts DEF Agree, RowOf, Placed

(* What removing a placed entity's row does to the next table, whether the *)
(* step ends there or inserts the entity elsewhere.                        *)
LEMMA RemovalStep ==
  ASSUME NEW D, Table(D), NEW e \in Handles, Placed(e.id), NEW R2, NEW P2,
         R2 = [rows EXCEPT ![place[e.id].arch] =
                  SwapRemove(rows[place[e.id].arch], place[e.id].index)],
         P2 = PlaceAfterRemove(place[e.id].arch, place[e.id].index)
  PROVE  /\ AfterRemoval(D, rows, place, place[e.id].arch, place[e.id].index, R2, P2)
         /\ rows[place[e.id].arch][place[e.id].index].ent.id = e.id
<1>1. Agree(rows, place) /\ rows \in Tables(D) /\ place \in Places
  BY AgreeIsPlacesAgree DEF Table
<1> PICK m, i : m = place[e.id].arch /\ i = place[e.id].index
  OBVIOUS
<1>2. m \in Masks /\ i \in 1..Len(rows[m]) /\ rows[m][i].ent.id = e.id
  <2>1. e.id \in Ids
    BY DEF Handles
  <2> QED
    BY <2>1, PlacedRow DEF RowOf
<1>3. Removed(rows, place, m, i, R2, P2)
  BY DEF Removed, PlaceAfterRemove
<1>4. AfterRemoval(D, rows, place, m, i, R2, P2)
  BY ONLY <1>1, <1>2, <1>3, RemoveAgree, Zenon
<1> QED
  BY <1>2, <1>4

(* RemoveRow: the entity is placed no more, all others are, and the rows   *)
(* left are old rows of other entities.                                    *)
LEMMA RemoveRowOK ==
  ASSUME NEW D, Table(D), NEW e \in Handles, Placed(e.id), RemoveRow(e)
  PROVE  /\ Table(D)' /\ ~Placed(e.id)' /\ OldRowsBut(e.id)
         /\ \A id \in Ids : id # e.id => (Placed(id)' <=> Placed(id))
<1>1. rows \in Tables(D)
  BY DEF Table
<1>2. PICK R2, P2 : R2 = rows' /\ P2 = place'
  OBVIOUS
<1>3. /\ R2 = [rows EXCEPT ![place[e.id].arch] =
                  SwapRemove(rows[place[e.id].arch], place[e.id].index)]
      /\ P2 = PlaceAfterRemove(place[e.id].arch, place[e.id].index)
  BY <1>2 DEF RemoveRow
<1>4. /\ AfterRemoval(D, rows, place, place[e.id].arch, place[e.id].index, R2, P2)
      /\ rows[place[e.id].arch][place[e.id].index].ent.id = e.id
  BY <1>3, RemovalStep
<1>5. /\ R2 \in Tables(D) /\ P2 \in Places /\ Agree(R2, P2)
      /\ P2[e.id] = NoPlace
      /\ \A id \in Ids : id # e.id => (P2[id] = NoPlace <=> place[id] = NoPlace)
      /\ \A n \in Masks : \A k \in 1..Len(R2[n]) :
            \E j \in 1..Len(rows[n]) : R2[n][k] = rows[n][j] /\ rows[n][j].ent.id # e.id
  BY <1>4 DEF AfterRemoval
<1>6. PlacesAgree'
  BY <1>2, <1>5, AgreeNext
<1>7. \A n \in Masks : DOMAIN rows[n] = 1..Len(rows[n]) /\ DOMAIN R2[n] = 1..Len(R2[n])
  BY <1>1, <1>5 DEF Tables
<1>8. Table(D)'
  BY <1>2, <1>5, <1>6 DEF Table
<1>9. OldRowsBut(e.id)
  BY ONLY <1>2, <1>5, <1>7 DEF OldRowsBut
<1> QED
  BY <1>2, <1>5, <1>8, <1>9 DEF Placed

(* MoveRow: every entity placed before is placed after, and every row but  *)
(* the new one is an old row of another entity.                            *)
LEMMA MoveRowOK ==
  ASSUME NEW D, Table(D), NEW e \in Handles, NEW m \in Masks, NEW d \in D, Placed(e.id),
         MoveRow(e, m, d)
  PROVE  /\ Table(D)' /\ Placed(e.id)'
         /\ \A id \in Ids : id # e.id => (Placed(id)' <=> Placed(id))
         /\ \A n \in Masks : \A k \in DOMAIN rows'[n] :
               \/ n = m /\ rows'[n][k] = [ent |-> e, data |-> d]
               \/ \E j \in DOMAIN rows[n] :
                     rows'[n][k] = rows[n][j] /\ rows[n][j].ent.id # e.id
<1>1. rows \in Tables(D) /\ place \in Places /\ e.id \in Ids
  BY DEF Table, Handles
<1>2. PICK R2, P2 : R2 = rows' /\ P2 = place'
  OBVIOUS
<1> PICK a, i : a = place[e.id].arch /\ i = place[e.id].index
  OBVIOUS
<1>a. a \in Masks /\ m # a
  BY <1>1, PlacedRow DEF MoveRow
<1>3. PICK R1, P1 : R1 = [rows EXCEPT ![a] = SwapRemove(rows[a], i)] /\ P1 = PlaceAfterRemove(a, i)
  OBVIOUS
<1>4. AfterRemoval(D, rows, place, a, i, R1, P1) /\ rows[a][i].ent.id = e.id
  BY <1>3, RemovalStep
<1>5. /\ R1 \in Tables(D) /\ P1 \in Places /\ Agree(R1, P1)
      /\ P1[e.id] = NoPlace
      /\ \A id \in Ids : id # e.id => (P1[id] = NoPlace <=> place[id] = NoPlace)
      /\ \A n \in Masks : \A k \in 1..Len(R1[n]) :
            \E j \in 1..Len(rows[n]) : R1[n][k] = rows[n][j] /\ rows[n][j].ent.id # e.id
      /\ R1[m] = rows[m]
  BY <1>4, <1>a DEF AfterRemoval
<1>6. Pushed(R1, P1, e, m, d, R2, P2)
  <2>1. R2 = [rows EXCEPT ![m] = Append(rows[m], [ent |-> e, data |-> d]),
                          ![a] = SwapRemove(rows[a], i)]
    <3>1. R2 = [rows EXCEPT ![m] = Append(@, [ent |-> e, data |-> d]),
                            ![a] = SwapRemove(@, i)]
      BY <1>2 DEF MoveRow
    <3> QED
      BY ONLY <1>1, <1>a, <3>1 DEF Tables
  <2>2. R2 = [R1 EXCEPT ![m] = Append(rows[m], [ent |-> e, data |-> d])]
    BY ONLY <1>1, <1>a, <1>3, <2>1, m \in Masks DEF Tables
  <2>3. P2 = [P1 EXCEPT ![e.id] = [arch |-> m, index |-> Len(rows[m]) + 1]]
    BY <1>2, <1>3 DEF MoveRow
  <2> QED
    BY <1>5, <2>2, <2>3 DEF Pushed
<1>7. AfterPush(D, R1, P1, e, m, d, R2, P2)
  BY ONLY <1>5, <1>6, InsertAgree, e \in Handles, m \in Masks, d \in D, Zenon
<1>8. /\ R2 \in Tables(D) /\ P2 \in Places /\ Agree(R2, P2)
      /\ P2[e.id] # NoPlace
      /\ \A id \in Ids : id # e.id => P2[id] = P1[id]
      /\ \A n \in Masks : \A k \in 1..Len(R2[n]) :
            \/ n = m /\ R2[n][k] = [ent |-> e, data |-> d]
            \/ k \in 1..Len(R1[n]) /\ R2[n][k] = R1[n][k]
  BY ONLY <1>7 DEF AfterPush
<1>9. PlacesAgree'
  BY <1>2, <1>8, AgreeNext
<1>10. \A n \in Masks : DOMAIN rows[n] = 1..Len(rows[n]) /\ DOMAIN R2[n] = 1..Len(R2[n])
  BY <1>1, <1>8 DEF Tables
<1>11. Table(D)'
  BY <1>2, <1>8, <1>9 DEF Table
<1>12. ASSUME NEW n \in Masks, NEW k \in DOMAIN R2[n]
       PROVE  \/ n = m /\ R2[n][k] = [ent |-> e, data |-> d]
              \/ \E j \in DOMAIN rows[n] : R2[n][k] = rows[n][j] /\ rows[n][j].ent.id # e.id
  <2>1. k \in 1..Len(R2[n])
    BY <1>10
  <2>2. CASE n = m /\ R2[n][k] = [ent |-> e, data |-> d]
    BY <2>2
  <2>3. CASE k \in 1..Len(R1[n]) /\ R2[n][k] = R1[n][k]
    <3>1. PICK j \in 1..Len(rows[n]) : R1[n][k] = rows[n][j] /\ rows[n][j].ent.id # e.id
      BY <1>5, <2>3
    <3>2. j \in DOMAIN rows[n]
      BY <1>10
    <3> QED
      BY <2>3, <3>1, <3>2
  <2> QED
    BY <1>8, <2>1, <2>2, <2>3
<1> QED
  BY <1>2, <1>5, <1>8, <1>11, <1>12 DEF Placed

(* WriteRow: no row changes its entity and no other archetype its data.    *)
LEMMA WriteRowOK ==
  ASSUME NEW D, Table(D), NEW e \in Handles, NEW d \in D, Placed(e.id), WriteRow(e, d)
  PROVE  /\ Table(D)' /\ place' = place
         /\ \A n \in Masks : /\ DOMAIN rows'[n] = DOMAIN rows[n]
                             /\ \A k \in DOMAIN rows[n] :
                                   /\ rows'[n][k].ent = rows[n][k].ent
                                   /\ \/ rows'[n][k].data = rows[n][k].data
                                      \/ n = place[e.id].arch /\ rows'[n][k].data = d
<1>1. rows \in Tables(D) /\ place \in Places /\ e.id \in Ids /\ PlacesAgree
  BY DEF Table, Handles
<1> PICK a, i : a = place[e.id].arch /\ i = place[e.id].index
  OBVIOUS
<1>2. a \in Masks /\ i \in 1..Len(rows[a]) /\ rows[a][i] \in Rows(D) /\ rows[a] \in Seq(Rows(D))
  BY <1>1, PlacedRow DEF RowOf, Tables
<1>3. rows' = [rows EXCEPT ![a] = [rows[a] EXCEPT ![i] = [rows[a][i] EXCEPT !.data = d]]] /\ place' = place
  BY <1>1, <1>2 DEF WriteRow, Tables
<1>4. PICK row : row = [rows[a][i] EXCEPT !.data = d]
  OBVIOUS
<1>5. row \in Rows(D) /\ row.ent = rows[a][i].ent /\ row.data = d
  BY <1>2, <1>4 DEF Rows
<1>6. PICK s : s = [rows[a] EXCEPT ![i] = row]
  OBVIOUS
<1>7. /\ s \in Seq(Rows(D)) /\ Len(s) = Len(rows[a]) /\ DOMAIN s = DOMAIN rows[a] /\ s[i] = row
      /\ \A k \in DOMAIN rows[a] : k # i => s[k] = rows[a][k]
  BY <1>2, <1>5, <1>6
<1>8. rows' = [rows EXCEPT ![a] = s]
  BY <1>3, <1>4, <1>6
<1>9. rows' \in Tables(D) /\ rows'[a] = s /\ \A n \in Masks : n # a => rows'[n] = rows[n]
  BY ONLY <1>1, <1>2, <1>7, <1>8 DEF Tables
<1>10. \A n \in Masks : /\ DOMAIN rows'[n] = DOMAIN rows[n]
                        /\ \A k \in DOMAIN rows[n] :
                              /\ rows'[n][k].ent = rows[n][k].ent
                              /\ \/ rows'[n][k].data = rows[n][k].data
                                 \/ n = a /\ rows'[n][k].data = d
  <2>1. ASSUME NEW n \in Masks, NEW k \in DOMAIN rows[n]
        PROVE  /\ rows'[n][k].ent = rows[n][k].ent
               /\ rows'[n][k].data = rows[n][k].data \/ (n = a /\ rows'[n][k].data = d)
    <3>1. CASE n = a /\ k = i
      BY <1>5, <1>7, <1>9, <3>1
    <3>2. CASE n = a /\ k # i
      BY <1>7, <1>9, <3>2
    <3>3. CASE n # a
      BY <1>9, <3>3
    <3> QED
      BY <3>1, <3>2, <3>3
  <2>2. ASSUME NEW n \in Masks PROVE DOMAIN rows'[n] = DOMAIN rows[n]
    BY <1>7, <1>9
  <2> QED
    BY <2>1, <2>2
<1>11. PlacesAgree'
  <2>1. ASSUME NEW id \in Ids, Placed(id)'
        PROVE  place'[id].index \in DOMAIN rows'[place'[id].arch] /\ RowOf(id)'.ent.id = id
    <3>1. /\ place[id].index \in DOMAIN rows[place[id].arch] /\ RowOf(id).ent.id = id
          /\ place[id].arch \in Masks
      BY <1>1, <1>3, <2>1 DEF PlacesAgree, Placed, Places
    <3>2. PICK n, k : n = place[id].arch /\ k = place[id].index
      OBVIOUS
    <3>3. n \in Masks /\ k \in DOMAIN rows[n] /\ rows[n][k].ent.id = id
      BY <3>1, <3>2 DEF RowOf
    <3>4. k \in DOMAIN rows'[n] /\ rows'[n][k].ent.id = id
      BY <1>10, <3>3
    <3> QED
      BY <1>3, <3>2, <3>4 DEF RowOf
  <2>2. ASSUME NEW m \in Masks, NEW k \in DOMAIN rows'[m]
        PROVE  place'[rows'[m][k].ent.id] = [arch |-> m, index |-> k]
    <3>1. k \in DOMAIN rows[m] /\ rows'[m][k].ent = rows[m][k].ent
      BY <1>10, <2>2
    <3>2. place[rows[m][k].ent.id] = [arch |-> m, index |-> k]
      BY <1>1, <3>1 DEF PlacesAgree
    <3> QED
      BY <1>3, <3>1, <3>2
  <2> QED
    BY <2>1, <2>2 DEF PlacesAgree
<1> QED
  BY <1>1, <1>3, <1>9, <1>10, <1>11 DEF Table

(* ClearRows: the archetype is empty, and those it held have no place.     *)
LEMMA ClearRowsOK ==
  ASSUME NEW D, Table(D), NEW m \in Masks, ClearRows(m)
  PROVE  /\ Table(D)' /\ rows'[m] = <<>> /\ \A n \in Masks : n # m => rows'[n] = rows[n]
         /\ \A id \in Ids : Placed(id)' <=>
               Placed(id) /\ \A k \in DOMAIN rows[m] : rows[m][k].ent.id # id
<1>1. rows \in Tables(D) /\ place \in Places /\ PlacesAgree
  BY DEF Table
<1>2. /\ rows' = [rows EXCEPT ![m] = <<>>]
      /\ place' = [id \in Ids |-> IF \E k \in DOMAIN rows[m] : rows[m][k].ent.id = id
                                  THEN NoPlace ELSE place[id]]
  BY DEF ClearRows
<1>3. rows' \in Tables(D) /\ rows'[m] = <<>> /\ \A n \in Masks : n # m => rows'[n] = rows[n]
  BY <1>1, <1>2 DEF Tables
<1>4. place' \in Places
  <2>1. NoPlace \in [arch : Masks, index : Nat]
    BY DEF NoPlace, Masks
  <2> QED
    BY <1>1, <1>2, <2>1 DEF Places
<1>5. \A id \in Ids : Placed(id)' <=>
               Placed(id) /\ \A k \in DOMAIN rows[m] : rows[m][k].ent.id # id
  BY <1>2 DEF Placed
<1>6. \A id \in Ids : Placed(id)' => place'[id] = place[id] /\ place[id].arch # m
  <2>1. ASSUME NEW id \in Ids, Placed(id)' PROVE place'[id] = place[id] /\ place[id].arch # m
    <3>1. Placed(id) /\ \A k \in DOMAIN rows[m] : rows[m][k].ent.id # id
      BY <1>5, <2>1
    <3>2. place[id].index \in DOMAIN rows[place[id].arch] /\ RowOf(id).ent.id = id
      BY <1>1, <3>1 DEF PlacesAgree
    <3> QED
      BY <1>2, <3>1, <3>2 DEF RowOf
  <2> QED
    BY <2>1
<1>7. PlacesAgree'
  <2>1. ASSUME NEW id \in Ids, Placed(id)'
        PROVE  place'[id].index \in DOMAIN rows'[place'[id].arch] /\ RowOf(id)'.ent.id = id
    <3>1. place'[id] = place[id] /\ place[id].arch # m /\ place[id].arch \in Masks /\ Placed(id)
      BY <1>1, <1>5, <1>6, <2>1 DEF Places
    <3>2. place[id].index \in DOMAIN rows[place[id].arch] /\ RowOf(id).ent.id = id
      BY <1>1, <3>1 DEF PlacesAgree
    <3> QED
      BY <1>3, <3>1, <3>2 DEF RowOf
  <2>2. ASSUME NEW n \in Masks, NEW k \in DOMAIN rows'[n]
        PROVE  place'[rows'[n][k].ent.id] = [arch |-> n, index |-> k]
    <3>1. n # m /\ rows'[n] = rows[n]
      BY <1>3, <2>2
    <3>2. place[rows[n][k].ent.id] = [arch |-> n, index |-> k]
      BY <1>1, <2>2, <3>1 DEF PlacesAgree
    <3>3. rows[n][k].ent.id \in Ids
      BY <1>1, <2>2, <3>1, RowFacts DEF Tables
    <3>4. ASSUME NEW j \in DOMAIN rows[m] PROVE rows[m][j].ent.id # rows[n][k].ent.id
      <4>1. place[rows[m][j].ent.id] = [arch |-> m, index |-> j]
        BY <1>1 DEF PlacesAgree
      <4> QED
        BY <3>1, <3>2, <4>1
    <3> QED
      BY <1>2, <3>1, <3>2, <3>3, <3>4
  <2> QED
    BY <2>1, <2>2 DEF PlacesAgree
<1> QED
  BY <1>3, <1>4, <1>5, <1>7 DEF Table

(* A table without rows and places is in order.                            *)
LEMMA EmptyTable ==
  ASSUME NEW D,
         rows = [m \in Masks |-> <<>>] /\ place = [id \in Ids |-> NoPlace]
  PROVE  Table(D) /\ \A id \in Ids : ~Placed(id)
<1>1. rows \in Tables(D) /\ \A m \in Masks : rows[m] = <<>>
  BY DEF Tables
<1>2. NoPlace \in [arch : Masks, index : Nat]
  BY DEF NoPlace, Masks
<1>3. place \in Places
  BY <1>2 DEF Places
<1>4. \A id \in Ids : ~Placed(id)
  BY DEF Placed
<1>5. PlacesAgree
  BY <1>1, <1>4 DEF PlacesAgree
<1> QED
  BY <1>1, <1>3, <1>4, <1>5 DEF Table

(* ClearTable leaves an empty table.                                       *)
LEMMA ClearTableOK ==
  ASSUME NEW D, ClearTable
  PROVE  Table(D)' /\ \A id \in Ids : ~Placed(id)'
<1>1. rows' \in Tables(D) /\ \A m \in Masks : rows'[m] = <<>>
  BY DEF Tables, ClearTable
<1>2. NoPlace \in [arch : Masks, index : Nat]
  BY DEF NoPlace, Masks
<1>3. place' \in Places
  BY <1>2 DEF Places, ClearTable
<1>4. \A id \in Ids : ~Placed(id)'
  BY DEF Placed, ClearTable
<1>5. PlacesAgree'
  BY <1>1, <1>4 DEF PlacesAgree
<1> QED
  BY <1>1, <1>3, <1>4, <1>5 DEF Table

-----------------------------------------------------------------------------
(* Facts about numbers and finite sets.                                     *)

(* The first number of a set, and the last of a bounded one.               *)
LessPairs == {p \in Nat \X Nat : p[1] < p[2]}

(* A nonempty set of numbers has a least element.                          *)
LEMMA LeastNat ==
  ASSUME NEW T, T \subseteq Nat, T # {}
  PROVE  \E x \in T : \A y \in T : x <= y
<1>1. IsWellFoundedOn(LessPairs, Nat)
  BY ONLY NatLessThanWellFounded, Zenon DEF OpToRel, LessPairs
<1>2. PICK x \in T : \A y \in T : ~ (<<y, x>> \in LessPairs)
  BY <1>1, WFMin, Zenon
<1>3. ASSUME NEW y \in T PROVE x <= y
  <2>1. ~(<<y, x>> \in LessPairs)
    BY <1>2
  <2>2. x \in Nat /\ y \in Nat
    OBVIOUS
  <2> QED
    BY <2>1, <2>2 DEF LessPairs
<1> QED
  BY <1>3

(* Earliest is the least element.                                          *)
LEMMA EarliestFacts ==
  ASSUME NEW T, T \subseteq Nat, T # {}
  PROVE  Earliest(T) \in T /\ \A y \in T : Earliest(T) <= y
<1>1. \E x \in T : \A y \in T : x <= y
  BY LeastNat
<1> QED
  BY <1>1 DEF Earliest

(* Latest is an element of a nonempty bounded set.                         *)
LEMMA LatestFacts ==
  ASSUME NEW n \in Nat, NEW T, T \subseteq 1..n, T # {}
  PROVE  Latest(T) \in T /\ \A j \in T : j <= Latest(T)
<1> DEFINE U == {n - i : i \in T}
<1>1. U \subseteq Nat /\ U # {}
  <2>1. \A i \in T : i \in 1..n /\ n - i \in Nat
    OBVIOUS
  <2>2. PICK k \in T : TRUE
    OBVIOUS
  <2>3. n - k \in U
    OBVIOUS
  <2> QED
    BY <2>1, <2>3
<1>2. PICK x \in U : \A y \in U : x <= y
  BY <1>1, LeastNat
<1>3. PICK i \in T : x = n - i
  OBVIOUS
<1>4. \A j \in T : j <= i
  <2>1. ASSUME NEW j \in T PROVE j <= i
    <3>1. n - i <= n - j
      BY <1>2, <1>3
    <3> QED
      BY <3>1
  <2> QED
    BY <2>1
<1> QED
  BY <1>4 DEF Latest

(* The pack is the longest prefix of commands for one entity.              *)
LEMMA PackFacts ==
  ASSUME NEW S, NEW s \in Seq(S), s # <<>>
  PROVE  /\ PackLength(s) \in 1..Len(s)
         /\ \A i \in 1..PackLength(s) : s[i].ent = s[1].ent
         /\ PackLength(s) < Len(s) => s[PackLength(s) + 1].ent # s[1].ent
<1>1. Len(s) \in Nat \ {0}
  OBVIOUS
<1> PICK len : len = Len(s)
  OBVIOUS
<1> DEFINE T == {n \in 1..len : n < len => s[n + 1].ent # s[1].ent}
<1>2. T \subseteq Nat /\ len \in T
  BY <1>1
<1>3. PICK n \in T : \A m \in T : n <= m
  BY <1>2, LeastNat
<1>4. ASSUME NEW i \in 1..n PROVE s[i].ent = s[1].ent
  <2>1. CASE i = 1
    BY <2>1
  <2>2. CASE i # 1
    <3>1. i - 1 \in 1..len /\ i - 1 < n
      BY <1>1, <2>2
    <3>2. i - 1 \notin T
      BY <1>1, <1>3, <3>1
    <3>3. s[(i - 1) + 1].ent = s[1].ent
      BY <3>1, <3>2
    <3> QED
      BY <1>1, <3>3
  <2> QED
    BY <2>1, <2>2
<1>5. \E k \in 1..Len(s) : /\ \A i \in 1..k : s[i].ent = s[1].ent
                           /\ k < Len(s) => s[k + 1].ent # s[1].ent
  BY <1>4
<1> QED
  BY <1>5 DEF PackLength

(* Closing a mask under the dependencies.                                  *)
LEMMA ClosureFacts ==
  ASSUME NEW m \in Masks
  PROVE  /\ Closure(m) \in Masks /\ m \subseteq Closure(m) /\ Closed(Closure(m))
         /\ Closed(m) => Closure(m) = m
         /\ \A n \in Masks : m \subseteq n /\ Closed(n) => Closure(m) \subseteq n
<1>1. Closure(m) \in Masks /\ m \subseteq Closure(m)
  BY DEF Closure, Masks
<1>2. ASSUME NEW c \in Closure(m), NEW d \in Deps[c] PROVE d \in Closure(m)
  <2>1. d \in Components /\ c \in Components
    BY ManagerAssumption DEF Closure
  <2>2. \A n \in Masks : m \subseteq n /\ Closed(n) => c \in n
    BY DEF Closure
  <2>3. \A n \in Masks : m \subseteq n /\ Closed(n) => d \in n
    BY <2>2 DEF Closed
  <2> QED
    BY <2>1, <2>3 DEF Closure
<1>3. Closed(m) => Closure(m) = m
  BY <1>1 DEF Closure
<1>4. \A n \in Masks : m \subseteq n /\ Closed(n) => Closure(m) \subseteq n
  BY DEF Closure
<1> QED
  BY <1>1, <1>2, <1>3, <1>4 DEF Closed

-----------------------------------------------------------------------------
(* What the operations of the allocator do to one slot.                    *)
LEMMA AcquireFacts ==
  ASSUME SlotsInv, Acquire
  PROVE  /\ NewHandle \in Handles /\ (NewHandle.id >= size \/ Free(NewHandle.id))
         /\ slots' \in [Ids -> [id : 0..MaxEntities, ver : Versions] \cup {NullHandle}]
         /\ slots'[NewHandle.id] = NewHandle /\ NewHandle.id < size'
         /\ size \in Nat /\ size' \in Nat /\ size' >= size
         /\ \A id \in Ids : id # NewHandle.id => slots'[id] = slots[id] /\ (id < size' <=> id < size)
<1> PICK f \in [1..emptySlots -> Ids] : IsFreeList(f)
  BY DEF SlotsInv, FreeListInv
<1>1. /\ size \in 0..MaxEntities /\ emptySlots \in Nat
      /\ slots \in [Ids -> [id : 0..MaxEntities, ver : Versions] \cup {NullHandle}]
  BY DEF SlotsInv, SlotsTypeOK
<1>2. SlotsInv'
  BY AcquireOK
<1>3. slots' \in [Ids -> [id : 0..MaxEntities, ver : Versions] \cup {NullHandle}]
  BY <1>2 DEF SlotsInv, SlotsTypeOK
<1>4. CASE emptySlots = 0
  <2>1. /\ size < MaxEntities /\ size' = size + 1 /\ slots' = [slots EXCEPT ![size] = NewHandle]
        /\ NewHandle = [id |-> size, ver |-> 0]
    BY <1>4 DEF Acquire, NewHandle
  <2>2. NewHandle \in Handles /\ NewHandle.id = size /\ size \in Ids
    BY <1>1, <2>1, BoundsAssumption DEF Handles, Ids, Versions
  <2>3. /\ slots'[size] = NewHandle /\ \A id \in Ids : id # size => slots'[id] = slots[id]
    BY <1>1, <2>1, <2>2
  <2> QED
    BY <1>1, <1>3, <2>1, <2>2, <2>3 DEF Ids
<1>5. CASE emptySlots > 0
  <2>1. /\ nextSlot \in Ids /\ Free(nextSlot) /\ NewHandle \in [id : Ids, ver : Versions]
    BY <1>5, FreeSlotFacts DEF SlotsInv
  <2>2. NewHandle.id = nextSlot /\ slots' = [slots EXCEPT ![nextSlot] = NewHandle] /\ size' = size
    BY <1>5 DEF Acquire, NewHandle
  <2>3. nextSlot < size
    BY <2>1 DEF Free
  <2>4. slots'[nextSlot] = NewHandle /\ \A id \in Ids : id # nextSlot => slots'[id] = slots[id]
    BY <1>1, <2>1, <2>2
  <2> QED
    BY <1>1, <1>3, <2>1, <2>2, <2>3, <2>4 DEF Handles
<1> QED
  BY <1>1, <1>4, <1>5

(* A slot released is neither in use nor a gap, and the others are as      *)
(* they were; slots made on the way are gaps.                              *)
LEMMA ReleaseFacts ==
  ASSUME SlotsInv, NEW e \in Releasable, Release(e)
  PROVE  /\ e \in Handles /\ e.id \in Ids
         /\ slots'[e.id] # NullHandle /\ slots'[e.id].id # e.id
         /\ size \in Nat /\ size' \in Nat /\ size' = Max2(size, e.id + 1)
         /\ \A id \in Ids : id # e.id => slots'[id] = slots[id]
<1> PICK f \in [1..emptySlots -> Ids] : IsFreeList(f)
  BY DEF SlotsInv, FreeListInv
<1>1. /\ size \in 0..MaxEntities /\ emptySlots \in Nat
      /\ slots \in [Ids -> [id : 0..MaxEntities, ver : Versions] \cup {NullHandle}]
  BY DEF SlotsInv, SlotsTypeOK
<1>2. e \in Handles /\ e.id \in Ids /\ e.ver \in Versions /\ ~Free(e.id)
  BY ReleasableFacts DEF Releasable
<1>3. emptySlots > 0 => Free(nextSlot)
  BY FreeSlotFacts DEF SlotsInv
<1>4. slots' = [slots EXCEPT ![e.id] = [id |-> IF emptySlots > 0 THEN nextSlot ELSE e.id + 1,
                                        ver |-> e.ver + 1]]
  BY DEF Release
<1>5. slots'[e.id].id = (IF emptySlots > 0 THEN nextSlot ELSE e.id + 1) /\ slots'[e.id].ver = e.ver + 1
  BY <1>1, <1>2, <1>4
<1>6. slots'[e.id].id # e.id
  BY <1>2, <1>3, <1>5 DEF Ids
<1>7. slots'[e.id] # NullHandle
  BY <1>2, <1>5 DEF NullHandle, Versions
<1>8. size' = Max2(size, e.id + 1)
  BY DEF Release
<1>9. size' \in Nat
  BY <1>1, <1>2, <1>8 DEF Max2, Ids
<1> QED
  BY <1>1, <1>2, <1>4, <1>6, <1>7, <1>8, <1>9

(* Adopt: a locked handle beyond the end gets its slot, one below the end  *)
(* makes its slot null.  No other slot changes.                            *)
LEMMA AdoptFacts ==
  ASSUME SlotsInv, NEW e \in LockedHandles, Adopt(e)
  PROVE  /\ e \in Handles /\ e.id \in Ids /\ e.ver = 0
         /\ size \in Nat /\ size' \in Nat /\ size' = Max2(size, e.id + 1)
         /\ slots'[e.id] = IF e.id >= size THEN e ELSE NullHandle
         /\ \A id \in Ids : id # e.id => slots'[id] = slots[id]
<1>1. /\ size \in 0..MaxEntities
      /\ slots \in [Ids -> [id : 0..MaxEntities, ver : Versions] \cup {NullHandle}]
  BY DEF SlotsInv, SlotsTypeOK
<1>2. e \in Handles /\ e.id \in Ids /\ e.ver = 0 /\ (e.id >= size \/ Gap(e.id))
  BY DEF LockedHandles, Handles
<1>3. CASE e.id >= size
  <2>1. size' = e.id + 1 /\ slots' = [slots EXCEPT ![e.id] = e]
    BY <1>3 DEF Adopt
  <2> QED
    BY <1>1, <1>2, <1>3, <2>1 DEF Max2, Ids
<1>4. CASE ~(e.id >= size)
  <2>1. size' = size /\ slots' = slots /\ slots[e.id] = NullHandle
    BY <1>2, <1>4 DEF Adopt, Gap
  <2> QED
    BY <1>1, <1>2, <1>4, <2>1 DEF Max2, Ids
<1> QED
  BY <1>3, <1>4

(* The slots of a batch.                                                   *)
LEMMA BatchFacts ==
  ASSUME SlotsInv, NEW es \in Batches, ReleaseAll(es)
  PROVE  /\ size' = size /\ size \in Nat
         /\ \A k \in 1..Len(es) : /\ es[k].id \in Ids /\ slots'[es[k].id] # NullHandle
                                  /\ slots'[es[k].id].id # es[k].id
         /\ \A id \in Ids : (\A k \in 1..Len(es) : es[k].id # id) => slots'[id] = slots[id]
<1>1. size \in 0..MaxEntities
  BY DEF SlotsInv, SlotsTypeOK
<1>2. /\ Len(es) \in Nat \ {0}
      /\ \A k \in 1..Len(es) : es[k] \in Releasable /\ es[k] \in Handles /\ es[k].ver + 1 \in Versions
      /\ \A j, k \in 1..Len(es) : es[j].id = es[k].id => j = k
      /\ \A k \in 1..Len(es) :
            slots'[es[k].id] = [id |-> slots'[es[k].id].id, ver |-> es[k].ver + 1]
      /\ \A k \in 1..Len(es) : k > 1 => slots'[es[k].id].id = es[k - 1].id
      /\ slots'[es[1].id].id = IF emptySlots > 0 THEN nextSlot ELSE es[1].id + 1
      /\ \A id \in Ids : (\A k \in 1..Len(es) : es[k].id # id) => slots'[id] = slots[id]
      /\ size' = size
  BY ReleaseAllSteps
<1> PICK f \in [1..emptySlots -> Ids] : IsFreeList(f)
  BY DEF SlotsInv, FreeListInv
<1>3. emptySlots > 0 => Free(nextSlot)
  BY FreeSlotFacts DEF SlotsInv
<1>4. ASSUME NEW k \in 1..Len(es)
      PROVE  /\ es[k].id \in Ids /\ slots'[es[k].id] # NullHandle
             /\ slots'[es[k].id].id # es[k].id
  <2>1. es[k] \in Releasable /\ es[k].ver + 1 \in Versions
    BY <1>2
  <2>2. es[k].id \in Ids /\ ~Free(es[k].id)
    BY <2>1, ReleasableFacts
  <2>3. slots'[es[k].id].ver = es[k].ver + 1
    <3>1. slots'[es[k].id] = [id |-> slots'[es[k].id].id, ver |-> es[k].ver + 1]
      BY <1>2
    <3> QED
      BY <3>1
  <2>4. slots'[es[k].id] # NullHandle
    BY <2>1, <2>3 DEF NullHandle, Versions
  <2>5. CASE k > 1
    <3>1. k - 1 \in 1..Len(es) /\ k - 1 # k /\ slots'[es[k].id].id = es[k - 1].id
      BY <1>2, <2>5
    <3>2. es[k - 1].id # es[k].id
      BY <1>2, <3>1
    <3> QED
      BY <2>2, <2>4, <3>1, <3>2
  <2>6. CASE ~(k > 1)
    <3>1. k = 1
      BY <1>2, <2>6
    <3>2. slots'[es[k].id].id = IF emptySlots > 0 THEN nextSlot ELSE es[k].id + 1
      BY <1>2, <3>1
    <3>3. slots'[es[k].id].id # es[k].id
      BY <1>3, <2>2, <3>2 DEF Ids
    <3> QED
      BY <2>2, <2>4, <3>3
  <2> QED
    BY <2>5, <2>6
<1> QED
  BY <1>1, <1>2, <1>4

-----------------------------------------------------------------------------
(* The entities and their handles.                                         *)
Data == UNION {[m -> Values \cup {Raw}] : m \in Masks}

(* A row's entity has a slot of its own, or one skipped when another       *)
(* thread's create was applied first.                                      *)
RowSlots == \A m \in Masks : \A k \in DOMAIN rows[m] :
    /\ rows[m][k].ent.id < size
    /\ \/ slots[rows[m][k].ent.id] = rows[m][k].ent
       \/ slots[rows[m][k].ent.id] = NullHandle /\ rows[m][k].ent.ver = 0

UsedPlaced == \A id \in Ids : Used(id) => Placed(id)

Entities == /\ SlotsInv /\ Table(Data) /\ RowsComplete /\ MasksClosed
            /\ RowSlots /\ UsedPlaced

(* What a step does to entities: nothing, or one of these.                 *)
Created(m, d) ==
    Acquire /\ InsertRow(NewHandle, m, d) /\ Closed(m) /\ DOMAIN d = m
Moved(e, m, d) ==
    /\ Alive(e) /\ MoveRow(e, m, d) /\ Closed(m) /\ DOMAIN d = m
    /\ UNCHANGED slotVars
Written(e, d) ==
    Alive(e) /\ WriteRow(e, d) /\ DOMAIN d = MaskOf(e) /\ UNCHANGED slotVars
Destroyed(e) == Alive(e) /\ RemoveRow(e) /\ Release(e)
Discarded(e) ==
    e \in LockedHandles /\ ~Placed(e.id) /\ Release(e) /\ UNCHANGED tableVars
Adopted(e, m, d) ==
    /\ e \in LockedHandles /\ ~Placed(e.id) /\ Adopt(e) /\ InsertRow(e, m, d)
    /\ Closed(m) /\ DOMAIN d = m
ClearedAll == ClearSlots /\ ClearTable
ClearedOne(m) ==
    /\ rows[m] # <<>> /\ ClearRows(m)
    /\ ReleaseAll([k \in DOMAIN rows[m] |-> rows[m][k].ent])

(* What Entities says of a single row and a single id.                     *)
LEMMA EntitiesFacts ==
  ASSUME Entities
  PROVE  /\ rows \in Tables(Data) /\ place \in Places
         /\ size \in 0..MaxEntities /\ size \in Nat
         /\ slots \in [Ids -> [id : 0..MaxEntities, ver : Versions] \cup {NullHandle}]
         /\ \A m \in Masks : DOMAIN rows[m] = 1..Len(rows[m])
         /\ \A m \in Masks : \A k \in DOMAIN rows[m] :
               /\ rows[m][k].ent \in Handles /\ rows[m][k].ent.id \in Ids
               /\ rows[m][k].ent.id < size
               /\ ~Free(rows[m][k].ent.id)
               /\ Placed(rows[m][k].ent.id)
               /\ rows[m][k].ent \in Releasable
         /\ \A id \in Ids : Placed(id) => id < size /\ ~Free(id)
<1>1. /\ rows \in Tables(Data) /\ place \in Places
      /\ size \in 0..MaxEntities /\ size \in Nat
      /\ slots \in [Ids -> [id : 0..MaxEntities, ver : Versions] \cup {NullHandle}]
  BY DEF Entities, Table, SlotsInv, SlotsTypeOK
<1>2. \A m \in Masks : DOMAIN rows[m] = 1..Len(rows[m])
  BY <1>1 DEF Tables
<1>3. ASSUME NEW m \in Masks, NEW k \in DOMAIN rows[m]
      PROVE  /\ rows[m][k].ent \in Handles /\ rows[m][k].ent.id \in Ids
             /\ rows[m][k].ent.id < size
             /\ ~Free(rows[m][k].ent.id)
             /\ Placed(rows[m][k].ent.id)
             /\ rows[m][k].ent \in Releasable
  <2>1. rows[m][k].ent \in Handles /\ rows[m][k].ent.id \in Ids
    BY <1>1, <1>2, RowFacts
  <2>2. place[rows[m][k].ent.id] = [arch |-> m, index |-> k] /\ k # 0
    BY <1>2 DEF Entities, Table, PlacesAgree
  <2>3. Placed(rows[m][k].ent.id)
    BY <2>2, PlaceFacts DEF Placed
  <2>4. PICK e : e = rows[m][k].ent
    OBVIOUS
  <2>5. e \in Handles /\ e.id < size /\ (slots[e.id] = e \/ (slots[e.id] = NullHandle /\ e.ver = 0))
    BY <2>1, <2>4 DEF Entities, RowSlots
  <2>6. ~Free(e.id) /\ e \in Releasable
    BY <2>5 DEF Free, Used, Gap, Releasable, Valid, LockedHandles
  <2> QED
    BY <2>1, <2>3, <2>4, <2>5, <2>6
<1>4. ASSUME NEW id \in Ids, Placed(id) PROVE id < size /\ ~Free(id)
  <2>1. /\ place[id].arch \in Masks /\ place[id].index \in DOMAIN rows[place[id].arch]
        /\ rows[place[id].arch][place[id].index].ent.id = id
    BY <1>1, <1>2, <1>4, PlacedRow DEF Entities, RowOf
  <2> QED
    BY <1>3, <2>1
<1> QED
  BY <1>1, <1>2, <1>3, <1>4

(* A step about one entity: each row is an old one of another entity, or   *)
(* the new row of this one.                                                *)
RowsFrom(e) ==
    \A n \in Masks : \A k \in DOMAIN rows'[n] :
        \/ \E j \in DOMAIN rows[n] : rows'[n][k] = rows[n][j] /\ rows[n][j].ent.id # e.id
        \/ /\ rows'[n][k].ent = e /\ Closed(n) /\ DOMAIN rows'[n][k].data = n
           /\ e.id < size'
           /\ slots'[e.id] = e \/ (slots'[e.id] = NullHandle /\ e.ver = 0)

(* A step that concerns one entity keeps the entities in order if rows of  *)
(* others are old rows, and slots and places of others stay.               *)
LEMMA OneEntityOK ==
  ASSUME Entities, NEW e \in Handles, SlotsInv', Table(Data)', RowsFrom(e),
         size' \in Nat, size' >= size,
         \A id \in Ids : id # e.id => slots'[id] = slots[id] /\ (Placed(id)' <=> Placed(id)),
         Used(e.id)' => Placed(e.id)'
  PROVE  Entities'
<1>1. /\ size \in Nat /\ e.id \in Ids
      /\ \A n \in Masks : DOMAIN rows[n] = 1..Len(rows[n])
      /\ \A n \in Masks : \A k \in DOMAIN rows[n] : rows[n][k].ent.id \in Ids
  BY EntitiesFacts DEF Handles
<1>2. RowsComplete'
  <2>1. ASSUME NEW n \in Masks, NEW k \in DOMAIN rows'[n] PROVE DOMAIN rows'[n][k].data = n
    BY DEF RowsFrom, Entities, RowsComplete
  <2> QED
    BY <2>1 DEF RowsComplete
<1>3. MasksClosed'
  <2>1. ASSUME NEW n \in Masks, rows'[n] # <<>> PROVE Closed(n)
    <3>1. rows'[n] \in Seq(Rows(Data))
      BY DEF Table, Tables
    <3>2. 1 \in DOMAIN rows'[n]
      BY <2>1, <3>1
    <3>3. CASE \E j \in DOMAIN rows[n] : TRUE
      <4>1. rows[n] # <<>>
        BY <3>3
      <4> QED
        BY <4>1 DEF Entities, MasksClosed
    <3> QED
      BY <3>2, <3>3 DEF RowsFrom
  <2> QED
    BY <2>1 DEF MasksClosed
<1>4. RowSlots'
  <2>1. ASSUME NEW n \in Masks, NEW k \in DOMAIN rows'[n]
        PROVE  /\ rows'[n][k].ent.id < size'
               /\ \/ slots'[rows'[n][k].ent.id] = rows'[n][k].ent
                  \/ slots'[rows'[n][k].ent.id] = NullHandle /\ rows'[n][k].ent.ver = 0
    <3>1. CASE \E j \in DOMAIN rows[n] : rows'[n][k] = rows[n][j] /\ rows[n][j].ent.id # e.id
      <4>1. PICK j \in DOMAIN rows[n] : rows'[n][k] = rows[n][j] /\ rows[n][j].ent.id # e.id
        BY <3>1
      <4>2. PICK f : f = rows[n][j].ent
        OBVIOUS
      <4>3. f.id < size /\ (slots[f.id] = f \/ (slots[f.id] = NullHandle /\ f.ver = 0))
        BY <4>2 DEF Entities, RowSlots
      <4>4. f.id \in Ids /\ slots'[f.id] = slots[f.id]
        BY <1>1, <4>1, <4>2
      <4>5. f.id < size'
        BY <1>1, <4>3, <4>4 DEF Ids
      <4> QED
        BY <4>1, <4>2, <4>3, <4>4, <4>5
    <3> QED
      BY <3>1 DEF RowsFrom
  <2> QED
    BY <2>1 DEF RowSlots
<1>5. UsedPlaced'
  <2>1. ASSUME NEW id \in Ids, Used(id)' PROVE Placed(id)'
    <3>1. CASE id = e.id
      BY <2>1, <3>1
    <3>2. CASE id # e.id
      <4>1. slots[id].id = id /\ slots'[id] = slots[id]
        BY <2>1, <3>2 DEF Used
      <4>2. slots[id] # NullHandle
        BY <4>1 DEF NullHandle, Ids
      <4>3. id < size
        BY <1>1, <4>2 DEF Entities, SlotsInv, TailIsNull, Ids
      <4>4. Placed(id)
        BY <4>1, <4>3 DEF Used, Entities, UsedPlaced
      <4> QED
        BY <3>2, <4>4
    <3> QED
      BY <3>1, <3>2
  <2> QED
    BY <2>1 DEF UsedPlaced
<1> QED
  BY <1>2, <1>3, <1>4, <1>5 DEF Entities

(* Components with values or raw bytes are data of a row.                  *)
LEMMA DataIn ==
  ASSUME NEW m \in Masks, NEW d \in [m -> Values \cup {Raw}]
  PROVE  d \in Data
BY DEF Data

(* Inserting: the rows there are those of other entities.                  *)
LEMMA InsertedRows ==
  ASSUME Entities, NEW e \in Handles, NEW m \in Masks, NEW d \in Data, ~Placed(e.id),
         InsertRow(e, m, d), Closed(m), DOMAIN d = m, e.id < size',
         slots'[e.id] = e \/ (slots'[e.id] = NullHandle /\ e.ver = 0)
  PROVE  /\ Table(Data)' /\ RowsFrom(e) /\ Placed(e.id)'
         /\ \A id \in Ids : id # e.id => (Placed(id)' <=> Placed(id))
<1>1. /\ Table(Data)' /\ Placed(e.id)'
      /\ \A id \in Ids : id # e.id => (Placed(id)' <=> Placed(id))
      /\ \A n \in Masks : \A k \in DOMAIN rows'[n] :
            \/ n = m /\ rows'[n][k] = [ent |-> e, data |-> d]
            \/ k \in DOMAIN rows[n] /\ rows'[n][k] = rows[n][k]
  BY InsertRowOK DEF Entities
<1>2. \A n \in Masks : \A k \in DOMAIN rows[n] : rows[n][k].ent.id # e.id
  BY EntitiesFacts
<1>3. RowsFrom(e)
  <2>1. ASSUME NEW n \in Masks, NEW k \in DOMAIN rows'[n],
               n = m, rows'[n][k] = [ent |-> e, data |-> d]
        PROVE  rows'[n][k].ent = e /\ Closed(n) /\ DOMAIN rows'[n][k].data = n
    BY <2>1
  <2> QED
    BY <1>1, <1>2, <2>1 DEF RowsFrom
<1> QED
  BY <1>1, <1>3

-----------------------------------------------------------------------------
(* Each kind of step keeps the entities in order.                          *)
LEMMA CreatedOK ==
  ASSUME Entities, NEW m \in Masks, NEW d \in Data, Created(m, d)
  PROVE  /\ Entities' /\ RowsFrom(NewHandle)
         /\ \A id \in Ids : Placed(id)' <=> Placed(id) \/ id = NewHandle.id
<1>1. SlotsInv /\ Acquire
  BY DEF Entities, Created
<1>2. PICK e : e = NewHandle
  OBVIOUS
<1>3. /\ e \in Handles /\ (e.id >= size \/ Free(e.id)) /\ slots'[e.id] = e /\ e.id < size'
      /\ size \in Nat /\ size' \in Nat /\ size' >= size
      /\ \A id \in Ids : id # e.id => slots'[id] = slots[id]
  BY <1>1, <1>2, AcquireFacts
<1>4. SlotsInv'
  BY <1>1, AcquireOK
<1>5. e.id \in Ids /\ ~Placed(e.id)
  <2>1. e.id \in Ids
    BY <1>3 DEF Handles
  <2> QED
    BY <1>3, <2>1, EntitiesFacts DEF Ids
<1>6. /\ Table(Data)' /\ RowsFrom(e) /\ Placed(e.id)'
      /\ \A id \in Ids : id # e.id => (Placed(id)' <=> Placed(id))
  BY <1>2, <1>3, <1>5, InsertedRows DEF Created
<1>7. Entities'
  BY <1>3, <1>4, <1>6, OneEntityOK
<1> QED
  BY <1>2, <1>6, <1>7

(* Moving a live entity to another closed archetype.                       *)
LEMMA MovedOK ==
  ASSUME Entities, NEW e \in Handles, NEW m \in Masks, NEW d \in Data, Moved(e, m, d)
  PROVE  Entities' /\ RowsFrom(e) /\ \A id \in Ids : Placed(id)' <=> Placed(id)
<1>1. /\ Table(Data) /\ Valid(e) /\ Placed(e.id) /\ MoveRow(e, m, d) /\ Closed(m) /\ DOMAIN d = m
      /\ size' = size /\ slots' = slots /\ UNCHANGED slotVars
  BY DEF Entities, Moved, Alive, slotVars
<1>2. e.id \in Ids /\ size \in Nat
  BY EntitiesFacts DEF Handles
<1>3. /\ Table(Data)' /\ Placed(e.id)'
      /\ \A id \in Ids : id # e.id => (Placed(id)' <=> Placed(id))
      /\ \A n \in Masks : \A k \in DOMAIN rows'[n] :
            \/ n = m /\ rows'[n][k] = [ent |-> e, data |-> d]
            \/ \E j \in DOMAIN rows[n] :
                  rows'[n][k] = rows[n][j] /\ rows[n][j].ent.id # e.id
  BY <1>1, MoveRowOK
<1>4. e.id < size' /\ slots'[e.id] = e
  BY <1>1 DEF Valid
<1>5. RowsFrom(e)
  <2>1. ASSUME NEW n \in Masks, NEW k \in DOMAIN rows'[n],
               n = m, rows'[n][k] = [ent |-> e, data |-> d]
        PROVE  rows'[n][k].ent = e /\ Closed(n) /\ DOMAIN rows'[n][k].data = n
    BY <1>1, <2>1
  <2> QED
    BY <1>3, <1>4, <2>1 DEF RowsFrom
<1>6. SlotsInv'
  BY <1>1 DEF Entities, SlotsInv, SlotsTypeOK, TailIsNull, FreeListInv, IsFreeList, Free, Used, Gap, slotVars
<1>7. Entities'
  BY <1>1, <1>2, <1>3, <1>5, <1>6, OneEntityOK
<1> QED
  BY <1>1, <1>3, <1>5, <1>7

(* Overwriting the components of a placed entity.                          *)
LEMMA WrittenOK ==
  ASSUME Entities, NEW e \in Handles, NEW d \in Data, Written(e, d)
  PROVE  /\ Entities' /\ \A id \in Ids : Placed(id)' <=> Placed(id)
         /\ \A n \in Masks : /\ DOMAIN rows'[n] = DOMAIN rows[n]
                             /\ \A k \in DOMAIN rows[n] : rows'[n][k].ent = rows[n][k].ent
<1>1. /\ Table(Data) /\ Placed(e.id) /\ WriteRow(e, d) /\ DOMAIN d = place[e.id].arch
      /\ size' = size /\ slots' = slots /\ UNCHANGED slotVars
  BY DEF Entities, Written, Alive, slotVars, MaskOf
<1>2. /\ Table(Data)' /\ place' = place
      /\ \A n \in Masks : /\ DOMAIN rows'[n] = DOMAIN rows[n]
                          /\ \A k \in DOMAIN rows[n] :
                                /\ rows'[n][k].ent = rows[n][k].ent
                                /\ \/ rows'[n][k].data = rows[n][k].data
                                   \/ n = place[e.id].arch /\ rows'[n][k].data = d
  BY <1>1, WriteRowOK
<1>3. SlotsInv'
  BY <1>1 DEF Entities, SlotsInv, SlotsTypeOK, TailIsNull, FreeListInv, IsFreeList, Free, Used, Gap, slotVars
<1>4. RowsComplete'
  <2>1. ASSUME NEW n \in Masks, NEW k \in DOMAIN rows'[n] PROVE DOMAIN rows'[n][k].data = n
    <3>1. k \in DOMAIN rows[n] /\ DOMAIN rows[n][k].data = n
      BY <1>2 DEF Entities, RowsComplete
    <3> QED
      BY <1>1, <1>2, <3>1
  <2> QED
    BY <2>1 DEF RowsComplete
<1>5. MasksClosed'
  <2>1. ASSUME NEW n \in Masks, rows'[n] # <<>> PROVE Closed(n)
    <3>1. rows[n] \in Seq(Rows(Data)) /\ rows'[n] \in Seq(Rows(Data)) /\ DOMAIN rows'[n] = DOMAIN rows[n]
      BY <1>1, <1>2 DEF Table, Tables
    <3>2. rows[n] # <<>>
      BY <2>1, <3>1
    <3> QED
      BY <3>2 DEF Entities, MasksClosed
  <2> QED
    BY <2>1 DEF MasksClosed
<1>6. RowSlots'
  BY <1>1, <1>2 DEF RowSlots, Entities
<1>7. UsedPlaced'
  BY <1>1, <1>2 DEF UsedPlaced, Entities, Used, Placed
<1> QED
  BY <1>2, <1>3, <1>4, <1>5, <1>6, <1>7 DEF Entities, Placed

(* Destroying a live entity: its row is removed, its slot released.        *)
LEMMA DestroyedOK ==
  ASSUME Entities, NEW e \in Handles, Destroyed(e)
  PROVE  /\ Entities' /\ RowsFrom(e)
         /\ \A id \in Ids : Placed(id)' <=> Placed(id) /\ id # e.id
<1>1. /\ Table(Data) /\ SlotsInv /\ Placed(e.id) /\ RemoveRow(e) /\ Release(e) /\ e \in Releasable
      /\ e.id \in Ids
  BY DEF Entities, Destroyed, Alive, Releasable, Handles
<1>2. /\ Table(Data)' /\ ~Placed(e.id)' /\ OldRowsBut(e.id)
      /\ \A id \in Ids : id # e.id => (Placed(id)' <=> Placed(id))
  BY <1>1, RemoveRowOK
<1>3. /\ slots'[e.id].id # e.id
      /\ size \in Nat /\ size' \in Nat /\ size' = Max2(size, e.id + 1)
      /\ \A id \in Ids : id # e.id => slots'[id] = slots[id]
  BY <1>1, ReleaseFacts
<1>4. SlotsInv'
  BY <1>1, ReleaseOK
<1>5. RowsFrom(e)
  BY <1>2 DEF OldRowsBut, RowsFrom
<1>6. size' >= size
  BY <1>1, <1>3 DEF Max2, Ids
<1>7. ~Used(e.id)'
  BY <1>3 DEF Used
<1>8. Entities'
  BY <1>2, <1>3, <1>4, <1>5, <1>6, <1>7, OneEntityOK
<1> QED
  BY <1>2, <1>5, <1>8

(* A pack that creates and destroys: the slot is adopted and released and  *)
(* no row is ever made.                                                    *)
LEMMA DiscardedOK ==
  ASSUME Entities, NEW e \in Handles, Discarded(e)
  PROVE  Entities' /\ RowsFrom(e) /\ \A id \in Ids : Placed(id)' <=> Placed(id)
<1>1. /\ Table(Data) /\ SlotsInv /\ ~Placed(e.id) /\ Release(e) /\ e \in Releasable
      /\ e.id \in Ids /\ rows' = rows /\ place' = place
  BY DEF Entities, Discarded, Releasable, Handles, tableVars
<1>2. Table(Data)' /\ \A id \in Ids : Placed(id)' <=> Placed(id)
  BY <1>1 DEF Table, PlacesAgree, Placed, RowOf
<1>3. /\ slots'[e.id].id # e.id
      /\ size \in Nat /\ size' \in Nat /\ size' = Max2(size, e.id + 1)
      /\ \A id \in Ids : id # e.id => slots'[id] = slots[id]
  BY <1>1, ReleaseFacts
<1>4. SlotsInv'
  BY <1>1, ReleaseOK
<1>5. RowsFrom(e)
  <2>1. \A n \in Masks : \A k \in DOMAIN rows[n] : rows[n][k].ent.id # e.id
    BY <1>1, EntitiesFacts
  <2> QED
    BY <1>1, <2>1 DEF RowsFrom
<1>6. size' >= size
  BY <1>1, <1>3 DEF Max2, Ids
<1>7. ~Used(e.id)'
  BY <1>3 DEF Used
<1>8. Entities'
  BY <1>2, <1>3, <1>4, <1>5, <1>6, <1>7, OneEntityOK
<1> QED
  BY <1>2, <1>5, <1>8

(* A pack that creates: the slot is adopted, the row inserted.             *)
LEMMA AdoptedOK ==
  ASSUME Entities, NEW e \in Handles, NEW m \in Masks, NEW d \in Data, Adopted(e, m, d)
  PROVE  Entities' /\ RowsFrom(e) /\ \A id \in Ids : Placed(id)' <=> Placed(id) \/ id = e.id
<1>1. /\ SlotsInv /\ ~Placed(e.id) /\ Adopt(e) /\ InsertRow(e, m, d)
      /\ Closed(m) /\ DOMAIN d = m /\ e \in LockedHandles
  BY DEF Entities, Adopted
<1>2. /\ e.id \in Ids /\ e.ver = 0
      /\ size \in Nat /\ size' \in Nat /\ size' = Max2(size, e.id + 1)
      /\ slots'[e.id] = IF e.id >= size THEN e ELSE NullHandle
      /\ \A id \in Ids : id # e.id => slots'[id] = slots[id]
  BY <1>1, AdoptFacts
<1>3. SlotsInv'
  BY <1>1, AdoptOK
<1>4. e.id < size' /\ size' >= size
  BY <1>2 DEF Max2, Ids
<1>5. /\ Table(Data)' /\ RowsFrom(e) /\ Placed(e.id)'
      /\ \A id \in Ids : id # e.id => (Placed(id)' <=> Placed(id))
  BY <1>1, <1>2, <1>4, InsertedRows
<1>6. Entities'
  BY <1>2, <1>3, <1>4, <1>5, OneEntityOK
<1> QED
  BY <1>5, <1>6

(* No slots in use and no rows.                                            *)
LEMMA EmptyOK ==
  ASSUME SlotsInv, Table(Data), \A m \in Masks : rows[m] = <<>>, size = 0
  PROVE  Entities
BY DEF Entities, RowsComplete, MasksClosed, RowSlots, UsedPlaced, Used, Ids

(* clear() leaves no entity.                                               *)
LEMMA ClearedAllOK ==
  ASSUME ClearedAll
  PROVE  Entities' /\ \A id \in Ids : ~Placed(id)'
<1>1. Table(Data)' /\ (\A id \in Ids : ~Placed(id)') /\ \A m \in Masks : rows'[m] = <<>>
  BY ClearTableOK DEF ClearedAll, ClearTable
<1>2. SlotsInv'
  <2>1. SlotsTypeOK' /\ TailIsNull'
    BY BoundsAssumption DEF ClearedAll, ClearSlots, SlotsTypeOK, TailIsNull, NoSlots
  <2>2. FreeListInv'
    <3>1. emptySlots' = 0 /\ size' = 0
      BY DEF ClearedAll, ClearSlots
    <3>2. IsFreeList([i \in 1..emptySlots |-> 0])'
      BY <3>1 DEF IsFreeList, Free, Ids
    <3>3. [i \in 1..emptySlots' |-> 0] \in [1..emptySlots' -> Ids]
      BY <3>1
    <3> QED
      BY <3>2, <3>3 DEF FreeListInv
  <2> QED
    BY <2>1, <2>2 DEF SlotsInv
<1>3. size' = 0
  BY DEF ClearedAll, ClearSlots
<1>4. Entities'
  BY <1>1, <1>2, <1>3 DEF Entities, RowsComplete, MasksClosed, RowSlots, UsedPlaced, Used, Ids
<1> QED
  BY <1>1, <1>4

(* An archetype's entities are a batch: their ids differ, so they are not  *)
(* more than there are ids.                                                *)
LEMMA ArchetypeBatch ==
  ASSUME Entities, NEW m \in Masks, rows[m] # <<>>,
         NEW es, es = [k \in DOMAIN rows[m] |-> rows[m][k].ent]
  PROVE  /\ es \in Batches /\ Len(es) = Len(rows[m])
         /\ DOMAIN rows[m] = 1..Len(rows[m])
         /\ \A k \in 1..Len(es) : es[k] = rows[m][k].ent
<1> PICK n : n = Len(rows[m])
  OBVIOUS
<1>1. DOMAIN rows[m] = 1..n /\ n \in Nat /\ n > 0
  <2>1. rows[m] \in Seq(Rows(Data))
    BY DEF Entities, Table, Tables
  <2> QED
    BY <2>1
<1>2. \A k \in 1..n : /\ rows[m][k].ent \in Releasable /\ rows[m][k].ent.id \in Ids
                      /\ rows[m][k].ent.id < size
  BY <1>1, EntitiesFacts
<1>3. es \in [1..n -> Releasable] /\ Len(es) = n /\ \A k \in 1..n : es[k] = rows[m][k].ent
  BY <1>1, <1>2
<1>4. \A j, k \in 1..n : es[j].id = es[k].id => j = k
  <2>1. \A k \in 1..n : place[rows[m][k].ent.id] = [arch |-> m, index |-> k]
    BY <1>1 DEF Entities, Table, PlacesAgree
  <2>2. ASSUME NEW j \in 1..n, NEW k \in 1..n, es[j].id = es[k].id PROVE j = k
    <3>1. [arch |-> m, index |-> j] = [arch |-> m, index |-> k]
      BY <1>3, <2>1, <2>2
    <3> QED
      BY <3>1
  <2> QED
    BY <2>2
<1>5. n <= MaxEntities
  <2>1. MaxEntities \in Nat \ {0}
    BY BoundsAssumption
  <2> SUFFICES ASSUME MaxEntities < n PROVE FALSE
    BY <1>1, <2>1
  <2>2. IsFiniteSet(1..n) /\ Cardinality(1..n) = n
    BY <1>1, FS_Interval
  <2>3. IsFiniteSet(Ids) /\ Cardinality(Ids) = MaxEntities
    <3>1. 0 \in Int /\ MaxEntities - 1 \in Int /\ ~(0 > MaxEntities - 1)
      BY <2>1
    <3>2. IsFiniteSet(0..(MaxEntities - 1)) /\ Cardinality(0..(MaxEntities - 1)) = (MaxEntities - 1) - 0 + 1
      BY <3>1, FS_Interval
    <3> QED
      BY <2>1, <3>2 DEF Ids
  <2>f. PICK f : f = [k \in 1..n |-> es[k].id]
    OBVIOUS
  <2>4. f \in [1..n -> Ids]
    BY <1>2, <1>3, <2>f
  <2>5. \E x, y \in 1..n : x # y /\ f[x] = f[y]
    <3>1. PICK S, T : S = 1..n /\ T = Ids
      OBVIOUS
    <3>2. IsFiniteSet(S) /\ IsFiniteSet(T) /\ Cardinality(T) < Cardinality(S) /\ f \in [S -> T]
      BY <2>2, <2>3, <2>4, <3>1
    <3>3. \E x, y \in S : x # y /\ f[x] = f[y]
      BY ONLY <3>2, FS_PigeonHole, Zenon
    <3> QED
      BY <3>1, <3>3
  <2>6. PICK x \in 1..n, y \in 1..n : x # y /\ f[x] = f[y]
    BY <2>5
  <2> QED
    BY <1>4, <2>f, <2>6
<1>6. es \in UNION {[1..j -> Releasable] : j \in 1..MaxEntities}
  BY <1>1, <1>3, <1>5, BoundsAssumption
<1>7. Distinct(es) /\ \A k \in DOMAIN es : es[k].id < size
  BY <1>2, <1>3, <1>4 DEF Distinct
<1> QED
  BY <1>1, <1>3, <1>6, <1>7 DEF Batches

(* Clearing one archetype releases the slots of all its rows and touches   *)
(* no other archetype, nor the slot of an entity outside of it.            *)
LEMMA ClearedOneOK ==
  ASSUME Entities, NEW m \in Masks, ClearedOne(m)
  PROVE  /\ Entities' /\ size' = size
         /\ \A id \in Ids : Placed(id)' => Placed(id)
         /\ \A id \in Ids : ~Placed(id) => slots'[id] = slots[id]
         /\ \A n \in Masks : n # m => rows'[n] = rows[n]
         /\ rows'[m] = <<>>
         /\ \A n \in Masks : n # m => \A k \in DOMAIN rows[n] :
               slots'[rows[n][k].ent.id] = slots[rows[n][k].ent.id]
<1> PICK es : es = [k \in DOMAIN rows[m] |-> rows[m][k].ent]
  OBVIOUS
<1>1. /\ es \in Batches /\ Len(es) = Len(rows[m]) /\ DOMAIN rows[m] = 1..Len(rows[m])
      /\ \A k \in 1..Len(es) : es[k] = rows[m][k].ent
  BY ArchetypeBatch DEF ClearedOne
<1>2. SlotsInv /\ ReleaseAll(es) /\ Table(Data) /\ ClearRows(m)
  BY DEF Entities, ClearedOne
<1>3. SlotsInv'
  BY <1>1, <1>2, ReleaseAllOK
<1>4. /\ size' = size
      /\ \A k \in 1..Len(es) : slots'[es[k].id].id # es[k].id
      /\ \A id \in Ids : (\A k \in 1..Len(es) : es[k].id # id) => slots'[id] = slots[id]
  BY <1>1, <1>2, BatchFacts
<1>5. /\ Table(Data)' /\ rows'[m] = <<>> /\ \A n \in Masks : n # m => rows'[n] = rows[n]
      /\ \A id \in Ids : Placed(id)' <=>
               Placed(id) /\ \A k \in DOMAIN rows[m] : rows[m][k].ent.id # id
  BY <1>2, ClearRowsOK
<1>6. \A id \in Ids : (\A k \in DOMAIN rows[m] : rows[m][k].ent.id # id) => slots'[id] = slots[id]
  BY <1>1, <1>4
<1>7. ASSUME NEW n \in Masks, n # m, NEW k \in DOMAIN rows[n]
      PROVE  slots'[rows[n][k].ent.id] = slots[rows[n][k].ent.id]
  <2>1. rows[n][k].ent.id \in Ids /\ place[rows[n][k].ent.id] = [arch |-> n, index |-> k]
    BY EntitiesFacts DEF Entities, Table, PlacesAgree
  <2>2. ASSUME NEW j \in DOMAIN rows[m] PROVE rows[m][j].ent.id # rows[n][k].ent.id
    <3>1. place[rows[m][j].ent.id] = [arch |-> m, index |-> j]
      BY DEF Entities, Table, PlacesAgree
    <3>2. [arch |-> m, index |-> j] # [arch |-> n, index |-> k]
      BY <1>7
    <3> QED
      BY <2>1, <3>1, <3>2
  <2> QED
    BY <1>6, <2>1, <2>2
<1>8. RowsComplete' /\ MasksClosed'
  <2>1. ASSUME NEW n \in Masks PROVE rows'[n] = rows[n] \/ rows'[n] = <<>>
    BY <1>5
  <2>2. ASSUME NEW n \in Masks, NEW k \in DOMAIN rows'[n] PROVE DOMAIN rows'[n][k].data = n
    <3>1. rows'[n] = rows[n]
      BY <2>1, <2>2
    <3> QED
      BY <2>2, <3>1 DEF Entities, RowsComplete
  <2>3. ASSUME NEW n \in Masks, rows'[n] # <<>> PROVE Closed(n)
    BY <2>1, <2>3 DEF Entities, MasksClosed
  <2> QED
    BY <2>2, <2>3 DEF RowsComplete, MasksClosed
<1>9. RowSlots'
  <2>1. ASSUME NEW n \in Masks, NEW k \in DOMAIN rows'[n]
        PROVE  /\ rows'[n][k].ent.id < size'
               /\ \/ slots'[rows'[n][k].ent.id] = rows'[n][k].ent
                  \/ slots'[rows'[n][k].ent.id] = NullHandle /\ rows'[n][k].ent.ver = 0
    <3>1. n # m /\ rows'[n] = rows[n]
      BY <1>5, <2>1
    <3>2. slots'[rows[n][k].ent.id] = slots[rows[n][k].ent.id]
      BY <1>7, <2>1, <3>1
    <3> QED
      BY <1>4, <2>1, <3>1, <3>2 DEF Entities, RowSlots
  <2> QED
    BY <2>1 DEF RowSlots
<1>10. UsedPlaced'
  <2>1. ASSUME NEW id \in Ids, Used(id)' PROVE Placed(id)'
    <3>1. \A k \in DOMAIN rows[m] : rows[m][k].ent.id # id
      BY <1>1, <1>4, <2>1 DEF Used
    <3>2. Used(id)
      BY <1>4, <1>6, <2>1, <3>1 DEF Used
    <3> QED
      BY <1>5, <3>1, <3>2 DEF Entities, UsedPlaced
  <2> QED
    BY <2>1 DEF UsedPlaced
<1>11. ASSUME NEW id \in Ids, ~Placed(id) PROVE slots'[id] = slots[id]
  <2>1. \A k \in DOMAIN rows[m] : rows[m][k].ent.id # id
    BY <1>11, EntitiesFacts
  <2> QED
    BY <1>6, <2>1
<1> QED
  BY <1>3, <1>4, <1>5, <1>7, <1>8, <1>9, <1>10, <1>11 DEF Entities

-----------------------------------------------------------------------------
(* The recorded commands.  Every entity named by one has an id below       *)
(* nextEntityId, so in one storage nothing before a create names its       *)
(* entity; creates are recorded by Creators only and never share an id.    *)
Creates(t, i) == storages[t][i].op = "create"

RecordedTypes ==
    nextEntityId \in 0..MaxEntities /\ storages \in [Threads -> Seq(Commands)]
RecordedBelow ==
    \A t \in Threads : \A i \in DOMAIN storages[t] : storages[t][i].ent.id < nextEntityId
CreatedByCreators ==
    \A t \in Threads : \A i \in DOMAIN storages[t] : Creates(t, i) => t \in Creators
CreatesApart ==
    \A t, u \in Threads : t # u => \A i \in DOMAIN storages[t], k \in DOMAIN storages[u] :
        Creates(t, i) /\ Creates(u, k) => storages[t][i].ent.id # storages[u][k].ent.id
CreatesFirst ==
    \A t \in Threads : \A i, k \in DOMAIN storages[t] :
        i < k /\ Creates(t, k) => storages[t][i].ent.id < storages[t][k].ent.id

Recorded == /\ RecordedTypes /\ RecordedBelow /\ CreatedByCreators
            /\ CreatesApart /\ CreatesFirst

(* The fields of a command.                                                *)
LEMMA CommandFacts ==
  ASSUME NEW cmd \in Commands
  PROVE  /\ cmd.ent \in Handles /\ cmd.ent.id \in Ids /\ cmd.ent.id \in Nat
         /\ cmd.op = "create" => cmd.mask \in Masks
         /\ cmd.op = "assign" => cmd.val \in Values
BY DEF Commands, Handles, Ids

(* A recorded command is a command for a handle with an id.                *)
LEMMA RecordedFacts ==
  ASSUME RecordedTypes, NEW t \in Threads, NEW i \in DOMAIN storages[t]
  PROVE  /\ storages[t] \in Seq(Commands) /\ storages[t][i] \in Commands
         /\ storages[t][i].ent \in Handles /\ storages[t][i].ent.id \in Ids
         /\ storages[t][i].ent.id \in Nat
<1>1. storages[t] \in Seq(Commands) /\ storages[t][i] \in Commands
  BY DEF RecordedTypes
<1> QED
  BY <1>1, CommandFacts

(* A sequence with one element more.                                       *)
LEMMA AppendFacts ==
  ASSUME NEW S, NEW s \in Seq(S), NEW x \in S, NEW s2, s2 = Append(s, x)
  PROVE  /\ s2 \in Seq(S) /\ Len(s2) = Len(s) + 1 /\ Len(s) \in Nat
         /\ DOMAIN s = 1..Len(s) /\ DOMAIN s2 = 1..(Len(s) + 1)
         /\ s2[Len(s) + 1] = x /\ \A i \in 1..Len(s) : s2[i] = s[i]
OBVIOUS

(* A command more, at the end of a storage.                                *)
Appended(t, cmd) == storages' = [storages EXCEPT ![t] = Append(storages[t], cmd)]

(* Recording one command keeps the order of the recorded ones: a create    *)
(* takes the next id, which nothing recorded names yet.                    *)
LEMMA AppendOK ==
  ASSUME Recorded, NEW t \in Threads, NEW cmd \in Commands,
         Appended(t, cmd),
         nextEntityId' \in 0..MaxEntities, nextEntityId' >= nextEntityId,
         cmd.ent.id < nextEntityId',
         cmd.op = "create" => t \in Creators /\ cmd.ent.id = nextEntityId
  PROVE  /\ Recorded'
         /\ \A u \in Threads : \A i \in DOMAIN storages'[u] :
               \/ i \in DOMAIN storages[u] /\ storages'[u][i] = storages[u][i]
               \/ u = t /\ storages'[u][i] = cmd
<1> PICK n : n = Len(storages[t])
  OBVIOUS
<1>1. /\ storages \in [Threads -> Seq(Commands)] /\ nextEntityId \in Nat /\ nextEntityId' \in Nat
      /\ storages[t] \in Seq(Commands)
  BY DEF Recorded, RecordedTypes
<1>2. PICK s2 : s2 = Append(storages[t], cmd)
  OBVIOUS
<1>3. /\ s2 \in Seq(Commands) /\ n \in Nat
      /\ DOMAIN storages[t] = 1..n /\ DOMAIN s2 = 1..(n + 1)
      /\ s2[n + 1] = cmd /\ \A i \in 1..n : s2[i] = storages[t][i]
  BY ONLY <1>1, <1>2, AppendFacts, n = Len(storages[t]), cmd \in Commands
<1>4. /\ storages' \in [Threads -> Seq(Commands)] /\ storages'[t] = s2
      /\ \A u \in Threads : u # t => storages'[u] = storages[u]
  BY <1>1, <1>2, <1>3 DEF Appended
<1>5. ASSUME NEW u \in Threads, NEW i \in DOMAIN storages'[u]
      PROVE  \/ i \in DOMAIN storages[u] /\ storages'[u][i] = storages[u][i]
             \/ u = t /\ i = n + 1 /\ storages'[u][i] = cmd
  BY <1>3, <1>4
<1>6. \A u \in Threads : \A i \in DOMAIN storages[u] :
          storages[u][i].ent.id < nextEntityId /\ storages[u][i].ent.id \in Nat
  BY RecordedFacts DEF Recorded, RecordedBelow
<1>c. cmd.ent.id \in Nat
  BY CommandFacts
<1>7. RecordedBelow'
  <2>1. ASSUME NEW u \in Threads, NEW i \in DOMAIN storages'[u]
        PROVE  storages'[u][i].ent.id < nextEntityId'
    <3>1. CASE i \in DOMAIN storages[u] /\ storages'[u][i] = storages[u][i]
      BY <1>1, <1>6, <3>1
    <3>2. CASE storages'[u][i] = cmd
      BY <3>2
    <3> QED
      BY <1>5, <3>1, <3>2
  <2> QED
    BY <2>1 DEF RecordedBelow
<1>8. CreatedByCreators'
  BY <1>5 DEF CreatedByCreators, Creates, Recorded
<1>9. CreatesApart'
  <2>1. ASSUME NEW u \in Threads, NEW v \in Threads, u # v,
               NEW i \in DOMAIN storages'[u], NEW k \in DOMAIN storages'[v],
               Creates(u, i)', Creates(v, k)'
        PROVE  storages'[u][i].ent.id # storages'[v][k].ent.id
    <3>1. CASE u = t /\ storages'[u][i] = cmd
      <4>1. k \in DOMAIN storages[v] /\ storages'[v][k] = storages[v][k]
        BY <1>5, <2>1, <3>1
      <4>2. storages[v][k].ent.id < cmd.ent.id
        BY <1>6, <2>1, <3>1, <4>1 DEF Creates
      <4> QED
        BY <1>6, <1>c, <3>1, <4>1, <4>2
    <3>2. CASE v = t /\ storages'[v][k] = cmd
      <4>1. i \in DOMAIN storages[u] /\ storages'[u][i] = storages[u][i]
        BY <1>5, <2>1, <3>2
      <4>2. storages[u][i].ent.id < cmd.ent.id
        BY <1>6, <2>1, <3>2, <4>1 DEF Creates
      <4> QED
        BY <1>6, <1>c, <3>2, <4>1, <4>2
    <3>3. CASE /\ i \in DOMAIN storages[u] /\ storages'[u][i] = storages[u][i]
               /\ k \in DOMAIN storages[v] /\ storages'[v][k] = storages[v][k]
      BY <2>1, <3>3 DEF Creates, Recorded, CreatesApart
    <3> QED
      BY <1>5, <3>1, <3>2, <3>3
  <2> QED
    BY <2>1 DEF CreatesApart
<1>10. CreatesFirst'
  <2>1. ASSUME NEW u \in Threads, NEW i \in DOMAIN storages'[u], NEW k \in DOMAIN storages'[u],
               i < k, Creates(u, k)'
        PROVE  storages'[u][i].ent.id < storages'[u][k].ent.id
    <3>1. CASE u = t /\ k = n + 1 /\ storages'[u][k] = cmd
      <4>1. i \in DOMAIN storages[u] /\ storages'[u][i] = storages[u][i]
        BY <1>3, <1>5, <2>1, <3>1
      <4> QED
        BY <1>6, <2>1, <3>1, <4>1 DEF Creates
    <3>2. CASE k \in DOMAIN storages[u] /\ storages'[u][k] = storages[u][k]
      <4>1. i \in DOMAIN storages[u] /\ storages'[u][i] = storages[u][i]
        BY <1>3, <1>5, <2>1, <3>2
      <4> QED
        BY <2>1, <3>2, <4>1 DEF Creates, Recorded, CreatesFirst
    <3> QED
      BY <1>5, <3>1, <3>2
  <2> QED
    BY <2>1 DEF CreatesFirst
<1>11. RecordedTypes'
  BY <1>4 DEF RecordedTypes
<1> QED
  BY <1>5, <1>7, <1>8, <1>9, <1>10, <1>11 DEF Recorded

(* A sequence without its first n elements.                                *)
LEMMA RestFacts ==
  ASSUME NEW S, NEW s \in Seq(S), NEW n \in 1..Len(s), NEW r, r = SubSeq(s, n + 1, Len(s))
  PROVE  /\ r \in Seq(S) /\ Len(r) = Len(s) - n /\ Len(s) \in Nat
         /\ DOMAIN s = 1..Len(s) /\ DOMAIN r = 1..(Len(s) - n)
         /\ \A i \in 1..(Len(s) - n) : r[i] = s[i + n] /\ i + n \in 1..Len(s)
OBVIOUS

(* A pack less, at the front of a storage.                                 *)
Popped(t, n) ==
    storages' = [storages EXCEPT ![t] = SubSeq(storages[t], n + 1, Len(storages[t]))]

(* Taking a pack off the front keeps the order of those left.              *)
LEMMA PopOK ==
  ASSUME Recorded, NEW t \in Threads, NEW n \in 1..Len(storages[t]),
         Popped(t, n),
         nextEntityId' = nextEntityId
  PROVE  /\ Recorded'
         /\ \A u \in Threads : \A i \in DOMAIN storages'[u] : \E j \in DOMAIN storages[u] :
               storages'[u][i] = storages[u][j] /\ (u = t => j > n)
<1> PICK s, l : s = storages[t] /\ l = Len(storages[t])
  OBVIOUS
<1>1. /\ storages \in [Threads -> Seq(Commands)] /\ nextEntityId \in 0..MaxEntities
      /\ s \in Seq(Commands)
  BY DEF Recorded, RecordedTypes
<1>2. PICK r : r = SubSeq(s, n + 1, l)
  OBVIOUS
<1>3. /\ r \in Seq(Commands) /\ l \in Nat /\ n \in Nat /\ n >= 1
      /\ DOMAIN s = 1..l /\ DOMAIN r = 1..(l - n)
      /\ \A i \in 1..(l - n) : r[i] = s[i + n] /\ i + n \in 1..l
  BY <1>1, <1>2, RestFacts
<1>4. /\ storages' \in [Threads -> Seq(Commands)] /\ storages'[t] = r
      /\ \A u \in Threads : u # t => storages'[u] = storages[u]
  BY <1>1, <1>2, <1>3 DEF Popped
<1>d. PICK at : at = [u \in Threads |-> IF u = t THEN n ELSE 0]
  OBVIOUS
<1>5. \A u \in Threads : at[u] = (IF u = t THEN n ELSE 0) /\ at[u] \in Nat
  BY <1>3, <1>d
<1>6. ASSUME NEW u \in Threads, NEW i \in DOMAIN storages'[u]
      PROVE  /\ i \in Nat /\ i >= 1
             /\ i + at[u] \in DOMAIN storages[u] /\ storages'[u][i] = storages[u][i + at[u]]
  <2>1. CASE u = t
    BY <1>3, <1>4, <1>5, <2>1
  <2>2. CASE u # t
    <3>1. at[u] = 0 /\ storages'[u] = storages[u] /\ storages[u] \in Seq(Commands)
      BY <1>1, <1>4, <1>5, <2>2
    <3>2. i \in 1..Len(storages[u]) /\ Len(storages[u]) \in Nat
      BY <3>1
    <3>3. i \in Nat /\ i >= 1 /\ i + at[u] = i
      BY <3>1, <3>2
    <3>4. i \in DOMAIN storages[u] /\ storages'[u][i] = storages[u][i]
      BY <3>1
    <3> QED
      BY <3>3, <3>4
  <2> QED
    BY <2>1, <2>2
<1>7. RecordedTypes' /\ RecordedBelow' /\ CreatedByCreators'
  <2>1. RecordedTypes'
    BY <1>1, <1>4 DEF RecordedTypes
  <2>2. RecordedBelow'
    BY <1>6 DEF RecordedBelow, Recorded
  <2>3. CreatedByCreators'
    BY <1>6 DEF CreatedByCreators, Recorded, Creates
  <2> QED
    BY <2>1, <2>2, <2>3
<1>8. CreatesApart'
  <2>1. ASSUME NEW u \in Threads, NEW v \in Threads, u # v,
               NEW i \in DOMAIN storages'[u], NEW k \in DOMAIN storages'[v],
               Creates(u, i)', Creates(v, k)'
        PROVE  storages'[u][i].ent.id # storages'[v][k].ent.id
    <3>1. PICK j \in DOMAIN storages[u] : storages'[u][i] = storages[u][j]
      BY <1>6
    <3>2. PICK h \in DOMAIN storages[v] : storages'[v][k] = storages[v][h]
      BY <1>6
    <3> QED
      BY <2>1, <3>1, <3>2 DEF Creates, Recorded, CreatesApart
  <2> QED
    BY <2>1 DEF CreatesApart
<1>9. CreatesFirst'
  <2>1. ASSUME NEW u \in Threads, NEW i \in DOMAIN storages'[u], NEW k \in DOMAIN storages'[u],
               i < k, Creates(u, k)'
        PROVE  storages'[u][i].ent.id < storages'[u][k].ent.id
    <3>1. PICK j, h : j = i + at[u] /\ h = k + at[u]
      OBVIOUS
    <3>2. /\ j \in DOMAIN storages[u] /\ storages'[u][i] = storages[u][j]
          /\ h \in DOMAIN storages[u] /\ storages'[u][k] = storages[u][h]
          /\ j < h
      BY <1>5, <1>6, <2>1, <3>1
    <3> QED
      BY <2>1, <3>2 DEF Creates, Recorded, CreatesFirst
  <2> QED
    BY <2>1 DEF CreatesFirst
<1>10. ASSUME NEW u \in Threads, NEW i \in DOMAIN storages'[u]
       PROVE  \E j \in DOMAIN storages[u] : storages'[u][i] = storages[u][j] /\ (u = t => j > n)
  <2>1. PICK j : j = i + at[u]
    OBVIOUS
  <2>2. j \in DOMAIN storages[u] /\ storages'[u][i] = storages[u][j] /\ (u = t => j > n)
    BY <1>3, <1>5, <1>6, <2>1
  <2> QED
    BY <2>2
<1> QED
  BY <1>7, <1>8, <1>9, <1>10 DEF Recorded

(* A recorded create names an entity that does not exist yet.              *)
PendingFresh ==
    \A t \in Threads : \A i \in DOMAIN storages[t] : Creates(t, i) =>
        storages[t][i].ent \in LockedHandles /\ ~Placed(storages[t][i].ent.id)

Empty == \A t \in Threads : storages[t] = <<>>

(* Which commands are there when, and what they may name.                  *)
Phases ==
    /\ ~Empty => storageUsed \/ phase = "unlock"
    /\ storageUsed \/ phase = "unlock" => ~Empty
    /\ storageUsed => lockCounter > 0
    /\ phase # "idle" => lockCounter = 0
    /\ lockCounter > 0 => size <= nextEntityId
    /\ fault # "none" => phase = "unlock"

Control == /\ lockCounter \in 0..MaxLocks /\ storageUsed \in BOOLEAN /\ marked \subseteq Handles
           /\ phase \in {"idle", "unlock", "update"}
           /\ fault \in {"none", "terminate", "outOfBounds"}

IInv == Entities /\ Control /\ Recorded /\ PendingFresh /\ Phases

(* A locked handle stays one if its slot does not change.                  *)
LEMMA StillLocked ==
  ASSUME SlotsInv, NEW p \in LockedHandles, slots'[p.id] = slots[p.id],
         size' \in Nat, size' >= size
  PROVE  p \in LockedHandles'
<1>1. p \in Handles /\ p.ver = 0 /\ p.id \in Ids /\ (p.id >= size \/ Gap(p.id)) /\ size \in Nat
  BY DEF LockedHandles, Handles, SlotsInv, SlotsTypeOK
<1>2. slots[p.id] = NullHandle
  BY <1>1 DEF Gap, SlotsInv, TailIsNull
<1>3. p.id >= size' \/ Gap(p.id)'
  BY <1>1, <1>2 DEF Gap, Ids
<1> QED
  BY <1>1, <1>3 DEF LockedHandles

(* Empty storages have nothing pending.                                    *)
LEMMA EmptyFresh ==
  ASSUME RecordedTypes, Empty
  PROVE  Recorded /\ PendingFresh
<1>1. \A t \in Threads : DOMAIN storages[t] = {}
  BY DEF Empty
<1> QED
  BY <1>1 DEF Recorded, RecordedBelow, CreatedByCreators, CreatesApart, CreatesFirst, PendingFresh

(* The initial states satisfy the invariant.                               *)
LEMMA InitInv == Init => IInv
<1> SUFFICES ASSUME Init PROVE IInv
  OBVIOUS
<1>1. SlotsInv /\ size = 0
  BY InitOK DEF Init, SlotsInit
<1>2. Table(Data) /\ \A m \in Masks : rows[m] = <<>>
  BY EmptyTable DEF Init, TableInit
<1>3. Entities
  BY <1>1, <1>2, EmptyOK
<1>4. RecordedTypes /\ Empty
  BY BoundsAssumption DEF Init, RecordedTypes, Empty
<1>5. Recorded /\ PendingFresh
  BY <1>4, EmptyFresh
<1>6. Control
  <2>1. MaxLocks \in Nat
    BY ManagerAssumption
  <2>2. lockCounter = 0 /\ 0 \in 0..MaxLocks
    BY <2>1 DEF Init
  <2> QED
    BY <2>2 DEF Init, Control
<1>7. Phases
  BY <1>1, <1>4 DEF Init, Phases
<1> QED
  BY <1>3, <1>5, <1>6, <1>7 DEF IInv

(* Steps taken while nothing is recorded.                                  *)
LEMMA QuietStep ==
  ASSUME IInv, Entities', UNCHANGED lockVars, lockCounter = 0,
         phase \in {"idle", "update"}, phase' \in {"idle", "update"},
         fault = "none", fault' = fault, marked' \subseteq Handles
  PROVE  IInv'
<1>1. Empty
  BY DEF IInv, Phases
<1>2. /\ lockCounter' = lockCounter /\ nextEntityId' = nextEntityId /\ storages' = storages
      /\ storageUsed' = storageUsed
  BY DEF lockVars
<1>3. RecordedTypes' /\ Empty'
  BY <1>1, <1>2 DEF RecordedTypes, Empty, IInv, Recorded
<1>4. \A t \in Threads : DOMAIN storages'[t] = {}
  BY <1>3 DEF Empty
<1>5. Recorded' /\ PendingFresh'
  BY <1>3, <1>4 DEF Recorded, RecordedBelow, CreatedByCreators, CreatesApart, CreatesFirst, PendingFresh
<1>6. Control'
  BY <1>2 DEF IInv, Control
<1>7. Phases'
  BY <1>2, <1>3 DEF IInv, Phases
<1> QED
  BY <1>5, <1>6, <1>7 DEF IInv

-----------------------------------------------------------------------------
(* The immediate operations.                                               *)
LEMMA EntityData ==
  ASSUME Entities, NEW e \in Handles, Placed(e.id)
  PROVE  /\ MaskOf(e) \in Masks /\ Closed(MaskOf(e))
         /\ DataOf(e) \in [MaskOf(e) -> Values \cup {Raw}]
<1> PICK m, k : m = place[e.id].arch /\ k = place[e.id].index
  OBVIOUS
<1>1. m \in Masks /\ k \in DOMAIN rows[m] /\ rows[m][k] \in Rows(Data)
  <2>1. e.id \in Ids /\ Table(Data)
    BY DEF Handles, Entities
  <2>2. m \in Masks /\ k \in 1..Len(rows[m]) /\ rows[m][k] \in Rows(Data)
    BY <2>1, PlacedRow DEF RowOf
  <2> QED
    BY <2>2, EntitiesFacts
<1>2. rows[m] # <<>>
  BY <1>1
<1>3. Closed(m)
  BY <1>1, <1>2 DEF Entities, MasksClosed
<1>4. DOMAIN rows[m][k].data = m
  BY <1>1 DEF Entities, RowsComplete
<1>5. PICK n \in Masks : rows[m][k].data \in [n -> Values \cup {Raw}]
  BY <1>1 DEF Rows, Data
<1>6. n = m
  BY <1>4, <1>5
<1> QED
  BY <1>1, <1>3, <1>5, <1>6 DEF MaskOf, DataOf, RowOf

(* Outside of locks the manager is idle.                                   *)
LEMMA UnlockedFacts ==
  ASSUME IInv, Unlocked
  PROVE  /\ lockCounter = 0 /\ phase = "idle" /\ fault = "none" /\ Entities
         /\ marked \subseteq Handles
BY DEF IInv, Unlocked, Idle, Control

(* create() keeps the invariant.                                           *)
LEMMA CreateOK ==
  ASSUME IInv, NEW m0 \in Masks, NEW vals \in [m0 -> Values], Create(vals)
  PROVE  IInv' /\ \E m \in Masks, d \in Data : Created(m, d)
<1> PICK m, d : /\ m = Closure(DOMAIN vals)
                /\ d = [c \in m |-> IF c \in DOMAIN vals THEN vals[c] ELSE Default]
  OBVIOUS
<1>1. DOMAIN vals = m0 /\ m \in Masks /\ Closed(m)
  BY ClosureFacts
<1>2. d \in [m -> Values \cup {Raw}]
  BY <1>1 DEF Values
<1>3. d \in Data /\ DOMAIN d = m
  BY <1>1, <1>2, DataIn
<1>4. Created(m, d) /\ UNCHANGED <<lockVars, marked, phase, fault>>
  BY <1>1, <1>3 DEF Create, Created
<1>5. lockCounter = 0 /\ phase = "idle" /\ fault = "none" /\ Entities /\ marked \subseteq Handles
  BY UnlockedFacts DEF Create
<1>6. Entities'
  BY <1>1, <1>3, <1>4, <1>5, CreatedOK
<1> QED
  BY <1>1, <1>3, <1>4, <1>5, <1>6, QuietStep

(* assign() of an unlocked manager keeps the invariant.                    *)
LEMMA AssignOK ==
  ASSUME IInv, NEW e \in Handles, NEW c \in Components, NEW v \in Assigned, Assign(e, c, v)
  PROVE  IInv' /\ \E m \in Masks, d \in Data : Moved(e, m, d)
<1> PICK m, d : /\ m = Closure(MaskOf(e) \cup {c})
                /\ d = [x \in m |-> IF x = c THEN v
                                    ELSE IF x \in MaskOf(e) THEN DataOf(e)[x] ELSE Default]
  OBVIOUS
<1>1. /\ Unlocked /\ Alive(e) /\ MoveRow(e, m, d)
      /\ UNCHANGED slotVars /\ UNCHANGED <<lockVars, marked, phase, fault>>
  BY DEF Assign
<1>2. lockCounter = 0 /\ phase = "idle" /\ fault = "none" /\ Entities /\ marked \subseteq Handles
  BY <1>1, UnlockedFacts
<1>3. MaskOf(e) \in Masks /\ DataOf(e) \in [MaskOf(e) -> Values \cup {Raw}]
  BY <1>1, <1>2, EntityData DEF Alive
<1>4. m \in Masks /\ Closed(m)
  <2>1. PICK n : n = MaskOf(e) \cup {c}
    OBVIOUS
  <2>2. n \in Masks
    BY <1>3, <2>1 DEF Masks
  <2>3. Closure(n) \in Masks /\ Closed(Closure(n))
    BY <2>2, ClosureFacts
  <2> QED
    BY <2>1, <2>3
<1>5. d \in [m -> Values \cup {Raw}]
  BY <1>3 DEF Values
<1>6. d \in Data /\ DOMAIN d = m
  BY <1>4, <1>5, DataIn
<1>7. Moved(e, m, d)
  BY <1>1, <1>4, <1>6 DEF Moved
<1>8. Entities'
  BY <1>2, <1>4, <1>6, <1>7, MovedOK
<1> QED
  BY <1>1, <1>2, <1>4, <1>6, <1>7, <1>8, QuietStep

(* removeComponent() of an unlocked manager keeps the invariant.           *)
LEMMA RemoveComponentOK ==
  ASSUME IInv, NEW e \in Handles, NEW c \in Components, RemoveComponent(e, c)
  PROVE  IInv' /\ \E m \in Masks, d \in Data : Moved(e, m, d)
<1> PICK m, d : /\ m = Closure(MaskOf(e) \ {c})
                /\ d = [x \in m |-> DataOf(e)[x]]
  OBVIOUS
<1>1. /\ Unlocked /\ Alive(e) /\ MoveRow(e, m, d)
      /\ UNCHANGED slotVars /\ UNCHANGED <<lockVars, marked, phase, fault>>
  BY DEF RemoveComponent
<1>2. lockCounter = 0 /\ phase = "idle" /\ fault = "none" /\ Entities /\ marked \subseteq Handles
  BY <1>1, UnlockedFacts
<1>3. MaskOf(e) \in Masks /\ DataOf(e) \in [MaskOf(e) -> Values \cup {Raw}] /\ Closed(MaskOf(e))
  BY <1>1, <1>2, EntityData DEF Alive
<1>4. m \in Masks /\ Closed(m) /\ m \subseteq MaskOf(e)
  <2>1. PICK n : n = MaskOf(e) \ {c}
    OBVIOUS
  <2>2. n \in Masks /\ n \subseteq MaskOf(e)
    BY <1>3, <2>1 DEF Masks
  <2>3. Closure(n) \in Masks /\ Closed(Closure(n)) /\ Closure(n) \subseteq MaskOf(e)
    BY <1>3, <2>2, ClosureFacts
  <2> QED
    BY <2>1, <2>3
<1>5. d \in [m -> Values \cup {Raw}]
  BY <1>3, <1>4
<1>6. d \in Data /\ DOMAIN d = m
  BY <1>4, <1>5, DataIn
<1>7. Moved(e, m, d)
  BY <1>1, <1>4, <1>6 DEF Moved
<1>8. Entities'
  BY <1>2, <1>4, <1>6, <1>7, MovedOK
<1> QED
  BY <1>1, <1>2, <1>4, <1>6, <1>7, <1>8, QuietStep

(* A step that changes no slot, row or place keeps the entities in order.  *)
LEMMA SameEntities ==
  ASSUME Entities, UNCHANGED <<slotVars, tableVars>>
  PROVE  Entities'
<1>1. /\ size' = size /\ slots' = slots /\ nextSlot' = nextSlot /\ emptySlots' = emptySlots
      /\ rows' = rows /\ place' = place
  BY DEF slotVars, tableVars
<1>2. SlotsInv'
  BY <1>1 DEF Entities, SlotsInv, SlotsTypeOK, TailIsNull, FreeListInv, IsFreeList, Free, Used, Gap
<1>3. Table(Data)'
  BY <1>1 DEF Entities, Table, PlacesAgree, Placed, RowOf
<1> QED
  BY <1>1, <1>2, <1>3 DEF Entities, RowsComplete, MasksClosed, RowSlots, UsedPlaced, Used, Placed

(* destroy() only marks.                                                   *)
LEMMA DestroyOK ==
  ASSUME IInv, NEW e \in Handles, Destroy(e)
  PROVE  IInv' /\ UNCHANGED <<slotVars, tableVars>>
<1>1. Unlocked /\ marked' = marked \cup {e} /\ UNCHANGED <<slotVars, tableVars>>
      /\ UNCHANGED <<lockVars, phase, fault>>
  BY DEF Destroy
<1>2. lockCounter = 0 /\ phase = "idle" /\ fault = "none" /\ Entities /\ marked \subseteq Handles
  BY <1>1, UnlockedFacts
<1>3. Entities'
  BY <1>1, <1>2, SameEntities
<1> QED
  BY <1>1, <1>2, <1>3, QuietStep

(* destroyNow() removes a live entity at once.                             *)
LEMMA DestroyNowOK ==
  ASSUME IInv, NEW e \in Handles, DestroyNow(e)
  PROVE  IInv' /\ Destroyed(e)
<1>1. /\ Unlocked /\ Destroyed(e) /\ UNCHANGED <<lockVars, marked, phase, fault>>
  BY DEF DestroyNow, Destroyed
<1>2. lockCounter = 0 /\ phase = "idle" /\ fault = "none" /\ Entities /\ marked \subseteq Handles
  BY <1>1, UnlockedFacts
<1>3. Entities'
  BY <1>1, <1>2, DestroyedOK
<1> QED
  BY <1>1, <1>2, <1>3, QuietStep

(* update() begins and ends without a change of the entities.              *)
LEMMA UpdatePhases ==
  ASSUME IInv, BeginUpdate \/ EndUpdate
  PROVE  IInv' /\ UNCHANGED <<slotVars, tableVars>>
<1>1. /\ phase \in {"idle", "update"} /\ phase' \in {"idle", "update"} /\ fault = "none"
      /\ UNCHANGED <<slotVars, tableVars>> /\ UNCHANGED <<lockVars, marked, fault>>
  BY DEF BeginUpdate, EndUpdate, Unlocked, Idle
<1>2. lockCounter = 0
  BY DEF BeginUpdate, EndUpdate, Unlocked, Idle, IInv, Phases
<1>3. Entities'
  BY <1>1, SameEntities DEF IInv
<1>4. marked' \subseteq Handles
  BY <1>1 DEF IInv, Control
<1> QED
  BY <1>1, <1>2, <1>3, <1>4, QuietStep

(* update() destroys a marked entity, or skips a dead one.                 *)
LEMMA DestroyMarkedOK ==
  ASSUME IInv, DestroyMarked
  PROVE  IInv' /\ (UNCHANGED <<slotVars, tableVars>> \/ \E e \in Handles : Destroyed(e))
<1>1. /\ phase = "update" /\ fault = "none" /\ UNCHANGED <<lockVars, phase, fault>>
      /\ Entities /\ lockCounter = 0 /\ marked \subseteq Handles
  BY DEF DestroyMarked, IInv, Phases, Control
<1>2. PICK e \in marked : /\ marked' = marked \ {e}
                          /\ \/ Alive(e) /\ RemoveRow(e) /\ Release(e)
                             \/ ~Alive(e) /\ UNCHANGED <<slotVars, tableVars>>
  BY DEF DestroyMarked
<1>3. CASE Alive(e) /\ RemoveRow(e) /\ Release(e)
  <2>1. Destroyed(e) /\ e \in Handles
    BY <1>1, <1>3 DEF Destroyed
  <2>2. Entities'
    BY <1>1, <2>1, DestroyedOK
  <2> QED
    BY <1>1, <1>2, <2>1, <2>2, QuietStep
<1>4. CASE UNCHANGED <<slotVars, tableVars>>
  <2>1. Entities'
    BY <1>1, <1>4, SameEntities
  <2> QED
    BY <1>1, <1>2, <1>4, <2>1, QuietStep
<1> QED
  BY <1>2, <1>3, <1>4

(* clear() keeps the invariant.                                            *)
LEMMA ClearOK ==
  ASSUME IInv, Clear
  PROVE  IInv' /\ ClearedAll
<1>1. /\ Idle /\ ClearedAll /\ size' = 0
      /\ lockCounter' = lockCounter /\ nextEntityId' = nextEntityId /\ storages' = storages
      /\ storageUsed' = storageUsed /\ marked' = marked /\ phase' = phase /\ fault' = fault
  BY DEF Clear, ClearedAll, ClearSlots, lockVars
<1>2. Entities' /\ \A id \in Ids : ~Placed(id)'
  BY <1>1, ClearedAllOK
<1>3. Recorded'
  BY <1>1 DEF IInv, Recorded, RecordedTypes, RecordedBelow, CreatedByCreators, CreatesApart,
              CreatesFirst, Creates
<1>4. PendingFresh'
  <2>1. ASSUME NEW t \in Threads, NEW i \in DOMAIN storages[t], Creates(t, i)
        PROVE  /\ (storages[t][i].ent \in LockedHandles)'
               /\ ~Placed(storages[t][i].ent.id)'
    <3>1. PICK p : p = storages[t][i].ent
      OBVIOUS
    <3>2. p \in LockedHandles /\ p.id \in Ids
      BY <2>1, <3>1, RecordedFacts DEF IInv, Recorded, PendingFresh
    <3>3. p \in LockedHandles'
      BY <1>1, <3>2 DEF LockedHandles, Ids
    <3> QED
      BY <1>1, <1>2, <3>1, <3>2, <3>3
  <2> QED
    BY <1>1, <2>1 DEF PendingFresh, Creates
<1>5. Control'
  BY <1>1 DEF IInv, Control
<1>6. Phases'
  <2>1. nextEntityId \in Nat
    BY DEF IInv, Recorded, RecordedTypes
  <2> QED
    BY <1>1, <2>1 DEF IInv, Phases, Empty
<1> QED
  BY <1>1, <1>2, <1>3, <1>4, <1>5, <1>6 DEF IInv

(* Clearing an archetype keeps the invariant.                              *)
LEMMA ClearArchetypeOK ==
  ASSUME IInv, NEW m \in Masks, ClearArchetype(m)
  PROVE  IInv' /\ ClearedOne(m)
<1>1. /\ Idle /\ ClearedOne(m)
      /\ lockCounter' = lockCounter /\ nextEntityId' = nextEntityId /\ storages' = storages
      /\ storageUsed' = storageUsed /\ marked' = marked /\ phase' = phase /\ fault' = fault
  BY DEF ClearArchetype, ClearedOne, lockVars
<1>2. /\ Entities' /\ size' = size
      /\ \A id \in Ids : Placed(id)' => Placed(id)
      /\ \A id \in Ids : ~Placed(id) => slots'[id] = slots[id]
  BY <1>1, ClearedOneOK DEF IInv
<1>3. Recorded'
  BY <1>1 DEF IInv, Recorded, RecordedTypes, RecordedBelow, CreatedByCreators, CreatesApart,
              CreatesFirst, Creates
<1>4. PendingFresh'
  <2>1. ASSUME NEW t \in Threads, NEW i \in DOMAIN storages[t], Creates(t, i)
        PROVE  /\ (storages[t][i].ent \in LockedHandles)'
               /\ ~Placed(storages[t][i].ent.id)'
    <3>1. PICK p : p = storages[t][i].ent
      OBVIOUS
    <3>2. p \in LockedHandles /\ p.id \in Ids /\ ~Placed(p.id)
      BY <2>1, <3>1, RecordedFacts DEF IInv, Recorded, PendingFresh
    <3>3. size \in Nat /\ SlotsInv
      BY EntitiesFacts DEF IInv, Entities
    <3>4. size' \in Nat /\ size' >= size
      BY <1>2, <3>3
    <3>5. p \in LockedHandles'
      BY <1>2, <3>2, <3>3, <3>4, StillLocked
    <3> QED
      BY <1>1, <1>2, <3>1, <3>2, <3>5
  <2> QED
    BY <1>1, <2>1 DEF PendingFresh, Creates
<1>5. Control'
  BY <1>1 DEF IInv, Control
<1>6. Phases'
  BY <1>1, <1>2 DEF IInv, Phases, Empty
<1> QED
  BY <1>1, <1>2, <1>3, <1>4, <1>5, <1>6 DEF IInv

-----------------------------------------------------------------------------
(* Locking and recording.                                                  *)
LEMMA SameFresh ==
  ASSUME PendingFresh, UNCHANGED <<slotVars, tableVars, storages>>
  PROVE  PendingFresh'
BY DEF PendingFresh, Creates, LockedHandles, Gap, Placed, slotVars, tableVars

(* lock() keeps the invariant: the first one puts nextEntityId at the end  *)
(* of the slots, so that every id handed out later is unused.              *)
LEMMA LockOK ==
  ASSUME IInv, Lock
  PROVE  IInv' /\ UNCHANGED <<slotVars, tableVars>>
<1>1. /\ Idle /\ lockCounter < MaxLocks /\ lockCounter' = lockCounter + 1
      /\ nextEntityId' = (IF lockCounter = 0 THEN size ELSE nextEntityId)
      /\ UNCHANGED <<slotVars, tableVars, storages>> /\ size' = size
      /\ storages' = storages /\ storageUsed' = storageUsed /\ marked' = marked
      /\ phase' = phase /\ fault' = fault
  BY DEF Lock, slotVars
<1>2. /\ Entities' /\ PendingFresh'
  BY <1>1, SameEntities, SameFresh DEF IInv
<1>3. size \in 0..MaxEntities /\ lockCounter \in 0..MaxLocks /\ MaxLocks \in Nat
  <2>1. MaxLocks \in Nat
    BY ManagerAssumption
  <2> QED
    BY <2>1, EntitiesFacts DEF IInv, Control
<1>4. Recorded'
  <2>1. CASE lockCounter = 0
    <3>1. Empty
      BY <1>1, <2>1 DEF IInv, Phases, Idle
    <3>2. \A t \in Threads : DOMAIN storages'[t] = {}
      BY <1>1, <3>1 DEF Empty
    <3>3. RecordedTypes'
      BY <1>1, <1>3, <2>1 DEF IInv, Recorded, RecordedTypes
    <3> QED
      BY <3>2, <3>3 DEF Recorded, RecordedBelow, CreatedByCreators, CreatesApart, CreatesFirst
  <2>2. CASE lockCounter # 0
    <3>1. nextEntityId' = nextEntityId /\ storages' = storages
      BY <1>1, <2>2
    <3> QED
      BY <3>1 DEF IInv, Recorded, RecordedTypes, RecordedBelow, CreatedByCreators, CreatesApart,
              CreatesFirst, Creates
  <2> QED
    BY <2>1, <2>2
<1>5. Control'
  <2>1. lockCounter' \in 0..MaxLocks
    BY <1>1, <1>3
  <2> QED
    BY <1>1, <2>1 DEF IInv, Control
<1>6. Phases'
  BY <1>1, <1>3 DEF IInv, Phases, Empty, Idle
<1> QED
  BY <1>1, <1>2, <1>4, <1>5, <1>6 DEF IInv

(* unlock() keeps the invariant: the last one starts applying.             *)
LEMMA UnlockOK ==
  ASSUME IInv, Unlock
  PROVE  IInv' /\ UNCHANGED <<slotVars, tableVars>>
<1>1. /\ Idle /\ lockCounter > 0 /\ lockCounter' = lockCounter - 1
      /\ IF lockCounter = 1 /\ storageUsed
         THEN phase' = "unlock" /\ storageUsed' = FALSE
         ELSE phase' = phase /\ storageUsed' = storageUsed
      /\ UNCHANGED <<slotVars, tableVars, storages>> /\ size' = size
      /\ storages' = storages /\ nextEntityId' = nextEntityId /\ marked' = marked
      /\ fault' = fault
  BY DEF Unlock, Locked, slotVars
<1>2. /\ Entities' /\ PendingFresh'
  BY <1>1, SameEntities, SameFresh DEF IInv
<1>3. lockCounter \in 0..MaxLocks /\ MaxLocks \in Nat
  BY ManagerAssumption DEF IInv, Control
<1>4. Recorded'
  BY <1>1 DEF IInv, Recorded, RecordedTypes, RecordedBelow, CreatedByCreators, CreatesApart,
              CreatesFirst, Creates
<1>5. Control'
  <2>1. lockCounter' \in 0..MaxLocks
    BY <1>1, <1>3
  <2> QED
    BY <1>1, <2>1 DEF IInv, Control
<1>6. Phases'
  BY <1>1, <1>3 DEF IInv, Phases, Empty, Idle
<1> QED
  BY <1>1, <1>2, <1>4, <1>5, <1>6 DEF IInv

(* Creates are recorded for new ids only.                                  *)
FreshCreates ==
    \A u \in Threads : \A i \in DOMAIN storages'[u] : storages'[u][i].op = "create" =>
        \/ \E j \in DOMAIN storages[u] : storages'[u][i] = storages[u][j]
        \/ storages'[u][i].ent.id >= size

(* Unchanged storages hold no new create.                                  *)
LEMMA SameCreates == ASSUME storages' = storages PROVE FreshCreates
BY DEF FreshCreates

(* Recording keeps the invariant if a create takes the next id.            *)
LEMMA RecordOK ==
  ASSUME IInv, NEW t \in Threads, NEW cmd \in Commands, Record(t, cmd),
         nextEntityId' \in 0..MaxEntities, nextEntityId' >= nextEntityId,
         cmd.ent.id < nextEntityId',
         cmd.op = "create" => /\ t \in Creators /\ cmd.ent.id = nextEntityId
                              /\ cmd.ent \in LockedHandles /\ ~Placed(cmd.ent.id)
  PROVE  IInv' /\ UNCHANGED <<slotVars, tableVars>> /\ FreshCreates
<1>1. /\ Idle /\ lockCounter > 0
      /\ Appended(t, cmd)
      /\ storageUsed' = TRUE
      /\ UNCHANGED <<slotVars, tableVars>> /\ size' = size /\ slots' = slots /\ place' = place
      /\ lockCounter' = lockCounter /\ marked' = marked /\ phase' = phase /\ fault' = fault
  BY DEF Record, Appended, Locked, slotVars, tableVars
<1>2. Entities'
  BY <1>1, SameEntities DEF IInv
<1>3. /\ Recorded'
      /\ \A u \in Threads : \A i \in DOMAIN storages'[u] :
            \/ i \in DOMAIN storages[u] /\ storages'[u][i] = storages[u][i]
            \/ u = t /\ storages'[u][i] = cmd
  BY <1>1, AppendOK DEF IInv
<1>4. PendingFresh'
  <2>1. LockedHandles' = LockedHandles /\ \A id : Placed(id)' <=> Placed(id)
    BY <1>1 DEF LockedHandles, Gap, Placed
  <2>2. ASSUME NEW u \in Threads, NEW i \in DOMAIN storages'[u], Creates(u, i)'
        PROVE  storages'[u][i].ent \in LockedHandles /\ ~Placed(storages'[u][i].ent.id)
    <3>1. CASE i \in DOMAIN storages[u] /\ storages'[u][i] = storages[u][i]
      BY <2>2, <3>1 DEF Creates, IInv, PendingFresh
    <3>2. CASE u = t /\ storages'[u][i] = cmd
      BY <2>2, <3>2 DEF Creates
    <3> QED
      BY <1>3, <3>1, <3>2
  <2> QED
    BY <2>1, <2>2 DEF PendingFresh
<1>5. Control'
  BY <1>1 DEF IInv, Control
<1>6. Phases'
  <2>1. storages[t] \in Seq(Commands) /\ storages \in [Threads -> Seq(Commands)]
    BY DEF IInv, Recorded, RecordedTypes
  <2>2. storages'[t] # <<>>
    <3>1. storages'[t] = Append(storages[t], cmd)
      BY <1>1, <2>1 DEF Appended
    <3> QED
      BY <2>1, <3>1
  <2>3. ~Empty'
    BY <2>2 DEF Empty
  <2>4. size' <= nextEntityId'
    <3>1. size <= nextEntityId /\ size \in Nat /\ nextEntityId \in Nat /\ nextEntityId' \in Nat
      BY <1>1, EntitiesFacts DEF IInv, Phases, Recorded, RecordedTypes
    <3> QED
      BY <1>1, <3>1
  <2> QED
    BY <1>1, <2>3, <2>4 DEF IInv, Phases, Idle
<1>7. FreshCreates
  <2>1. cmd.op = "create" => cmd.ent.id >= size
    BY <1>1 DEF IInv, Phases
  <2> QED
    BY <1>3, <2>1 DEF FreshCreates
<1> QED
  BY <1>1, <1>2, <1>3, <1>4, <1>5, <1>6, <1>7 DEF IInv

(* A handle a caller knows under lock has an id below nextEntityId.        *)
LEMMA KnownFacts ==
  ASSUME IInv, lockCounter > 0, NEW e \in Known
  PROVE  e \in Handles /\ e.id < nextEntityId
<1>1. /\ size <= nextEntityId /\ size \in Nat /\ nextEntityId \in Nat
  BY EntitiesFacts DEF IInv, Phases, Recorded, RecordedTypes
<1>2. CASE e \in Handles /\ Issued(e)
  <2>1. e.id < size /\ e.id \in Nat
    BY <1>2 DEF Issued, Handles, Ids
  <2> QED
    BY <1>1, <1>2, <2>1
<1>3. CASE e \in Pending
  <2>1. \E t \in Threads : \E i \in DOMAIN storages[t] : storages[t][i].ent = e
    BY <1>3 DEF Pending
  <2>2. PICK t \in Threads : \E i \in DOMAIN storages[t] : storages[t][i].ent = e
    BY <2>1
  <2>3. PICK i \in DOMAIN storages[t] : storages[t][i].ent = e
    BY <2>2
  <2>4. e \in Handles
    BY <1>3 DEF Pending
  <2> QED
    BY <2>3, <2>4 DEF IInv, Recorded, RecordedBelow
<1> QED
  BY <1>2, <1>3 DEF Known

(* create() under lock keeps the invariant.                                *)
LEMMA CreateLockedOK ==
  ASSUME IInv, NEW t \in Threads, NEW m \in Masks, CreateLocked(t, m)
  PROVE  IInv' /\ UNCHANGED <<slotVars, tableVars>> /\ FreshCreates
<1> PICK id, e, cmd : /\ id = nextEntityId
                      /\ e = [id |-> id, ver |-> IF id < size THEN slots[id].ver + 1 ELSE 0]
                      /\ cmd = [op |-> "create", ent |-> e, mask |-> m]
  OBVIOUS
<1>1. /\ t \in Creators /\ id < MaxEntities /\ e \in Handles /\ Record(t, cmd)
      /\ nextEntityId' = id + 1
  BY DEF CreateLocked
<1>2. lockCounter > 0
  BY <1>1 DEF Record, Locked
<1>3. size <= id /\ size \in Nat /\ id \in Nat /\ id \in 0..MaxEntities
  BY <1>2, EntitiesFacts DEF IInv, Phases, Recorded, RecordedTypes
<1>4. e.id = id /\ e.ver = 0
  BY <1>3
<1>5. id \in Ids
  BY <1>1, <1>3, BoundsAssumption DEF Ids
<1>6. e \in LockedHandles
  BY <1>1, <1>3, <1>4 DEF LockedHandles
<1>7. ~Placed(id)
  <2>1. ~(id < size)
    BY <1>3
  <2> QED
    BY <1>5, <2>1, EntitiesFacts DEF IInv
<1>8. cmd \in Commands /\ cmd.ent = e
  BY <1>1 DEF Commands
<1>9. nextEntityId' \in 0..MaxEntities /\ nextEntityId' >= nextEntityId
  BY <1>1, <1>3, BoundsAssumption
<1>10. cmd.ent.id < nextEntityId'
  BY <1>1, <1>3, <1>4, <1>8
<1> QED
  BY <1>1, <1>4, <1>6, <1>7, <1>8, <1>9, <1>10, RecordOK

(* Recording anything but a create for a known handle keeps it.            *)
LEMMA RecordKnown ==
  ASSUME IInv, NEW t \in Threads, NEW cmd \in Commands, cmd.ent \in Known, cmd.op # "create",
         Record(t, cmd), UNCHANGED nextEntityId
  PROVE  IInv' /\ UNCHANGED <<slotVars, tableVars>> /\ FreshCreates
<1>1. lockCounter > 0
  BY DEF Record, Locked
<1>2. cmd.ent.id < nextEntityId'
  BY <1>1, KnownFacts
<1>3. nextEntityId' \in 0..MaxEntities /\ nextEntityId' >= nextEntityId
  BY DEF IInv, Recorded, RecordedTypes
<1> QED
  BY <1>2, <1>3, RecordOK

(* A call for a known handle keeps the invariant, whether it is recorded   *)
(* or done at once.                                                        *)
LEMMA UseOK ==
  ASSUME IInv, NEW e \in Known, Use(e)
  PROVE  /\ IInv' /\ FreshCreates
         /\ \/ UNCHANGED <<slotVars, tableVars>>
            \/ Destroyed(e)
            \/ \E m \in Masks, d \in Data : Moved(e, m, d)
<1>1. e \in Handles
  BY DEF Known, Pending
<1>2. CASE Destroy(e)
  <2>1. storages' = storages
    BY <1>2 DEF Destroy, lockVars
  <2> QED
    BY <1>1, <1>2, <2>1, DestroyOK, SameCreates
<1>3. CASE DestroyNow(e)
  <2>1. storages' = storages
    BY <1>3 DEF DestroyNow, lockVars
  <2> QED
    BY <1>1, <1>3, <2>1, DestroyNowOK, SameCreates
<1>4. CASE \E c \in Components : RemoveComponent(e, c)
  <2>1. storages' = storages
    BY <1>4 DEF RemoveComponent, lockVars
  <2> QED
    BY <1>1, <1>4, <2>1, RemoveComponentOK, SameCreates
<1>5. CASE \E c \in Components : \E v \in Assigned : Assign(e, c, v)
  <2>1. storages' = storages
    BY <1>5 DEF Assign, lockVars
  <2> QED
    BY <1>1, <1>5, <2>1, AssignOK, SameCreates
<1>6. CASE \E t \in Threads : RecordDestroy(t, e)
  <2>1. PICK t \in Threads, op \in {"destroy", "destroyNow"} :
            Record(t, [op |-> op, ent |-> e]) /\ UNCHANGED nextEntityId
    BY <1>6 DEF RecordDestroy
  <2>2. PICK cmd : cmd = [op |-> op, ent |-> e]
    OBVIOUS
  <2>3. cmd \in Commands /\ cmd.ent = e /\ cmd.op # "create"
    BY <1>1, <2>2 DEF Commands
  <2> QED
    BY <2>1, <2>2, <2>3, RecordKnown
<1>7. CASE \E t \in Threads : \E c \in Components : RecordRemove(t, e, c)
  <2>1. PICK t \in Threads, c \in Components :
            Record(t, [op |-> "remove", ent |-> e, comp |-> c]) /\ UNCHANGED nextEntityId
    BY <1>7 DEF RecordRemove
  <2>2. PICK cmd : cmd = [op |-> "remove", ent |-> e, comp |-> c]
    OBVIOUS
  <2>3. cmd \in Commands /\ cmd.ent = e /\ cmd.op # "create"
    BY <1>1, <2>2 DEF Commands
  <2> QED
    BY <2>1, <2>2, <2>3, RecordKnown
<1>8. CASE \E t \in Threads : \E c \in Components : \E v \in Assigned : RecordAssign(t, e, c, v)
  <2>1. PICK t \in Threads, c \in Components, v \in Assigned :
            Record(t, [op |-> "assign", ent |-> e, comp |-> c, val |-> v]) /\ UNCHANGED nextEntityId
    BY <1>8 DEF RecordAssign
  <2>2. PICK cmd : cmd = [op |-> "assign", ent |-> e, comp |-> c, val |-> v]
    OBVIOUS
  <2>3. cmd \in Commands /\ cmd.ent = e /\ cmd.op # "create"
    BY <1>1, <2>2 DEF Commands, Values
  <2> QED
    BY <2>1, <2>2, <2>3, RecordKnown
<1> QED
  BY <1>2, <1>3, <1>4, <1>5, <1>6, <1>7, <1>8 DEF Use

-----------------------------------------------------------------------------
(* Applying a pack.                                                        *)
LEMMA PrefixFacts ==
  ASSUME NEW S, NEW s \in Seq(S), NEW n \in 1..Len(s), NEW p, p = SubSeq(s, 1, n)
  PROVE  /\ p \in Seq(S) /\ Len(p) = n /\ DOMAIN p = 1..n /\ n \in Nat
         /\ \A i \in 1..n : p[i] = s[i]
         /\ Tail(p) \in Seq(S) /\ Len(Tail(p)) = n - 1 /\ DOMAIN Tail(p) = 1..(n - 1)
         /\ \A i \in 1..(n - 1) : Tail(p)[i] = s[i + 1] /\ i + 1 \in 1..n
<1>1. p \in Seq(S) /\ Len(p) = n /\ DOMAIN p = 1..n /\ n \in Nat /\ \A i \in 1..n : p[i] = s[i]
  OBVIOUS
<1>2. p # <<>>
  BY <1>1
<1>3. /\ Tail(p) \in Seq(S) /\ Len(Tail(p)) = n - 1 /\ DOMAIN Tail(p) = 1..(n - 1)
      /\ \A i \in 1..(n - 1) : Tail(p)[i] = p[i + 1] /\ i + 1 \in 1..n
  BY ONLY <1>1, <1>2
<1> QED
  BY <1>1, <1>3

(* A prefix of a sequence.                                                 *)
LEMMA ShorterFacts ==
  ASSUME NEW S, NEW s \in Seq(S), NEW k \in 0..Len(s), NEW p, p = SubSeq(s, 1, k)
  PROVE  /\ p \in Seq(S) /\ DOMAIN p = 1..Len(p)
         /\ \A i \in DOMAIN p : i \in 1..Len(s) /\ p[i] = s[i]
OBVIOUS

(* A pack's final data has a value, or raw bytes, for every component of   *)
(* the target archetype.                                                   *)
LEMMA FinalDataOK ==
  ASSUME NEW cmds \in Seq(Commands), NEW initial \in Masks, NEW target \in Masks,
         NEW old \in [initial -> Values \cup {Raw}], NEW created
  PROVE  FinalData(created, initial, old, target, cmds) \in [target -> Values \cup {Raw}]
<1>1. ASSUME NEW c, Assigning(cmds, c) # {}
      PROVE  cmds[Latest(Assigning(cmds, c))].val \in Values
  <2>1. Assigning(cmds, c) \subseteq 1..Len(cmds) /\ Len(cmds) \in Nat
    BY DEF Assigning, Touching
  <2>2. Latest(Assigning(cmds, c)) \in Assigning(cmds, c)
    BY <1>1, <2>1, LatestFacts
  <2>3. PICK i : i = Latest(Assigning(cmds, c))
    OBVIOUS
  <2>4. i \in 1..Len(cmds) /\ cmds[i].op = "assign"
    BY <2>1, <2>2, <2>3 DEF Assigning
  <2>5. cmds[i] \in Commands
    BY <2>4
  <2> QED
    BY <2>3, <2>4, <2>5, CommandFacts
<1>2. ASSUME NEW c \in target
      PROVE  (IF Assigning(cmds, c) # {} THEN cmds[Latest(Assigning(cmds, c))].val
              ELSE IF c \in initial THEN old[c]
              ELSE IF created THEN Raw ELSE Default) \in Values \cup {Raw}
  <2>1. CASE Assigning(cmds, c) # {}
    BY <1>1, <2>1
  <2>2. CASE Assigning(cmds, c) = {} /\ c \in initial
    BY <2>2
  <2>3. CASE Assigning(cmds, c) = {} /\ c \notin initial
    BY <2>3 DEF Values
  <2> QED
    BY <2>1, <2>2, <2>3
<1> QED
  BY <1>2 DEF FinalData

(* What applying a pack for e does.                                        *)
PackEffect(t, e) ==
    \/ UNCHANGED <<slotVars, tableVars>>
    \/ Destroyed(e)
    \/ \E m \in Masks, d \in Data : Moved(e, m, d)
    \/ \E d \in Data : Written(e, d)
    \/ Creates(t, 1) /\ Discarded(e)
    \/ Creates(t, 1) /\ \E m \in Masks, d \in Data : Adopted(e, m, d)

PackApplied(t, n, e) ==
    /\ Popped(t, n) /\ marked' \subseteq Handles /\ fault' = fault
    /\ phase' = IF Empty' THEN "idle" ELSE phase
    /\ PackEffect(t, e)

PackFails ==
    /\ UNCHANGED <<slotVars, tableVars, storages, marked, phase>>
    /\ fault' \in {"terminate", "outOfBounds"}
    /\ fault' = "terminate" => \E m \in Masks : Closure(m) # m

(* ApplyPack with its parts named: the pack is the n commands of thread t  *)
(* for e, cmds what follows a create, and no other of them is a create.    *)
Kills(cmds) == {i \in DOMAIN cmds : cmds[i].op = "destroyNow"}
Seen(cmds) == IF Kills(cmds) = {} THEN cmds ELSE SubSeq(cmds, 1, Earliest(Kills(cmds)) - 1)

PackStep(t, n, e, created, cmds, initial, old) ==
    LET final   == FinalMask(initial, cmds)
        target  == Closure(final)
        data    == FinalData(created, initial, old, target, cmds)
        moves   == created \/ initial # final
        throws  == Kills(cmds) = {} /\ ~created /\ moves /\ target = initial
        strays  == Kills(cmds) = {} /\ \E c \in Components \ target : Assigning(cmds, c) # {}
        dropped == ~created /\ ~Alive(e)
    IN  \/ /\ ~dropped /\ (throws \/ strays)
           /\ fault' = IF throws THEN "terminate" ELSE "outOfBounds"
           /\ UNCHANGED <<slotVars, tableVars, storages, marked, phase>>
        \/ /\ Popped(t, n) /\ phase' = IF Empty' THEN "idle" ELSE phase
           /\ marked' = IF ~dropped /\ \E i \in DOMAIN Seen(cmds) : Seen(cmds)[i].op = "destroy"
                        THEN marked \cup {e} ELSE marked
           /\ fault' = fault
           /\ \/ dropped /\ UNCHANGED <<slotVars, tableVars>>
              \/ /\ ~dropped /\ Kills(cmds) # {}
                 /\ Release(e)
                 /\ IF created THEN UNCHANGED tableVars ELSE RemoveRow(e)
              \/ /\ created /\ Kills(cmds) = {}
                 /\ Adopt(e) /\ InsertRow(e, target, data)
              \/ /\ ~dropped /\ ~created /\ Kills(cmds) = {}
                 /\ IF moves THEN MoveRow(e, target, data) ELSE WriteRow(e, data)
                 /\ UNCHANGED slotVars

PackOf(t, n, e, cmds) ==
    /\ \A i \in 1..n : storages[t][i].ent = e
    /\ DOMAIN cmds = 1..Len(cmds) /\ \A i \in 1..Len(cmds) : cmds[i].op # "create"
    /\ IF Creates(t, 1)
       THEN Len(cmds) = n - 1 /\ \A i \in 1..(n - 1) : cmds[i] = storages[t][i + 1]
       ELSE Len(cmds) = n /\ \A i \in 1..n : cmds[i] = storages[t][i]

(* With what there is before the commands.                                 *)
PackParts(t, n, e, cmds, initial, old) ==
    /\ PackOf(t, n, e, cmds)
    /\ initial = IF Creates(t, 1) THEN storages[t][1].mask ELSE MaskOf(e)
    /\ old = IF Creates(t, 1) THEN [c \in initial |-> Default] ELSE DataOf(e)
    /\ PackStep(t, n, e, Creates(t, 1), cmds, initial, old)

(* Before the kill there is a prefix of the commands.                      *)
LEMMA SeenFacts ==
  ASSUME NEW cmds \in Seq(Commands)
  PROVE  /\ Seen(cmds) \in Seq(Commands) /\ DOMAIN Seen(cmds) = 1..Len(Seen(cmds))
         /\ \A i \in DOMAIN Seen(cmds) : i \in 1..Len(cmds) /\ Seen(cmds)[i] = cmds[i]
         /\ Kills(cmds) = {} => Seen(cmds) = cmds
         /\ Kills(cmds) # {} => /\ Earliest(Kills(cmds)) \in Kills(cmds)
                                /\ \A i \in Kills(cmds) : Earliest(Kills(cmds)) <= i
                                /\ DOMAIN Seen(cmds) = 1..(Earliest(Kills(cmds)) - 1)
<1>0. DOMAIN cmds = 1..Len(cmds) /\ Len(cmds) \in Nat
  OBVIOUS
<1>1. CASE Kills(cmds) = {}
  BY <1>0, <1>1 DEF Seen
<1>2. CASE Kills(cmds) # {}
  <2>1. Kills(cmds) \subseteq Nat /\ Kills(cmds) \subseteq 1..Len(cmds)
    BY <1>0 DEF Kills
  <2>2. /\ Earliest(Kills(cmds)) \in Kills(cmds)
        /\ \A i \in Kills(cmds) : Earliest(Kills(cmds)) <= i
    BY <1>2, <2>1, EarliestFacts
  <2>3. PICK x, k, s : x = Earliest(Kills(cmds)) /\ k = x - 1 /\ s = SubSeq(cmds, 1, x - 1)
    OBVIOUS
  <2>4. x \in 1..Len(cmds)
    BY <2>1, <2>2, <2>3
  <2>5. k \in 0..Len(cmds)
    BY <1>0, <2>3, <2>4
  <2>6. Seen(cmds) = s
    BY <1>2, <2>3 DEF Seen
  <2>7. s \in Seq(Commands) /\ DOMAIN s = 1..Len(s) /\ \A i \in DOMAIN s : i \in 1..Len(cmds) /\ s[i] = cmds[i]
    BY <2>3, <2>5, ShorterFacts
  <2>8. Len(s) = x - 1
    BY <1>0, <2>3, <2>4
  <2> QED
    BY <1>2, <2>2, <2>3, <2>6, <2>7, <2>8
<1> QED
  BY <1>1, <1>2

(* Applying a pack is such a step.  Only its first command may be a create:*)
(* a create takes an id nothing recorded before names.                     *)
LEMMA PackDetail ==
  ASSUME IInv, ApplyPack
  PROVE  /\ phase = "unlock" /\ fault = "none"
         /\ UNCHANGED <<lockCounter, nextEntityId, storageUsed>>
         /\ \E t \in Threads : \E n \in 1..Len(storages[t]) : \E e \in Handles :
            \E cmds \in Seq(Commands) : \E initial, old : PackParts(t, n, e, cmds, initial, old)
<1> DEFINE t       == Applying
           pack    == SubSeq(storages[t], 1, PackLength(storages[t]))
           e       == pack[1].ent
           created == pack[1].op = "create"
           cmds    == IF created THEN Tail(pack) ELSE pack
           kills   == {i \in DOMAIN cmds : cmds[i].op = "destroyNow"}
           seen    == IF kills = {} THEN cmds ELSE SubSeq(cmds, 1, Earliest(kills) - 1)
           initial == IF created THEN pack[1].mask ELSE MaskOf(e)
           old     == IF created THEN [c \in initial |-> Default] ELSE DataOf(e)
           final   == FinalMask(initial, cmds)
           target  == Closure(final)
           data    == FinalData(created, initial, old, target, cmds)
           moves   == created \/ initial # final
           throws  == \/ \E i \in DOMAIN seen : seen[i].op = "create"
                      \/ kills = {} /\ ~created /\ moves /\ target = initial
           strays  == kills = {} /\ \E c \in Components \ target : Assigning(cmds, c) # {}
           dropped == ~created /\ ~Alive(e)
           rest    == [storages EXCEPT ![t] = SubSeq(@, Len(pack) + 1, Len(@))]
<1>0. /\ phase = "unlock" /\ fault = "none"
      /\ UNCHANGED <<lockCounter, nextEntityId, storageUsed>>
  BY DEF ApplyPack
<1>1. /\ IF ~dropped /\ (throws \/ strays)
           THEN \* the exception leaves the noexcept unlock(); getData gets a null index
                /\ fault' = IF throws THEN "terminate" ELSE "outOfBounds"
                /\ UNCHANGED <<slotVars, tableVars, storages, marked, phase>>
           ELSE /\ storages' = rest
                /\ phase' = IF \A u \in Threads : rest[u] = <<>> THEN "idle" ELSE phase
                /\ marked' = IF ~dropped /\ \E i \in DOMAIN seen : seen[i].op = "destroy"
                             THEN marked \cup {e} ELSE marked
                /\ UNCHANGED fault
                /\ \/ dropped /\ UNCHANGED <<slotVars, tableVars>>
                   \/ /\ ~dropped /\ kills # {}
                      /\ Release(e)
                      /\ IF created THEN UNCHANGED tableVars ELSE RemoveRow(e)
                   \/ /\ created /\ kills = {}
                      /\ Adopt(e) /\ InsertRow(e, target, data)
                   \/ /\ ~dropped /\ ~created /\ kills = {}
                      /\ IF moves THEN MoveRow(e, target, data) ELSE WriteRow(e, data)
                      /\ UNCHANGED slotVars
  BY Zenon DEF ApplyPack
<1>2. t \in Threads /\ storages[t] \in Seq(Commands) /\ storages[t] # <<>>
  <2>1. {u \in Threads : storages[u] # <<>>} # {}
    BY <1>0 DEF IInv, Phases, Empty
  <2>2. {u \in Threads : storages[u] # <<>>} \subseteq Nat
    BY DEF Threads
  <2>3. t \in {u \in Threads : storages[u] # <<>>}
    BY <2>1, <2>2, EarliestFacts DEF Applying
  <2> QED
    BY <2>3 DEF IInv, Recorded, RecordedTypes
<1> DEFINE n == PackLength(storages[t])
<1>3. /\ n \in 1..Len(storages[t]) /\ n \in Nat /\ 1 \in 1..n
      /\ \A i \in 1..n : storages[t][i].ent = storages[t][1].ent
  BY <1>2, PackFacts
<1>4. /\ pack \in Seq(Commands) /\ Len(pack) = n /\ DOMAIN pack = 1..n
      /\ \A i \in 1..n : pack[i] = storages[t][i]
      /\ Tail(pack) \in Seq(Commands) /\ Len(Tail(pack)) = n - 1 /\ DOMAIN Tail(pack) = 1..(n - 1)
      /\ \A i \in 1..(n - 1) : Tail(pack)[i] = storages[t][i + 1] /\ i + 1 \in 1..n
  BY <1>2, <1>3, PrefixFacts
<1> HIDE DEF t, n, pack
<1>5. /\ e = storages[t][1].ent /\ e \in Handles /\ storages[t][1] \in Commands
      /\ pack[1] = storages[t][1] /\ 1 \in DOMAIN storages[t]
      /\ \A i \in 1..n : storages[t][i].ent = e
      /\ created <=> Creates(t, 1)
  <2>1. 1 \in DOMAIN storages[t] /\ storages[t][1] \in Commands
    BY <1>2, <1>3
  <2> QED
    BY <1>3, <1>4, <2>1, CommandFacts DEF Creates
<1> HIDE DEF e
<1>6. /\ cmds \in Seq(Commands) /\ Len(cmds) \in 0..n /\ DOMAIN cmds = 1..Len(cmds)
      /\ \A i \in 1..Len(cmds) : \E j \in 1..n :
            cmds[i] = storages[t][j] /\ (created => j > 1)
  <2>1. CASE created
    <3>1. cmds = Tail(pack)
      BY <2>1
    <3>2. \A i \in 1..(n - 1) : i + 1 \in 1..n /\ i + 1 > 1 /\ cmds[i] = storages[t][i + 1]
      BY <1>3, <1>4, <3>1
    <3> QED
      BY <1>3, <1>4, <3>1, <3>2
  <2>2. CASE ~created
    BY <1>3, <1>4, <2>2
  <2> QED
    BY <2>1, <2>2
<1> HIDE DEF cmds
<1>7. kills = Kills(cmds) /\ seen = Seen(cmds)
  BY DEF Kills, Seen
<1> HIDE DEF kills, seen
<1>8. \A i \in DOMAIN cmds : cmds[i].op # "create"
  <2> SUFFICES ASSUME NEW i \in DOMAIN cmds, cmds[i].op = "create" PROVE FALSE
    OBVIOUS
  <2>1. PICK j \in 1..n : cmds[i] = storages[t][j] /\ (created => j > 1)
    BY <1>6
  <2>2. Creates(t, j) /\ j \in DOMAIN storages[t]
    BY <1>2, <1>3, <2>1 DEF Creates
  <2>3. CASE j > 1
    <3>1. storages[t][1].ent.id < storages[t][j].ent.id
      BY <1>2, <1>5, <2>2, <2>3 DEF IInv, Recorded, CreatesFirst
    <3>2. storages[t][1].ent = storages[t][j].ent /\ storages[t][1].ent.id \in Nat
      BY <1>5, CommandFacts
    <3> QED
      BY <3>1, <3>2
  <2>4. CASE ~(j > 1)
    <3>1. j = 1 /\ ~created
      BY <2>1, <2>4
    <3> QED
      BY <1>5, <2>2, <3>1
  <2> QED
    BY <2>3, <2>4
<1>9. ~(\E i \in DOMAIN seen : seen[i].op = "create")
  BY <1>6, <1>7, <1>8, SeenFacts
<1>10. PackOf(t, n, e, cmds)
  <2>1. CASE created
    BY <1>3, <1>4, <1>5, <1>6, <1>8, <2>1 DEF PackOf, cmds
  <2>2. CASE ~created
    BY <1>3, <1>4, <1>5, <1>6, <1>8, <2>2 DEF PackOf, cmds
  <2> QED
    BY <2>1, <2>2
<1>c. created = Creates(t, 1)
  BY <1>5 DEF Creates
<1>i. initial = IF Creates(t, 1) THEN storages[t][1].mask ELSE MaskOf(e)
  BY <1>5
<1>o. old = IF Creates(t, 1) THEN [c \in initial |-> Default] ELSE DataOf(e)
  BY <1>5
<1>s. ASSUME PackStep(t, n, e, created, cmds, initial, old)
      PROVE  /\ t \in Threads /\ n \in 1..Len(storages[t]) /\ e \in Handles /\ cmds \in Seq(Commands)
             /\ PackParts(t, n, e, cmds, initial, old)
  <2>1. PackStep(t, n, e, Creates(t, 1), cmds, initial, old)
    BY <1>c, <1>s
  <2> QED
    BY <1>2, <1>3, <1>5, <1>6, <1>10, <1>i, <1>o, <2>1, Zenon DEF PackParts
<1>11. CASE ~dropped /\ (throws \/ strays)
  <2>1. PackStep(t, n, e, created, cmds, initial, old)
    BY <1>1, <1>7, <1>9, <1>11, Zenon DEF PackStep
  <2> QED
    BY <1>0, <1>s, <2>1
<1>12. CASE ~(~dropped /\ (throws \/ strays))
  <2>1. Popped(t, n) /\ phase' = (IF Empty' THEN "idle" ELSE phase)
    <3>1. storages' = [storages EXCEPT ![t] = SubSeq(storages[t], n + 1, Len(storages[t]))]
      BY <1>1, <1>4, <1>12
    <3>2. phase' = IF \A u \in Threads : storages'[u] = <<>> THEN "idle" ELSE phase
      BY <1>1, <1>12
    <3> QED
      BY <3>1, <3>2 DEF Popped, Empty
  <2>2. PackStep(t, n, e, created, cmds, initial, old)
    BY <1>1, <1>7, <1>12, <2>1, Zenon DEF PackStep
  <2> QED
    BY <1>0, <1>s, <2>2
<1> QED
  BY <1>11, <1>12

(* Applying a pack throws, or does one of the things PackEffect lists and  *)
(* takes the pack off its storage.                                         *)
LEMMA PackCases ==
  ASSUME IInv, ApplyPack
  PROVE  /\ phase = "unlock" /\ fault = "none"
         /\ UNCHANGED <<lockCounter, nextEntityId, storageUsed>>
         /\ \E t \in Threads : \E n \in 1..Len(storages[t]) : \E e \in Handles :
               /\ \A i \in 1..n : storages[t][i].ent = e
               /\ PackFails \/ PackApplied(t, n, e)
<1>0. /\ phase = "unlock" /\ fault = "none"
      /\ UNCHANGED <<lockCounter, nextEntityId, storageUsed>>
  BY PackDetail
<1>t. PICK t \in Threads : \E n \in 1..Len(storages[t]) : \E e \in Handles :
         \E cmds \in Seq(Commands) : \E initial, old : PackParts(t, n, e, cmds, initial, old)
  BY PackDetail
<1>p. PICK n \in 1..Len(storages[t]), e \in Handles, cmds \in Seq(Commands) :
         \E initial, old : PackParts(t, n, e, cmds, initial, old)
  BY <1>t
<1>q. PICK initial, old : PackParts(t, n, e, cmds, initial, old)
  BY <1>p
<1>1. /\ PackOf(t, n, e, cmds)
      /\ initial = IF Creates(t, 1) THEN storages[t][1].mask ELSE MaskOf(e)
      /\ old = IF Creates(t, 1) THEN [c \in initial |-> Default] ELSE DataOf(e)
      /\ PackStep(t, n, e, Creates(t, 1), cmds, initial, old)
  BY <1>q DEF PackParts
<1>2. /\ storages[t] \in Seq(Commands) /\ 1 \in DOMAIN storages[t] /\ 1 \in 1..n
      /\ storages[t][1] \in Commands /\ storages[t][1].ent = e
      /\ \A i \in 1..n : storages[t][i].ent = e
  <2>1. storages[t] \in Seq(Commands)
    BY DEF IInv, Recorded, RecordedTypes
  <2>2. 1 \in 1..n /\ 1 \in DOMAIN storages[t] /\ storages[t][1] \in Commands
    BY <2>1
  <2>3. \A i \in 1..n : storages[t][i].ent = e
    BY <1>1 DEF PackOf
  <2> QED
    BY <2>1, <2>2, <2>3
<1> DEFINE created == Creates(t, 1)
           final   == FinalMask(initial, cmds)
           target  == Closure(final)
           data    == FinalData(created, initial, old, target, cmds)
           moves   == created \/ initial # final
           throws  == Kills(cmds) = {} /\ ~created /\ moves /\ target = initial
           strays  == Kills(cmds) = {} /\ \E c \in Components \ target : Assigning(cmds, c) # {}
           dropped == ~created /\ ~Alive(e)
<1>3. \/ /\ ~dropped /\ (throws \/ strays)
         /\ fault' = IF throws THEN "terminate" ELSE "outOfBounds"
         /\ UNCHANGED <<slotVars, tableVars, storages, marked, phase>>
      \/ /\ Popped(t, n) /\ phase' = IF Empty' THEN "idle" ELSE phase
         /\ marked' = IF ~dropped /\ \E i \in DOMAIN Seen(cmds) : Seen(cmds)[i].op = "destroy"
                      THEN marked \cup {e} ELSE marked
         /\ fault' = fault
         /\ \/ dropped /\ UNCHANGED <<slotVars, tableVars>>
            \/ /\ ~dropped /\ Kills(cmds) # {}
               /\ Release(e)
               /\ IF created THEN UNCHANGED tableVars ELSE RemoveRow(e)
            \/ /\ created /\ Kills(cmds) = {}
               /\ Adopt(e) /\ InsertRow(e, target, data)
            \/ /\ ~dropped /\ ~created /\ Kills(cmds) = {}
               /\ IF moves THEN MoveRow(e, target, data) ELSE WriteRow(e, data)
               /\ UNCHANGED slotVars
  BY <1>1, Zenon DEF PackStep
<1> HIDE DEF created
<1>9. created => e \in LockedHandles /\ ~Placed(e.id)
  BY <1>2 DEF IInv, PendingFresh, created
<1>10. ASSUME ~dropped
       PROVE  /\ initial \in Masks /\ old \in [initial -> Values \cup {Raw}]
              /\ ~created => Closed(initial)
  <2>1. CASE created
    <3>1. initial \in Masks
      BY <1>1, <1>2, <2>1, CommandFacts DEF Creates, created
    <3> QED
      BY <1>1, <2>1, <3>1 DEF Values, created
  <2>2. CASE ~created
    <3>1. Placed(e.id) /\ Entities
      BY <1>10, <2>2 DEF Alive, IInv
    <3>2. /\ MaskOf(e) \in Masks /\ Closed(MaskOf(e))
          /\ DataOf(e) \in [MaskOf(e) -> Values \cup {Raw}]
      BY <3>1, EntityData
    <3> QED
      BY <1>1, <2>2, <3>2 DEF created
  <2> QED
    BY <2>1, <2>2
<1>d. created \/ Alive(e) <=> ~dropped
  OBVIOUS
<1>m. ~created => initial = MaskOf(e)
  BY <1>1 DEF created
<1> HIDE DEF dropped
<1>11. final \in Masks /\ target \in Masks /\ Closed(target) /\ (Closed(final) => target = final)
  <2>1. final \in Masks
    BY DEF FinalMask, Masks
  <2> QED
    BY <2>1, ClosureFacts
<1>12. ~dropped => data \in Data /\ DOMAIN data = target
  <2>1. ASSUME ~dropped PROVE data \in [target -> Values \cup {Raw}]
    BY <1>10, <1>11, <2>1, FinalDataOK
  <2> QED
    BY <1>11, <2>1, DataIn
<1> HIDE DEF final, target, data, strays
<1>13. CASE /\ ~dropped /\ (throws \/ strays)
            /\ fault' = IF throws THEN "terminate" ELSE "outOfBounds"
            /\ UNCHANGED <<slotVars, tableVars, storages, marked, phase>>
  <2>1. ASSUME throws PROVE \E m \in Masks : Closure(m) # m
    <3>1. initial # final /\ target = initial
      BY <2>1
    <3>2. Closure(final) = target
      BY DEF target
    <3> QED
      BY <1>11, <3>1, <3>2
  <2>2. PackFails
    BY <1>13, <2>1 DEF PackFails
  <2> QED
    BY <1>0, <1>2, <2>2
<1>14. CASE /\ Popped(t, n) /\ phase' = IF Empty' THEN "idle" ELSE phase
            /\ marked' = IF ~dropped /\ \E i \in DOMAIN Seen(cmds) : Seen(cmds)[i].op = "destroy"
                         THEN marked \cup {e} ELSE marked
            /\ fault' = fault
            /\ \/ dropped /\ UNCHANGED <<slotVars, tableVars>>
               \/ /\ ~dropped /\ Kills(cmds) # {}
                  /\ Release(e)
                  /\ IF created THEN UNCHANGED tableVars ELSE RemoveRow(e)
               \/ /\ created /\ Kills(cmds) = {}
                  /\ Adopt(e) /\ InsertRow(e, target, data)
               \/ /\ ~dropped /\ ~created /\ Kills(cmds) = {}
                  /\ IF moves THEN MoveRow(e, target, data) ELSE WriteRow(e, data)
                  /\ UNCHANGED slotVars
  <2>3. marked' \subseteq Handles /\ fault' = fault
    BY <1>14 DEF IInv, Control
  <2>4. PackEffect(t, e)
    <3>1. CASE dropped /\ UNCHANGED <<slotVars, tableVars>>
      BY <3>1 DEF PackEffect
    <3>2. CASE /\ ~dropped /\ Kills(cmds) # {} /\ Release(e)
               /\ IF created THEN UNCHANGED tableVars ELSE RemoveRow(e)
      <4>1. CASE created
        BY <1>9, <3>2, <4>1 DEF PackEffect, Discarded, created
      <4>2. CASE ~created
        BY <1>d, <3>2, <4>2 DEF PackEffect, Destroyed
      <4> QED
        BY <4>1, <4>2
    <3>3. CASE created /\ Kills(cmds) = {} /\ Adopt(e) /\ InsertRow(e, target, data)
      <4>1. Adopted(e, target, data)
        BY <1>9, <1>11, <1>12, <1>d, <3>3 DEF Adopted
      <4> QED
        BY <1>11, <1>12, <1>d, <3>3, <4>1 DEF PackEffect, created
    <3>4. CASE /\ ~dropped /\ ~created /\ Kills(cmds) = {} /\ UNCHANGED slotVars
               /\ IF moves THEN MoveRow(e, target, data) ELSE WriteRow(e, data)
      <4>1. CASE moves
        <5>1. Moved(e, target, data)
          BY <1>11, <1>12, <1>d, <3>4, <4>1 DEF Moved
        <5> QED
          BY <1>11, <1>12, <3>4, <5>1 DEF PackEffect
      <4>2. CASE ~moves
        <5>1. target = MaskOf(e)
          BY <1>10, <1>11, <1>m, <3>4, <4>2
        <5>2. Written(e, data)
          BY <1>12, <1>d, <3>4, <4>2, <5>1 DEF Written
        <5> QED
          BY <1>12, <3>4, <5>2 DEF PackEffect
      <4> QED
        BY <4>1, <4>2
    <3> QED
      BY <1>14, <3>1, <3>2, <3>3, <3>4
  <2>5. PackApplied(t, n, e)
    BY <1>14, <2>3, <2>4 DEF PackApplied
  <2> QED
    BY <1>0, <1>2, <2>5
<1> QED
  BY <1>3, <1>13, <1>14

(* What a pack does keeps the entities in order and the slots of unplaced  *)
(* entities other than its own.                                            *)
LEMMA EffectFacts ==
  ASSUME Entities, NEW e \in Handles, NEW t, PackEffect(t, e)
  PROVE  /\ Entities' /\ size \in Nat /\ size' \in Nat /\ size' >= size
         /\ \A id \in Ids : ~Placed(id) /\ (Creates(t, 1) => id # e.id) =>
               slots'[id] = slots[id] /\ ~Placed(id)'
<1>1. size \in Nat /\ e.id \in Ids /\ e.id \in Nat /\ SlotsInv
  BY EntitiesFacts DEF Handles, Ids, Entities
<1>2. CASE UNCHANGED <<slotVars, tableVars>>
  <2>1. Entities'
    BY <1>2, SameEntities
  <2>2. size' = size /\ slots' = slots /\ place' = place
    BY <1>2 DEF slotVars, tableVars
  <2> QED
    BY <1>1, <2>1, <2>2 DEF Placed
<1>3. CASE Destroyed(e)
  <2>1. Entities' /\ \A id \in Ids : Placed(id)' <=> Placed(id) /\ id # e.id
    BY <1>3, DestroyedOK
  <2>2. Placed(e.id) /\ Release(e) /\ e \in Releasable
    BY <1>3 DEF Destroyed, Alive, Releasable
  <2>3. /\ size' \in Nat /\ size' = Max2(size, e.id + 1)
        /\ \A id \in Ids : id # e.id => slots'[id] = slots[id]
    BY <1>1, <2>2, ReleaseFacts
  <2>4. size' >= size
    BY <1>1, <2>3 DEF Max2
  <2> QED
    BY <1>1, <2>1, <2>2, <2>3, <2>4
<1>4. CASE \E m \in Masks, d \in Data : Moved(e, m, d)
  <2>1. PICK m \in Masks, d \in Data : Moved(e, m, d)
    BY <1>4
  <2>2. Entities' /\ \A id \in Ids : Placed(id)' <=> Placed(id)
    BY <2>1, MovedOK
  <2>3. size' = size /\ slots' = slots
    BY <2>1 DEF Moved, slotVars
  <2> QED
    BY <1>1, <2>2, <2>3
<1>5. CASE \E d \in Data : Written(e, d)
  <2>1. PICK d \in Data : Written(e, d)
    BY <1>5
  <2>2. Entities' /\ \A id \in Ids : Placed(id)' <=> Placed(id)
    BY <2>1, WrittenOK
  <2>3. size' = size /\ slots' = slots
    BY <2>1 DEF Written, slotVars
  <2> QED
    BY <1>1, <2>2, <2>3
<1>6. CASE Creates(t, 1) /\ Discarded(e)
  <2>1. Entities' /\ \A id \in Ids : Placed(id)' <=> Placed(id)
    BY <1>6, DiscardedOK
  <2>2. Release(e) /\ e \in Releasable
    BY <1>6 DEF Discarded, Releasable
  <2>3. /\ size' \in Nat /\ size' = Max2(size, e.id + 1)
        /\ \A id \in Ids : id # e.id => slots'[id] = slots[id]
    BY <1>1, <2>2, ReleaseFacts
  <2>4. size' >= size
    BY <1>1, <2>3 DEF Max2
  <2> QED
    BY <1>1, <1>6, <2>1, <2>3, <2>4
<1>7. CASE Creates(t, 1) /\ \E m \in Masks, d \in Data : Adopted(e, m, d)
  <2>1. PICK m \in Masks, d \in Data : Adopted(e, m, d)
    BY <1>7
  <2>2. Entities' /\ \A id \in Ids : Placed(id)' <=> Placed(id) \/ id = e.id
    BY <2>1, AdoptedOK
  <2>3. Adopt(e) /\ e \in LockedHandles
    BY <2>1 DEF Adopted
  <2>4. /\ size' \in Nat /\ size' = Max2(size, e.id + 1)
        /\ \A id \in Ids : id # e.id => slots'[id] = slots[id]
    BY <1>1, <2>3, AdoptFacts
  <2>5. size' >= size
    BY <1>1, <2>4 DEF Max2
  <2> QED
    BY <1>1, <1>7, <2>2, <2>4, <2>5
<1> QED
  BY <1>2, <1>3, <1>4, <1>5, <1>6, <1>7 DEF PackEffect

(* A pending create other than the one applied names another entity.       *)
LEMMA OtherCreate ==
  ASSUME Recorded, NEW t \in Threads, NEW n \in 1..Len(storages[t]), Creates(t, 1),
         NEW u \in Threads, NEW j \in DOMAIN storages[u], Creates(u, j), u = t => j > n
  PROVE  storages[u][j].ent.id # storages[t][1].ent.id
<1>1. 1 \in DOMAIN storages[t] /\ storages[t] \in Seq(Commands) /\ n >= 1 /\ n \in Nat
  BY DEF Recorded, RecordedTypes
<1>2. CASE u # t
  BY <1>1, <1>2 DEF Recorded, CreatesApart
<1>3. CASE u = t
  <2>1. 1 < j
    BY <1>1, <1>3
  <2>2. storages[t][1].ent.id < storages[u][j].ent.id
    BY <1>1, <1>3, <2>1 DEF Recorded, CreatesFirst
  <2>3. storages[t][1].ent.id \in Nat
    BY <1>1, RecordedFacts DEF Recorded
  <2> QED
    BY <2>2, <2>3
<1> QED
  BY <1>2, <1>3

(* A pack that is applied keeps the invariant.                             *)
LEMMA PackAppliedOK ==
  ASSUME IInv, phase = "unlock", fault = "none",
         UNCHANGED <<lockCounter, nextEntityId, storageUsed>>,
         NEW t \in Threads, NEW n \in 1..Len(storages[t]), NEW e \in Handles,
         storages[t][1].ent = e, PackApplied(t, n, e)
  PROVE  IInv'
<1>1. /\ Popped(t, n) /\ marked' \subseteq Handles /\ fault' = fault
      /\ phase' = IF Empty' THEN "idle" ELSE phase
      /\ PackEffect(t, e)
  BY DEF PackApplied
<1>2. /\ Entities' /\ size \in Nat /\ size' \in Nat /\ size' >= size
      /\ \A id \in Ids : ~Placed(id) /\ (Creates(t, 1) => id # e.id) =>
            slots'[id] = slots[id] /\ ~Placed(id)'
  BY <1>1, EffectFacts DEF IInv
<1>3. /\ Recorded'
      /\ \A u \in Threads : \A i \in DOMAIN storages'[u] : \E j \in DOMAIN storages[u] :
            storages'[u][i] = storages[u][j] /\ (u = t => j > n)
  BY <1>1, PopOK DEF IInv
<1>4. PendingFresh'
  <2>1. ASSUME NEW u \in Threads, NEW i \in DOMAIN storages'[u], Creates(u, i)'
        PROVE  /\ (storages[u][i].ent \in LockedHandles)'
               /\ ~Placed(storages[u][i].ent.id)'
    <3>1. PICK j \in DOMAIN storages[u] : storages'[u][i] = storages[u][j] /\ (u = t => j > n)
      BY <1>3
    <3>2. PICK p : p = storages[u][j].ent
      OBVIOUS
    <3>3. Creates(u, j)
      BY <2>1, <3>1 DEF Creates
    <3>4. p \in LockedHandles /\ ~Placed(p.id) /\ p.id \in Ids
      BY <3>2, <3>3, RecordedFacts DEF IInv, Recorded, PendingFresh
    <3>5. Creates(t, 1) => p.id # e.id
      BY <3>1, <3>2, <3>3, OtherCreate DEF IInv
    <3>6. slots'[p.id] = slots[p.id] /\ ~Placed(p.id)'
      BY <1>2, <3>4, <3>5
    <3>7. p \in LockedHandles'
      BY <1>2, <3>4, <3>6, StillLocked DEF IInv, Entities
    <3> QED
      BY <3>1, <3>2, <3>6, <3>7
  <2> QED
    BY <2>1 DEF PendingFresh
<1>5. Control'
  BY <1>1 DEF IInv, Control
<1>6. Phases'
  BY <1>1 DEF IInv, Phases
<1> QED
  BY <1>2, <1>3, <1>4, <1>5, <1>6 DEF IInv

(* Applying a pack keeps the invariant, thrown or not.                     *)
LEMMA ApplyPackOK ==
  ASSUME IInv, ApplyPack
  PROVE  IInv'
<1>1. /\ phase = "unlock" /\ fault = "none"
      /\ UNCHANGED <<lockCounter, nextEntityId, storageUsed>>
  BY PackCases
<1>2. PICK t \in Threads : \E n \in 1..Len(storages[t]) : \E e \in Handles :
         /\ \A i \in 1..n : storages[t][i].ent = e
         /\ PackFails \/ PackApplied(t, n, e)
  BY PackCases
<1>3. PICK n \in 1..Len(storages[t]), e \in Handles :
         /\ \A i \in 1..n : storages[t][i].ent = e
         /\ PackFails \/ PackApplied(t, n, e)
  BY <1>2
<1>4. CASE PackFails
  <2>1. /\ UNCHANGED <<slotVars, tableVars>> /\ storages' = storages /\ marked' = marked
        /\ phase' = phase /\ fault' \in {"terminate", "outOfBounds"}
        /\ lockCounter' = lockCounter /\ nextEntityId' = nextEntityId /\ storageUsed' = storageUsed
    BY <1>1, <1>4 DEF PackFails
  <2>2. Entities' /\ PendingFresh'
    BY <2>1, SameEntities, SameFresh DEF IInv
  <2>3. Recorded'
    BY <2>1 DEF IInv, Recorded, RecordedTypes, RecordedBelow, CreatedByCreators, CreatesApart,
              CreatesFirst, Creates
  <2>4. Control'
    BY <2>1 DEF IInv, Control
  <2>5. Phases'
    BY <1>1, <2>1 DEF IInv, Phases, Empty, slotVars
  <2> QED
    BY <2>2, <2>3, <2>4, <2>5 DEF IInv
<1>5. CASE PackApplied(t, n, e)
  <2>1. 1 \in 1..n
    BY <1>3
  <2>2. storages[t][1].ent = e
    BY <1>3, <2>1
  <2> QED
    BY <1>1, <1>5, <2>2, PackAppliedOK
<1> QED
  BY <1>3, <1>4, <1>5

-----------------------------------------------------------------------------
(* What any step does to the entities.                                     *)
StepEffect ==
    \/ UNCHANGED <<slotVars, tableVars>> /\ FreshCreates
    \/ (\E m \in Masks, d \in Data : Created(m, d)) /\ Empty /\ storages' = storages
    \/ (\E e \in Handles : \E m \in Masks, d \in Data : Moved(e, m, d)) /\ FreshCreates
    \/ (\E e \in Handles : Destroyed(e)) /\ FreshCreates
    \/ ApplyPack
    \/ ClearedAll /\ WithClear /\ storages' = storages
    \/ (\E m \in Masks : ClearedOne(m)) /\ storages' = storages

(* Every step keeps the invariant and does one of the things StepEffect    *)
(* lists.                                                                  *)
LEMMA StepOK ==
  ASSUME IInv, [Next]_vars
  PROVE  IInv' /\ StepEffect
<1>1. ASSUME NEW m \in Masks, NEW vals \in [m -> Values], Create(vals)
      PROVE  IInv' /\ StepEffect
  <2>1. Empty /\ storages' = storages
    BY <1>1 DEF Create, Unlocked, Idle, lockVars, IInv, Phases
  <2> QED
    BY <1>1, <2>1, CreateOK DEF StepEffect
<1>2. ASSUME NEW t \in Threads, NEW m \in Masks, CreateLocked(t, m)
      PROVE  IInv' /\ StepEffect
  BY <1>2, CreateLockedOK DEF StepEffect
<1>3. ASSUME NEW e \in Known, Use(e)
      PROVE  IInv' /\ StepEffect
  <2>1. e \in Handles
    BY DEF Known, Pending
  <2> QED
    BY <1>3, <2>1, UseOK DEF StepEffect
<1>4. CASE Lock
  <2>1. storages' = storages
    BY <1>4 DEF Lock
  <2> QED
    BY <1>4, <2>1, LockOK, SameCreates DEF StepEffect
<1>5. CASE Unlock
  <2>1. storages' = storages
    BY <1>5 DEF Unlock
  <2> QED
    BY <1>5, <2>1, UnlockOK, SameCreates DEF StepEffect
<1>6. CASE ApplyPack
  BY <1>6, ApplyPackOK DEF StepEffect
<1>7. CASE BeginUpdate \/ EndUpdate
  <2>1. storages' = storages
    BY <1>7 DEF BeginUpdate, EndUpdate, lockVars
  <2> QED
    BY <1>7, <2>1, UpdatePhases, SameCreates DEF StepEffect
<1>8. CASE DestroyMarked
  <2>1. storages' = storages
    BY <1>8 DEF DestroyMarked, lockVars
  <2> QED
    BY <1>8, <2>1, DestroyMarkedOK, SameCreates DEF StepEffect
<1>9. CASE Clear
  <2>1. storages' = storages /\ WithClear
    BY <1>9 DEF Clear, lockVars
  <2> QED
    BY <1>9, <2>1, ClearOK DEF StepEffect
<1>10. ASSUME NEW m \in Masks, ClearArchetype(m)
       PROVE  IInv' /\ StepEffect
  <2>1. storages' = storages
    BY <1>10 DEF ClearArchetype, lockVars
  <2> QED
    BY <1>10, <2>1, ClearArchetypeOK DEF StepEffect
<1>11. CASE UNCHANGED vars
  <2>1. /\ UNCHANGED <<slotVars, tableVars>> /\ storages' = storages /\ marked' = marked
        /\ phase' = phase /\ fault' = fault
        /\ lockCounter' = lockCounter /\ nextEntityId' = nextEntityId /\ storageUsed' = storageUsed
    BY <1>11 DEF vars, lockVars
  <2>2. Entities' /\ PendingFresh'
    BY <2>1, SameEntities, SameFresh DEF IInv
  <2>3. Recorded'
    BY <2>1 DEF IInv, Recorded, RecordedTypes, RecordedBelow, CreatedByCreators, CreatesApart,
              CreatesFirst, Creates
  <2>4. Control'
    BY <2>1 DEF IInv, Control
  <2>5. Phases'
    BY <2>1 DEF IInv, Phases, Empty, slotVars
  <2>6. StepEffect
    BY <2>1, SameCreates DEF StepEffect
  <2> QED
    BY <2>2, <2>3, <2>4, <2>5, <2>6 DEF IInv
<1> QED
  BY <1>1, <1>2, <1>3, <1>4, <1>5, <1>6, <1>7, <1>8, <1>9, <1>10, <1>11 DEF Next

(* The inductive invariant: slots, rows and places fit together, the       *)
(* recorded commands are in order and what they will create is still       *)
(* unused, in every phase of lock() and unlock().                          *)
THEOREM ManagerInvariant == Spec => []IInv
<1>1. IInv /\ [Next]_vars => IInv'
  BY StepOK
<1> QED
  BY <1>1, InitInv, PTL DEF Spec

(* The shapes of all state, in every reachable state.                      *)
THEOREM ManagerTyped == Spec => []TypeOK
<1>1. IInv => TypeOK
  <2> SUFFICES ASSUME IInv PROVE TypeOK
    OBVIOUS
  <2>1. SlotsTypeOK /\ rows \in Tables(Data) /\ place \in Places
    BY DEF IInv, Entities, SlotsInv, Table
  <2>2. rows \in [Masks -> Seq([ent : Handles, data : UNION {[m -> Values \cup {Raw}] : m \in Masks}])]
    BY <2>1 DEF Tables, Rows, Data
  <2>3. place \in [Ids -> [arch : Masks, index : Nat]]
    BY <2>1 DEF Places
  <2> QED
    BY <2>1, <2>2, <2>3 DEF TypeOK, IInv, Control, Recorded, RecordedTypes
<1> QED
  BY <1>1, ManagerInvariant, PTL

(* locations_ and the archetypes agree: after any sequence of immediate    *)
(* and recorded operations every entity's place names its row, and every   *)
(* row is the place of its entity.                                         *)
THEOREM PlacesAlwaysAgree == Spec => []PlacesAgree
<1>1. IInv => PlacesAgree
  BY DEF IInv, Entities, Table
<1> QED
  BY <1>1, ManagerInvariant, PTL

(* Every row has exactly the components of its archetype.                  *)
THEOREM RowsAlwaysComplete == Spec => []RowsComplete
<1>1. IInv => RowsComplete
  BY DEF IInv, Entities
<1> QED
  BY <1>1, ManagerInvariant, PTL

(* An archetype that holds entities has all dependencies of its            *)
(* components, also those a pack of recorded commands chose.               *)
THEOREM MasksAlwaysClosed == Spec => []MasksClosed
<1>1. IInv => MasksClosed
  BY DEF IInv, Entities
<1> QED
  BY <1>1, ManagerInvariant, PTL

(* The free list is exact although recorded creates extend locations_ by   *)
(* ids nobody took from the list.                                          *)
THEOREM FreeListKept == Spec => []FreeListInv
<1>1. IInv => FreeListInv
  BY DEF IInv, Entities, SlotsInv
<1> QED
  BY <1>1, ManagerInvariant, PTL

(* While locked, the ids handed out to creating threads are those of no    *)
(* entity and no free slot.                                                *)
THEOREM LockedIdsFresh == Spec => []LockedIdsAreNew
<1>1. IInv => LockedIdsAreNew
  <2> SUFFICES ASSUME IInv, NEW e \in Pending PROVE ~Issued(e) /\ ~Placed(e.id)
    BY DEF LockedIdsAreNew
  <2>1. \E t \in Threads : \E i \in DOMAIN storages[t] :
            storages[t][i].op = "create" /\ storages[t][i].ent = e
    BY DEF Pending
  <2>2. PICK t \in Threads : \E i \in DOMAIN storages[t] :
            storages[t][i].op = "create" /\ storages[t][i].ent = e
    BY <2>1
  <2>3. PICK i \in DOMAIN storages[t] : storages[t][i].op = "create" /\ storages[t][i].ent = e
    BY <2>2
  <2>4. e \in LockedHandles /\ ~Placed(e.id)
    BY <2>3 DEF IInv, PendingFresh, Creates
  <2>5. ~Issued(e)
    <3>1. /\ e \in Handles /\ e.ver = 0 /\ e.id \in Nat /\ size \in Nat
          /\ e.id >= size \/ slots[e.id] = NullHandle
      BY <2>4, EntitiesFacts DEF LockedHandles, Gap, Handles, Ids, IInv
    <3>2. CASE e.id >= size
      BY <3>1, <3>2 DEF Issued
    <3>3. CASE slots[e.id] = NullHandle
      <4>1. slots[e.id].ver = -1 /\ slots[e.id] # e
        BY <3>1, <3>3 DEF NullHandle
      <4> QED
        BY <3>1, <4>1 DEF Issued, Valid
    <3> QED
      BY <3>1, <3>2, <3>3
  <2> QED
    BY <2>4, <2>5
<1> QED
  BY <1>1, ManagerInvariant, PTL

-----------------------------------------------------------------------------
(* The manager's steps, seen by the handle allocator.                      *)
LEMMA PackAllocates ==
  ASSUME IInv, ApplyPack
  PROVE  [SlotsNext]_slotVars
<1>1. PICK t \in Threads : \E n \in 1..Len(storages[t]) : \E e \in Handles :
         PackFails \/ PackApplied(t, n, e)
  BY PackCases
<1>2. PICK n \in 1..Len(storages[t]), e \in Handles : PackFails \/ PackApplied(t, n, e)
  BY <1>1
<1>3. CASE UNCHANGED slotVars
  BY <1>3
<1>4. CASE Destroyed(e)
  BY <1>4 DEF Destroyed, Alive, Releasable, SlotsNext
<1>5. CASE Discarded(e)
  BY <1>5 DEF Discarded, Releasable, SlotsNext
<1>6. CASE \E m \in Masks, d \in Data : Adopted(e, m, d)
  BY <1>6 DEF Adopted, SlotsNext
<1> QED
  BY <1>2, <1>3, <1>4, <1>5, <1>6 DEF PackFails, PackApplied, PackEffect, Moved, Written

(* Every step but clear() is a step of the allocator, or none.             *)
LEMMA StepAllocates ==
  ASSUME IInv, StepEffect, ~WithClear
  PROVE  [SlotsNext]_slotVars
<1>1. CASE UNCHANGED <<slotVars, tableVars>>
  BY <1>1
<1>2. CASE \E m \in Masks, d \in Data : Created(m, d)
  BY <1>2 DEF Created, SlotsNext
<1>3. CASE \E e \in Handles : \E m \in Masks, d \in Data : Moved(e, m, d)
  BY <1>3 DEF Moved
<1>4. CASE \E e \in Handles : Destroyed(e)
  BY <1>4 DEF Destroyed, Alive, Releasable, SlotsNext
<1>5. CASE ApplyPack
  BY <1>5, PackAllocates
<1>6. CASE \E m \in Masks : ClearedOne(m)
  <2>1. PICK m \in Masks : ClearedOne(m)
    BY <1>6
  <2>2. PICK es : es = [k \in DOMAIN rows[m] |-> rows[m][k].ent]
    OBVIOUS
  <2>3. ReleaseAll(es) /\ rows[m] # <<>>
    BY <2>1, <2>2 DEF ClearedOne
  <2>4. es \in Batches
    BY <2>2, <2>3, ArchetypeBatch DEF IInv
  <2> QED
    BY <2>3, <2>4 DEF SlotsNext
<1> QED
  BY <1>1, <1>2, <1>3, <1>4, <1>5, <1>6 DEF StepEffect

(* What the manager does to its handles are steps of the allocator alone,  *)
(* if clear() is not called: clear() restarts ids and versions.            *)
THEOREM ManagerAllocates ==
  ASSUME ~WithClear
  PROVE  Spec => AllocatesHandles
<1>1. Init => SlotsInit
  BY DEF Init
<1>2. IInv /\ [Next]_vars => [SlotsNext]_slotVars
  BY StepOK, StepAllocates
<1> QED
  BY <1>1, <1>2, ManagerInvariant, PTL DEF Spec, SlotsSpec, AllocatesHandles

(* Without clear() no dead handle becomes valid again, whatever is         *)
(* recorded and applied.                                                   *)
THEOREM ManagerReusesNoHandle ==
  ASSUME ~WithClear
  PROVE  Spec => HandlesNotReused
<1>1. Spec => SlotsSpec
  BY ManagerAllocates DEF AllocatesHandles
<1> QED
  BY <1>1, HandlesNeverReused, PTL

-----------------------------------------------------------------------------
(* Without dependencies nothing a command can record makes unlock() throw. *)
THEOREM UnlockIsNoexcept ==
  ASSUME \A c \in Components : Deps[c] = {}
  PROVE  Spec => []UnlockNeverThrows
<1>1. \A m \in Masks : Closure(m) = m
  <2>1. ASSUME NEW m \in Masks PROVE Closed(m)
    BY DEF Closed, Masks
  <2> QED
    BY <2>1, ClosureFacts
<1>2. Init => UnlockNeverThrows
  BY DEF Init, UnlockNeverThrows
<1>3. IInv /\ UnlockNeverThrows /\ [Next]_vars => UnlockNeverThrows'
  <2> SUFFICES ASSUME IInv, UnlockNeverThrows, [Next]_vars, fault' # fault
               PROVE  fault' # "terminate"
    BY DEF UnlockNeverThrows
  <2>1. ApplyPack
    BY DEF Next, vars, lockVars, Create, CreateLocked, Use, Destroy, DestroyNow, RemoveComponent,
           Assign, RecordDestroy, RecordRemove, RecordAssign, Record, Lock, Unlock, BeginUpdate,
           DestroyMarked, EndUpdate, Clear, ClearArchetype
  <2>2. PackFails
    BY <2>1, PackCases DEF PackApplied
  <2> QED
    BY <1>1, <2>2 DEF PackFails
<1> QED
  BY <1>2, <1>3, ManagerInvariant, PTL DEF Spec

-----------------------------------------------------------------------------
(* One thread creates while locked: the applied ids come in order, so      *)
(* none is skipped.                                                        *)
OneCreator == \A t, u \in Creators : t = u

Ahead == \A t \in Threads : \A i \in DOMAIN storages[t] :
             Creates(t, i) => storages[t][i].ent.id >= size
RowsValid == \A m \in Masks : \A k \in DOMAIN rows[m] : Valid(rows[m][k].ent)

(* What is recorded stays ahead of the slots while they do not grow.       *)
LEMMA AheadKept ==
  ASSUME Ahead, FreshCreates, size' = size
  PROVE  Ahead'
BY DEF Ahead, FreshCreates, Creates

(* A step that concerns one entity leaves all rows valid if its slot is    *)
(* not made null.                                                          *)
LEMMA RowsStayValid ==
  ASSUME Entities, RowsValid, NEW e \in Handles, RowsFrom(e), slots'[e.id] # NullHandle,
         size' \in Nat, size' >= size, \A id \in Ids : id # e.id => slots'[id] = slots[id]
  PROVE  RowsValid'
<1>1. ASSUME NEW n \in Masks, NEW k \in DOMAIN rows'[n]
      PROVE  rows'[n][k].ent.id < size' /\ slots'[rows'[n][k].ent.id] = rows'[n][k].ent
  <2>1. CASE \E j \in DOMAIN rows[n] : rows'[n][k] = rows[n][j] /\ rows[n][j].ent.id # e.id
    <3>1. PICK j \in DOMAIN rows[n] : rows'[n][k] = rows[n][j] /\ rows[n][j].ent.id # e.id
      BY <2>1
    <3>2. PICK f : f = rows[n][j].ent
      OBVIOUS
    <3>3. f.id \in Ids /\ f.id < size /\ slots[f.id] = f /\ size \in Nat
      BY <3>2, EntitiesFacts DEF RowsValid, Valid
    <3>4. f.id < size' /\ slots'[f.id] = f
      BY <3>1, <3>2, <3>3 DEF Ids
    <3> QED
      BY <3>1, <3>2, <3>4
  <2>2. CASE /\ rows'[n][k].ent = e /\ e.id < size'
             /\ slots'[e.id] = e \/ (slots'[e.id] = NullHandle /\ e.ver = 0)
    BY <2>2
  <2> QED
    BY <2>1, <2>2 DEF RowsFrom
<1> QED
  BY <1>1 DEF RowsValid, Valid

(* A step that changes no slot leaves all rows valid.                      *)
LEMMA SlotsUnchangedValid ==
  ASSUME RowsValid, UNCHANGED <<slotVars, tableVars>>
  PROVE  RowsValid' /\ size' = size
BY DEF RowsValid, Valid, slotVars, tableVars

(* Destroying leaves the other rows valid.                                 *)
LEMMA DestroyedValid ==
  ASSUME Entities, RowsValid, NEW e \in Handles, Destroyed(e)
  PROVE  RowsValid' /\ size' = size
<1>1. Release(e) /\ e \in Releasable /\ e.id < size /\ SlotsInv
  BY DEF Destroyed, Alive, Releasable, Valid, Entities
<1>2. /\ slots'[e.id] # NullHandle /\ size \in Nat /\ size' \in Nat /\ size' = Max2(size, e.id + 1)
      /\ \A id \in Ids : id # e.id => slots'[id] = slots[id]
      /\ e.id \in Ids
  BY <1>1, ReleaseFacts
<1>3. size' = size
  BY <1>1, <1>2 DEF Max2, Ids
<1>4. RowsFrom(e)
  BY DestroyedOK
<1> QED
  BY <1>2, <1>3, <1>4, RowsStayValid

(* Moving leaves all rows valid.                                           *)
LEMMA MovedValid ==
  ASSUME Entities, RowsValid, NEW e \in Handles, NEW m \in Masks, NEW d \in Data, Moved(e, m, d)
  PROVE  RowsValid' /\ size' = size
<1>1. size' = size /\ slots' = slots /\ slots[e.id] = e /\ size \in Nat
  BY EntitiesFacts DEF Moved, Alive, Valid, slotVars
<1>2. e # NullHandle
  BY DEF Handles, NullHandle, Ids
<1>3. RowsFrom(e)
  BY MovedOK
<1> QED
  BY <1>1, <1>2, <1>3, RowsStayValid

(* Creating leaves all rows valid.                                         *)
LEMMA CreatedValid ==
  ASSUME Entities, RowsValid, NEW m \in Masks, NEW d \in Data, Created(m, d)
  PROVE  RowsValid'
<1>1. SlotsInv /\ Acquire
  BY DEF Entities, Created
<1>2. PICK e : e = NewHandle
  OBVIOUS
<1>3. /\ e \in Handles /\ slots'[e.id] = e
      /\ size' \in Nat /\ size' >= size
      /\ \A id \in Ids : id # e.id => slots'[id] = slots[id]
  BY <1>1, <1>2, AcquireFacts
<1>4. e # NullHandle
  BY <1>3 DEF Handles, NullHandle, Ids
<1>5. RowsFrom(e)
  BY <1>2, CreatedOK
<1> QED
  BY <1>3, <1>4, <1>5, RowsStayValid

(* Clearing an archetype leaves the rows of others valid.                  *)
LEMMA ClearedOneValid ==
  ASSUME Entities, RowsValid, NEW m \in Masks, ClearedOne(m)
  PROVE  RowsValid' /\ size' = size
<1>1. /\ size' = size
      /\ \A n \in Masks : n # m => rows'[n] = rows[n]
      /\ rows'[m] = <<>>
      /\ \A n \in Masks : n # m => \A k \in DOMAIN rows[n] :
            slots'[rows[n][k].ent.id] = slots[rows[n][k].ent.id]
  BY ClearedOneOK
<1>2. ASSUME NEW n \in Masks, NEW k \in DOMAIN rows'[n]
      PROVE  rows'[n][k].ent.id < size' /\ slots'[rows'[n][k].ent.id] = rows'[n][k].ent
  <2>1. n # m /\ rows'[n] = rows[n]
    BY <1>1, <1>2
  <2> QED
    BY <1>1, <1>2, <2>1 DEF RowsValid, Valid
<1> QED
  BY <1>1, <1>2 DEF RowsValid, Valid

(* One thread's creates are applied in the order of their ids, so those    *)
(* left stay beyond the end.                                               *)
LEMMA NextCreates ==
  ASSUME IInv, OneCreator, Ahead, NEW t \in Threads, NEW n \in 1..Len(storages[t]),
         NEW e \in Handles, storages[t][1].ent = e, Creates(t, 1),
         Popped(t, n), UNCHANGED nextEntityId, size' = Max2(size, e.id + 1)
  PROVE  Ahead'
<1>1. \A u \in Threads : \A i \in DOMAIN storages'[u] : \E j \in DOMAIN storages[u] :
          storages'[u][i] = storages[u][j] /\ (u = t => j > n)
  BY PopOK DEF IInv
<1>2. 1 \in DOMAIN storages[t] /\ n >= 1 /\ n \in Nat /\ e.id \in Nat /\ size \in Nat
  BY EntitiesFacts DEF IInv, Recorded, RecordedTypes, Handles, Ids
<1>3. ASSUME NEW u \in Threads, NEW i \in DOMAIN storages'[u], Creates(u, i)'
      PROVE  storages'[u][i].ent.id >= size'
  <2>1. PICK j \in DOMAIN storages[u] : storages'[u][i] = storages[u][j] /\ (u = t => j > n)
    BY <1>1
  <2>2. Creates(u, j)
    BY <1>3, <2>1 DEF Creates
  <2>3. u = t
    BY <1>2, <2>2 DEF OneCreator, IInv, Recorded, CreatedByCreators
  <2>4. e.id < storages[u][j].ent.id
    <3>1. 1 < j
      BY <1>2, <2>1, <2>3
    <3> QED
      BY <1>2, <2>2, <2>3, <3>1 DEF IInv, Recorded, CreatesFirst
  <2>5. storages[u][j].ent.id >= size /\ storages[u][j].ent.id \in Nat
    BY <2>2, RecordedFacts DEF Ahead, IInv, Recorded
  <2> QED
    BY <1>2, <2>1, <2>4, <2>5 DEF Max2
<1> QED
  BY <1>3 DEF Ahead

(* Applying a pack of a single creating thread leaves all rows valid.      *)
LEMMA PackValid ==
  ASSUME IInv, OneCreator, Ahead, RowsValid, ApplyPack
  PROVE  Ahead' /\ RowsValid'
<1>1. UNCHANGED nextEntityId /\ Entities /\ SlotsInv
  BY PackCases DEF IInv, Entities
<1>2. PICK t \in Threads : \E n \in 1..Len(storages[t]) : \E e \in Handles :
         /\ \A i \in 1..n : storages[t][i].ent = e
         /\ PackFails \/ PackApplied(t, n, e)
  BY PackCases
<1>3. PICK n \in 1..Len(storages[t]), e \in Handles :
         /\ \A i \in 1..n : storages[t][i].ent = e
         /\ PackFails \/ PackApplied(t, n, e)
  BY <1>2
<1>4. CASE PackFails
  <2>1. FreshCreates /\ UNCHANGED <<slotVars, tableVars>>
    BY <1>4, SameCreates DEF PackFails
  <2> QED
    BY <2>1, SlotsUnchangedValid, AheadKept
<1>5. CASE PackApplied(t, n, e)
  <2>1. 1 \in 1..n /\ 1 \in DOMAIN storages[t]
    BY <1>3 DEF IInv, Recorded, RecordedTypes
  <2>2. storages[t][1].ent = e /\ Popped(t, n) /\ PackEffect(t, e)
    BY <1>3, <1>5, <2>1 DEF PackApplied
  <2>3. FreshCreates
    <3>1. \A u \in Threads : \A i \in DOMAIN storages'[u] : \E j \in DOMAIN storages[u] :
             storages'[u][i] = storages[u][j]
      BY <1>1, <2>2, PopOK DEF IInv
    <3> QED
      BY <3>1 DEF FreshCreates
  <2>4. CASE UNCHANGED <<slotVars, tableVars>>
    BY <2>3, <2>4, SlotsUnchangedValid, AheadKept
  <2>5. CASE Destroyed(e)
    BY <1>1, <2>3, <2>5, DestroyedValid, AheadKept
  <2>6. CASE \E m \in Masks, d \in Data : Moved(e, m, d)
    BY <1>1, <2>3, <2>6, MovedValid, AheadKept
  <2>7. CASE \E d \in Data : Written(e, d)
    <3>1. PICK d \in Data : Written(e, d)
      BY <2>7
    <3>2. \A m \in Masks : /\ DOMAIN rows'[m] = DOMAIN rows[m]
                           /\ \A k \in DOMAIN rows[m] : rows'[m][k].ent = rows[m][k].ent
      BY <1>1, <3>1, WrittenOK
    <3>3. size' = size /\ slots' = slots
      BY <3>1 DEF Written, slotVars
    <3>4. RowsValid'
      BY <3>2, <3>3 DEF RowsValid, Valid
    <3> QED
      BY <2>3, <3>3, <3>4, AheadKept
  <2>8. CASE Creates(t, 1) /\ Discarded(e)
    <3>1. Release(e) /\ e \in Releasable
      BY <2>8 DEF Discarded, Releasable
    <3>2. /\ slots'[e.id] # NullHandle /\ e.id \in Ids
          /\ size \in Nat /\ size' \in Nat /\ size' = Max2(size, e.id + 1)
          /\ \A id \in Ids : id # e.id => slots'[id] = slots[id]
      BY <1>1, <3>1, ReleaseFacts
    <3>3. RowsFrom(e)
      BY <1>1, <2>8, DiscardedOK
    <3>4. size' >= size
      BY <3>2 DEF Max2, Ids
    <3>5. RowsValid'
      BY <1>1, <3>2, <3>3, <3>4, RowsStayValid
    <3>6. Ahead'
      BY <1>1, <2>2, <2>8, <3>2, NextCreates
    <3> QED
      BY <3>5, <3>6
  <2>9. CASE Creates(t, 1) /\ \E m \in Masks, d \in Data : Adopted(e, m, d)
    <3>0. PICK m \in Masks, d \in Data : Adopted(e, m, d)
      BY <2>9
    <3>1. Adopt(e) /\ e \in LockedHandles
      BY <3>0 DEF Adopted
    <3>2. /\ e.id \in Ids /\ slots'[e.id] = IF e.id >= size THEN e ELSE NullHandle
          /\ size \in Nat /\ size' \in Nat /\ size' = Max2(size, e.id + 1)
          /\ \A id \in Ids : id # e.id => slots'[id] = slots[id]
      BY <1>1, <3>1, AdoptFacts
    <3>3. RowsFrom(e)
      BY <1>1, <3>0, AdoptedOK
    <3>4. size' >= size
      BY <3>2 DEF Max2, Ids
    <3>5. e.id >= size
      BY <2>1, <2>2, <2>9 DEF Ahead
    <3>6. slots'[e.id] # NullHandle
      BY <3>2, <3>5 DEF Handles, NullHandle, Ids
    <3>7. RowsValid'
      BY <1>1, <3>2, <3>3, <3>4, <3>6, RowsStayValid
    <3>8. Ahead'
      BY <1>1, <2>2, <2>9, <3>2, NextCreates
    <3> QED
      BY <3>7, <3>8
  <2> QED
    BY <2>2, <2>4, <2>5, <2>6, <2>7, <2>8, <2>9 DEF PackEffect
<1> QED
  BY <1>3, <1>4, <1>5

(* Every step does, with a single creating thread.                         *)
LEMMA StepValid ==
  ASSUME IInv, OneCreator, Ahead, RowsValid, StepEffect
  PROVE  Ahead' /\ RowsValid'
<1>0. Entities
  BY DEF IInv
<1>1. CASE UNCHANGED <<slotVars, tableVars>> /\ FreshCreates
  BY <1>1, SlotsUnchangedValid, AheadKept
<1>2. CASE (\E m \in Masks, d \in Data : Created(m, d)) /\ Empty /\ storages' = storages
  <2>1. RowsValid'
    BY <1>0, <1>2, CreatedValid
  <2>2. \A t \in Threads : DOMAIN storages'[t] = {}
    BY <1>2 DEF Empty
  <2> QED
    BY <2>1, <2>2 DEF Ahead
<1>3. CASE (\E e \in Handles : \E m \in Masks, d \in Data : Moved(e, m, d)) /\ FreshCreates
  BY <1>0, <1>3, MovedValid, AheadKept
<1>4. CASE (\E e \in Handles : Destroyed(e)) /\ FreshCreates
  BY <1>0, <1>4, DestroyedValid, AheadKept
<1>5. CASE ApplyPack
  BY <1>5, PackValid
<1>6. CASE ClearedAll /\ storages' = storages
  <2>1. size' = 0 /\ \A m \in Masks : rows'[m] = <<>>
    BY <1>6 DEF ClearedAll, ClearSlots, ClearTable
  <2>2. RowsValid'
    BY <2>1 DEF RowsValid
  <2>3. Ahead'
    <3>1. ASSUME NEW t \in Threads, NEW i \in DOMAIN storages[t]
          PROVE  storages[t][i].ent.id >= 0
      BY RecordedFacts DEF IInv, Recorded
    <3> QED
      BY <1>6, <2>1, <3>1 DEF Ahead
  <2> QED
    BY <2>2, <2>3
<1>7. CASE (\E m \in Masks : ClearedOne(m)) /\ storages' = storages
  BY <1>0, <1>7, ClearedOneValid, SameCreates, AheadKept
<1> QED
  BY <1>1, <1>2, <1>3, <1>4, <1>5, <1>6, <1>7 DEF StepEffect

(* With one creating thread, recorded creates are for ids beyond the end   *)
(* of locations_, and every row's entity is valid.                         *)
THEOREM OneCreatorInvariant ==
  ASSUME OneCreator
  PROVE  Spec => [](Ahead /\ RowsValid)
<1>1. Init => Ahead /\ RowsValid
  BY DEF Init, TableInit, Ahead, RowsValid
<1>2. IInv /\ (Ahead /\ RowsValid) /\ [Next]_vars => (Ahead /\ RowsValid)'
  BY StepOK, StepValid
<1> QED
  BY <1>1, <1>2, ManagerInvariant, PTL DEF Spec

(* With one creating thread, the entities in archetypes are exactly the    *)
(* valid ones.  Two threads that create under one lock violate it: their   *)
(* packs are applied by thread, not by id.                                 *)
THEOREM RowsAlwaysAlive ==
  ASSUME OneCreator
  PROVE  Spec => []RowsAreAlive
<1>1. IInv /\ Ahead /\ RowsValid => RowsAreAlive
  <2> SUFFICES ASSUME IInv, RowsValid PROVE RowsAreAlive
    OBVIOUS
  <2>1. ASSUME NEW e \in Handles, Valid(e) PROVE Placed(e.id)
    <3>1. e.id \in Ids /\ Used(e.id)
      BY <2>1 DEF Valid, Used, Handles
    <3> QED
      BY <3>1 DEF IInv, Entities, UsedPlaced
  <2> QED
    BY <2>1 DEF RowsAreAlive, RowsValid
<1> QED
  BY <1>1, ManagerInvariant, OneCreatorInvariant, PTL
=============================================================================
