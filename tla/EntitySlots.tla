---------------------------- MODULE EntitySlots ----------------------------
(***************************************************************************)
(* Allocation of entity handles by EntityManager: the entity field of      *)
(* locations_[id], and the intrusive free list threaded through it.        *)
(*                                                                         *)
(* A handle is an id and a version; the world id, equal in every handle of *)
(* one manager, is left out.  A slot that is in use stores its own handle. *)
(* A free slot stores, in the id part, the next free slot, and in the      *)
(* version part the version its next owner will get.  Slots skipped by a   *)
(* resize store the null handle.                                           *)
(***************************************************************************)
EXTENDS Integers, Sequences

CONSTANTS MaxEntities,  \* bound on locations_.size(): 2^30 in the code
          MaxVersion    \* bound on a version: 2^24 - 1 in the code

ASSUME BoundsAssumption == MaxEntities \in Nat \ {0} /\ MaxVersion \in Nat

VARIABLES size,        \* locations_.size()
          slots,       \* locations_[id].entity, NullHandle from size on
          nextSlot,    \* next_slot_, the head of the free list
          emptySlots   \* empty_slots_, the length of the free list

slotVars == <<size, slots, nextSlot, emptySlots>>

Ids == 0..(MaxEntities - 1)
Versions == 0..MaxVersion
Handles == [id : Ids, ver : Versions]
NullHandle == [id |-> -1, ver |-> -1]
NoSlots == [i \in Ids |-> NullHandle]

Max2(a, b) == IF a >= b THEN a ELSE b

SlotsTypeOK ==
    /\ size \in 0..MaxEntities
    /\ slots \in [Ids -> [id : 0..MaxEntities, ver : Versions] \cup {NullHandle}]
    /\ nextSlot \in 0..MaxEntities
    /\ emptySlots \in Nat

-----------------------------------------------------------------------------
(* isEntityValid: the slot stores exactly this handle.                     *)
Valid(e) == e.id < size /\ slots[e.id] = e

Used(id) == id < size /\ slots[id].id = id
Gap(id)  == id < size /\ slots[id] = NullHandle
Free(id) == id < size /\ ~Used(id) /\ ~Gap(id)

(* Handles some create has returned and the slots still remember.          *)
Issued(e) == /\ e.id < size
             /\ \/ e.ver < slots[e.id].ver
                \/ Valid(e)

(* Mistaken variant: the free list is popped even when it is empty.        *)
NewHandlePopped == [id |-> nextSlot, ver |-> slots[nextSlot].ver]

(* The handle createWithOutInit returns in the current state.              *)
NewHandle == IF emptySlots = 0
             THEN [id |-> size, ver |-> 0]
             ELSE [id |-> nextSlot, ver |-> slots[nextSlot].ver]

SlotsInit ==
    /\ size = 0
    /\ slots = NoSlots
    /\ nextSlot = 0
    /\ emptySlots = 0

(* createWithOutInit, manager not locked: extend, or pop the free list.    *)
Acquire ==
    \/ /\ emptySlots = 0
       /\ size < MaxEntities
       /\ slots' = [slots EXCEPT ![size] = NewHandle]
       /\ size' = size + 1
       /\ UNCHANGED <<nextSlot, emptySlots>>
    \/ /\ emptySlots > 0
       /\ nextSlot' = slots[nextSlot].id
       /\ slots' = [slots EXCEPT ![nextSlot] = NewHandle]
       /\ emptySlots' = emptySlots - 1
       /\ UNCHANGED size

(* Mistaken variant: the last slot of the list links to a stale head.      *)
ReleaseStaleLink(e) ==
    /\ e.ver < MaxVersion
    /\ size' = Max2(size, e.id + 1)
    /\ slots' = [slots EXCEPT ![e.id] = [id |-> nextSlot, ver |-> e.ver + 1]]
    /\ nextSlot' = e.id
    /\ emptySlots' = emptySlots + 1

(* Mistaken variant: the version is left for the next owner.               *)
ReleaseSameVersion(e) ==
    /\ size' = Max2(size, e.id + 1)
    /\ slots' = [slots EXCEPT ![e.id] =
                    [id |-> IF emptySlots > 0 THEN nextSlot ELSE e.id + 1, ver |-> e.ver]]
    /\ nextSlot' = e.id
    /\ emptySlots' = emptySlots + 1

(* releaseEntityIdUnsafe: push the slot with the next version.  Versions   *)
(* are not reused within the bound MaxVersion.                             *)
Release(e) ==
    /\ e.ver < MaxVersion
    /\ size' = Max2(size, e.id + 1)
    /\ slots' = [slots EXCEPT ![e.id] =
                    [id  |-> IF emptySlots > 0 THEN nextSlot ELSE e.id + 1,
                     ver |-> e.ver + 1]]
    /\ nextSlot' = e.id
    /\ emptySlots' = emptySlots + 1

(* Mistaken variant: the rows are cleared and the ids forgotten.           *)
ReleaseAllForgotten(es) == UNCHANGED slotVars

(* clearArchetype releases the entities of an archetype in their order.    *)
ReleaseAll(es) ==
    LET n == Len(es)
        Rank(id) == CHOOSE k \in 1..n : es[k].id = id
        Next(k) == IF k > 1 THEN es[k - 1].id
                   ELSE IF emptySlots > 0 THEN nextSlot ELSE es[1].id + 1
        Ids0 == {es[k].id : k \in 1..n}
    IN  /\ \A k \in 1..n : es[k].ver < MaxVersion
        /\ slots' = [id \in Ids |->
                       IF id \in Ids0
                       THEN [id |-> Next(Rank(id)), ver |-> es[Rank(id)].ver + 1]
                       ELSE slots[id]]
        /\ nextSlot' = IF n = 0 THEN nextSlot ELSE es[n].id
        /\ emptySlots' = emptySlots + n
        /\ UNCHANGED size

(* Mistaken variant: the slot right behind the last is not made.           *)
AdoptLate(e) ==
    /\ IF e.id > size
       THEN size' = e.id + 1 /\ slots' = [slots EXCEPT ![e.id] = e]
       ELSE UNCHANGED <<size, slots>>
    /\ UNCHANGED <<nextSlot, emptySlots>>

(* applyCommandPack, first command is a create: the handle was chosen by   *)
(* createLocked; its slot is written only when it does not exist yet.      *)
Adopt(e) ==
    /\ IF e.id >= size
       THEN size' = e.id + 1 /\ slots' = [slots EXCEPT ![e.id] = e]
       ELSE UNCHANGED <<size, slots>>
    /\ UNCHANGED <<nextSlot, emptySlots>>

(* The part of clear() that concerns handles.                              *)
ClearSlots ==
    /\ size' = 0
    /\ slots' = NoSlots
    /\ nextSlot' = 0
    /\ emptySlots' = 0

-----------------------------------------------------------------------------
(* The handle allocator on its own: whatever the manager does between two  *)
(* calls of clear() is a sequence of these steps.  A handle made while     *)
(* locked has version 0 and an id beyond the slots of that time, so when   *)
(* it is applied its slot is new or a gap left by a higher one.            *)
LockedHandles == {e \in Handles : e.ver = 0 /\ (e.id >= size \/ Gap(e.id))}
Releasable == {e \in Handles : Valid(e) \/ e \in LockedHandles}

Distinct(es) == \A j, k \in DOMAIN es : es[j].id = es[k].id => j = k
Batches == {es \in UNION {[1..n -> Releasable] : n \in 1..MaxEntities} :
               Distinct(es) /\ \A k \in DOMAIN es : es[k].id < size}

SlotsNext ==
    \/ Acquire
    \/ \E e \in Releasable : Release(e)
    \/ \E es \in Batches : ReleaseAll(es)
    \/ \E e \in LockedHandles : Adopt(e)

SlotsSpec == SlotsInit /\ [][SlotsNext]_slotVars

-----------------------------------------------------------------------------
(* The free list: exactly the free slots, each once, starting at nextSlot  *)
(* and linked through their id parts.  createWithOutInit pops it and       *)
(* releaseEntityIdUnsafe and clearArchetype push onto it; a slot in use on *)
(* the list would be handed out twice, a free slot off it would be lost.   *)
IsFreeList(f) ==
    /\ \A i, j \in 1..emptySlots : f[i] = f[j] => i = j
    /\ \A id \in Ids : Free(id) <=> \E i \in 1..emptySlots : f[i] = id
    /\ emptySlots > 0 => nextSlot = f[1]
    /\ \A i \in 1..(emptySlots - 1) : slots[f[i]].id = f[i + 1]

(* locations_ is default-constructed where it has just been resized.       *)
TailIsNull == \A id \in Ids : id >= size => slots[id] = NullHandle

FreeListInv == \E f \in [1..emptySlots -> Ids] : IsFreeList(f)

(* The version part does its job: a handle once issued stays known, and    *)
(* none that is dead becomes valid again (until clear() forgets them all), *)
(* so isEntityValid never mistakes a new entity for an old one.            *)
DeadStaysDead == \A e \in Handles :
                    Issued(e) => Issued(e)' /\ (Valid(e)' => Valid(e))
HandlesNotReused == [][DeadStaysDead]_slotVars
=============================================================================
