--------------------------- MODULE EntityManager ---------------------------
(***************************************************************************)
(* The entity manager of mustache: immediate operations while unlocked,    *)
(* recorded ones while locked.  lock() is held while a job iterates;       *)
(* every thread then records its operations in its own temporal storage,   *)
(* and the last unlock() applies the storages one after the other, packing *)
(* the consecutive commands for one entity into one move.                  *)
(*                                                                         *)
(* unlock() and update() are loops that other code can observe only        *)
(* through hooks, which this module does not model; each iteration is a    *)
(* step, and phase tells which loop is running.  A thread's atomic         *)
(* increment of next_entity_id_ and the record in its own storage are one  *)
(* step: nobody else reads the storage before unlock().                    *)
(***************************************************************************)
EXTENDS ArchetypeTable, FiniteSets

CONSTANTS Assigned,     \* the component values clients assign
          NumThreads,   \* temporal_storages_.size()
          Creators,     \* threads that create entities while locked
          Deps,         \* addDependency: component -> components it needs
          MaxCommands,  \* bound on the commands recorded in all storages
          MaxMarked,    \* bound on the size of marked_for_delete_
          MaxLocks,     \* bound on lock_counter_
          WithClear     \* whether clear() and clearArchetype() are called

Default == "default"
Raw == "raw"            \* storage no constructor has run on
Values == {Default} \cup Assigned
Threads == 1..NumThreads

ASSUME ManagerAssumption ==
    /\ Default \notin Assigned /\ Raw \notin Values
    /\ NumThreads \in Nat \ {0} /\ Creators \subseteq Threads
    /\ Deps \in [Components -> SUBSET Components]
    /\ MaxCommands \in Nat /\ MaxMarked \in Nat /\ MaxLocks \in Nat
    /\ WithClear \in BOOLEAN

VARIABLES lockCounter,   \* lock_counter_
          nextEntityId,  \* next_entity_id_
          storages,      \* temporal_storages_: the commands not applied yet
          storageUsed,   \* was_temporal_storage_used_
          marked,        \* marked_for_delete_
          phase,         \* "idle", or the loop running: "unlock", "update"
          fault          \* how the program has died, "none" while it has not

lockVars == <<lockCounter, nextEntityId, storages, storageUsed>>
vars == <<slotVars, tableVars, lockVars, marked, phase, fault>>

(* The commands of TemporalStorage.                                        *)
Commands == [op : {"create"}, ent : Handles, mask : Masks]
       \cup [op : {"assign"}, ent : Handles, comp : Components, val : Values]
       \cup [op : {"remove"}, ent : Handles, comp : Components]
       \cup [op : {"destroy", "destroyNow"}, ent : Handles]

TypeOK ==
    /\ SlotsTypeOK
    /\ rows \in [Masks -> Seq([ent : Handles, data : UNION {[m -> Values \cup {Raw}] : m \in Masks}])]
    /\ place \in [Ids -> [arch : Masks, index : Nat]]
    /\ lockCounter \in 0..MaxLocks
    /\ nextEntityId \in 0..MaxEntities
    /\ storages \in [Threads -> Seq(Commands)]
    /\ storageUsed \in BOOLEAN
    /\ marked \subseteq Handles
    /\ phase \in {"idle", "unlock", "update"}
    /\ fault \in {"none", "terminate", "outOfBounds"}

Init ==
    /\ SlotsInit
    /\ TableInit
    /\ lockCounter = 0
    /\ nextEntityId = 0
    /\ storages = [t \in Threads |-> <<>>]
    /\ storageUsed = FALSE
    /\ marked = {}
    /\ phase = "idle"
    /\ fault = "none"

-----------------------------------------------------------------------------
(* getExtraComponents and getArchetype: the mask with everything it needs; *)
(* mistaken variant: the mask as it is.                                    *)
Closed(m) == \A c \in m : Deps[c] \subseteq m
ClosureIgnored(m) == m
Closure(m) == {c \in Components : \A n \in Masks : m \subseteq n /\ Closed(n) => c \in n}

Idle == phase = "idle" /\ fault = "none"
Unlocked == Idle /\ lockCounter = 0
Locked == Idle /\ lockCounter > 0

(* A client may pass any handle it was given, dead ones included.          *)
Pending == {e \in Handles : \E t \in Threads : \E i \in DOMAIN storages[t] :
               storages[t][i].op = "create" /\ storages[t][i].ent = e}
Known == {e \in Handles : Issued(e)} \cup Pending

MaskOf(e) == place[e.id].arch
DataOf(e) == RowOf(e.id).data

-----------------------------------------------------------------------------
(* Immediate operations.                                                   *)

(* Mistaken variant: components needed by others get no value.             *)
CreateIncomplete(vals) ==
    /\ Unlocked
    /\ Acquire
    /\ InsertRow(NewHandle, Closure(DOMAIN vals), vals)
    /\ UNCHANGED <<lockVars, marked, phase, fault>>

(* create<Components...>() and begin().assign<C>(v)...end(): the values    *)
(* given, and constructed ones for the components these need.              *)
Create(vals) ==
    LET m == Closure(DOMAIN vals)
        data == [c \in m |-> IF c \in DOMAIN vals THEN vals[c] ELSE Default]
    IN  /\ Unlocked
        /\ Acquire
        /\ InsertRow(NewHandle, m, data)
        /\ UNCHANGED <<lockVars, marked, phase, fault>>

(* assign<C>(e, v).  Assigning a component the entity has throws and       *)
(* changes nothing; the entity must be alive, which assign does not check. *)
Assign(e, c, v) ==
    LET m == Closure(MaskOf(e) \cup {c})
        data == [d \in m |-> IF d = c THEN v
                             ELSE IF d \in MaskOf(e) THEN DataOf(e)[d] ELSE Default]
    IN  /\ Unlocked
        /\ Alive(e)
        /\ c \notin MaskOf(e)
        /\ MoveRow(e, m, data)
        /\ UNCHANGED <<slotVars, lockVars, marked, phase, fault>>

(* removeComponent<C>(e), the safe template: quietly nothing when e is     *)
(* dead, has no C, or has a component that needs C.  Only the template     *)
(* tests the handle; the overload by ComponentId that it calls does not.   *)
RemoveComponent(e, c) ==
    LET m == Closure(MaskOf(e) \ {c})
    IN  /\ Unlocked
        /\ Alive(e)
        /\ c \in MaskOf(e)
        /\ MoveRow(e, m, [d \in m |-> DataOf(e)[d]])
        /\ UNCHANGED <<slotVars, lockVars, marked, phase, fault>>

(* destroy(e) marks any handle, dead ones too.                             *)
Destroy(e) ==
    /\ Unlocked
    /\ Cardinality(marked) < MaxMarked
    /\ marked' = marked \cup {e}
    /\ UNCHANGED <<slotVars, tableVars, lockVars, phase, fault>>

DestroyNow(e) ==
    /\ Unlocked
    /\ Alive(e)
    /\ RemoveRow(e)
    /\ Release(e)
    /\ UNCHANGED <<lockVars, marked, phase, fault>>

(* update() throws while locked; else destroys every marked entity, in the *)
(* order of the set: by version, then id.                                  *)
BeginUpdate ==
    /\ Unlocked
    /\ phase' = "update"
    /\ UNCHANGED <<slotVars, tableVars, lockVars, marked, fault>>

Before(d, e) == d.ver < e.ver \/ (d.ver = e.ver /\ d.id < e.id)

DestroyMarked ==
    /\ phase = "update" /\ fault = "none"
    /\ \E e \in marked :
          /\ \A d \in marked \ {e} : Before(e, d)
          /\ marked' = marked \ {e}
          /\ \/ Alive(e) /\ RemoveRow(e) /\ Release(e)
             \/ ~Alive(e) /\ UNCHANGED <<slotVars, tableVars>>
    /\ UNCHANGED <<lockVars, phase, fault>>

EndUpdate ==
    /\ phase = "update" /\ fault = "none"
    /\ marked = {}
    /\ phase' = "idle"
    /\ UNCHANGED <<slotVars, tableVars, lockVars, marked, fault>>

(* clear() and clearArchetype() check neither the lock nor the marks.      *)
Clear ==
    /\ WithClear /\ Idle
    /\ ClearSlots
    /\ ClearTable
    /\ UNCHANGED <<lockVars, marked, phase, fault>>

ClearArchetype(m) ==
    /\ WithClear /\ Idle
    /\ rows[m] # <<>>
    /\ ReleaseAll([k \in DOMAIN rows[m] |-> rows[m][k].ent])
    /\ ClearRows(m)
    /\ UNCHANGED <<lockVars, marked, phase, fault>>

-----------------------------------------------------------------------------
(* Recorded operations.                                                    *)

(* Mistaken variant: every lock takes the next id afresh.                  *)
LockRenewed ==
    /\ Idle
    /\ lockCounter < MaxLocks
    /\ lockCounter' = lockCounter + 1
    /\ nextEntityId' = size
    /\ UNCHANGED <<slotVars, tableVars, storages, storageUsed, marked, phase, fault>>

(* Mistaken variant: the next id is the one of the lock before.            *)
LockStale ==
    /\ Idle
    /\ lockCounter < MaxLocks
    /\ lockCounter' = lockCounter + 1
    /\ UNCHANGED <<slotVars, tableVars, nextEntityId, storages, storageUsed, marked, phase, fault>>

Lock ==
    /\ Idle
    /\ lockCounter < MaxLocks
    /\ lockCounter' = lockCounter + 1
    /\ nextEntityId' = IF lockCounter = 0 THEN size ELSE nextEntityId
    /\ UNCHANGED <<slotVars, tableVars, storages, storageUsed, marked, phase, fault>>

Record(t, cmd) ==
    /\ Locked
    /\ Cardinality(UNION {{t0} \X DOMAIN storages[t0] : t0 \in Threads}) < MaxCommands
    /\ storages' = [storages EXCEPT ![t] = Append(@, cmd)]
    /\ storageUsed' = TRUE
    /\ UNCHANGED <<slotVars, tableVars, lockCounter, marked, phase, fault>>

CreateLocked(t, m) ==
    LET id == nextEntityId
        e  == [id |-> id, ver |-> IF id < size THEN slots[id].ver + 1 ELSE 0]
    IN  /\ t \in Creators
        /\ id < MaxEntities /\ e \in Handles
        /\ Record(t, [op |-> "create", ent |-> e, mask |-> m])
        /\ nextEntityId' = id + 1

RecordAssign(t, e, c, v) ==
    /\ Record(t, [op |-> "assign", ent |-> e, comp |-> c, val |-> v])
    /\ UNCHANGED nextEntityId

RecordRemove(t, e, c) ==
    /\ Record(t, [op |-> "remove", ent |-> e, comp |-> c])
    /\ UNCHANGED nextEntityId

RecordDestroy(t, e) ==
    /\ \E op \in {"destroy", "destroyNow"} : Record(t, [op |-> op, ent |-> e])
    /\ UNCHANGED nextEntityId

Unlock ==
    /\ Locked
    /\ lockCounter' = lockCounter - 1
    /\ IF lockCounter = 1 /\ storageUsed
       THEN phase' = "unlock" /\ storageUsed' = FALSE
       ELSE UNCHANGED <<phase, storageUsed>>
    /\ UNCHANGED <<slotVars, tableVars, nextEntityId, storages, marked, fault>>

-----------------------------------------------------------------------------
(* applyStorage and applyCommandPack.                                      *)

Latest(S) == CHOOSE i \in S : \A j \in S : j <= i
Earliest(S) == CHOOSE i \in S : \A j \in S : i <= j

(* The longest prefix of commands for one entity.                          *)
PackLength(s) == CHOOSE n \in 1..Len(s) :
                    /\ \A i \in 1..n : s[i].ent = s[1].ent
                    /\ n < Len(s) => s[n + 1].ent # s[1].ent

Touching(cmds, c) == {i \in DOMAIN cmds : /\ cmds[i].op \in {"assign", "remove"}
                                          /\ cmds[i].comp = c}
Assigning(cmds, c) == {i \in Touching(cmds, c) : cmds[i].op = "assign"}

(* Mistaken variant: an assign wins over a later remove.                   *)
FinalMaskUnordered(initial, cmds) ==
    {c \in Components : IF Touching(cmds, c) = {} THEN c \in initial ELSE Assigning(cmds, c) # {}}

(* The mask after setting and clearing a bit per command, in order.        *)
FinalMask(initial, cmds) ==
    {c \in Components : IF Touching(cmds, c) = {} THEN c \in initial
                        ELSE cmds[Latest(Touching(cmds, c))].op = "assign"}

(* Mistaken variant: a component that is there keeps its value.            *)
FinalDataKept(created, initial, old, target, cmds) ==
    [c \in target |->
        IF c \in initial THEN old[c]
        ELSE IF Assigning(cmds, c) # {} THEN cmds[Latest(Assigning(cmds, c))].val
        ELSE IF created THEN Raw ELSE Default]

(* The components after the move: assigned values are moved in last, over  *)
(* whatever is there; others keep their value or are constructed, except   *)
(* that insert() skips every constructor outside the mask of the create.   *)
FinalData(created, initial, old, target, cmds) ==
    [c \in target |->
        IF Assigning(cmds, c) # {} THEN cmds[Latest(Assigning(cmds, c))].val
        ELSE IF c \in initial THEN old[c]
        ELSE IF created THEN Raw ELSE Default]

(* The first storage with commands is the one being applied.               *)
Applying == Earliest({t \in Threads : storages[t] # <<>>})

ApplyPack ==
    LET t       == Applying
        pack    == SubSeq(storages[t], 1, PackLength(storages[t]))
        e       == pack[1].ent
        created == pack[1].op = "create"
        cmds    == IF created THEN Tail(pack) ELSE pack
        kills   == {i \in DOMAIN cmds : cmds[i].op = "destroyNow"}
        seen    == IF kills = {} THEN cmds ELSE SubSeq(cmds, 1, Earliest(kills) - 1)
        initial == IF created THEN pack[1].mask ELSE MaskOf(e)
        old     == IF created THEN [c \in initial |-> Default] ELSE DataOf(e)
        final   == FinalMask(initial, cmds)
        target  == Closure(final)
        data    == FinalData(created, initial, old, target, cmds)
        moves   == created \/ initial # final
        throws  == \/ \E i \in DOMAIN seen : seen[i].op = "create"
                   \/ kills = {} /\ ~created /\ moves /\ target = initial
        strays  == kills = {} /\ \E c \in Components \ target : Assigning(cmds, c) # {}
        dropped == ~created /\ ~Alive(e)
        rest    == [storages EXCEPT ![t] = SubSeq(@, Len(pack) + 1, Len(@))]
    IN  /\ phase = "unlock" /\ fault = "none"
        /\ UNCHANGED <<lockCounter, nextEntityId, storageUsed>>
        /\ IF ~dropped /\ (throws \/ strays)
           THEN \* the exception leaves the noexcept unlock(); getData gets a null index
                /\ fault' = IF throws THEN "terminate" ELSE "outOfBounds"
                /\ UNCHANGED <<slotVars, tableVars, storages, marked, phase>>
           ELSE /\ storages' = rest
                /\ phase' = IF \A u \in Threads : rest[u] = <<>> THEN "idle" ELSE phase
                /\ marked' = IF ~dropped /\ \E i \in DOMAIN seen : seen[i].op = "destroy"
                             THEN marked \cup {e} ELSE marked
                /\ UNCHANGED fault
                /\ \/ dropped /\ UNCHANGED <<slotVars, tableVars>>
                   \/ /\ ~dropped /\ kills # {}
                      /\ Release(e)
                      /\ IF created THEN UNCHANGED tableVars ELSE RemoveRow(e)
                   \/ /\ created /\ kills = {}
                      /\ Adopt(e) /\ InsertRow(e, target, data)
                   \/ /\ ~dropped /\ ~created /\ kills = {}
                      /\ IF moves THEN MoveRow(e, target, data) ELSE WriteRow(e, data)
                      /\ UNCHANGED slotVars

-----------------------------------------------------------------------------
(* What a client does with a handle it has. *)
Use(e) ==
    \/ Destroy(e) \/ DestroyNow(e)
    \/ \E c \in Components : RemoveComponent(e, c) \/ \E v \in Assigned : Assign(e, c, v)
    \/ \E t \in Threads :
          \/ RecordDestroy(t, e)
          \/ \E c \in Components : RecordRemove(t, e, c) \/ \E v \in Assigned : RecordAssign(t, e, c, v)

Next ==
    \/ \E m \in Masks : \E vals \in [m -> Values] : Create(vals)
    \/ \E t \in Threads, m \in Masks : CreateLocked(t, m)
    \/ \E e \in Known : Use(e)
    \/ Lock \/ Unlock \/ ApplyPack
    \/ BeginUpdate \/ DestroyMarked \/ EndUpdate
    \/ Clear \/ \E m \in Masks : ClearArchetype(m)

Spec == Init /\ [][Next]_vars

-----------------------------------------------------------------------------
(* Between two calls of the manager, an entity is valid exactly when it is *)
(* in an archetype, and every row belongs to a valid entity: no handle in  *)
(* use without components' storage, and no row nobody can ever destroy.    *)
RowsAreAlive ==
    /\ \A e \in Handles : Valid(e) => Placed(e.id)
    /\ \A m \in Masks : \A k \in DOMAIN rows[m] : Valid(rows[m][k].ent)

(* Every archetype holds, with a component, all the components it needs.   *)
MasksClosed == \A m \in Masks : rows[m] # <<>> => Closed(m)

(* The entities a lock makes never collide with ids already in use.        *)
LockedIdsAreNew == \A e \in Pending : ~Issued(e) /\ ~Placed(e.id)

(* unlock() is noexcept: applying the recorded commands never throws.      *)
UnlockNeverThrows == fault # "terminate"

(* unlock() applies assign and remove as recorded, inside the archetype.   *)
UnlockStaysInBounds == fault # "outOfBounds"

(* A component an entity has was constructed or assigned.                  *)
NoRawComponent == \A m \in Masks : \A k \in DOMAIN rows[m] : \A c \in m :
                      rows[m][k].data[c] # Raw

(* The registry a client sees, and the handle allocator inside.            *)
Registry == INSTANCE EntityRegistry WITH
    alive <- [e \in {e \in Handles : Alive(e)} |-> DataOf(e)],
    issued <- {e \in Handles : Issued(e)},
    pending <- storages
ImplementsRegistry == Registry!Spec
AllocatesHandles == SlotsSpec
=============================================================================
