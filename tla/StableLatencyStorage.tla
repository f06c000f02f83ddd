------------------------ MODULE StableLatencyStorage ------------------------
(***************************************************************************)
(* StableLatencyComponentDataStorage, the growing array behind every       *)
(* archetype.  Instead of moving everything when it is full, it keeps two  *)
(* buffers, the second twice as large: elements below migration_pos_ are   *)
(* in the first, the others in the second, and every insertion moves one   *)
(* element over.  When the second is full too, it becomes the first.       *)
(*                                                                         *)
(* Archetype is the only client: it emplaces one element behind the last   *)
(* and constructs it there, and it removes an element by moving the last   *)
(* one into its place.  Indices are the code's, from 0.                    *)
(***************************************************************************)
EXTENDS Integers, Sequences, FiniteSets

CONSTANTS InitialCapacity,  \* elements in a page, at least min_initial_capacity
          MaxSize,          \* bound on size_
          Values,           \* what is stored: the bytes of an element
          Shrinks,          \* whether elements are removed
          EarlyClear        \* whether clear() is called before the first growth

Garbage == "garbage"        \* storage with no live element in it

ASSUME StorageAssumption ==
    /\ InitialCapacity \in Nat \ {0}
    /\ MaxSize \in Nat
    /\ Garbage \notin Values
    /\ Shrinks \in BOOLEAN /\ EarlyClear \in BOOLEAN

VARIABLES size,          \* size_
          migrationPos,  \* migration_pos_
          capacity,      \* capacity_: what the first buffer is used for
          first,         \* buffers_[0]
          second,        \* buffers_[1], NoBuffer while empty()
          contents       \* what the client has stored and not removed

vars == <<size, migrationPos, capacity, first, second, contents>>

Indices == 0..(MaxSize - 1)
Cells == [Indices -> Values \cup {Garbage}]
NoBuffer == [room |-> -1, cells |-> [i \in Indices |-> Garbage]]
NewBuffer(n) == [room |-> n, cells |-> [i \in Indices |-> Garbage]]

NoContents == [i \in {} |-> Garbage]

HasSecond == second # NoBuffer

TypeOK ==
    /\ size \in 0..MaxSize
    /\ migrationPos \in 0..size
    /\ capacity \in Nat
    /\ first \in [room : Nat, cells : Cells]
    /\ second \in [room : Nat, cells : Cells] \cup {NoBuffer}
    /\ contents \in [0..(size - 1) -> Values]

Init ==
    /\ size = 0
    /\ migrationPos = 0
    /\ capacity = InitialCapacity
    /\ first = NewBuffer(InitialCapacity)
    /\ second = NoBuffer
    /\ contents = NoContents

-----------------------------------------------------------------------------
(* getDataUnsafe: the buffer and the index within it, and what is there;   *)
(* beyond the buffer, or beyond the part capacity_ assigns to a component, *)
(* is somebody else's memory.                                              *)
InSecond(i, pos) == i >= pos
InBounds(i) == IF InSecond(i, migrationPos)
               THEN i < second.room /\ i < 2 * capacity
               ELSE i < first.room /\ i < capacity
Read(i) == IF ~InBounds(i) THEN Garbage
           ELSE IF InSecond(i, migrationPos) THEN second.cells[i] ELSE first.cells[i]

(* Mistaken variants: a buffer is grown one element too early, or late.    *)
NeedGrowEarly == IF HasSecond THEN size >= 2 * capacity - 1 ELSE size >= capacity
NeedGrowLate == IF HasSecond THEN size > 2 * capacity ELSE size >= capacity
NeedGrow == IF HasSecond THEN size >= 2 * capacity ELSE size >= capacity

(* grow(), or nothing when the element fits: the buffers, the capacity and *)
(* the migration position incSize goes on with.                            *)
MinInitialCapacity == 1
Grown ==
    LET cap == IF ~HasSecond THEN capacity
               ELSE IF capacity = 0 THEN MinInitialCapacity ELSE 2 * capacity
    IN  IF NeedGrow
        THEN [cap |-> cap, pos |-> size, snd |-> NewBuffer(2 * cap),
              fst |-> IF HasSecond THEN second ELSE first]
        ELSE [cap |-> capacity, pos |-> migrationPos, snd |-> second, fst |-> first]

(* migrationSteps(1): move the element below the migration position.       *)
Put(b, i, v) == [room |-> b.room, cells |-> [b.cells EXCEPT ![i] = v]]
(* Mistaken variants: the element moved is one too high, or all are moved. *)
MigratedShifted(g) ==
    LET last == g.pos - 1
    IN  IF g.pos = 0 \/ g.snd = NoBuffer \/ g.pos \notin Indices THEN g
        ELSE [cap |-> g.cap, pos |-> last, snd |-> Put(g.snd, last, g.fst.cells[g.pos]),
              fst |-> Put(g.fst, g.pos, Garbage)]
MigratedAll(g) ==
    IF g.pos = 0 \/ g.snd = NoBuffer THEN g
    ELSE [cap |-> g.cap, pos |-> 0, fst |-> NewBuffer(g.fst.room),
          snd |-> [g.snd EXCEPT !.cells = [i \in Indices |->
                      IF i < g.pos THEN g.fst.cells[i] ELSE @[i]]]]
Migrated(g) ==
    LET last == g.pos - 1
    IN  IF g.pos = 0 \/ g.snd = NoBuffer THEN g
        ELSE [cap |-> g.cap, pos |-> last, snd |-> Put(g.snd, last, g.fst.cells[last]),
              fst |-> Put(g.fst, last, Garbage)]

(* incSize after it has grown: migrate, or count one more element of the   *)
(* first buffer.                                                           *)
Stepped == IF size >= Grown.cap THEN Migrated(Grown)
           ELSE [cap |-> Grown.cap, pos |-> Grown.pos + 1, snd |-> Grown.snd,
                 fst |-> Grown.fst]

(* Archetype::pushBack, then constructing or moving in the new element:    *)
(* emplace(position) with position = size_, so reserve calls incSize once. *)
PushBack(v) ==
    LET n == Stepped
    IN  /\ size < MaxSize
        /\ size' = size + 1
        /\ capacity' = n.cap
        /\ migrationPos' = n.pos
        /\ first' = IF InSecond(size, n.pos) THEN n.fst ELSE Put(n.fst, size, v)
        /\ second' = IF InSecond(size, n.pos) THEN Put(n.snd, size, v) ELSE n.snd
        /\ contents' = [i \in 0..size |-> IF i = size THEN v ELSE contents[i]]

(* Archetype::remove: the last element is moved to index i (internalMove), *)
(* and its old place destroyed; then popBack calls decrSize.               *)
Last == size - 1
AfterRemove(b, inSecond, i) ==
    [room |-> b.room,
     cells |-> [k \in Indices |->
        IF InSecond(k, migrationPos) # inSecond THEN b.cells[k]
        ELSE IF k = Last THEN Garbage
        ELSE IF k = i THEN Read(Last) ELSE b.cells[k]]]

(* Mistaken variant: decrSize leaves the migration position behind.        *)
RemoveUnclipped(i) ==
    /\ Shrinks
    /\ size' = Last
    /\ first' = AfterRemove(first, FALSE, i)
    /\ second' = IF HasSecond THEN AfterRemove(second, TRUE, i) ELSE second
    /\ contents' = [k \in 0..(Last - 1) |-> IF k = i THEN contents[Last] ELSE contents[k]]
    /\ UNCHANGED <<capacity, migrationPos>>
Remove(i) ==
    /\ Shrinks
    /\ size' = Last
    /\ migrationPos' = IF Last < migrationPos THEN Last ELSE migrationPos
    /\ first' = AfterRemove(first, FALSE, i)
    /\ second' = IF HasSecond THEN AfterRemove(second, TRUE, i) ELSE second
    /\ contents' = [k \in 0..(Last - 1) |-> IF k = i THEN contents[Last] ELSE contents[k]]
    /\ UNCHANGED capacity

(* Archetype::clear: destroy every element, then clear(false), which keeps *)
(* the buffers.                                                            *)
Clear ==
    /\ size > 0
    /\ EarlyClear \/ HasSecond
    /\ size' = 0
    /\ migrationPos' = 0
    /\ capacity' = 0
    /\ first' = NewBuffer(first.room)
    /\ second' = IF HasSecond THEN NewBuffer(second.room) ELSE second
    /\ contents' = NoContents

Next ==
    \/ \E v \in Values : PushBack(v)
    \/ \E i \in 0..(size - 1) : Remove(i)
    \/ Clear

Spec == Init /\ [][Next]_vars

-----------------------------------------------------------------------------
(* Every element is where getDataUnsafe looks for it, with the value its   *)
(* client gave it.                                                         *)
Intact == \A i \in 0..(size - 1) : Read(i) = contents[i]

(* The second buffer is never full before the first is empty: grow() gives *)
(* the first buffer up, so an element still in it would be lost.           *)
NothingLeftBehind == HasSecond /\ NeedGrow => migrationPos = 0

(* No element is ever looked up outside its buffer.                        *)
NeverOutside == \A i \in 0..(size - 1) : InBounds(i)

(* The one way to lose an element: insert after removals that took size_   *)
(* below capacity_ when some elements had been moved over.  Every other    *)
(* step keeps all of them.                                                 *)
Recounts == migrationPos < size /\ size < capacity
KeptUnlessRecounted == [][Intact => Intact' \/ (Recounts /\ size' > size)]_vars

(* What the class is for: an insertion moves at most one element, however  *)
(* large the array, so its latency is stable.  The second buffer becoming  *)
(* the first moves nothing.                                                *)
Swapped == capacity' # capacity
Stays(i) == InSecond(i, migrationPos') <=> InSecond(i, migrationPos) /\ ~Swapped
StableLatency == [][size' > size =>
                    Cardinality({i \in 0..(size - 1) : ~Stays(i)}) <= 1]_vars
=============================================================================
