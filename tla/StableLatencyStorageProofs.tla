-------------------- MODULE StableLatencyStorageProofs --------------------
(* Theorems about the storage of components, for every capacity and size.  *)
EXTENDS StableLatencyStorage, FiniteSetTheorems, TLAPS

USE StorageAssumption

Buffer == [room : Nat, cells : Cells]

(* What the positions obey: while elements are being moved over there are  *)
(* as many insertions left as elements to move.                            *)
PositionsInv ==
    /\ size \in 0..MaxSize
    /\ migrationPos \in 0..size
    /\ capacity \in Nat
    /\ first \in Buffer
    /\ second \in Buffer \cup {NoBuffer}
    /\ contents \in [0..(size - 1) -> Values]
    /\ ~HasSecond => migrationPos = size /\ size <= capacity
    /\ HasSecond => size <= 2 * capacity \/ (capacity = 0 /\ size <= 1)
    /\ HasSecond /\ size >= capacity =>
          migrationPos = 0 \/ migrationPos + size <= 2 * capacity

(* What the buffers obey, unless clear() came before the first growth.     *)
RoomInv ==
    /\ capacity <= first.room
    /\ HasSecond => 2 * capacity <= second.room /\ size <= 2 * capacity
    /\ HasSecond => second.room > 0
    /\ ~HasSecond => capacity > 0

LEMMA BufferFacts ==
  /\ \A n \in Nat : NewBuffer(n) \in Buffer /\ NewBuffer(n) # NoBuffer /\ NewBuffer(n).room = n
  /\ \A b \in Buffer : b # NoBuffer
  /\ \A b \in Buffer, i \in Indices, v \in Values \cup {Garbage} :
        Put(b, i, v) \in Buffer /\ Put(b, i, v).room = b.room
  /\ \A b \in Buffer, i \in Indices, v \in Values \cup {Garbage} :
        /\ Put(b, i, v).cells[i] = v
        /\ \A k \in Indices : k # i => Put(b, i, v).cells[k] = b.cells[k]
<1>1. \A n \in Nat : NewBuffer(n) \in Buffer /\ NewBuffer(n).room = n
  BY DEF NewBuffer, Buffer, Cells
<1>2. \A b \in Buffer : b.room # -1
  BY DEF Buffer
<1>3. \A b \in Buffer : b # NoBuffer
  BY <1>2 DEF NoBuffer
<1>4. ASSUME NEW b \in Buffer, NEW i \in Indices, NEW v \in Values \cup {Garbage}
      PROVE  /\ Put(b, i, v) \in Buffer /\ Put(b, i, v).room = b.room
             /\ Put(b, i, v).cells[i] = v
             /\ \A k \in Indices : k # i => Put(b, i, v).cells[k] = b.cells[k]
  BY DEF Put, Buffer, Cells
<1> QED BY <1>1, <1>3, <1>4

LEMMA InitPositions == Init => PositionsInv /\ RoomInv
<1> SUFFICES ASSUME Init PROVE PositionsInv /\ RoomInv
  OBVIOUS
<1>1. first \in Buffer /\ first.room = InitialCapacity
  BY BufferFacts DEF Init
<1>2. contents \in [0..(size - 1) -> Values]
  BY DEF Init, NoContents
<1> QED BY <1>1, <1>2 DEF Init, PositionsInv, RoomInv, HasSecond

(* incSize up to its migration step: the buffers after growing. *)
LEMMA GrownFacts ==
  ASSUME PositionsInv, size < MaxSize
  PROVE  /\ Grown.cap \in Nat /\ Grown.pos \in 0..size
         /\ Grown.fst \in Buffer /\ Grown.snd \in Buffer \cup {NoBuffer}
         /\ ~NeedGrow => /\ Grown.cap = capacity /\ Grown.pos = migrationPos
                         /\ Grown.fst = first /\ Grown.snd = second
         /\ NeedGrow => /\ Grown.pos = size /\ Grown.snd = NewBuffer(2 * Grown.cap)
                        /\ Grown.snd # NoBuffer /\ size <= 2 * Grown.cap
         /\ NeedGrow /\ ~HasSecond => Grown.cap = capacity /\ Grown.fst = first /\ size = capacity
         /\ NeedGrow /\ HasSecond =>
               /\ Grown.cap = (IF capacity = 0 THEN 1 ELSE 2 * capacity)
               /\ Grown.fst = second /\ size <= Grown.cap /\ migrationPos = 0
<1>1. CASE ~NeedGrow
  BY <1>1 DEF Grown, PositionsInv
<1>2. CASE NeedGrow /\ ~HasSecond
  <2>1. Grown = [cap |-> capacity, pos |-> size, snd |-> NewBuffer(2 * capacity), fst |-> first]
    BY <1>2 DEF Grown
  <2>2. 2 * capacity \in Nat /\ size = capacity
    BY <1>2 DEF PositionsInv, NeedGrow
  <2> QED BY <1>2, <2>1, <2>2, BufferFacts DEF PositionsInv
<1>3. CASE NeedGrow /\ HasSecond
  <2> DEFINE cap == IF capacity = 0 THEN 1 ELSE 2 * capacity
  <2>1. Grown = [cap |-> cap, pos |-> size, snd |-> NewBuffer(2 * cap), fst |-> second]
    BY <1>3 DEF Grown, MinInitialCapacity
  <2>2. cap \in Nat /\ 2 * cap \in Nat /\ size <= cap /\ size <= 2 * cap /\ migrationPos = 0
    BY <1>3 DEF PositionsInv, NeedGrow
  <2>3. second \in Buffer
    BY <1>3 DEF HasSecond, PositionsInv
  <2> HIDE DEF cap
  <2>4. NewBuffer(2 * cap) \in Buffer /\ NewBuffer(2 * cap) # NoBuffer
    BY <2>2, BufferFacts
  <2>5. size \in 0..size
    BY DEF PositionsInv
  <2> QED BY <1>3, <2>1, <2>2, <2>3, <2>4, <2>5 DEF cap
<1> QED BY <1>1, <1>2, <1>3

(* incSize as a whole: one element more in the first buffer, or one        *)
(* element moved to the second, or nothing left to move.                   *)
LEMMA SteppedFacts ==
  ASSUME PositionsInv, size < MaxSize
  PROVE  /\ Stepped.cap = Grown.cap /\ Stepped.pos \in 0..(size + 1)
         /\ Stepped.fst \in Buffer /\ Stepped.fst.room = Grown.fst.room
         /\ Stepped.snd \in Buffer \cup {NoBuffer}
         /\ \/ /\ size < Grown.cap /\ Stepped.pos = Grown.pos + 1
               /\ Stepped.fst = Grown.fst /\ Stepped.snd = Grown.snd
            \/ /\ size >= Grown.cap /\ Grown.pos = 0 /\ Grown.snd \in Buffer
               /\ Stepped.pos = 0
               /\ Stepped.fst = Grown.fst /\ Stepped.snd = Grown.snd
            \/ /\ size >= Grown.cap /\ Grown.pos > 0 /\ Grown.snd \in Buffer
               /\ Stepped.pos = Grown.pos - 1 /\ Stepped.pos \in Indices
               /\ Stepped.fst = Put(Grown.fst, Stepped.pos, Garbage)
               /\ Stepped.snd = Put(Grown.snd, Stepped.pos, Grown.fst.cells[Stepped.pos])
               /\ Grown.fst.cells[Stepped.pos] \in Values \cup {Garbage}
<1>0. /\ Grown.cap \in Nat /\ Grown.pos \in 0..size /\ Grown.fst \in Buffer
      /\ Grown.snd \in Buffer \cup {NoBuffer} /\ size \in 0..MaxSize
  BY GrownFacts DEF PositionsInv
<1>1. CASE size < Grown.cap
  BY <1>0, <1>1 DEF Stepped
<1>2. CASE ~(size < Grown.cap)
  <2>1. Grown.snd # NoBuffer
    BY <1>2, GrownFacts DEF NeedGrow, HasSecond, PositionsInv
  <2>2. CASE Grown.pos = 0
    BY <1>0, <1>2, <2>1, <2>2 DEF Stepped, Migrated
  <2>3. CASE Grown.pos # 0
    <3> DEFINE last == Grown.pos - 1
    <3>1. /\ Stepped.cap = Grown.cap /\ Stepped.pos = last
          /\ Stepped.snd = Put(Grown.snd, last, Grown.fst.cells[last])
          /\ Stepped.fst = Put(Grown.fst, last, Garbage)
      <4>1. size >= Grown.cap
        BY <1>0, <1>2
      <4> QED BY <2>1, <2>3, <4>1 DEF Stepped, Migrated
    <3>2. last \in Indices /\ last \in 0..(size + 1) /\ Grown.pos > 0
      BY <1>0, <2>3 DEF Indices
    <3>3. Grown.fst.cells[last] \in Values \cup {Garbage}
      BY <1>0, <3>2 DEF Buffer, Cells
    <3> HIDE DEF last
    <3>4. Stepped.fst \in Buffer /\ Stepped.fst.room = Grown.fst.room /\ Stepped.snd \in Buffer
      BY <1>0, <2>1, <3>1, <3>2, <3>3, BufferFacts
    <3> QED BY <1>0, <1>2, <2>1, <3>1, <3>2, <3>3, <3>4 DEF last
  <2> QED BY <2>2, <2>3
<1> QED BY <1>1, <1>2

(* The same, case by case. *)
LEMMA StepCases ==
  ASSUME PositionsInv, size < MaxSize
  PROVE  /\ size < Grown.cap => /\ Stepped.pos = Grown.pos + 1
                                /\ Stepped.fst = Grown.fst /\ Stepped.snd = Grown.snd
         /\ size >= Grown.cap /\ Grown.pos = 0 =>
               /\ Stepped.pos = 0 /\ Grown.snd \in Buffer
               /\ Stepped.fst = Grown.fst /\ Stepped.snd = Grown.snd
         /\ size >= Grown.cap /\ Grown.pos > 0 =>
               /\ Stepped.pos = Grown.pos - 1 /\ Stepped.pos \in Indices
               /\ Grown.snd \in Buffer
               /\ Stepped.fst = Put(Grown.fst, Stepped.pos, Garbage)
               /\ Stepped.snd = Put(Grown.snd, Stepped.pos, Grown.fst.cells[Stepped.pos])
               /\ Grown.fst.cells[Stepped.pos] \in Values \cup {Garbage}
         /\ Stepped.snd = NoBuffer => Stepped.pos = size + 1 /\ size < Grown.cap
<1>0. Grown.cap \in Nat /\ Grown.pos \in 0..size /\ size \in 0..MaxSize
  BY GrownFacts DEF PositionsInv
<1>1. ASSUME Stepped.snd = NoBuffer PROVE Stepped.pos = size + 1 /\ size < Grown.cap
  <2>1. Grown.snd = NoBuffer /\ size < Grown.cap /\ Stepped.pos = Grown.pos + 1
    <3>1. \A b \in Buffer : b # NoBuffer
      BY BufferFacts
    <3>2. \A b \in Buffer, i \in Indices, w \in Values \cup {Garbage} : Put(b, i, w) \in Buffer
      BY BufferFacts
    <3> QED BY <1>1, <3>1, <3>2, SteppedFacts
  <2>2. ~NeedGrow /\ ~HasSecond
    BY <2>1, GrownFacts DEF HasSecond
  <2> QED BY <2>1, <2>2, GrownFacts DEF PositionsInv
<1>2. CASE size < Grown.cap
  BY <1>0, <1>1, <1>2, SteppedFacts
<1>3. CASE size >= Grown.cap
  BY <1>0, <1>1, <1>3, SteppedFacts
<1> QED BY <1>0, <1>2, <1>3

LEMMA PushPositions ==
  ASSUME PositionsInv, NEW v \in Values, PushBack(v)
  PROVE  PositionsInv'
<1> DEFINE n == Stepped
<1>0. /\ size \in Indices /\ size' = size + 1 /\ size' \in 0..MaxSize
      /\ capacity' = n.cap /\ migrationPos' = n.pos
      /\ size \in Nat
  BY DEF PushBack, PositionsInv, Indices
<1>1. first' = IF size >= n.pos THEN n.fst ELSE Put(n.fst, size, v)
  BY DEF PushBack, InSecond
<1>2. second' = IF size >= n.pos THEN Put(n.snd, size, v) ELSE n.snd
  BY DEF PushBack, InSecond
<1>3. /\ n.cap = Grown.cap /\ n.cap \in Nat /\ n.pos \in 0..(size + 1)
      /\ n.fst \in Buffer /\ n.snd \in Buffer \cup {NoBuffer}
      /\ n.snd = NoBuffer => n.pos = size + 1 /\ size < n.cap
  <2>1. n.snd = NoBuffer => n.pos = size + 1 /\ size < n.cap
    BY SteppedFacts, StepCases DEF PushBack
  <2> QED BY <2>1, SteppedFacts, GrownFacts DEF PushBack
<1> HIDE DEF n
<1>4. first' \in Buffer /\ second' \in Buffer \cup {NoBuffer}
  <2>1. Put(n.fst, size, v) \in Buffer
    BY <1>0, <1>3, BufferFacts
  <2>2. size >= n.pos => Put(n.snd, size, v) \in Buffer
    BY <1>0, <1>3, BufferFacts
  <2> QED BY <1>1, <1>2, <1>3, <2>1, <2>2
<1>5. HasSecond' <=> n.snd # NoBuffer
  <2>1. \A b \in Buffer : b # NoBuffer
    BY BufferFacts
  <2>2. size >= n.pos /\ n.snd # NoBuffer => Put(n.snd, size, v) \in Buffer
    BY <1>0, <1>3, BufferFacts
  <2>3. n.snd = NoBuffer => ~(size >= n.pos)
    BY <1>0, <1>3
  <2> QED BY <1>2, <1>3, <2>1, <2>2, <2>3 DEF HasSecond
<1>6. contents' \in [0..(size' - 1) -> Values]
  BY <1>0 DEF PushBack, PositionsInv
<1>7. ~HasSecond' => migrationPos' = size' /\ size' <= capacity'
  BY <1>0, <1>3, <1>5
<1>8. HasSecond' => size' <= 2 * capacity' \/ (capacity' = 0 /\ size' <= 1)
  <2>1. CASE NeedGrow
    BY <2>1, <1>0, <1>3, GrownFacts DEF PushBack, PositionsInv
  <2>2. CASE ~NeedGrow
    BY <2>2, <1>0, <1>3, <1>5, <1>7, GrownFacts, SteppedFacts
       DEF PushBack, PositionsInv, NeedGrow, HasSecond, n
  <2> QED BY <2>1, <2>2
<1>9. HasSecond' /\ size' >= capacity' =>
         migrationPos' = 0 \/ migrationPos' + size' <= 2 * capacity'
  <2>1. CASE NeedGrow
    <3>1. Grown.pos = size /\ size <= 2 * Grown.cap
      BY <2>1, GrownFacts DEF PushBack
    <3> QED BY <2>1, <3>1, <1>0, <1>3, GrownFacts, SteppedFacts DEF PushBack, PositionsInv, n
  <2>2. CASE ~NeedGrow
    <3>1. Grown.cap = capacity /\ Grown.pos = migrationPos
      BY <2>2, GrownFacts DEF PushBack
    <3>2. CASE size < capacity
      BY <3>1, <3>2, <1>0, <1>3 DEF PositionsInv
    <3>3. CASE size >= capacity
      <4>1. migrationPos = 0 \/ migrationPos + size <= 2 * capacity
        BY <2>2, <3>3 DEF PositionsInv, NeedGrow
      <4>2. n.pos = 0 \/ n.pos = migrationPos - 1
        BY <3>1, <3>3, <1>0, SteppedFacts DEF PushBack, PositionsInv, n
      <4> QED BY <1>0, <1>3, <3>1, <4>1, <4>2 DEF PositionsInv
    <3> QED BY <3>2, <3>3 DEF PositionsInv
  <2> QED BY <2>1, <2>2
<1>10. capacity' \in Nat /\ migrationPos' \in 0..size'
  BY <1>0, <1>3
<1> QED BY <1>0, <1>4, <1>6, <1>7, <1>8, <1>9, <1>10 DEF PositionsInv

LEMMA RemovedBuffer ==
  ASSUME PositionsInv, size > 0, NEW b \in Buffer, NEW s \in BOOLEAN, NEW i \in 0..(size - 1)
  PROVE  AfterRemove(b, s, i) \in Buffer /\ AfterRemove(b, s, i).room = b.room
<1>1. Read(Last) \in Values \cup {Garbage}
  <2>1. Last \in Indices
    BY DEF Last, Indices, PositionsInv
  <2>2. first.cells[Last] \in Values \cup {Garbage} /\ second.cells[Last] \in Values \cup {Garbage}
    BY <2>1 DEF PositionsInv, Buffer, Cells, NoBuffer
  <2> QED BY <2>2 DEF Read
<1>2. \A k \in Indices : b.cells[k] \in Values \cup {Garbage}
  BY DEF Buffer, Cells
<1> DEFINE c == [k \in Indices |-> IF InSecond(k, migrationPos) # s THEN b.cells[k]
                                   ELSE IF k = Last THEN Garbage
                                   ELSE IF k = i THEN Read(Last) ELSE b.cells[k]]
<1>3. c \in Cells
  BY <1>1, <1>2 DEF Cells
<1>4. AfterRemove(b, s, i) = [room |-> b.room, cells |-> c]
  BY DEF AfterRemove
<1> HIDE DEF c
<1> QED BY <1>3, <1>4 DEF Buffer

LEMMA RemovePositions ==
  ASSUME PositionsInv, NEW i \in 0..(size - 1), Remove(i)
  PROVE  PositionsInv'
<1>0. /\ size \in 1..MaxSize /\ size' = size - 1 /\ capacity' = capacity
      /\ migrationPos' = IF size - 1 < migrationPos THEN size - 1 ELSE migrationPos
      /\ migrationPos \in 0..size /\ capacity \in Nat
  BY DEF PositionsInv, Remove, Last
<1>1. first' \in Buffer /\ (HasSecond => second' \in Buffer) /\ (~HasSecond => second' = second)
  <2>1. \A b \in Buffer, s \in BOOLEAN : AfterRemove(b, s, i) \in Buffer
    BY <1>0, RemovedBuffer
  <2>2. first \in Buffer /\ (HasSecond => second \in Buffer)
    BY DEF PositionsInv, HasSecond
  <2> QED BY <2>1, <2>2 DEF Remove
<1>2. HasSecond' <=> HasSecond
  <2>1. \A b \in Buffer : b # NoBuffer
    BY BufferFacts
  <2> QED BY <1>1, <2>1 DEF HasSecond
<1>3. contents' \in [0..(size' - 1) -> Values]
  BY <1>0 DEF Remove, Last, PositionsInv
<1>4. /\ ~HasSecond' => migrationPos' = size' /\ size' <= capacity'
      /\ HasSecond' => size' <= 2 * capacity' \/ (capacity' = 0 /\ size' <= 1)
      /\ HasSecond' /\ size' >= capacity' =>
            migrationPos' = 0 \/ migrationPos' + size' <= 2 * capacity'
  BY <1>0, <1>2 DEF PositionsInv
<1> QED BY <1>0, <1>1, <1>3, <1>4 DEF PositionsInv, HasSecond

LEMMA ClearPositions ==
  ASSUME PositionsInv, Clear
  PROVE  PositionsInv'
<1>1. first' \in Buffer /\ (HasSecond => second' \in Buffer) /\ (~HasSecond => second' = second)
  BY BufferFacts DEF Clear, PositionsInv, HasSecond, Buffer
<1>2. contents' \in [0..(size' - 1) -> Values]
  BY DEF Clear, NoContents
<1> QED BY <1>1, <1>2 DEF Clear, PositionsInv, HasSecond

LEMMA PositionsOK == PositionsInv /\ [Next]_vars => PositionsInv'
<1> SUFFICES ASSUME PositionsInv, [Next]_vars PROVE PositionsInv'
  OBVIOUS
<1>1. CASE \E v \in Values : PushBack(v)
  BY <1>1, PushPositions
<1>2. CASE \E i \in 0..(size - 1) : Remove(i)
  BY <1>2, RemovePositions
<1>3. CASE Clear
  BY <1>3, ClearPositions
<1>4. CASE UNCHANGED vars
  BY <1>4 DEF vars, PositionsInv, HasSecond
<1> QED BY <1>1, <1>2, <1>3, <1>4 DEF Next

(* The positions stay in range whatever the sequence of insertions,        *)
(* removals and clears, and they always leave time for the migration.      *)
THEOREM PositionsHold == Spec => []PositionsInv
<1>1. Init => PositionsInv
  BY InitPositions
<1> QED BY <1>1, PositionsOK, PTL DEF Spec

(* The state of the storage is well typed in every reachable state.        *)
THEOREM StorageTyped == Spec => []TypeOK
<1>1. PositionsInv => TypeOK
  BY DEF PositionsInv, TypeOK, Buffer
<1> QED BY <1>1, PositionsHold, PTL

(* grow() never gives up a first buffer that still holds an element:       *)
(* moving one element per insertion is enough, for every capacity.         *)
THEOREM MigrationEndsInTime == Spec => []NothingLeftBehind
<1>1. PositionsInv => NothingLeftBehind
  BY DEF PositionsInv, NothingLeftBehind, NeedGrow
<1> QED BY <1>1, PositionsHold, PTL

-----------------------------------------------------------------------------
(* From here on, clear() is not called before the first growth. *)
LEMMA PushBuffers ==
  ASSUME PositionsInv, NEW v \in Values, PushBack(v)
  PROVE  /\ first' \in Buffer /\ first'.room = Grown.fst.room
         /\ Grown.snd = NoBuffer => second' = NoBuffer
         /\ Grown.snd # NoBuffer => second' \in Buffer /\ second'.room = Grown.snd.room
<1> DEFINE n == Stepped
<1>0. /\ size \in Indices /\ size \in Nat /\ size < MaxSize
      /\ first' = IF size >= n.pos THEN n.fst ELSE Put(n.fst, size, v)
      /\ second' = IF size >= n.pos THEN Put(n.snd, size, v) ELSE n.snd
  BY DEF PushBack, PositionsInv, Indices, InSecond
<1>1. /\ \A b \in Buffer, i \in Indices, w \in Values \cup {Garbage} :
            Put(b, i, w).room = b.room /\ Put(b, i, w) \in Buffer
      /\ \A b \in Buffer : b # NoBuffer
  BY BufferFacts
<1>2. n.fst \in Buffer /\ n.fst.room = Grown.fst.room
  BY <1>0, SteppedFacts
<1>3. CASE Grown.snd = NoBuffer
  <2>1. size < Grown.cap /\ n.pos = Grown.pos + 1 /\ n.snd = NoBuffer
    BY <1>0, <1>1, <1>3, SteppedFacts
  <2>2. ~NeedGrow /\ ~HasSecond
    BY <1>0, <1>3, GrownFacts DEF HasSecond
  <2>3. n.pos = size + 1 /\ ~(size >= size + 1)
    BY <1>0, <2>1, <2>2, GrownFacts DEF PositionsInv
  <2> HIDE DEF n
  <2>4. first' = Put(n.fst, size, v) /\ second' = NoBuffer
    BY <1>0, <2>1, <2>3
  <2> QED BY <1>0, <1>1, <1>2, <1>3, <2>4
<1>4. CASE Grown.snd # NoBuffer
  <2>1. Grown.snd \in Buffer
    BY <1>0, <1>4, GrownFacts
  <2>2. n.snd \in Buffer /\ n.snd.room = Grown.snd.room
    <3>1. CASE n.snd = Grown.snd
      BY <2>1, <3>1
    <3>2. CASE n.snd # Grown.snd
      <4> DEFINE last == n.pos
                 w == Grown.fst.cells[last]
      <4>1. n.snd = Put(Grown.snd, last, w) /\ last \in Indices /\ w \in Values \cup {Garbage}
        BY <1>0, <3>2, SteppedFacts
      <4> HIDE DEF last, w
      <4> QED BY <1>1, <2>1, <4>1
    <3> QED BY <3>1, <3>2
  <2> HIDE DEF n
  <2>3. Put(n.snd, size, v) \in Buffer /\ Put(n.snd, size, v).room = Grown.snd.room
    BY <1>0, <1>1, <2>2
  <2>4. Put(n.fst, size, v) \in Buffer /\ Put(n.fst, size, v).room = Grown.fst.room
    BY <1>0, <1>1, <1>2
  <2> QED BY <1>0, <1>2, <1>4, <2>2, <2>3, <2>4
<1> QED BY <1>3, <1>4

LEMMA PushRoom ==
  ASSUME PositionsInv, RoomInv, NEW v \in Values, PushBack(v)
  PROVE  RoomInv'
<1>0. size \in Nat /\ size < MaxSize /\ size' = size + 1 /\ capacity \in Nat /\ capacity' = Grown.cap
  BY SteppedFacts DEF PushBack, PositionsInv
<1>1. \A k \in Nat : NewBuffer(k).room = k
  BY BufferFacts
<1>2. CASE NeedGrow
  <2>1. Grown.cap \in Nat /\ Grown.cap > 0 /\ size < 2 * Grown.cap /\ Grown.snd # NoBuffer
    BY <1>0, <1>2, GrownFacts DEF RoomInv, PositionsInv
  <2>2. Grown.snd.room = 2 * Grown.cap
    BY <1>0, <1>1, <1>2, <2>1, GrownFacts
  <2>3. Grown.cap <= Grown.fst.room
    <3>1. CASE HasSecond
      <4>1. second \in Buffer /\ second.room \in Nat
        BY <3>1 DEF HasSecond, PositionsInv, Buffer
      <4> QED BY <1>0, <1>2, <3>1, <4>1, GrownFacts DEF RoomInv
    <3>2. CASE ~HasSecond
      BY <1>0, <1>2, <3>2, GrownFacts DEF RoomInv
    <3> QED BY <3>1, <3>2
  <2> QED BY <1>0, <2>1, <2>2, <2>3, PushBuffers DEF RoomInv, HasSecond
<1>3. CASE ~NeedGrow
  <2>1. Grown.cap = capacity /\ Grown.snd = second /\ Grown.fst = first
    BY <1>0, <1>3, GrownFacts
  <2>2. first'.room = first.room /\ (~HasSecond => ~HasSecond')
        /\ (HasSecond => second'.room = second.room)
    BY <2>1, PushBuffers DEF HasSecond
  <2>3. HasSecond => size < 2 * capacity
    BY <1>0, <1>3 DEF NeedGrow
  <2> QED BY <1>0, <2>1, <2>2, <2>3 DEF RoomInv
<1> QED BY <1>2, <1>3

LEMMA RoomOK == ~EarlyClear /\ PositionsInv /\ RoomInv /\ [Next]_vars => RoomInv'
<1> SUFFICES ASSUME ~EarlyClear, PositionsInv, RoomInv, [Next]_vars PROVE RoomInv'
  OBVIOUS
<1>1. CASE \E v \in Values : PushBack(v)
  BY <1>1, PushRoom
<1>2. ASSUME NEW i \in 0..(size - 1), Remove(i) PROVE RoomInv'
  <2>0. size \in 1..MaxSize /\ size' = size - 1 /\ capacity' = capacity /\ capacity \in Nat
    BY <1>2 DEF Remove, PositionsInv, Last
  <2>1. first'.room = first.room /\ (HasSecond => second'.room = second.room)
        /\ (~HasSecond => second' = second)
    BY <1>2 DEF Remove, AfterRemove
  <2>2. HasSecond => HasSecond'
    <3>1. ASSUME HasSecond PROVE second' # NoBuffer
      <4>0. second \in Buffer /\ second' = AfterRemove(second, TRUE, i) /\ size > 0
        BY <1>2, <2>0, <3>1 DEF Remove, HasSecond, PositionsInv
      <4>1. second' \in Buffer
        BY <4>0, RemovedBuffer
      <4> QED BY <4>1, BufferFacts
    <3> QED BY <3>1 DEF HasSecond
  <2> QED BY <2>0, <2>1, <2>2 DEF RoomInv, HasSecond
<1>3. CASE Clear
  <2>1. /\ HasSecond /\ second \in Buffer
        /\ size' = 0 /\ capacity' = 0
        /\ first' = NewBuffer(first.room) /\ second' = NewBuffer(second.room)
    BY <1>3 DEF Clear, HasSecond, PositionsInv
  <2>2. first.room \in Nat /\ second.room \in Nat
    BY <2>1 DEF PositionsInv, Buffer
  <2>3. first'.room = first.room /\ second'.room = second.room /\ second' # NoBuffer
    BY <2>1, <2>2, BufferFacts
  <2> QED BY <2>1, <2>2, <2>3 DEF RoomInv, HasSecond
<1>4. CASE UNCHANGED vars
  BY <1>4 DEF vars, RoomInv, HasSecond
<1> QED BY <1>1, <1>2, <1>3, <1>4 DEF Next

LEMMA AllInside == PositionsInv /\ RoomInv => NeverOutside
<1> SUFFICES ASSUME PositionsInv, RoomInv, NEW i \in 0..(size - 1) PROVE InBounds(i)
  BY DEF NeverOutside
<1>1. /\ size \in 0..MaxSize /\ migrationPos \in 0..size /\ capacity \in Nat
      /\ first.room \in Nat /\ (HasSecond => second.room \in Nat)
  BY DEF PositionsInv, Buffer, HasSecond
<1>2. CASE i >= migrationPos
  <2>1. HasSecond
    BY <1>1, <1>2 DEF PositionsInv
  <2> QED BY <1>1, <1>2, <2>1 DEF InBounds, InSecond, RoomInv
<1>3. CASE ~(i >= migrationPos)
  <2>1. migrationPos <= capacity
    BY <1>1, <1>3 DEF PositionsInv
  <2> QED BY <1>1, <1>3, <2>1 DEF InBounds, InSecond, RoomInv
<1> QED BY <1>2, <1>3

(* No element is looked up beyond its buffer, provided the array has grown *)
(* once before it is cleared.                                              *)
THEOREM LookupsInBounds == ~EarlyClear /\ Spec => []NeverOutside
<1>1. Init => PositionsInv /\ RoomInv
  BY InitPositions
<1>2. ASSUME ~EarlyClear PROVE Spec => []NeverOutside
  <2>1. PositionsInv /\ RoomInv /\ [Next]_vars => (PositionsInv /\ RoomInv)'
    BY <1>2, PositionsOK, RoomOK
  <2> QED BY <1>1, <2>1, AllInside, PTL DEF Spec
<1> QED BY <1>2

(* The cells an insertion leaves behind, index by index.                   *)
LEMMA PushCells ==
  ASSUME PositionsInv, NEW v \in Values, PushBack(v), ~Recounts,
         NEW i \in 0..(size - 1),
         i >= migrationPos => second.cells[i] = contents[i],
         i < migrationPos => first.cells[i] = contents[i]
  PROVE  /\ i >= migrationPos' => second'.cells[i] = contents[i]
         /\ i < migrationPos' => first'.cells[i] = contents[i]
<1> DEFINE n == Stepped
<1>0. /\ size \in Nat /\ size < MaxSize /\ size \in Indices /\ i \in Indices /\ i # size /\ i \in Nat
      /\ migrationPos' = n.pos /\ n.pos \in 0..(size + 1) /\ migrationPos \in 0..size
      /\ first' = IF size >= n.pos THEN n.fst ELSE Put(n.fst, size, v)
      /\ second' = IF size >= n.pos THEN Put(n.snd, size, v) ELSE n.snd
      /\ v \in Values \cup {Garbage}
  BY SteppedFacts DEF PushBack, PositionsInv, Indices, InSecond
<1>1. \A b \in Buffer, k \in Indices, w \in Values \cup {Garbage} :
         k # i => Put(b, k, w).cells[i] = b.cells[i]
  <2> SUFFICES ASSUME NEW b \in Buffer, NEW k \in Indices, NEW w \in Values \cup {Garbage},
                      k # i
               PROVE  Put(b, k, w).cells[i] = b.cells[i]
    OBVIOUS
  <2>1. b.cells \in [Indices -> Values \cup {Garbage}] /\ i \in Indices
    BY <1>0 DEF Buffer, Cells
  <2> QED BY <2>1 DEF Put
<1>2. i >= Grown.pos => Grown.snd \in Buffer /\ Grown.snd.cells[i] = contents[i]
  <2>1. CASE NeedGrow
    BY <1>0, <2>1, GrownFacts
  <2>2. CASE ~NeedGrow
    BY <1>0, <2>2, GrownFacts DEF PositionsInv, HasSecond
  <2> QED BY <2>1, <2>2
<1>3. i < Grown.pos => Grown.fst.cells[i] = contents[i]
  <2>1. CASE NeedGrow
    <3>1. CASE HasSecond
      BY <1>0, <2>1, <3>1, GrownFacts
    <3>2. CASE ~HasSecond
      BY <1>0, <2>1, <3>2, GrownFacts DEF PositionsInv
    <3> QED BY <3>1, <3>2
  <2>2. CASE ~NeedGrow
    BY <1>0, <2>2, GrownFacts
  <2> QED BY <2>1, <2>2
<1>4. Grown.fst \in Buffer /\ Grown.pos \in 0..size
  BY <1>0, GrownFacts
<1>5. size < Grown.cap => Grown.pos = size
  <2>1. CASE NeedGrow
    BY <1>0, <2>1, GrownFacts
  <2>2. CASE ~NeedGrow
    BY <1>0, <2>2, GrownFacts DEF Recounts
  <2> QED BY <2>1, <2>2
<1>6. /\ i >= n.pos => n.snd \in Buffer /\ n.snd.cells[i] = contents[i]
      /\ i < n.pos => n.fst.cells[i] = contents[i]
      /\ n.fst \in Buffer
  <2>1. CASE size < Grown.cap
    <3>1. n.pos = size + 1 /\ n.fst = Grown.fst /\ n.snd = Grown.snd
      BY <1>0, <1>5, <2>1, StepCases
    <3> QED BY <1>0, <1>3, <1>4, <1>5, <2>1, <3>1
  <2>2. CASE size >= Grown.cap /\ Grown.pos = 0
    <3>1. n.pos = 0 /\ n.fst = Grown.fst /\ n.snd = Grown.snd
      BY <1>0, <2>2, StepCases
    <3> QED BY <1>0, <1>2, <1>4, <2>2, <3>1
  <2>3. CASE size >= Grown.cap /\ Grown.pos > 0
    <3> DEFINE last == n.pos
               w == Grown.fst.cells[last]
    <3>1. /\ last = Grown.pos - 1 /\ last \in Indices /\ Grown.snd \in Buffer
          /\ n.fst = Put(Grown.fst, last, Garbage) /\ n.snd = Put(Grown.snd, last, w)
          /\ w \in Values \cup {Garbage}
      BY <1>0, <2>3, StepCases
    <3>2. n.fst \in Buffer /\ n.snd \in Buffer
      BY <3>1, <1>4, BufferFacts
    <3>3. CASE i = last
      <4>1. n.snd.cells[last] = w
        BY <3>1, <3>2, BufferFacts
      <4> QED BY <1>0, <1>3, <1>4, <3>1, <3>2, <3>3, <4>1
    <3>4. CASE i # last
      <4>1. n.fst.cells[i] = Grown.fst.cells[i] /\ n.snd.cells[i] = Grown.snd.cells[i]
        BY <1>1, <1>4, <3>1, <3>4
      <4>2. i >= last => i >= Grown.pos
        BY <1>0, <1>4, <3>1, <3>4
      <4> QED BY <1>0, <1>2, <1>3, <1>4, <3>1, <3>2, <4>1, <4>2
    <3> QED BY <3>3, <3>4
  <2> QED BY <1>0, <1>4, <2>1, <2>2, <2>3, SteppedFacts, GrownFacts
<1> HIDE DEF n
<1>7. CASE size >= n.pos
  BY <1>0, <1>1, <1>6, <1>7
<1>8. CASE ~(size >= n.pos)
  BY <1>0, <1>1, <1>6, <1>8
<1> QED BY <1>7, <1>8

LEMMA KeptOK ==
  ASSUME PositionsInv, RoomInv, NeverOutside', Intact, [Next]_vars, ~(Recounts /\ size' > size)
  PROVE  Intact'
<1>0. size \in 0..MaxSize /\ NeverOutside
  BY AllInside DEF PositionsInv
<1>1. ASSUME NEW i \in 0..(size - 1)
      PROVE  /\ i >= migrationPos => second.cells[i] = contents[i]
             /\ i < migrationPos => first.cells[i] = contents[i]
             /\ Read(i) = contents[i]
  <2>1. InBounds(i) /\ Read(i) = contents[i]
    BY <1>0 DEF NeverOutside, Intact
  <2>2. i \in Int /\ migrationPos \in Int
    BY DEF PositionsInv
  <2> QED BY <2>1, <2>2 DEF Read, InSecond
<1>2. SUFFICES ASSUME NEW i \in 0..(size' - 1)
               PROVE  /\ i >= migrationPos' => second'.cells[i] = contents'[i]
                      /\ ~(i >= migrationPos') => first'.cells[i] = contents'[i]
  BY DEF Intact, NeverOutside, Read, InSecond
<1>3. ASSUME NEW v \in Values, PushBack(v)
      PROVE  /\ i >= migrationPos' => second'.cells[i] = contents'[i]
             /\ ~(i >= migrationPos') => first'.cells[i] = contents'[i]
  <2>0. /\ size' = size + 1 /\ size \in Nat /\ i \in Nat /\ migrationPos' \in Nat /\ ~Recounts
        /\ size \in Indices /\ size < MaxSize /\ i \in 0..size
    BY <1>0, <1>3, SteppedFacts DEF PushBack, Indices
  <2>1. CASE i = size
    <3>1. contents'[i] = v
      BY <1>3, <2>0, <2>1 DEF PushBack
    <3>2. CASE size >= Stepped.pos
      <4>1. second' = Put(Stepped.snd, size, v) /\ migrationPos' = Stepped.pos
        BY <1>3, <3>2 DEF PushBack, InSecond
      <4>2. Stepped.snd \in Buffer
        BY <2>0, <3>2, SteppedFacts, StepCases
      <4>3. second'.cells[i] = v
        BY <2>0, <2>1, <4>1, <4>2, BufferFacts
      <4> QED BY <2>1, <3>1, <3>2, <4>1, <4>3
    <3>3. CASE ~(size >= Stepped.pos)
      <4>1. first' = Put(Stepped.fst, size, v) /\ migrationPos' = Stepped.pos
        BY <1>3, <3>3 DEF PushBack, InSecond
      <4>2. Stepped.fst \in Buffer
        BY <2>0, SteppedFacts
      <4>3. first'.cells[i] = v
        BY <2>0, <2>1, <4>1, <4>2, BufferFacts
      <4> QED BY <2>1, <3>1, <3>3, <4>1, <4>3
    <3> QED BY <3>2, <3>3
  <2>2. CASE i # size
    <3>1. i \in 0..(size - 1) /\ contents'[i] = contents[i]
      BY <1>3, <2>0, <2>2 DEF PushBack
    <3> QED BY <1>1, <1>3, <2>0, <3>1, PushCells
  <2> QED BY <2>1, <2>2
<1>4. ASSUME NEW j \in 0..(size - 1), Remove(j)
      PROVE  /\ i >= migrationPos' => second'.cells[i] = contents'[i]
             /\ ~(i >= migrationPos') => first'.cells[i] = contents'[i]
  <2>0. /\ size' = Last /\ Last = size - 1 /\ size \in Nat /\ size > 0 /\ i \in Nat /\ i # Last
        /\ i \in 0..(size - 1) /\ Last \in 0..(size - 1) /\ i \in Indices
        /\ migrationPos \in 0..size /\ j \in 0..(size - 1)
        /\ migrationPos' = IF Last < migrationPos THEN Last ELSE migrationPos
    BY <1>0, <1>4 DEF Remove, Last, Indices, PositionsInv
  <2>1. contents'[i] = IF i = j THEN contents[Last] ELSE contents[i]
    BY <1>4, <2>0 DEF Remove
  <2>2. Read(Last) = contents[Last]
    BY <1>1, <2>0
  <2>3. (i >= migrationPos') <=> (i >= migrationPos)
    BY <2>0
  <2>4. CASE i >= migrationPos
    <3>1. HasSecond /\ InSecond(i, migrationPos) = TRUE
      BY <2>0, <2>4 DEF PositionsInv, InSecond
    <3>2. second'.cells[i] = IF i = j THEN Read(Last) ELSE second.cells[i]
      BY <1>4, <2>0, <3>1 DEF Remove, AfterRemove
    <3> QED BY <1>1, <2>0, <2>1, <2>2, <2>3, <2>4, <3>2
  <2>5. CASE ~(i >= migrationPos)
    <3>1. InSecond(i, migrationPos) = FALSE
      BY <2>5 DEF InSecond
    <3>2. first'.cells[i] = IF i = j THEN Read(Last) ELSE first.cells[i]
      BY <1>4, <2>0, <3>1 DEF Remove, AfterRemove
    <3>3. i < migrationPos
      BY <2>0, <2>5
    <3> QED BY <1>1, <2>0, <2>1, <2>2, <2>3, <2>5, <3>2, <3>3
  <2> QED BY <2>4, <2>5
<1>5. CASE Clear
  BY <1>5 DEF Clear
<1>6. CASE UNCHANGED vars
  <2>1. i \in 0..(size - 1) /\ i \in Int /\ migrationPos \in Int
    BY <1>6 DEF vars, PositionsInv
  <2>2. /\ i >= migrationPos => second.cells[i] = contents[i]
        /\ i < migrationPos => first.cells[i] = contents[i]
    BY <1>1, <2>1
  <2> QED BY <1>6, <2>1, <2>2 DEF vars
<1> QED BY <1>3, <1>4, <1>5, <1>6 DEF Next

(* Inserting after removals below capacity_, with elements already moved,  *)
(* is the only way to lose an element; every other insertion, removal or   *)
(* clear leaves each element where it is looked up, with its value.        *)
THEOREM ElementsKept == ~EarlyClear /\ Spec => KeptUnlessRecounted
<1>1. Init => PositionsInv /\ RoomInv
  BY InitPositions
<1>2. ASSUME ~EarlyClear PROVE Spec => KeptUnlessRecounted
  <2>1. PositionsInv /\ RoomInv /\ [Next]_vars => (PositionsInv /\ RoomInv)'
    BY <1>2, PositionsOK, RoomOK
  <2>2. PositionsInv /\ RoomInv /\ NeverOutside' /\ [Next]_vars =>
          [Intact => Intact' \/ (Recounts /\ size' > size)]_vars
    BY KeptOK
  <2> QED BY <1>1, <2>1, <2>2, AllInside, PTL DEF Spec, KeptUnlessRecounted
<1> QED BY <1>2

LEMMA OneMoves ==
  ASSUME PositionsInv, NEW v \in Values, PushBack(v)
  PROVE  Cardinality({i \in 0..(size - 1) : ~Stays(i)}) <= 1
<1>0. /\ size \in Nat /\ size < MaxSize /\ migrationPos \in 0..size /\ capacity \in Nat
      /\ capacity' = Grown.cap /\ migrationPos' = Stepped.pos
      /\ Grown.pos \in 0..size /\ Grown.cap \in Nat
  BY SteppedFacts, GrownFacts DEF PushBack, PositionsInv
<1>1. PICK k \in Int : \A i \in 0..(size - 1) : i # k => Stays(i)
  <2>1. CASE NeedGrow /\ HasSecond
    <3>1. capacity' # capacity /\ migrationPos = 0 /\ Grown.pos = size
      BY <1>0, <2>1, GrownFacts
    <3>2. migrationPos' >= size - 1
      BY <1>0, <3>1, StepCases
    <3>3. \A i \in 0..(size - 1) : i # size - 1 => Stays(i)
      BY <1>0, <3>1, <3>2, SteppedFacts DEF Stays, Swapped, InSecond
    <3> QED BY <1>0, <3>3
  <2>2. CASE NeedGrow /\ ~HasSecond
    <3>1. capacity' = capacity /\ migrationPos = size /\ Grown.pos = size
      BY <1>0, <2>2, GrownFacts DEF PositionsInv
    <3>2. migrationPos' >= size - 1
      BY <1>0, <3>1, StepCases
    <3>3. \A i \in 0..(size - 1) : i # size - 1 => Stays(i)
      BY <1>0, <3>1, <3>2, SteppedFacts DEF Stays, Swapped, InSecond
    <3> QED BY <1>0, <3>3
  <2>3. CASE ~NeedGrow
    <3>1. capacity' = capacity /\ Grown.pos = migrationPos
      BY <1>0, <2>3, GrownFacts
    <3>2. migrationPos' \in {migrationPos + 1, migrationPos, migrationPos - 1}
      BY <1>0, <3>1, StepCases
    <3>3. CASE migrationPos' = migrationPos + 1
      <4>1. \A i \in 0..(size - 1) : i # migrationPos => Stays(i)
        BY <1>0, <3>1, <3>3 DEF Stays, Swapped, InSecond
      <4> QED BY <1>0, <4>1
    <3>4. CASE migrationPos' \in {migrationPos, migrationPos - 1}
      <4>1. \A i \in 0..(size - 1) : i # migrationPos - 1 => Stays(i)
        BY <1>0, <3>1, <3>4 DEF Stays, Swapped, InSecond
      <4> QED BY <1>0, <4>1
    <3> QED BY <3>2, <3>3, <3>4
  <2> QED BY <2>1, <2>2, <2>3
<1>2. {i \in 0..(size - 1) : ~Stays(i)} \in SUBSET {k}
  BY <1>1
<1>3. IsFiniteSet({k}) /\ Cardinality({k}) = 1
  BY FS_Singleton
<1> HIDE DEF Stays
<1>4. Cardinality({i \in 0..(size - 1) : ~Stays(i)}) <= Cardinality({k})
  BY <1>2, <1>3, FS_Subset
<1> QED BY <1>3, <1>4

(* What the class promises: an insertion moves at most one of the elements *)
(* already there, whatever the capacity.                                   *)
THEOREM LatencyIsStable == Spec => StableLatency
<1>1. PositionsInv /\ [Next]_vars =>
        [size' > size => Cardinality({i \in 0..(size - 1) : ~Stays(i)}) <= 1]_vars
  <2> SUFFICES ASSUME PositionsInv, [Next]_vars, size' > size
               PROVE  Cardinality({i \in 0..(size - 1) : ~Stays(i)}) <= 1
    OBVIOUS
  <2>1. \E v \in Values : PushBack(v)
    <3>1. size \in 0..MaxSize
      BY DEF PositionsInv
    <3>2. ~(UNCHANGED vars) /\ ~Clear
      BY <3>1 DEF vars, Clear
    <3>3. ASSUME NEW i \in 0..(size - 1), Remove(i) PROVE FALSE
      BY <3>1, <3>3 DEF Remove, Last
    <3> QED BY <3>2, <3>3 DEF Next
  <2> QED BY <2>1, OneMoves
<1> QED BY <1>1, PositionsHold, PTL DEF Spec, StableLatency
=============================================================================
