--------------------------- MODULE ComponentMasks ---------------------------
(***************************************************************************)
(* Sets of component ids.  ComponentMask is a bitset of fixed width, here  *)
(* the set of its items.  DynamicComponentMask keeps its items in the two  *)
(* words of a static mask as long as they fit, and in an array of blocks   *)
(* from the first item that does not; two bits of the second word say      *)
(* which of the two it is, and whether the items past the end are present. *)
(* Some of its operations go wrong on arrays: known says what may still be *)
(* asked of a mask.                                                        *)
(***************************************************************************)
EXTENDS Integers, Sequences, FiniteSets

CONSTANTS
  Width,         \* bitset_size: the bits of a block
  PerLine,       \* elements_per_cache_line: arrays are multiples of it
  Masks,         \* the mask objects
  ItemIds        \* the ids that occur

(* What is assumed of the constants: a static mask has bits and flags, and *)
(* all of its bits are ids that occur, as inverse() sets those it has not. *)
MasksAssumption ==
  /\ Width \in Nat /\ Width > 2 /\ PerLine \in Nat \ {0}
  /\ ItemIds \subseteq Nat /\ 0..(Width - 3) \subseteq ItemIds

VARIABLES
  masks,         \* masks[o]: the dynamic mask o
  items,         \* items[o]: the ComponentMask that went through the same calls
  known          \* known[o]: the ids that has() of masks[o] is right for

vars == <<masks, items, known>>

Bits == 0..(Width - 1)
StaticBits == 0..(Width - 3)

-----------------------------------------------------------------------------
(* ComponentMask. *)

IsMatchSet(S, T) == T \subseteq S
SetItem(S, i, value) == IF value THEN S \cup {i} ELSE S \ {i}
CombineSets(op, S, T) ==
  CASE op = "merge" -> S \cup T
    [] op = "intersection" -> S \cap T
    [] op = "subtract" -> S \ T

-----------------------------------------------------------------------------
(* DynamicComponentMask: a static mask is one block, of which the last two *)
(* bits are the flags dynamic and tail.                                    *)

NullMask == [dynamic |-> FALSE, tail |-> FALSE, size |-> 1, blocks |-> <<{}>>]

(* size() is the length of the array; not so after copyFrom. *)
Whole(m) == m.size = Len(m.blocks)

Has(m, i) ==
  LET b == IF m.dynamic THEN i \div Width ELSE 0
  IN IF b < m.size /\ (m.dynamic \/ i \in StaticBits)
     THEN i - b * Width \in m.blocks[b + 1]
     ELSE m.tail

(* makeEndlessSpan: block b, or the tail when there is none. *)
Block(m, b) ==
  IF b <= m.size THEN m.blocks[b] ELSE IF m.tail THEN Bits ELSE {}

(* The block isMatch compares: that of a static mask with its tail flag. *)
RawBlock(m, b) ==
  m.blocks[b] \cup (IF ~m.dynamic /\ m.tail THEN {Width - 2} ELSE {})

Least(a, b) == IF a < b THEN a ELSE b
Greatest(a, b) == IF a < b THEN b ELSE a

IsMatch(m, n) ==
  /\ m.tail \/ ~n.tail
  /\ \A b \in 1..Least(m.size, n.size) : RawBlock(n, b) \subseteq RawBlock(m, b)
  /\ m.tail \/ \A b \in (m.size + 1)..n.size : RawBlock(n, b) = {}

Equals(m, n) == \A b \in 1..Greatest(m.size, n.size) : Block(m, b) = Block(n, b)

IsEmpty(m) == (\A b \in 1..m.size : m.blocks[b] = {}) /\ (m.dynamic \/ ~m.tail)

(* forEachItem, and items(): the flags of a static mask are no items. *)
Items(m) == UNION {{(b - 1) * Width + i : i \in m.blocks[b]} : b \in 1..m.size}

ComponentsCount(m) == Cardinality({p \in (1..m.size) \X Bits : p[2] \in m.blocks[p[1]]})

(* reallocDynamicStorage: keeps the first old blocks, or the static block; *)
(* with an inverted tail everything behind those old blocks is set.        *)
Realloc(m, new, old) ==
  [dynamic |-> TRUE, tail |-> m.tail, size |-> new,
   blocks |-> [b \in 1..new |->
                 CASE m.tail /\ b > old -> Bits
                   [] b <= Greatest(old, 1) -> m.blocks[b]
                   [] OTHER -> {}]]

BlocksFor(i) == ((i \div Width + PerLine) \div PerLine) * PerLine

WithBit(m, i, value) ==
  [m EXCEPT !.blocks[i \div Width + 1] = SetItem(@, i % Width, value)]

(* Mistaken variant: a longer array does not get the blocks there were. *)
SetForgetting(m, i, value) ==
  CASE ~m.dynamic /\ i \in StaticBits -> WithBit(m, i, value)
    [] ~m.dynamic /\ i \notin StaticBits /\ ~value -> m
    [] OTHER -> WithBit(IF m.dynamic /\ i \div Width < m.size THEN m
                        ELSE Realloc(m, BlocksFor(i), 0), i, value)

(* set() and add(): an item a static mask has no bit for makes it dynamic. *)
Set(m, i, value) ==
  CASE ~m.dynamic /\ i \in StaticBits -> WithBit(m, i, value)
    [] ~m.dynamic /\ i \notin StaticBits /\ ~value -> m
    [] ~m.dynamic /\ i \notin StaticBits /\ value ->
         WithBit(Realloc(m, BlocksFor(i), 0), i, value)
    [] m.dynamic /\ i \div Width < m.size -> WithBit(m, i, value)
    [] m.dynamic /\ i \div Width >= m.size ->
         WithBit(Realloc(m, BlocksFor(i), m.size), i, value)

(* combineWith: of two static masks by their words, the tail flag included; *)
(* otherwise by blocks into a new array, whose tail is not inverted.        *)
Combine(op, m, n) ==
  LET size == IF op = "merge" THEN Greatest(m.size, n.size) ELSE Least(m.size, n.size)
      tails == CombineSets(op, IF m.tail THEN {0} ELSE {}, IF n.tail THEN {0} ELSE {})
  IN [dynamic |-> m.dynamic \/ n.dynamic,
      tail |-> ~m.dynamic /\ ~n.dynamic /\ tails # {},
      size |-> size,
      blocks |-> [b \in 1..size |-> CombineSets(op, Block(m, b), Block(n, b))]]

(* inverse(): the flag of the tail of a static mask is flipped twice, and  *)
(* the size of an array is written with its flags, one bit too high.       *)
Inverse(m) ==
  IF m.dynamic
  THEN [m EXCEPT !.tail = ~@, !.size = 2 * m.size + 1,
                 !.blocks = [b \in 1..m.size |-> Bits \ m.blocks[b]]]
  ELSE [m EXCEPT !.blocks = <<StaticBits \ m.blocks[1]>>]

(* copyFrom: the size of an array is written one bit too high here too. *)
Copy(m) ==
  IF m.dynamic THEN [m EXCEPT !.tail = FALSE, !.size = 2 * m.size + 1] ELSE m

(* operator=(const&) of n to m: a longer array is kept, and the new size   *)
(* overwrites the flag that says there is one.  The bits of the static     *)
(* mask that remains, an address, are left open.                           *)
Assigned(m, n) ==
  IF m.dynamic /\ n.dynamic /\ n.size <= m.size THEN NullMask ELSE Copy(n)

-----------------------------------------------------------------------------
(* What is known of the results. *)

InBlocks(n) == {i \in ItemIds : i < n * Width}

KnownCopy(n) == IF n.dynamic THEN InBlocks(n.size) ELSE ItemIds

KnownAssigned(m, n) ==
  IF m.dynamic /\ n.dynamic /\ n.size <= m.size THEN {} ELSE KnownCopy(n)

KnownInverse(m) == ItemIds \cap (IF m.dynamic THEN InBlocks(m.size) ELSE StaticBits)

(* A difference loses what is in blocks that only the minuend has. *)
KnownCombined(op, m, n) ==
  IF op = "subtract" /\ n.size < m.size THEN InBlocks(n.size) ELSE ItemIds

-----------------------------------------------------------------------------
(* Calls.  A mask that is not known in full is only asked with has(): the  *)
(* code behind most other calls would read past its array.                 *)

Usable(o) == Whole(masks[o]) /\ known[o] = ItemIds

Init ==
  /\ masks = [o \in Masks |-> NullMask]
  /\ items = [o \in Masks |-> {}]
  /\ known = [o \in Masks |-> ItemIds]

Become(o, m, S, ids) ==
  /\ masks' = [masks EXCEPT ![o] = m]
  /\ items' = [items EXCEPT ![o] = S]
  /\ known' = [known EXCEPT ![o] = ids]

Fresh(o) == Become(o, NullMask, {}, ItemIds)

SetOne(o, i, value) ==
  /\ Usable(o)
  /\ Become(o, Set(masks[o], i, value), SetItem(items[o], i, value), ItemIds)

CopyTo(o, p) ==
  /\ Usable(p)
  /\ Become(o, Copy(masks[p]), items[p], KnownCopy(masks[p]))

AssignTo(o, p) ==
  /\ o # p /\ Usable(o) /\ Usable(p)
  /\ Become(o, Assigned(masks[o], masks[p]), items[p], KnownAssigned(masks[o], masks[p]))

(* A move keeps a static mask, and empties one with an array. *)
MoveTo(o, p) ==
  /\ o # p /\ Usable(p)
  /\ IF masks[p].dynamic
     THEN /\ masks' = [masks EXCEPT ![o] = masks[p], ![p] = NullMask]
          /\ items' = [items EXCEPT ![o] = items[p], ![p] = {}]
          /\ known' = [known EXCEPT ![o] = ItemIds]
     ELSE Become(o, masks[p], items[p], ItemIds)

CombineTo(o, op, p) ==
  /\ Usable(o) /\ Usable(p)
  /\ Become(o, Combine(op, masks[o], masks[p]), CombineSets(op, items[o], items[p]),
            KnownCombined(op, masks[o], masks[p]))

Invert(o) ==
  /\ Usable(o)
  /\ Become(o, Inverse(masks[o]), ItemIds \ items[o], KnownInverse(masks[o]))

Operations == {"merge", "intersection", "subtract"}

Next ==
  \/ \E o \in Masks : Fresh(o) \/ Invert(o)
  \/ \E o \in Masks, i \in ItemIds, value \in BOOLEAN : SetOne(o, i, value)
  \/ \E o, p \in Masks : CopyTo(o, p) \/ AssignTo(o, p) \/ MoveTo(o, p)
  \/ \E o, p \in Masks, op \in Operations : CombineTo(o, op, p)

Spec == Init /\ [][Next]_vars

-----------------------------------------------------------------------------
(* Properties. *)

(* A dynamic mask answers as the set of ids it stands for, however often   *)
(* it changed between its representations: has() for every id known of it, *)
(* and the questions about whole masks, of masks of different              *)
(* representations too, when all is known of them.                         *)
MasksAreSets ==
  /\ \A o \in Masks : \A i \in known[o] : Has(masks[o], i) <=> i \in items[o]
  /\ \A o, p \in Masks :
       (Usable(o) /\ Usable(p)) =>
         /\ Items(masks[o]) = items[o]
         /\ ComponentsCount(masks[o]) = Cardinality(items[o])
         /\ IsEmpty(masks[o]) <=> items[o] = {}
         /\ Equals(masks[o], masks[p]) <=> items[o] = items[p]
         /\ IsMatch(masks[o], masks[p]) <=> IsMatchSet(items[o], items[p])

=============================================================================
