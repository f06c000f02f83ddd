----------------------------- MODULE JobsProofs -----------------------------
(***************************************************************************)
(* What Jobs promises, for any archetypes, chunk sizes, jobs and versions: *)
(* no change is lost, no job runs for nothing, and a run goes over every   *)
(* chunk with a change its job has not seen.                               *)
(*                                                                         *)
(* The argument is about cells, <<archetype, chunk, component>>.  A step   *)
(* leaves a cell that holds rows alone, stamps it with the world's version *)
(* and has the jobs that check it see it, or leaves it stale (CellStep);   *)
(* that is enough for the invariants, whatever else happens (CellsKeep).   *)
(* Moving rows, getComponent, forEach and run are then shown to be such    *)
(* steps, run for all jobs but its own.  For that one, every change it had *)
(* to see passes its filter (UnseenPasses), and what passes is in the      *)
(* result and counted in its total (FilterFinds), by the scans over chunks *)
(* and archetypes that BaseJob makes.                                      *)
(*                                                                         *)
(* A second invariant, JobInv, says of a running job that its result is of *)
(* the archetypes as they are and that it has called its function for what *)
(* the tasks that are done go over.  With what TaskViewsProofs shows of the*)
(* tasks of any result, the calls of a finished job are one for each row   *)
(* of each matched chunk.                                                  *)
(***************************************************************************)
EXTENDS MCJobs, TaskViewsProofs, FiniteSetTheorems

-----------------------------------------------------------------------------
(* Selections from a sequence.                                             *)
(* g goes through the items and keeps those in G, in order.                *)
Selects(g, n, it, G) ==
    g = [i \in 0..n |-> IF i = 0 THEN <<>>
                        ELSE IF it[i] \in G THEN Append(g[i - 1], it[i]) ELSE g[i - 1]]

(* The scan that keeps the members of G exists.                            *)
LEMMA SelectionExists ==
  ASSUME NEW n \in Nat, NEW Items, NEW it \in [1..n -> Items], NEW G
  PROVE  \E g : Selects(g, n, it, G)
<1> DEFINE Pick(i, before) == IF it[i] \in G THEN Append(before, it[i]) ELSE before
           F == [p \in (1..n) \X Seq(Items) |-> Pick(p[1], p[2])]
<1>1. F \in [(1..n) \X Seq(Items) -> Seq(Items)]
  OBVIOUS
<1>2. PICK g \in [0..n -> Seq(Items)] : Solves(g, n, <<>>, F)
  <2>1. <<>> \in Seq(Items)
    OBVIOUS
  <2> HIDE DEF F
  <2> QED
    BY <1>1, <2>1, Recursion
<1>3. g = [i \in 0..n |-> IF i = 0 THEN <<>> ELSE F[<<i, g[i - 1]>>]]
  BY <1>2, Zenon DEF Solves
<1>4. \A i \in 1..n : F[<<i, g[i - 1]>>] = Pick(i, g[i - 1])
  <2> TAKE i \in 1..n
  <2>1. g[i - 1] \in Seq(Items)
    OBVIOUS
  <2> HIDE DEF Pick
  <2> QED
    BY <2>1
<1>5. \A i \in 0..n : (IF i = 0 THEN <<>> ELSE F[<<i, g[i - 1]>>])
                    = (IF i = 0 THEN <<>> ELSE Pick(i, g[i - 1]))
  <2> HIDE DEF F, Pick
  <2> QED
    BY <1>4
<1>6. g = [i \in 0..n |-> IF i = 0 THEN <<>> ELSE Pick(i, g[i - 1])]
  <2> HIDE DEF F, Pick
  <2> QED
    BY <1>3, <1>5, Zenon
<1> HIDE DEF F
<1> QED
  BY <1>6, Zenon DEF Selects

(* s is a sequence of the items in G, all of them.                         *)
Keeps(s, n, it, Items, G) ==
    /\ s \in Seq(Items)
    /\ \A i \in 1..Len(s) : s[i] \in G
    /\ \A m \in 1..n : it[m] \in G => \E i \in 1..Len(s) : s[i] = it[m]

(* What the scan keeps are the members of G it met, all of them.           *)
LEMMA SelectionKeeps ==
  ASSUME NEW n \in Nat, NEW Items, NEW it \in [1..n -> Items], NEW G,
         NEW g, Selects(g, n, it, G)
  PROVE  Keeps(g[n], n, it, Items, G)
<1> DEFINE Good(s, k) == /\ s \in Seq(Items)
                         /\ \A i \in 1..Len(s) : s[i] \in G
                         /\ \A m \in 1..k : it[m] \in G => \E i \in 1..Len(s) : s[i] = it[m]
           T == {k \in 0..n : Good(g[k], k)}
<1>1. 0 \in T
  <2>1. g[0] = <<>>
    BY DEF Selects
  <2>2. <<>> \in Seq(Items) /\ Len(<<>>) = 0
    OBVIOUS
  <2>3. Good(g[0], 0)
    BY <2>1, <2>2
  <2> QED
    BY <2>3
<1>2. ASSUME NEW k \in 1..n, k - 1 \in T PROVE k \in T
  <2>1. g[k] = IF it[k] \in G THEN Append(g[k - 1], it[k]) ELSE g[k - 1]
    <3>1. k \in 0..n /\ k # 0
      OBVIOUS
    <3> QED
      BY <3>1, Zenon DEF Selects
  <2>2. Good(g[k - 1], k - 1)
    BY <1>2
  <2>3. \A m \in 1..k : m \in 1..(k - 1) \/ m = k
    OBVIOUS
  <2>4. CASE it[k] \notin G
    BY <2>1, <2>2, <2>3, <2>4
  <2>5. CASE it[k] \in G
    <3>1. PICK b \in Seq(Items), l \in Nat : b = g[k - 1] /\ l = Len(b)
      BY <2>2
    <3>a. it[k] \in Items
      OBVIOUS
    <3>b. Append(b, it[k]) \in Seq(Items)
      BY <3>a
    <3>2. PICK d \in Seq(Items) : d = Append(b, it[k]) /\ d = g[k]
      BY <2>1, <2>5, <3>1, <3>b
    <3>3. Len(d) = l + 1 /\ d[l + 1] = it[k] /\ \A i \in 1..l : d[i] = b[i]
      <4>1. PICK x \in Items : x = it[k]
        BY <3>a
      <4>2. d = Append(b, x)
        BY <3>2, <4>1
      <4>3. Len(d) = l + 1 /\ d[l + 1] = x /\ \A i \in 1..l : d[i] = b[i]
        BY <3>1, <4>2
      <4> QED
        BY <4>1, <4>3
    <3>4. \A i \in 1..(l + 1) : i \in 1..l \/ i = l + 1
      OBVIOUS
    <3>5. \A i \in 1..(l + 1) : d[i] \in G
      BY <2>2, <2>5, <3>1, <3>3, <3>4
    <3>6. ASSUME NEW m \in 1..k, it[m] \in G PROVE \E i \in 1..(l + 1) : d[i] = it[m]
      <4>1. CASE m = k
        BY <3>3, <4>1
      <4>2. CASE m # k
        <5>1. PICK i \in 1..l : b[i] = it[m]
          BY <2>2, <2>3, <3>1, <3>6, <4>2
        <5>2. i \in 1..(l + 1) /\ d[i] = it[m]
          BY <3>3, <5>1
        <5> QED
          BY <5>2
      <4> QED
        BY <4>1, <4>2
    <3>7. Good(d, k)
      BY <3>3, <3>5, <3>6
    <3> QED
      BY <3>2, <3>7
  <2> QED
    BY <2>4, <2>5
<1>3. 0..n \subseteq T
  <2> HIDE DEF T
  <2> QED
    BY <1>1, <1>2, Upto
<1> QED
  BY <1>3 DEF Keeps

-----------------------------------------------------------------------------
(* Chunks, and what the filter finds.                                      *)

(* The chunks of n rows.                                                   *)
ChunksOf(n, s) == {ChunkAt(r, s) : r \in 0..(n - 1)}

(* The chunks that hold rows depend on the number of rows only.            *)
LEMMA ChunksAre ==
  \A A : /\ Chunks(A) = ChunksOf(rows[A], ChunkSize[A])
         /\ Chunks(A)' = ChunksOf(rows'[A], ChunkSize[A])
BY DEF Chunks, ChunksOf

(* A chunk holds rows if and only if its first row is one.                 *)
LEMMA ChunkIff ==
  ASSUME NEW n \in Nat, NEW s \in Nat \ {0}
  PROVE  /\ ChunksOf(n, s) \subseteq Nat
         /\ \A k \in Nat : k \in ChunksOf(n, s) <=> k * s < n
<1>1. \A k \in ChunksOf(n, s) : \E r \in 0..(n - 1) : k = r \div s
  BY DEF ChunksOf, ChunkAt
<1>2. ASSUME NEW r \in 0..(n - 1)
      PROVE  r \div s \in Nat /\ (r \div s) * s < n
  <2>1. r \in Nat /\ r < n
    OBVIOUS
  <2>2. r \div s \in Nat /\ (r \div s) * s <= r
    BY <2>1, DivFacts
  <2>3. (r \div s) * s \in Int
    BY <2>2
  <2> QED
    BY <2>1, <2>2, <2>3
<1>3. ASSUME NEW k \in Nat, k * s < n PROVE k \in ChunksOf(n, s)
  <2>1. PICK r \in 0..(n - 1) : r = k * s
    <3>1. k * s \in Nat
      OBVIOUS
    <3> QED
      BY <1>3, <3>1
  <2>2. r \div s = k
    BY <2>1, DivMul
  <2> QED
    BY <2>2 DEF ChunksOf, ChunkAt
<1> QED
  BY <1>1, <1>2, <1>3

(* With r + 1 rows the chunks are those up to the chunk of row r.          *)
LEMMA ChunksUpto ==
  ASSUME NEW r \in Nat, NEW s \in Nat \ {0}
  PROVE  ChunkAt(r, s) \in Nat /\ ChunksOf(r + 1, s) = 0..ChunkAt(r, s)
<1>1. PICK q \in Nat : q = r \div s
  BY DivFacts
<1>2. \A k \in Nat : k * s < r + 1 <=> k <= q
  <2> TAKE k \in Nat
  <2>1. ASSUME k <= q PROVE k * s <= r
    BY <1>1, <2>1, DivUpto
  <2>2. ASSUME k * s <= r PROVE k <= q
    <3>1. k * s \in Nat
      OBVIOUS
    <3>2. (k * s) \div s <= r \div s
      BY <2>2, <3>1, DivMono
    <3> QED
      BY <1>1, <3>2, DivMul
  <2>3. k * s \in Nat
    OBVIOUS
  <2> QED
    BY <2>1, <2>2, <2>3
<1>3. r + 1 \in Nat
  OBVIOUS
<1>4. \A k \in Nat : k \in ChunksOf(r + 1, s) <=> k <= q
  BY <1>2, <1>3, ChunkIff
<1>5. ChunksOf(r + 1, s) \subseteq Nat /\ 0..q \subseteq Nat
  BY <1>3, ChunkIff
<1>6. \A k \in Nat : k \in 0..q <=> k <= q
  OBVIOUS
<1>7. ChunksOf(r + 1, s) = 0..q
  BY <1>4, <1>5, <1>6, Zenon
<1> QED
  BY <1>1, <1>7 DEF ChunkAt

(* One more row adds its chunk, which is the last one.                     *)
LEMMA ChunkAdded ==
  ASSUME NEW n \in Nat, NEW s \in Nat \ {0}
  PROVE  /\ ChunkAt(n, s) \in Nat
         /\ ChunksOf(n + 1, s) = ChunksOf(n, s) \cup {ChunkAt(n, s)}
         /\ ChunksOf(n + 1, s) = 0..ChunkAt(n, s)
         /\ \A i \in 0..(ChunkAt(n, s) - 1) : i \in ChunksOf(n, s)
<1>1. ChunkAt(n, s) \in Nat /\ ChunksOf(n + 1, s) = 0..ChunkAt(n, s)
  BY ChunksUpto
<1>2. ChunksOf(n + 1, s) = ChunksOf(n, s) \cup {ChunkAt(n, s)}
  <2>1. 0..((n + 1) - 1) = 0..(n - 1) \cup {n}
    OBVIOUS
  <2> QED
    BY <2>1 DEF ChunksOf
<1> QED
  BY <1>1, <1>2

(* Fewer rows have no other chunks.                                        *)
LEMMA ChunksShrink ==
  ASSUME NEW n \in Nat, NEW m \in Nat, m <= n, NEW s \in Nat \ {0}
  PROVE  /\ ChunksOf(m, s) \subseteq ChunksOf(n, s)
         /\ \A r \in 0..(n - 1) : ChunkAt(r, s) \in ChunksOf(n, s)
         /\ \A k \in ChunksOf(n, s) : k \in 0..(n - 1)
<1>1. 0..(m - 1) \subseteq 0..(n - 1)
  OBVIOUS
<1>2. \A r \in 0..(n - 1) : r \div s \in Nat /\ r \div s <= r
  <2> TAKE r \in 0..(n - 1)
  <2>1. r \in Nat
    OBVIOUS
  <2> QED
    BY <2>1, DivFacts
<1>3. \A k \in ChunksOf(n, s) : k \in 0..(n - 1)
  <2> TAKE k \in ChunksOf(n, s)
  <2>1. PICK r \in 0..(n - 1) : k = r \div s
    BY DEF ChunksOf, ChunkAt
  <2> QED
    BY <1>2, <2>1
<1> QED
  BY <1>1, <1>3 DEF ChunksOf

(* One element of the result has a count exactly when a chunk passes, and  *)
(* holds every chunk that does.                                            *)
LEMMA ItemFacts ==
  ASSUME NEW j \in JobNames, NEW A \in Arch, rows[A] \in Nat, NEW cut
  PROVE  LET item == FilteredArchetype(j, A, cut)
         IN  /\ EntitiesCount(item) \in Nat
             /\ EntitiesCount(item) > 0 <=> PassingChunks(j, A) # {}
             /\ item.arch = A
             /\ \A k \in PassingChunks(j, A) : \E b \in DOMAIN item.blocks :
                   /\ item.blocks[b][1] <= k * ChunkSize[A]
                   /\ k * ChunkSize[A] < item.blocks[b][2]
<1> DEFINE match == [k \in Chunks(A) |-> k \in PassingChunks(j, A)]
           blocks == Blocks(match, rows[A], ChunkSize[A])
           item == FilteredArchetype(j, A, cut)
<1> PICK s \in Nat \ {0} : s = ChunkSize[A]
  BY ChunkAssumption
<1>1. item.blocks = blocks /\ item.arch = A
  BY DEF FilteredArchetype
<1>2. PICK n \in Nat : n = (rows[A] - 1) \div s + 1 /\ Chunks(A) = 0..(n - 1)
  <2>1. CASE rows[A] = 0
    <3>1. (rows[A] - 1) \div s + 1 = 0
      BY <2>1
    <3>2. Chunks(A) = 0..(0 - 1)
      BY <2>1 DEF Chunks
    <3> QED
      BY <3>1, <3>2
  <2>2. CASE rows[A] > 0
    <3>1. PICK r \in Nat : rows[A] = r + 1 /\ r = rows[A] - 1
      BY <2>2
    <3>2. PICK q \in Nat : q = r \div s /\ ChunksOf(r + 1, s) = 0..q
      BY ChunksUpto DEF ChunkAt
    <3>3. Chunks(A) = 0..((q + 1) - 1) /\ q + 1 \in Nat
      BY <3>1, <3>2, ChunksAre
    <3> QED
      BY <3>1, <3>2, <3>3
  <2> QED
    BY <2>1, <2>2
<1> DEFINE at == [m \in 0..n |-> m * s]
           end == [k \in 0..n |-> IF k * s < rows[A] THEN k * s ELSE rows[A]]
<1>3. Covers(blocks, n, match, at, end)
  <2> HIDE DEF match
  <2> QED
    BY <1>2, BlocksCover
<1>4. \A k \in 0..(n - 1) : match[k] <=> k \in PassingChunks(j, A)
  BY <1>2
<1>5. PassingChunks(j, A) \subseteq 0..(n - 1)
  BY <1>2 DEF PassingChunks
<1>6. \A m \in 0..(n - 1) : at[m] = m * s
  OBVIOUS
<1> HIDE DEF match, at, end, blocks, item
<1>7. blocks \in Seq(Int \X Int)
  BY <1>3 DEF Covers
<1>8. \A i \in 1..Len(blocks) : blocks[i][1] < blocks[i][2]
  BY <1>3 DEF Covers
<1>9. EntitiesCount(item) \in Nat /\ (EntitiesCount(item) > 0 <=> blocks # <<>>)
  BY <1>1, <1>7, <1>8, CountOfBlocks
<1>10. \A k \in PassingChunks(j, A) : \E b \in 1..Len(blocks) :
          blocks[b][1] <= k * s /\ k * s < blocks[b][2]
  <2> TAKE k \in PassingChunks(j, A)
  <2>1. k \in 0..(n - 1) /\ match[k] /\ at[k] = k * s
    BY <1>4, <1>5, <1>6
  <2>2. \E b \in 1..Len(blocks) : blocks[b][1] <= at[k] /\ at[k] < blocks[b][2]
    BY <1>3, <2>1 DEF Covers
  <2> QED
    BY <2>1, <2>2
<1>11. blocks # <<>> <=> PassingChunks(j, A) # {}
  <2>1. ASSUME PassingChunks(j, A) = {} PROVE blocks = <<>>
    BY <1>3, <1>4, <2>1 DEF Covers
  <2>2. ASSUME PassingChunks(j, A) # {} PROVE blocks # <<>>
    BY <1>10, <2>2
  <2> QED
    BY <2>1, <2>2
<1>12. DOMAIN item.blocks = 1..Len(blocks)
  BY <1>1, <1>7
<1>13. \A k \in PassingChunks(j, A) : \E b \in DOMAIN item.blocks :
          /\ item.blocks[b][1] <= k * ChunkSize[A]
          /\ k * ChunkSize[A] < item.blocks[b][2]
  BY <1>1, <1>10, <1>12
<1> QED
  BY <1>1, <1>9, <1>11, <1>13 DEF item

(* The scan over the archetypes takes the items with an entity in a matched*)
(* chunk, and no others.                                                   *)
LEMMA ResultItems ==
  ASSUME NEW j \in JobNames, NEW cut
  PROVE  LET Item(A) == FilteredArchetype(j, A, cut[A])
             res == FilterResult(j, cut)
         IN  /\ res \in Seq({Item(A) : A \in Arch})
             /\ \A i \in 1..Len(res) : \E A \in Arch : res[i] = Item(A) /\ EntitiesCount(Item(A)) > 0
             /\ \A A \in Arch : EntitiesCount(Item(A)) > 0 => \E i \in 1..Len(res) : res[i] = Item(A)
<1> DEFINE n == Len(Archetypes)
           Item(A) == FilteredArchetype(j, A, cut[A])
           Items == {Item(A) : A \in Arch}
           it == [i \in 1..n |-> Item(Archetypes[i])]
           G == {x \in Items : EntitiesCount(x) > 0}
           found[i \in 0..n] ==
              IF i = 0 THEN <<>>
              ELSE IF EntitiesCount(Item(Archetypes[i])) > 0
                   THEN Append(found[i - 1], Item(Archetypes[i])) ELSE found[i - 1]
<1>0. n \in Nat /\ \A i \in 1..n : Archetypes[i] \in Arch
  BY ArchetypeAssumption
<1>1. \A A \in Arch : \E i \in 1..n : Archetypes[i] = A
  BY ArchetypeAssumption DEF Arch
<1>2. it \in [1..n -> Items]
  BY <1>0
<1>3. \A t : \A i \in 0..n :
        (IF i = 0 THEN <<>> ELSE IF it[i] \in G THEN Append(t[i - 1], it[i]) ELSE t[i - 1])
        = (IF i = 0 THEN <<>>
           ELSE IF EntitiesCount(Item(Archetypes[i])) > 0
                THEN Append(t[i - 1], Item(Archetypes[i])) ELSE t[i - 1])
  <2>1. \A i \in 0..n : i # 0 => i \in 1..n
    OBVIOUS
  <2>2. \A i \in 1..n : it[i] = Item(Archetypes[i])
    OBVIOUS
  <2>3. \A i \in 1..n : it[i] \in G <=> EntitiesCount(Item(Archetypes[i])) > 0
    BY <1>0
  <2> HIDE DEF it, G, n, Item
  <2> QED
    BY <2>1, <2>2, <2>3
<1>4. PICK g : Selects(g, n, it, G)
  <2> HIDE DEF it, G, n, Items
  <2> QED
    BY <1>0, <1>2, SelectionExists
<1>5. g = [i \in 0..n |-> IF i = 0 THEN <<>>
              ELSE IF EntitiesCount(Item(Archetypes[i])) > 0
                   THEN Append(g[i - 1], Item(Archetypes[i])) ELSE g[i - 1]]
  <2> HIDE DEF it, G, n, Item
  <2> QED
    BY <1>3, <1>4, Zenon DEF Selects
<1>6. found = [i \in 0..n |-> IF i = 0 THEN <<>>
              ELSE IF EntitiesCount(Item(Archetypes[i])) > 0
                   THEN Append(found[i - 1], Item(Archetypes[i])) ELSE found[i - 1]]
  <2> HIDE DEF n, Item
  <2>1. \E t : t = [i \in 0..n |-> IF i = 0 THEN <<>>
              ELSE IF EntitiesCount(Item(Archetypes[i])) > 0
                   THEN Append(t[i - 1], Item(Archetypes[i])) ELSE t[i - 1]]
    BY <1>5, Zenon
  <2> QED
    BY <2>1, Zenon
<1>7. Selects(found, n, it, G)
  <2> HIDE DEF it, G, n, Item, found
  <2> QED
    BY <1>3, <1>6, Zenon DEF Selects
<1>8. FilterResult(j, cut) = found[n]
  BY Zenon DEF FilterResult
<1> HIDE DEF found, it, n
<1> PICK res : res = FilterResult(j, cut)
  OBVIOUS
<1>9. /\ res \in Seq(Items)
      /\ \A i \in 1..Len(res) : res[i] \in G
      /\ \A m \in 1..n : it[m] \in G => \E i \in 1..Len(res) : res[i] = it[m]
  <2> HIDE DEF G, Items
  <2>1. n \in Nat
    BY <1>0
  <2>2. Keeps(found[n], n, it, Items, G)
    BY <1>2, <1>7, <2>1, SelectionKeeps
  <2> QED
    BY <1>8, <2>2 DEF Keeps
<1>10. \A i \in 1..Len(res) : \E A \in Arch : res[i] = Item(A) /\ EntitiesCount(Item(A)) > 0
  <2> TAKE i \in 1..Len(res)
  <2>1. res[i] \in G
    BY <1>9
  <2> HIDE DEF Item
  <2> QED
    BY <2>1
<1>11. ASSUME NEW A \in Arch, EntitiesCount(Item(A)) > 0 PROVE \E i \in 1..Len(res) : res[i] = Item(A)
  <2>1. PICK m \in 1..n : Archetypes[m] = A
    BY <1>1 DEF n
  <2>2. it[m] = Item(A)
    BY <2>1 DEF it
  <2>3. it[m] \in G
    <3> HIDE DEF Item
    <3> QED
      BY <1>11, <2>2
  <2> QED
    BY <1>9, <2>2, <2>3
<1> QED
  BY <1>9, <1>10, <1>11

(* The result is empty when no chunk passes, and holds every chunk that    *)
(* does: what the tasks go over is what the filter let through.            *)
LEMMA FilterFinds ==
  ASSUME NEW j \in JobNames, \A A \in Arch : rows[A] \in Nat, NEW cut
  PROVE  /\ TotalCount(FilterResult(j, cut)) \in Nat
         /\ TotalCount(FilterResult(j, cut)) # 0 <=> \E A \in Arch : PassingChunks(j, A) # {}
         /\ \A A \in Arch : \A k \in PassingChunks(j, A) : InResult(FilterResult(j, cut), A, k)
<1> DEFINE Item(A) == FilteredArchetype(j, A, cut[A])
           Items == {Item(A) : A \in Arch}
<1>1. PICK res \in Seq(Items) :
        /\ res = FilterResult(j, cut)
        /\ \A i \in 1..Len(res) : \E A \in Arch : res[i] = Item(A) /\ EntitiesCount(Item(A)) > 0
        /\ \A A \in Arch : EntitiesCount(Item(A)) > 0 => \E i \in 1..Len(res) : res[i] = Item(A)
  BY ResultItems
<1>2. \A A \in Arch : /\ EntitiesCount(Item(A)) \in Nat
                      /\ EntitiesCount(Item(A)) > 0 <=> PassingChunks(j, A) # {}
                      /\ Item(A).arch = A
  BY ItemFacts
<1>a. DOMAIN res = 1..Len(res)
  OBVIOUS
<1> HIDE DEF Item, Items
<1>3. \A i \in 1..Len(res) : EntitiesCount(res[i]) \in Nat \ {0}
  <2> TAKE i \in 1..Len(res)
  <2>1. PICK A \in Arch : res[i] = Item(A) /\ EntitiesCount(Item(A)) > 0
    BY ONLY <1>1, i \in 1..Len(res)
  <2>2. EntitiesCount(Item(A)) \in Nat
    BY ONLY <1>2, A \in Arch
  <2>3. EntitiesCount(Item(A)) \in Nat \ {0}
    BY ONLY <2>1, <2>2
  <2> QED
    BY ONLY <2>1, <2>3
<1>4. TotalCount(res) \in Nat /\ (TotalCount(res) > 0 <=> res # <<>>)
  <2> HIDE DEF Items
  <2> QED
    BY <1>3, TotalOfCounts
<1>5. \A A \in Arch : PassingChunks(j, A) # {} => \E i \in 1..Len(res) : res[i] = Item(A)
  <2> TAKE A \in Arch
  <2> HAVE PassingChunks(j, A) # {}
  <2>1. EntitiesCount(Item(A)) > 0
    BY ONLY <1>2, A \in Arch, PassingChunks(j, A) # {}
  <2> QED
    BY ONLY <1>1, <2>1, A \in Arch
<1>6. res # <<>> <=> \E A \in Arch : PassingChunks(j, A) # {}
  <2>1. ASSUME res # <<>> PROVE \E A \in Arch : PassingChunks(j, A) # {}
    <3>1. 1 \in 1..Len(res)
      BY <2>1
    <3>2. PICK A \in Arch : res[1] = Item(A) /\ EntitiesCount(Item(A)) > 0
      BY ONLY <1>1, <3>1
    <3> QED
      BY ONLY <1>2, <3>2, A \in Arch
  <2>2. ASSUME NEW A \in Arch, PassingChunks(j, A) # {} PROVE res # <<>>
    BY <1>5, <2>2
  <2> QED
    BY <2>1, <2>2
<1>7. ASSUME NEW A \in Arch, NEW k \in PassingChunks(j, A) PROVE InResult(res, A, k)
  <2>1. PICK i \in 1..Len(res) : res[i] = Item(A)
    BY <1>5
  <2>2. i \in DOMAIN res /\ res[i].arch = A
    BY ONLY <1>a, <1>2, <2>1, A \in Arch, i \in 1..Len(res)
  <2>3. \E b \in DOMAIN Item(A).blocks : /\ Item(A).blocks[b][1] <= k * ChunkSize[A]
                                         /\ k * ChunkSize[A] < Item(A).blocks[b][2]
    BY ItemFacts DEF Item
  <2> QED
    BY ONLY <2>1, <2>2, <2>3 DEF InResult
<1> QED
  <2>1. TotalCount(res) # 0 <=> TotalCount(res) > 0
    BY <1>4
  <2> QED
    BY <1>1, <1>4, <1>6, <1>7, <2>1

-----------------------------------------------------------------------------
(* The inductive invariant.                                                *)
Stamps == 0..MaxVersion \cup {Garbage}

(* A VersionStorage of archetype A.                                        *)
VersionsOf(A, vs) ==
    /\ vs = [chunk |-> vs.chunk, all |-> vs.all]
    /\ vs.all \in [Comps[A] -> Stamps \cup {Never}]
    /\ vs.chunk \in [DOMAIN vs.chunk -> [Comps[A] -> Stamps]]

(* The versions of the world, and the rows of its archetypes.              *)
Scalars ==
    /\ version \in 0..MaxVersion
    /\ managerVersion \in Stamps
    /\ updating \in BOOLEAN
    /\ terminated \in BOOLEAN

RowsBounded ==
    /\ rows \in [Arch -> Nat]
    /\ \A A \in Arch : rows[A] <= MaxRows[A]

(* Each archetype has versions for every chunk that holds rows.            *)
Storages ==
    /\ versions = [A \in Arch |-> versions[A]]
    /\ \A A \in Arch : VersionsOf(A, versions[A]) /\ Chunks(A) \subseteq DOMAIN versions[A].chunk

(* A job last ran at an earlier version than the world's.                  *)
LastEarlier ==
    /\ last \in [JobNames -> Nat \cup {Never}]
    /\ \A j \in JobNames : last[j] < version

(* What is noted as unseen is a cell that holds rows, of an archetype the  *)
(* job wants and a component it checks.                                    *)
UnseenValid ==
    \A u \in unseen : \E A \in Arch : \E c \in Comps[A], k \in Chunks(A) :
        \E j \in Watchers[A][c] : u = <<j, A, k, c>>

(* Stale stamps are of cells there can be.                                 *)
StaleValid == stale \subseteq CellSet

(* Only a stale stamp can be later than the world's version.               *)
StampsKnown ==
    \A A \in Arch : \A c \in Comps[A], k \in Chunks(A) :
        versions[A].chunk[k][c] <= version \/ <<A, k, c>> \in stale

Shapes == Scalars /\ RowsBounded /\ Storages /\ LastEarlier /\ UnseenValid /\ StaleValid

(* ChangesVisible and NothingSpurious, of some of the jobs.                *)
Visible(J) ==
    \A A \in Arch : \A c \in Comps[A], k \in Chunks(A) : \A j \in J :
        <<j, A, k, c>> \in unseen =>
            \/ last[j] = Never
            \/ <<A, k, c>> \in stale
            \/ /\ versions[A].chunk[k][c] > last[j]
               /\ <<A, c>> \notin staleAll => versions[A].all[c] > last[j]

Quiet(J) ==
    \A A \in Arch : \A c \in Comps[A], k \in Chunks(A) : \A j \in J :
        (/\ last[j] # Never
         /\ j \in Watchers[A][c]
         /\ versions[A].chunk[k][c] > last[j]
         /\ <<A, k, c>> \notin stale)
            => <<j, A, k, c>> \in unseen

(* StampsKnown is what makes Quiet inductive: a job that runs notes the    *)
(* world's version, and no stamp it can trust is later.                    *)
IInv == Shapes /\ StampsKnown /\ Visible(JobNames) /\ Quiet(JobNames)

-----------------------------------------------------------------------------
(* What a step does to a cell, for the jobs J: it leaves it alone, stamps  *)
(* it with the world's version, or leaves it stale.                        *)
Fresh(A, c) == <<A, c>> \in staleAll' \/ versions'[A].all[c] = version

Kept(J, A, k, c) ==
    /\ k \in Chunks(A)
    /\ versions'[A].chunk[k][c] = versions[A].chunk[k][c]
    /\ <<A, k, c>> \in stale => <<A, k, c>> \in stale'
    /\ \A j \in J : <<j, A, k, c>> \in unseen' <=> <<j, A, k, c>> \in unseen
    /\ \/ Fresh(A, c)
       \/ /\ versions'[A].all[c] = versions[A].all[c]
          /\ <<A, c>> \in staleAll => <<A, c>> \in staleAll'

Touched(J, A, k, c) ==
    /\ versions'[A].chunk[k][c] = version
    /\ \A j \in J : j \in Watchers[A][c] => <<j, A, k, c>> \in unseen'
    /\ Fresh(A, c)

CellStep(J, A, k, c) ==
    Kept(J, A, k, c) \/ Touched(J, A, k, c) \/ <<A, k, c>> \in stale'

CellSteps(J) == \A A \in Arch : \A c \in Comps[A], k \in Chunks(A)' : CellStep(J, A, k, c)

(* Such a step loses no change, invents none, and stamps no later version. *)
LEMMA CellsKeep ==
  ASSUME IInv, NEW J \in SUBSET JobNames, CellSteps(J),
         \A j \in J : last'[j] = last[j], version' \in Nat, version <= version'
  PROVE  /\ StampsKnown' /\ Visible(J)' /\ Quiet(J)'
         /\ \A A \in Arch : \A c \in Comps[A], k \in Chunks(A)' :
               versions'[A].chunk[k][c] <= version \/ <<A, k, c>> \in stale'
<1>1. version \in Nat /\ \A j \in J : last[j] < version /\ last[j] \in Nat \cup {Never}
  BY DEF IInv, Shapes, Scalars, LastEarlier
<1>2. ASSUME NEW A \in Arch, NEW c \in Comps[A], NEW k \in Chunks(A)'
      PROVE  /\ \/ <<A, k, c>> \in stale'
                \/ /\ versions'[A].chunk[k][c] <= version
                   /\ versions'[A].chunk[k][c] <= version'
             /\ \A j \in J :
                  /\ <<j, A, k, c>> \in unseen' =>
                      \/ last'[j] = Never
                      \/ <<A, k, c>> \in stale'
                      \/ /\ versions'[A].chunk[k][c] > last'[j]
                         /\ <<A, c>> \notin staleAll' => versions'[A].all[c] > last'[j]
                  /\ (/\ last'[j] # Never
                      /\ j \in Watchers[A][c]
                      /\ versions'[A].chunk[k][c] > last'[j]
                      /\ <<A, k, c>> \notin stale')
                        => <<j, A, k, c>> \in unseen'
  <2>1. CellStep(J, A, k, c)
    BY DEF CellSteps
  <2>2. ASSUME Touched(J, A, k, c)
        PROVE  /\ versions'[A].chunk[k][c] = version
               /\ \A j \in J : j \in Watchers[A][c] => <<j, A, k, c>> \in unseen'
               /\ <<A, c>> \notin staleAll' => versions'[A].all[c] = version
    BY <2>2 DEF Touched, Fresh
  <2>3. CASE Touched(J, A, k, c)
    <3>1. versions'[A].chunk[k][c] <= version' /\ versions'[A].chunk[k][c] <= version
      BY <1>1, <2>2, <2>3
    <3> QED
      BY <1>1, <2>2, <2>3, <3>1
  <2>4. CASE <<A, k, c>> \in stale'
    BY <2>4
  <2>5. CASE Kept(J, A, k, c) /\ <<A, k, c>> \notin stale'
    <3>1. /\ k \in Chunks(A)
          /\ versions'[A].chunk[k][c] = versions[A].chunk[k][c]
          /\ <<A, k, c>> \notin stale
          /\ \A j \in J : <<j, A, k, c>> \in unseen' <=> <<j, A, k, c>> \in unseen
          /\ <<A, c>> \notin staleAll' =>
                \/ versions'[A].all[c] = version
                \/ versions'[A].all[c] = versions[A].all[c] /\ <<A, c>> \notin staleAll
      BY <2>5 DEF Kept, Fresh
    <3>2. versions[A].chunk[k][c] <= version
      BY <3>1 DEF IInv, StampsKnown
    <3>3. versions[A].chunk[k][c] \in Int
      <4>1. k \in DOMAIN versions[A].chunk
        BY <3>1 DEF IInv, Shapes, Storages
      <4>2. versions[A].chunk[k][c] \in Stamps
        BY <4>1 DEF IInv, Shapes, Storages, VersionsOf
      <4> QED
        BY <4>2, VersionAssumption DEF Stamps
    <3>4. versions'[A].chunk[k][c] <= version' /\ versions'[A].chunk[k][c] <= version
      BY <1>1, <3>1, <3>2, <3>3
    <3>5. ASSUME NEW j \in J, <<j, A, k, c>> \in unseen', last'[j] # Never
          PROVE  /\ versions'[A].chunk[k][c] > last'[j]
                 /\ <<A, c>> \notin staleAll' => versions'[A].all[c] > last'[j]
      <4>1. j \in JobNames /\ last'[j] = last[j] /\ <<j, A, k, c>> \in unseen
        BY <3>1, <3>5
      <4>2. /\ versions[A].chunk[k][c] > last[j]
            /\ <<A, c>> \notin staleAll => versions[A].all[c] > last[j]
        BY <3>1, <3>5, <4>1 DEF IInv, Visible
      <4> QED
        BY <1>1, <3>1, <4>1, <4>2
    <3>6. ASSUME NEW j \in J, last'[j] # Never, j \in Watchers[A][c],
                 versions'[A].chunk[k][c] > last'[j]
          PROVE  <<j, A, k, c>> \in unseen'
      <4>1. j \in JobNames /\ last'[j] = last[j]
        OBVIOUS
      <4>2. <<j, A, k, c>> \in unseen
        BY <3>1, <3>6, <4>1 DEF IInv, Quiet
      <4> QED
        BY <3>1, <4>2
    <3> QED
      BY <3>4, <3>5, <3>6
  <2> QED
    BY <2>1, <2>3, <2>4, <2>5 DEF CellStep
<1>3. StampsKnown'
  BY <1>2 DEF StampsKnown
<1>4. Visible(J)'
  BY <1>2 DEF Visible
<1>5. Quiet(J)'
  BY <1>2 DEF Quiet
<1> QED
  BY <1>2, <1>3, <1>4, <1>5

(* The conjuncts are what the runs check.                                  *)
LEMMA IInvImplies == IInv => TypeOK /\ ChangesVisible /\ NothingSpurious
<1> SUFFICES ASSUME IInv PROVE TypeOK /\ ChangesVisible /\ NothingSpurious
  OBVIOUS
<1> USE DEF IInv, Shapes
<1>1. TypeOK
  <2>1. version \in 0..MaxVersion /\ managerVersion \in 0..MaxVersion \cup {Garbage}
    BY DEF Scalars, Stamps
  <2>2. ASSUME NEW A \in Arch
        PROVE  /\ rows[A] \in 0..MaxRows[A]
               /\ Chunks(A) \subseteq DOMAIN versions[A].chunk
               /\ DOMAIN versions[A].all = Comps[A]
               /\ \A k \in DOMAIN versions[A].chunk :
                     versions[A].chunk[k] \in [Comps[A] -> 0..MaxVersion \cup {Garbage}]
    <3>1. rows[A] \in 0..MaxRows[A]
      BY ChunkAssumption DEF RowsBounded
    <3>2. VersionsOf(A, versions[A]) /\ Chunks(A) \subseteq DOMAIN versions[A].chunk
      BY DEF Storages
    <3>3. \A k \in DOMAIN versions[A].chunk : versions[A].chunk[k] \in [Comps[A] -> Stamps]
      BY <3>2 DEF VersionsOf
    <3>4. DOMAIN versions[A].all = Comps[A]
      BY <3>2 DEF VersionsOf
    <3> QED
      BY <3>1, <3>2, <3>3, <3>4 DEF Stamps
  <2>3. \A j \in JobNames : last[j] = Never \/ last[j] \in 0..(version - 1)
    BY <2>1, VersionAssumption DEF LastEarlier
  <2>4. updating \in BOOLEAN /\ terminated \in BOOLEAN /\ stale \subseteq CellSet
    BY DEF Scalars, StaleValid
  <2> QED
    BY <2>1, <2>2, <2>3, <2>4 DEF TypeOK
<1>2. ChangesVisible
  <2> SUFFICES ASSUME NEW u \in unseen
               PROVE  \/ last[u[1]] = Never
                      \/ <<u[2], u[3], u[4]>> \in stale
                      \/ /\ versions[u[2]].chunk[u[3]][u[4]] > last[u[1]]
                         /\ <<u[2], u[4]>> \notin staleAll => versions[u[2]].all[u[4]] > last[u[1]]
    BY DEF ChangesVisible
  <2>1. PICK A \in Arch : \E c \in Comps[A], k \in Chunks(A) :
          \E j \in Watchers[A][c] : u = <<j, A, k, c>>
    BY DEF UnseenValid
  <2>2. PICK c \in Comps[A], k \in Chunks(A) : \E j \in Watchers[A][c] : u = <<j, A, k, c>>
    BY <2>1
  <2>3. PICK j \in Watchers[A][c] : u = <<j, A, k, c>>
    BY <2>2
  <2>4. j \in JobNames
    BY DEF Watchers
  <2>5. u[1] = j /\ u[2] = A /\ u[3] = k /\ u[4] = c
    BY <2>3
  <2> QED
    BY <2>3, <2>4, <2>5 DEF Visible
<1>3. NothingSpurious
  BY DEF NothingSpurious, Quiet
<1> QED
  BY <1>1, <1>2, <1>3

-----------------------------------------------------------------------------
(* The operations of VersionStorage.                                       *)
LEMMA EmplaceIs ==
  ASSUME NEW A, NEW vs, VersionsOf(A, vs), NEW v \in Stamps, NEW k \in Nat,
         \A i \in 0..(k - 1) : i \in DOMAIN vs.chunk,
         NEW new, new = Emplace(vs, v, k)
  PROVE  /\ VersionsOf(A, new)
         /\ DOMAIN new.chunk = 0..k
         /\ \A c \in Comps[A] : new.all[c] = v /\ new.chunk[k][c] = v
         /\ \A i \in 0..k : i # k => new.chunk[i] = vs.chunk[i]
<1>1. DOMAIN vs.all = Comps[A]
  BY DEF VersionsOf
<1>2. new = [chunk |-> [i \in 0..k |-> IF i = k THEN [c \in Comps[A] |-> v] ELSE vs.chunk[i]],
             all   |-> [c \in Comps[A] |-> v]]
  BY <1>1 DEF Emplace
<1>3. /\ new.chunk = [i \in 0..k |-> IF i = k THEN [c \in Comps[A] |-> v] ELSE vs.chunk[i]]
      /\ new.all = [c \in Comps[A] |-> v]
      /\ new = [chunk |-> new.chunk, all |-> new.all]
  BY <1>2
<1>4. \A i \in 0..k : i # k => i \in DOMAIN vs.chunk
  OBVIOUS
<1>5. \A i \in 0..k : new.chunk[i] \in [Comps[A] -> Stamps]
  <2> TAKE i \in 0..k
  <2>1. CASE i = k
    BY <1>3, <2>1
  <2>2. CASE i # k
    BY <1>3, <1>4, <2>2 DEF VersionsOf
  <2> QED
    BY <2>1, <2>2
<1>6. DOMAIN new.chunk = 0..k /\ k \in 0..k
  BY <1>3
<1>7. new.chunk \in [DOMAIN new.chunk -> [Comps[A] -> Stamps]]
  BY <1>3, <1>5, <1>6
<1>8. new.all \in [Comps[A] -> Stamps \cup {Never}]
  BY <1>3
<1>9. VersionsOf(A, new)
  BY <1>3, <1>7, <1>8 DEF VersionsOf
<1> QED
  BY <1>3, <1>6, <1>9

(* setVersion of a chunk stamps its components, and the archetype's.       *)
LEMMA SetChunkIs ==
  ASSUME NEW A, NEW vs, VersionsOf(A, vs), NEW v \in Stamps, NEW k,
         NEW new, new = SetChunk(vs, v, k)
  PROVE  /\ VersionsOf(A, new)
         /\ DOMAIN new.chunk = DOMAIN vs.chunk
         /\ \A c \in Comps[A] : new.all[c] = v
         /\ \A i \in DOMAIN vs.chunk : i # k => new.chunk[i] = vs.chunk[i]
         /\ \A i \in DOMAIN vs.chunk : i = k => \A c \in Comps[A] : new.chunk[i][c] = v
<1>1. DOMAIN vs.all = Comps[A]
  BY DEF VersionsOf
<1>2. new = [chunk |-> [vs.chunk EXCEPT ![k] = [c \in Comps[A] |-> v]],
             all   |-> [c \in Comps[A] |-> v]]
  BY <1>1 DEF SetChunk
<1>3. /\ new.chunk = [vs.chunk EXCEPT ![k] = [c \in Comps[A] |-> v]]
      /\ new.all = [c \in Comps[A] |-> v]
      /\ new = [chunk |-> new.chunk, all |-> new.all]
  BY <1>2
<1>4. PICK D : vs.chunk \in [D -> [Comps[A] -> Stamps]] /\ D = DOMAIN vs.chunk
  BY DEF VersionsOf
<1>5. [c \in Comps[A] |-> v] \in [Comps[A] -> Stamps]
  OBVIOUS
<1>6. new.chunk \in [D -> [Comps[A] -> Stamps]]
  BY <1>3, <1>4, <1>5
<1>7. DOMAIN new.chunk = D
  BY <1>6
<1>8. new.all \in [Comps[A] -> Stamps \cup {Never}]
  BY <1>3
<1>9. VersionsOf(A, new)
  BY <1>3, <1>6, <1>7, <1>8 DEF VersionsOf
<1>10. \A i \in D : new.chunk[i] = IF i = k THEN [c \in Comps[A] |-> v] ELSE vs.chunk[i]
  BY <1>3, <1>4
<1> QED
  BY <1>3, <1>4, <1>7, <1>9, <1>10

(* setVersion of one component stamps it in the chunk and in the           *)
(* archetype.                                                              *)
LEMMA SetOneIs ==
  ASSUME NEW A, NEW vs, VersionsOf(A, vs), NEW v \in Stamps,
         NEW k \in DOMAIN vs.chunk, NEW d \in Comps[A],
         NEW new, new = SetOne(vs, v, k, d)
  PROVE  /\ VersionsOf(A, new)
         /\ DOMAIN new.chunk = DOMAIN vs.chunk
         /\ \A c \in Comps[A] : new.all[c] = IF c = d THEN v ELSE vs.all[c]
         /\ \A i \in DOMAIN vs.chunk : \A c \in Comps[A] :
               new.chunk[i][c] = IF i = k /\ c = d THEN v ELSE vs.chunk[i][c]
<1>1. PICK D : vs.chunk \in [D -> [Comps[A] -> Stamps]] /\ D = DOMAIN vs.chunk
  BY DEF VersionsOf
<1>2. vs = [chunk |-> vs.chunk, all |-> vs.all] /\ vs.all \in [Comps[A] -> Stamps \cup {Never}]
  BY DEF VersionsOf
<1>3. PICK h : h = [vs.chunk[k] EXCEPT ![d] = v]
  OBVIOUS
<1>4. PICK f : f = [vs.chunk EXCEPT ![k] = h]
  OBVIOUS
<1>5. PICK g : g = [vs.all EXCEPT ![d] = v]
  OBVIOUS
<1>6. new = [chunk |-> f, all |-> g]
  BY <1>2, <1>3, <1>4, <1>5 DEF SetOne
<1>7. new.chunk = f /\ new.all = g
  BY <1>6
<1>8. vs.chunk[k] \in [Comps[A] -> Stamps]
  BY <1>1
<1>9. h \in [Comps[A] -> Stamps] /\ \A c \in Comps[A] : h[c] = IF c = d THEN v ELSE vs.chunk[k][c]
  BY <1>3, <1>8
<1>10. f \in [D -> [Comps[A] -> Stamps]] /\ \A i \in D : f[i] = IF i = k THEN h ELSE vs.chunk[i]
  BY <1>1, <1>4, <1>9
<1>11. /\ g \in [Comps[A] -> Stamps \cup {Never}]
       /\ \A c \in Comps[A] : g[c] = IF c = d THEN v ELSE vs.all[c]
  BY <1>2, <1>5
<1>12. DOMAIN f = D
  BY <1>10
<1>13. VersionsOf(A, new)
  BY <1>6, <1>7, <1>10, <1>11, <1>12 DEF VersionsOf
<1>14. \A i \in D : \A c \in Comps[A] :
          f[i][c] = IF i = k /\ c = d THEN v ELSE vs.chunk[i][c]
  BY <1>9, <1>10
<1> QED
  BY <1>1, <1>7, <1>11, <1>12, <1>13, <1>14

-----------------------------------------------------------------------------
(* Membership in the sets of cells the actions use.                        *)
LEMMA WatchersAre ==
  ASSUME NEW A \in Arch, NEW c \in Comps[A]
  PROVE  Watchers[A][c] \subseteq JobNames
BY DEF Watchers

(* Products of chunks and components, as a name the provers leave alone.   *)
Pairs(ks, cs) == ks \X cs

(* What the jobs that check them are to see in the cells ks x cs of A.     *)
LEMMA InUnseen ==
  ASSUME NEW A \in Arch, NEW ks, NEW cs
  PROVE  /\ \A u : u \in Unseen(A, Pairs(ks, cs)) <=>
              \E k \in ks, c \in cs : \E j \in Watchers[A][c] : u = <<j, A, k, c>>
         /\ \A j, B, k, c : <<j, B, k, c>> \in Unseen(A, Pairs(ks, cs)) <=>
              B = A /\ k \in ks /\ c \in cs /\ j \in Watchers[A][c]
<1>1. \A u : u \in Unseen(A, Pairs(ks, cs)) <=>
              \E x \in ks \X cs : \E j \in Watchers[A][x[2]] : u = <<j, A, x[1], x[2]>>
  BY DEF Unseen, Pairs
<1>2. ASSUME NEW u, u \in Unseen(A, Pairs(ks, cs))
      PROVE  \E k \in ks, c \in cs : \E j \in Watchers[A][c] : u = <<j, A, k, c>>
  <2>1. PICK x \in ks \X cs : \E j \in Watchers[A][x[2]] : u = <<j, A, x[1], x[2]>>
    BY <1>1, <1>2
  <2>2. x[1] \in ks /\ x[2] \in cs
    OBVIOUS
  <2> QED
    BY <2>1, <2>2
<1>3. ASSUME NEW k \in ks, NEW c \in cs, NEW j \in Watchers[A][c]
      PROVE  <<j, A, k, c>> \in Unseen(A, Pairs(ks, cs))
  <2>1. <<k, c>> \in ks \X cs /\ <<k, c>>[1] = k /\ <<k, c>>[2] = c
    OBVIOUS
  <2>2. PICK x \in ks \X cs : x[1] = k /\ x[2] = c
    BY <2>1
  <2> QED
    BY <1>1, <2>2
<1>4. ASSUME NEW j, NEW B, NEW k, NEW c, <<j, B, k, c>> \in Unseen(A, Pairs(ks, cs))
      PROVE  B = A /\ k \in ks /\ c \in cs /\ j \in Watchers[A][c]
  <2>1. PICK l \in ks, d \in cs : \E i \in Watchers[A][d] : <<j, B, k, c>> = <<i, A, l, d>>
    BY <1>2, <1>4
  <2>2. PICK i \in Watchers[A][d] : <<j, B, k, c>> = <<i, A, l, d>>
    BY <2>1
  <2> QED
    BY <2>2
<1> QED
  BY <1>2, <1>3, <1>4

(* The cells ks x cs of A.                                                 *)
LEMMA InCells ==
  ASSUME NEW A, NEW ks, NEW cs
  PROVE  /\ \A s : s \in Cells(A, Pairs(ks, cs)) <=> \E k \in ks, c \in cs : s = <<A, k, c>>
         /\ \A B, k, c : <<B, k, c>> \in Cells(A, Pairs(ks, cs)) <=> B = A /\ k \in ks /\ c \in cs
<1>1. \A s : s \in Cells(A, Pairs(ks, cs)) <=> \E x \in ks \X cs : s = <<A, x[1], x[2]>>
  BY DEF Cells, Pairs
<1>2. ASSUME NEW s, s \in Cells(A, Pairs(ks, cs))
      PROVE  \E k \in ks, c \in cs : s = <<A, k, c>>
  <2>1. PICK x \in ks \X cs : s = <<A, x[1], x[2]>>
    BY <1>1, <1>2
  <2>2. x[1] \in ks /\ x[2] \in cs
    OBVIOUS
  <2> QED
    BY <2>1, <2>2
<1>3. ASSUME NEW k \in ks, NEW c \in cs PROVE <<A, k, c>> \in Cells(A, Pairs(ks, cs))
  <2>1. <<k, c>> \in ks \X cs /\ <<k, c>>[1] = k /\ <<k, c>>[2] = c
    OBVIOUS
  <2>2. PICK x \in ks \X cs : x[1] = k /\ x[2] = c
    BY <2>1
  <2> QED
    BY <1>1, <2>2
<1>4. ASSUME NEW B, NEW k, NEW c, <<B, k, c>> \in Cells(A, Pairs(ks, cs))
      PROVE  B = A /\ k \in ks /\ c \in cs
  BY <1>2, <1>4
<1> QED
  BY <1>2, <1>3, <1>4

(* An unseen cell holds rows.                                              *)
LEMMA UnseenCell ==
  ASSUME IInv, NEW j, NEW A, NEW k, NEW c, <<j, A, k, c>> \in unseen
  PROVE  A \in Arch /\ c \in Comps[A] /\ k \in Chunks(A) /\ j \in Watchers[A][c]
<1>1. PICK B \in Arch : \E d \in Comps[B], l \in Chunks(B) :
        \E i \in Watchers[B][d] : <<j, A, k, c>> = <<i, B, l, d>>
  BY DEF IInv, Shapes, UnseenValid
<1>2. PICK d \in Comps[B], l \in Chunks(B) : \E i \in Watchers[B][d] : <<j, A, k, c>> = <<i, B, l, d>>
  BY <1>1
<1>3. PICK i \in Watchers[B][d] : <<j, A, k, c>> = <<i, B, l, d>>
  BY <1>2
<1>4. j = i /\ A = B /\ k = l /\ c = d
  BY <1>3
<1> QED
  BY <1>3, <1>4

(* What is noted as unseen is a cell some job watches.                     *)
LEMMA UnseenShape ==
  ASSUME IInv, NEW u \in unseen
  PROVE  \E A \in Arch : \E c \in Comps[A], k \in Chunks(A) :
            \E j \in Watchers[A][c] : u = <<j, A, k, c>>
BY DEF IInv, Shapes, UnseenValid

(* Rows come, go and move: ks[A] are the chunks of A that are stamped.     *)
UnseenStep(ks) ==
    /\ \A u \in unseen' : \E A \in Arch : \E c \in Comps[A], k \in Nat :
          \E j \in Watchers[A][c] : u = <<j, A, k, c>>
    /\ \A A \in Arch : \A c \in Comps[A], k \in Nat : \A j \in JobNames :
          <<j, A, k, c>> \in unseen' <=>
              /\ k \in Chunks(A)'
              /\ <<j, A, k, c>> \in unseen \/ (k \in ks[A] /\ j \in Watchers[A][c])

(* Nothing becomes stale; only the chunks stamped lose the mark.           *)
StaleStep(ks) ==
    /\ stale' \subseteq stale
    /\ \A A \in Arch : \A c \in Comps[A], k \in Chunks(A)' :
          <<A, k, c>> \in stale /\ k \notin ks[A] => <<A, k, c>> \in stale'
    /\ \A A \in Arch : \A c \in Comps[A] :
          ks[A] = {} /\ <<A, c>> \in staleAll => <<A, c>> \in staleAll'

(* The chunks ks have the world's version, the others what they had.       *)
StampStep(ks) ==
    /\ \A A \in Arch : ks[A] = {} => versions'[A].all = versions[A].all
    /\ \A A \in Arch : ks[A] # {} => \A c \in Comps[A] : versions'[A].all[c] = version
    /\ \A A \in Arch, k \in Nat : k \in Chunks(A)' =>
          IF k \in ks[A] THEN \A c \in Comps[A] : versions'[A].chunk[k][c] = version
                         ELSE k \in Chunks(A) /\ versions'[A].chunk[k] = versions[A].chunk[k]

(* What steps that move rows leave alone.                                  *)
Others == <<version, managerVersion, updating, last, terminated>>

(* A step that moves rows keeps the invariant when it stamps, shows and    *)
(* clears the stale mark of the same chunks.                               *)
LEMMA RowStepKeeps ==
  ASSUME IInv, UNCHANGED Others, NEW ks, RowsBounded', Storages',
         UnseenStep(ks), StaleStep(ks), StampStep(ks)
  PROVE  IInv'
<1>1. Scalars' /\ LastEarlier'
  BY DEF IInv, Shapes, Scalars, LastEarlier, Others
<1>2. StaleValid'
  BY DEF IInv, Shapes, StaleValid, StaleStep, CellSet
<1>3. \A A \in Arch : Chunks(A)' \subseteq Nat
  BY ChunkAssumption, ChunkIff, ChunksAre DEF RowsBounded
<1>4. UnseenValid'
  <2> SUFFICES ASSUME NEW u \in unseen'
               PROVE  \E A \in Arch : \E c \in Comps[A], k \in Chunks(A)' :
                        \E j \in Watchers[A][c] : u = <<j, A, k, c>>
    BY DEF UnseenValid
  <2>1. PICK A \in Arch : \E c \in Comps[A], k \in Nat : \E j \in Watchers[A][c] : u = <<j, A, k, c>>
    BY DEF UnseenStep
  <2>2. PICK c \in Comps[A], k \in Nat : \E j \in Watchers[A][c] : u = <<j, A, k, c>>
    BY <2>1
  <2>3. PICK j \in Watchers[A][c] : u = <<j, A, k, c>>
    BY <2>2
  <2>4. j \in JobNames
    BY WatchersAre
  <2>5. k \in Chunks(A)'
    BY <2>3, <2>4 DEF UnseenStep
  <2> QED
    BY <2>3, <2>5
<1>5. CellSteps(JobNames)
  <2> SUFFICES ASSUME NEW A \in Arch, NEW c \in Comps[A], NEW k \in Chunks(A)'
               PROVE  CellStep(JobNames, A, k, c)
    BY DEF CellSteps
  <2>1. k \in Nat
    BY <1>3
  <2>2. Fresh(A, c) \/ ks[A] = {}
    BY DEF Fresh, StampStep
  <2>3. ASSUME k \in ks[A] PROVE Touched(JobNames, A, k, c)
    <3>1. versions'[A].chunk[k][c] = version
      BY <2>1, <2>3 DEF StampStep
    <3>2. \A j \in JobNames : j \in Watchers[A][c] => <<j, A, k, c>> \in unseen'
      BY <2>1, <2>3 DEF UnseenStep
    <3> QED
      BY <2>2, <2>3, <3>1, <3>2 DEF Touched
  <2>4. ASSUME k \notin ks[A] PROVE Kept(JobNames, A, k, c)
    <3>1. k \in Chunks(A) /\ versions'[A].chunk[k][c] = versions[A].chunk[k][c]
      BY <2>1, <2>4 DEF StampStep
    <3>2. <<A, k, c>> \in stale => <<A, k, c>> \in stale'
      BY <2>4 DEF StaleStep
    <3>3. \A j \in JobNames : <<j, A, k, c>> \in unseen' <=> <<j, A, k, c>> \in unseen
      BY <2>1, <2>4 DEF UnseenStep
    <3>4. \/ Fresh(A, c)
          \/ /\ versions'[A].all[c] = versions[A].all[c]
             /\ <<A, c>> \in staleAll => <<A, c>> \in staleAll'
      BY <2>2 DEF StampStep, StaleStep
    <3> QED
      BY <3>1, <3>2, <3>3, <3>4 DEF Kept
  <2> QED
    BY <2>3, <2>4 DEF CellStep
<1>6. version \in Nat /\ version' = version /\ last' = last
  BY DEF IInv, Shapes, Scalars, Others
<1>7. StampsKnown' /\ Visible(JobNames)' /\ Quiet(JobNames)'
  BY <1>5, <1>6, CellsKeep
<1> QED
  BY <1>1, <1>2, <1>4, <1>7 DEF IInv, Shapes

(* W is what the jobs are to see in the chunks ks, V are cells of them.    *)
Shown(W, ks) ==
    \A u : u \in W <=> \E B \in Arch : \E c \in Comps[B], k \in ks[B] :
                          \E j \in Watchers[B][c] : u = <<j, B, k, c>>
Within(V, ks) == \A B, k, c : <<B, k, c>> \in V => k \in ks[B]

(* What is unseen, and stale, when A keeps the chunks of rows'[A] rows.    *)
UnseenGains(W, A) ==
    \A u : u \in unseen' <=> /\ u \in unseen \cup W
                             /\ ~(u[2] = A /\ u[3] * ChunkSize[A] >= rows'[A])
StaleLoses(V, A) ==
    \A s : s \in stale' <=> s \in stale /\ s \notin V /\ ~(s[1] = A /\ s[2] * ChunkSize[A] >= rows'[A])

(* The chunks of other archetypes stay, and those stamped are among them.  *)
OthersStay(ks, A) ==
    \A B \in Arch : B # A => ks[B] \subseteq Chunks(B)' /\ Chunks(B) \subseteq Chunks(B)'

(* ks are the chunks K of A alone, or those of ks1 and of ks2.              *)
Only(ks, A, K) == \A B \in Arch : ks[B] = IF B = A THEN K ELSE {}
Both(ks, ks1, ks2) == \A B \in Arch : ks[B] = ks1[B] \cup ks2[B]

(* The stamped chunks K of one archetype are shown, and no others.         *)
LEMMA OneShown ==
  ASSUME NEW A \in Arch, NEW K, NEW ks, Only(ks, A, K)
  PROVE  /\ Shown(Unseen(A, Pairs(K, Comps[A])), ks)
         /\ Within(Cells(A, Pairs(K, Comps[A])), ks)
<1> PICK W : W = Unseen(A, Pairs(K, Comps[A]))
  OBVIOUS
<1>1. \A u : u \in W <=> \E k \in K, c \in Comps[A] : \E j \in Watchers[A][c] : u = <<j, A, k, c>>
  BY InUnseen
<1>2. ks[A] = K /\ \A B \in Arch : \A k \in ks[B] : B = A
  BY DEF Only
<1>3. Shown(W, ks)
  <2> SUFFICES ASSUME NEW u
               PROVE  u \in W <=> \E B \in Arch : \E c \in Comps[B], k \in ks[B] :
                                     \E j \in Watchers[B][c] : u = <<j, B, k, c>>
    BY DEF Shown
  <2>1. ASSUME u \in W
        PROVE  \E c \in Comps[A], k \in ks[A] : \E j \in Watchers[A][c] : u = <<j, A, k, c>>
    BY <1>1, <1>2, <2>1
  <2>2. ASSUME NEW B \in Arch, NEW c \in Comps[B], NEW k \in ks[B], NEW j \in Watchers[B][c],
               u = <<j, B, k, c>>
        PROVE  u \in W
    <3>1. B = A
      BY <1>2
    <3> QED
      BY <1>1, <1>2, <2>2, <3>1
  <2> QED
    BY <2>1, <2>2
<1>4. \A B, k, c : <<B, k, c>> \in Cells(A, Pairs(K, Comps[A])) => B = A /\ k \in K
  BY InCells
<1>5. Within(Cells(A, Pairs(K, Comps[A])), ks)
  BY <1>2, <1>4 DEF Within
<1> QED
  BY <1>3, <1>5

(* What is shown of two sets of chunks is shown of both together.          *)
LEMMA ShownUnion ==
  ASSUME NEW W1, NEW W2, NEW ks1, NEW ks2, NEW ks, Shown(W1, ks1), Shown(W2, ks2), Both(ks, ks1, ks2)
  PROVE  Shown(W1 \cup W2, ks)
<1> SUFFICES ASSUME NEW u
             PROVE  u \in W1 \cup W2 <=> \E B \in Arch : \E c \in Comps[B], k \in ks[B] :
                                             \E j \in Watchers[B][c] : u = <<j, B, k, c>>
  BY DEF Shown
<1>1. \A B \in Arch : \A k : k \in ks[B] <=> k \in ks1[B] \/ k \in ks2[B]
  BY DEF Both
<1>2. u \in W1 <=> \E B \in Arch : \E c \in Comps[B], k \in ks1[B] :
                     \E j \in Watchers[B][c] : u = <<j, B, k, c>>
  BY DEF Shown
<1>3. u \in W2 <=> \E B \in Arch : \E c \in Comps[B], k \in ks2[B] :
                     \E j \in Watchers[B][c] : u = <<j, B, k, c>>
  BY DEF Shown
<1> QED
  BY <1>1, <1>2, <1>3, Zenon

(* The set of unseen cells after a step that takes rows from A at most.    *)
LEMMA UnseenAfter ==
  ASSUME IInv, RowsBounded', NEW ks, \A B \in Arch : ks[B] \subseteq Nat, NEW W, NEW A \in Arch,
         Shown(W, ks), UnseenGains(W, A), OthersStay(ks, A)
  PROVE  UnseenStep(ks)
<1> USE DEF Shown, UnseenGains, OthersStay
<1>1. \A B \in Arch : Chunks(B) \subseteq Nat /\ Chunks(B)' \subseteq Nat
  BY ChunkAssumption, ChunkIff, ChunksAre DEF IInv, Shapes, RowsBounded
<1>2. ASSUME NEW u \in unseen'
      PROVE  \E B \in Arch : \E c \in Comps[B], k \in Nat : \E j \in Watchers[B][c] : u = <<j, B, k, c>>
  <2>1. CASE u \in unseen
    <3>1. PICK B \in Arch : \E c \in Comps[B], k \in Chunks(B) :
             \E j \in Watchers[B][c] : u = <<j, B, k, c>>
      BY <2>1, UnseenShape
    <3> QED
      BY <1>1, <3>1
  <2>2. CASE u \in W
    <3>1. PICK B \in Arch : \E c \in Comps[B], k \in ks[B] :
             \E j \in Watchers[B][c] : u = <<j, B, k, c>>
      BY <2>2
    <3>2. ks[B] \subseteq Nat
      OBVIOUS
    <3> QED
      BY <3>1, <3>2
  <2> QED
    BY <2>1, <2>2
<1>3. ASSUME NEW B \in Arch, NEW c \in Comps[B], NEW k \in Nat, NEW j \in JobNames
      PROVE  <<j, B, k, c>> \in unseen' <=>
                /\ k \in Chunks(B)'
                /\ <<j, B, k, c>> \in unseen \/ (k \in ks[B] /\ j \in Watchers[B][c])
  <2>1. <<j, B, k, c>> \in W <=> k \in ks[B] /\ j \in Watchers[B][c]
    <3>1. ASSUME <<j, B, k, c>> \in W PROVE k \in ks[B] /\ j \in Watchers[B][c]
      <4>1. PICK D \in Arch : \E d \in Comps[D], l \in ks[D] :
               \E i \in Watchers[D][d] : <<j, B, k, c>> = <<i, D, l, d>>
        BY <3>1
      <4>2. PICK d \in Comps[D], l \in ks[D] : \E i \in Watchers[D][d] : <<j, B, k, c>> = <<i, D, l, d>>
        BY <4>1
      <4>3. PICK i \in Watchers[D][d] : <<j, B, k, c>> = <<i, D, l, d>>
        BY <4>2
      <4> QED
        BY <4>3
    <3>2. ASSUME k \in ks[B], j \in Watchers[B][c] PROVE <<j, B, k, c>> \in W
      BY <3>2
    <3> QED
      BY <3>1, <3>2
  <2>2. <<j, B, k, c>>[2] = B /\ <<j, B, k, c>>[3] = k
    OBVIOUS
  <2>3. <<j, B, k, c>> \in unseen' <=>
          /\ <<j, B, k, c>> \in unseen \/ (k \in ks[B] /\ j \in Watchers[B][c])
          /\ ~(B = A /\ k * ChunkSize[A] >= rows'[A])
    BY <2>1, <2>2
  <2>4. CASE B # A
    <3>1. <<j, B, k, c>> \in unseen => k \in Chunks(B)
      BY UnseenCell
    <3>2. <<j, B, k, c>> \in unseen \/ k \in ks[B] => k \in Chunks(B)'
      BY <2>4, <3>1
    <3> QED
      BY <2>3, <2>4, <3>2
  <2>5. CASE B = A
    <3>1. ChunkSize[A] \in Nat \ {0} /\ rows'[A] \in Nat
      BY ChunkAssumption DEF RowsBounded
    <3>2. k \in Chunks(A)' <=> k * ChunkSize[A] < rows'[A]
      BY <3>1, ChunkIff, ChunksAre
    <3>3. k * ChunkSize[A] \in Nat
      BY <3>1
    <3> QED
      BY <2>3, <2>5, <3>1, <3>2, <3>3
  <2> QED
    BY <2>4, <2>5
<1> QED
  BY <1>2, <1>3 DEF UnseenStep

(* The stale stamps after a step that takes rows from A at most.           *)
LEMMA StaleAfter ==
  ASSUME RowsBounded', NEW ks, NEW V, NEW A \in Arch, Within(V, ks), StaleLoses(V, A),
         \A B \in Arch : \A c \in Comps[B] :
            ks[B] = {} /\ <<B, c>> \in staleAll => <<B, c>> \in staleAll'
  PROVE  StaleStep(ks)
<1> USE DEF Within, StaleLoses
<1>1. ASSUME NEW B \in Arch, NEW c \in Comps[B], NEW k \in Chunks(B)',
             <<B, k, c>> \in stale, k \notin ks[B]
      PROVE  <<B, k, c>> \in stale'
  <2>1. <<B, k, c>>[1] = B /\ <<B, k, c>>[2] = k
    OBVIOUS
  <2>2. ~(B = A /\ k * ChunkSize[A] >= rows'[A])
    <3> SUFFICES ASSUME B = A PROVE ~(k * ChunkSize[A] >= rows'[A])
      OBVIOUS
    <3>1. ChunkSize[A] \in Nat \ {0} /\ rows'[A] \in Nat
      BY ChunkAssumption DEF RowsBounded
    <3>2. k \in Nat /\ k * ChunkSize[A] < rows'[A]
      BY <3>1, ChunkIff, ChunksAre
    <3>3. k * ChunkSize[A] \in Nat
      BY <3>1, <3>2
    <3> QED
      BY <3>1, <3>2, <3>3
  <2> QED
    BY <1>1, <2>1, <2>2
<1> QED
  BY <1>1 DEF StaleStep

(* new are the versions of A when it has n rows and the chunks ks of it    *)
(* were stamped.                                                           *)
Fits(A, n, ks, new) ==
    /\ VersionsOf(A, new)
    /\ \A c \in Comps[A] : new.all[c] = version
    /\ \A k \in ChunksOf(n, ChunkSize[A]) :
          /\ k \in DOMAIN new.chunk
          /\ IF k \in ks THEN \A c \in Comps[A] : new.chunk[k][c] = version
                         ELSE k \in Chunks(A) /\ new.chunk[k] = versions[A].chunk[k]

(* The storages after a step that stamps the chunks ks.                    *)
LEMMA StampsAfter ==
  ASSUME IInv, NEW ks, versions' = [A \in Arch |-> versions'[A]],
         \A A \in Arch : \/ /\ ks[A] = {}
                            /\ versions'[A] = versions[A]
                            /\ Chunks(A)' \subseteq Chunks(A)
                         \/ ks[A] # {} /\ Fits(A, rows'[A], ks[A], versions'[A])
  PROVE  Storages' /\ StampStep(ks)
<1>1. \A A \in Arch : VersionsOf(A, versions[A]) /\ Chunks(A) \subseteq DOMAIN versions[A].chunk
  BY DEF IInv, Shapes, Storages
<1>2. \A A \in Arch : Chunks(A)' = ChunksOf(rows'[A], ChunkSize[A])
  BY ChunksAre
<1>3. \A A \in Arch : VersionsOf(A, versions'[A]) /\ Chunks(A)' \subseteq DOMAIN versions'[A].chunk
  <2> TAKE A \in Arch
  <2>1. CASE versions'[A] = versions[A] /\ Chunks(A)' \subseteq Chunks(A)
    BY <1>1, <2>1
  <2>2. CASE Fits(A, rows'[A], ks[A], versions'[A])
    BY <1>2, <2>2 DEF Fits
  <2> QED
    BY <2>1, <2>2
<1>4. Storages'
  BY <1>3 DEF Storages, VersionsOf
<1>5. \A A \in Arch : ks[A] = {} => versions'[A].all = versions[A].all
  OBVIOUS
<1>6. \A A \in Arch : ks[A] # {} => \A c \in Comps[A] : versions'[A].all[c] = version
  BY DEF Fits
<1>7. ASSUME NEW A \in Arch, NEW k \in Nat, k \in Chunks(A)'
      PROVE  IF k \in ks[A] THEN \A c \in Comps[A] : versions'[A].chunk[k][c] = version
                            ELSE k \in Chunks(A) /\ versions'[A].chunk[k] = versions[A].chunk[k]
  <2>1. CASE ks[A] = {} /\ versions'[A] = versions[A] /\ Chunks(A)' \subseteq Chunks(A)
    BY <1>7, <2>1
  <2>2. CASE Fits(A, rows'[A], ks[A], versions'[A])
    BY <1>2, <1>7, <2>2 DEF Fits
  <2> QED
    BY <2>1, <2>2
<1> QED
  BY <1>4, <1>5, <1>6, <1>7 DEF StampStep

(* What the invariant says of the storages, in the form the steps use it.  *)
LEMMA IInvFacts ==
  ASSUME IInv
  PROVE  /\ version \in Stamps /\ managerVersion \in Stamps /\ version \in Nat
         /\ rows \in [Arch -> Nat]
         /\ \A A \in Arch : /\ ChunkSize[A] \in Nat \ {0} /\ MaxRows[A] \in Nat
                            /\ rows[A] <= MaxRows[A]
                            /\ VersionsOf(A, versions[A])
                            /\ Chunks(A) \subseteq DOMAIN versions[A].chunk
                            /\ Chunks(A) \subseteq Nat
                            /\ Chunks(A) = ChunksOf(rows[A], ChunkSize[A])
         /\ versions = [A \in Arch |-> versions[A]]
BY ChunkAssumption, VersionAssumption, ChunkIff, ChunksAre
   DEF IInv, Shapes, Scalars, Storages, RowsBounded, Stamps

(* A new row leaves its chunk stamped and the others as they were.         *)
LEMMA PushedFits ==
  ASSUME IInv, NEW A \in Arch
  PROVE  Fits(A, rows[A] + 1, {ChunkAt(rows[A], ChunkSize[A])}, Pushed(A))
<1> PICK n \in Nat, s \in Nat \ {0} : n = rows[A] /\ s = ChunkSize[A]
  BY IInvFacts
<1> PICK k \in Nat : k = ChunkAt(n, s)
  BY ChunkAdded
<1> PICK new : new = Pushed(A)
  OBVIOUS
<1>1. \A i \in 0..(k - 1) : i \in ChunksOf(n, s)
  BY ChunkAdded
<1>2. \A i \in 0..(k - 1) : i \in Chunks(A) /\ i \in DOMAIN versions[A].chunk
  BY <1>1, IInvFacts
<1>3. new = Emplace(versions[A], version, k)
  BY DEF Pushed
<1>4. version \in Stamps /\ VersionsOf(A, versions[A])
  BY IInvFacts
<1>5. /\ VersionsOf(A, new)
      /\ DOMAIN new.chunk = 0..k
      /\ \A c \in Comps[A] : new.all[c] = version /\ new.chunk[k][c] = version
      /\ \A i \in 0..k : i # k => new.chunk[i] = versions[A].chunk[i]
  BY <1>2, <1>3, <1>4, EmplaceIs
<1>6. ChunksOf(n + 1, s) = 0..k
  BY ChunkAdded
<1>7. \A i \in 0..k : i = k \/ i \in 0..(k - 1)
  OBVIOUS
<1> QED
  BY <1>2, <1>5, <1>6, <1>7 DEF Fits

(* A removed row leaves the last chunk and its own stamped.                *)
LEMMA PulledFits ==
  ASSUME IInv, NEW A \in Arch, NEW r \in 0..(rows[A] - 1)
  PROVE  /\ rows[A] - 1 \in Nat
         /\ Fits(A, rows[A] - 1,
                 {ChunkAt(rows[A] - 1, ChunkSize[A]), ChunkAt(r, ChunkSize[A])}, Pulled(A, r))
<1> PICK n \in Nat, s \in Nat \ {0} : n = rows[A] /\ s = ChunkSize[A]
  BY IInvFacts
<1>1. n - 1 \in Nat /\ n - 1 \in 0..(n - 1) /\ r \in 0..(n - 1) /\ n - 1 <= n
  OBVIOUS
<1> PICK k : k = ChunkAt(n - 1, s)
  OBVIOUS
<1> PICK l : l = ChunkAt(r, s)
  OBVIOUS
<1>2. Chunks(A) = ChunksOf(n, s) /\ Chunks(A) \subseteq DOMAIN versions[A].chunk
  BY IInvFacts
<1>3. ChunksOf(n - 1, s) \subseteq Chunks(A)
  BY <1>1, <1>2, ChunksShrink
<1> PICK first : first = SetChunk(versions[A], version, k)
  OBVIOUS
<1> PICK new : new = SetChunk(first, version, l)
  OBVIOUS
<1>5. Pulled(A, r) = new
  BY DEF Pulled
<1>6. version \in Stamps /\ VersionsOf(A, versions[A])
  BY IInvFacts
<1>7. /\ VersionsOf(A, first)
      /\ DOMAIN first.chunk = DOMAIN versions[A].chunk
      /\ \A i \in DOMAIN versions[A].chunk : i # k => first.chunk[i] = versions[A].chunk[i]
      /\ \A i \in DOMAIN versions[A].chunk :
            i = k => \A c \in Comps[A] : first.chunk[i][c] = version
  BY <1>6, SetChunkIs
<1>8. /\ VersionsOf(A, new)
      /\ DOMAIN new.chunk = DOMAIN first.chunk
      /\ \A c \in Comps[A] : new.all[c] = version
      /\ \A i \in DOMAIN first.chunk : i # l => new.chunk[i] = first.chunk[i]
      /\ \A i \in DOMAIN first.chunk :
            i = l => \A c \in Comps[A] : new.chunk[i][c] = version
  BY <1>6, <1>7, SetChunkIs
<1>9. ASSUME NEW i \in ChunksOf(n - 1, s)
      PROVE  /\ i \in DOMAIN new.chunk
             /\ IF i \in {k, l} THEN \A c \in Comps[A] : new.chunk[i][c] = version
                                ELSE i \in Chunks(A) /\ new.chunk[i] = versions[A].chunk[i]
  <2>1. i \in Chunks(A) /\ i \in DOMAIN versions[A].chunk /\ i \in DOMAIN first.chunk
    BY <1>2, <1>3, <1>7
  <2>2. CASE i \in {k, l}
    <3>1. \A c \in Comps[A] : new.chunk[i][c] = version
      BY <1>7, <1>8, <2>1, <2>2
    <3> QED
      BY <1>8, <2>1, <2>2, <3>1
  <2>3. CASE i \notin {k, l}
    BY <1>7, <1>8, <2>1, <2>3
  <2> QED
    BY <2>2, <2>3
<1>10. Fits(A, n - 1, {k, l}, new)
  BY <1>8, <1>9 DEF Fits
<1> QED
  BY <1>1, <1>5, <1>10

-----------------------------------------------------------------------------
(* The structural changes.                                                 *)
LEMMA InsertKeeps ==
  ASSUME IInv, NEW A \in Arch, Insert(A)
  PROVE  IInv'
<1> PICK n \in Nat, s \in Nat \ {0} : n = rows[A] /\ s = ChunkSize[A]
  BY IInvFacts
<1> PICK k0 \in Nat : k0 = ChunkAt(n, s)
  BY ChunkAdded
<1> PICK ks : ks = [B \in Arch |-> IF B = A THEN {k0} ELSE {}]
  OBVIOUS
<1> PICK W : W = Unseen(A, Pairs({k0}, Comps[A]))
  OBVIOUS
<1> PICK V : V = Cells(A, Pairs({k0}, Comps[A]))
  OBVIOUS
<1>1. ks \in [Arch -> SUBSET Nat] /\ ks[A] = {k0} /\ \A B \in Arch : B # A => ks[B] = {}
  OBVIOUS
<1>c. Only(ks, A, {k0})
  BY DEF Only
<1>2. rows' = [rows EXCEPT ![A] = n + 1] /\ n + 1 <= MaxRows[A]
  BY IInvFacts DEF Insert
<1>3. rows'[A] = n + 1 /\ \A B \in Arch : B # A => rows'[B] = rows[B]
  BY <1>2, IInvFacts
<1>4. RowsBounded'
  <2>1. rows' \in [Arch -> Nat]
    BY <1>2, IInvFacts
  <2>2. \A B \in Arch : rows'[B] <= MaxRows[B]
    BY <1>2, <1>3, IInvFacts
  <2> QED
    BY <2>1, <2>2 DEF RowsBounded
<1>5. versions' = [versions EXCEPT ![A] = Pushed(A)]
  BY DEF Insert
<1>6. \A B \in Arch : B # A => Chunks(B)' = Chunks(B)
  BY <1>3, ChunksAre
<1>7. Storages' /\ StampStep(ks)
  <2>1. versions'[A] = Pushed(A) /\ \A B \in Arch : B # A => versions'[B] = versions[B]
    BY <1>5, IInvFacts
  <2>2. versions' = [B \in Arch |-> versions'[B]]
    BY <1>5, IInvFacts
  <2>3. Fits(A, rows'[A], ks[A], versions'[A])
    BY <1>1, <1>3, <2>1, PushedFits
  <2>4. \A B \in Arch : \/ /\ ks[B] = {}
                           /\ versions'[B] = versions[B]
                           /\ Chunks(B)' \subseteq Chunks(B)
                        \/ ks[B] # {} /\ Fits(B, rows'[B], ks[B], versions'[B])
    BY <1>1, <1>6, <2>1, <2>3
  <2> QED
    BY <2>2, <2>4, StampsAfter
<1>8. /\ unseen' = {u \in unseen \cup W : ~(u[2] = A /\ u[3] * ChunkSize[A] >= n + 1)}
      /\ stale' = {x \in stale \ V : ~(x[1] = A /\ x[2] * ChunkSize[A] >= n + 1)}
      /\ staleAll' = staleAll \ {<<A, x[2]>> : x \in {k0} \X Comps[A]}
  BY DEF Insert, Written, CellsOf, Pairs
<1>9. UnseenStep(ks)
  <2>1. Shown(W, ks)
    BY <1>c, OneShown
  <2>2. UnseenGains(W, A)
    BY <1>3, <1>8 DEF UnseenGains
  <2>3. OthersStay(ks, A)
    BY <1>1, <1>6 DEF OthersStay
  <2> QED
    BY <1>1, <1>4, <2>1, <2>2, <2>3, UnseenAfter
<1>10. StaleStep(ks)
  <2>1. Within(V, ks)
    BY <1>c, OneShown
  <2>2. StaleLoses(V, A)
    BY <1>3, <1>8 DEF StaleLoses
  <2>3. \A B \in Arch : \A c \in Comps[B] :
            ks[B] = {} /\ <<B, c>> \in staleAll => <<B, c>> \in staleAll'
    BY <1>1, <1>8
  <2> QED
    BY <1>4, <2>1, <2>2, <2>3, StaleAfter
<1>11. UNCHANGED Others
  BY DEF Insert, Others
<1> QED
  BY <1>4, <1>7, <1>9, <1>10, <1>11, RowStepKeeps

(* A row is removed, and the last one may take its place.                  *)
LEMMA RemoveRowKeeps ==
  ASSUME IInv, NEW A \in Arch, NEW r \in 0..(rows[A] - 1), RemoveRow(A, r)
  PROVE  IInv'
<1> PICK n \in Nat, s \in Nat \ {0} : n = rows[A] /\ s = ChunkSize[A]
  BY IInvFacts
<1> PICK K : K = {ChunkAt(n - 1, s), ChunkAt(r, s)}
  OBVIOUS
<1> PICK ks : ks = [B \in Arch |-> IF B = A THEN K ELSE {}]
  OBVIOUS
<1> PICK W : W = Unseen(A, Pairs(K, Comps[A]))
  OBVIOUS
<1> PICK V : V = Cells(A, Pairs(K, Comps[A]))
  OBVIOUS
<1>0. n - 1 \in Nat /\ n - 1 <= n /\ K \subseteq Nat /\ K # {}
  <2>1. n - 1 \in Nat /\ r \in Nat
    OBVIOUS
  <2>2. ChunkAt(n - 1, s) \in Nat /\ ChunkAt(r, s) \in Nat
    BY <2>1, ChunkAdded
  <2> QED
    BY <2>1, <2>2
<1>1. ks \in [Arch -> SUBSET Nat] /\ ks[A] = K /\ \A B \in Arch : B # A => ks[B] = {}
  BY <1>0
<1>c. Only(ks, A, K)
  BY DEF Only
<1>2. rows' = [rows EXCEPT ![A] = n - 1]
  BY DEF RemoveRow
<1>3. rows'[A] = n - 1 /\ \A B \in Arch : B # A => rows'[B] = rows[B]
  BY <1>2, IInvFacts
<1>4. RowsBounded'
  <2>1. rows' \in [Arch -> Nat]
    BY <1>0, <1>2, IInvFacts
  <2>2. \A B \in Arch : rows'[B] <= MaxRows[B]
    BY <1>0, <1>3, IInvFacts
  <2> QED
    BY <2>1, <2>2 DEF RowsBounded
<1>5. versions' = [versions EXCEPT ![A] = Pulled(A, r)]
  BY DEF RemoveRow
<1>6. \A B \in Arch : B # A => Chunks(B)' = Chunks(B)
  BY <1>3, ChunksAre
<1>7. Storages' /\ StampStep(ks)
  <2>1. versions'[A] = Pulled(A, r) /\ \A B \in Arch : B # A => versions'[B] = versions[B]
    BY <1>5, IInvFacts
  <2>2. versions' = [B \in Arch |-> versions'[B]]
    BY <1>5, IInvFacts
  <2>3. Fits(A, rows'[A], ks[A], versions'[A])
    BY <1>1, <1>3, <2>1, PulledFits
  <2>4. \A B \in Arch : \/ /\ ks[B] = {}
                           /\ versions'[B] = versions[B]
                           /\ Chunks(B)' \subseteq Chunks(B)
                        \/ ks[B] # {} /\ Fits(B, rows'[B], ks[B], versions'[B])
    BY <1>0, <1>1, <1>6, <2>1, <2>3
  <2> QED
    BY <2>2, <2>4, StampsAfter
<1>8. /\ unseen' = {u \in unseen \cup W : ~(u[2] = A /\ u[3] * ChunkSize[A] >= n - 1)}
      /\ stale' = {x \in stale \ V : ~(x[1] = A /\ x[2] * ChunkSize[A] >= n - 1)}
      /\ staleAll' = staleAll \ {<<A, x[2]>> : x \in K \X Comps[A]}
  BY DEF RemoveRow, Written, CellsOf, PulledCells, Pairs
<1>9. UnseenStep(ks)
  <2>1. Shown(W, ks)
    BY <1>c, OneShown
  <2>2. UnseenGains(W, A)
    BY <1>3, <1>8 DEF UnseenGains
  <2>3. OthersStay(ks, A)
    BY <1>1, <1>6 DEF OthersStay
  <2> QED
    BY <1>1, <1>4, <2>1, <2>2, <2>3, UnseenAfter
<1>10. StaleStep(ks)
  <2>1. Within(V, ks)
    BY <1>c, OneShown
  <2>2. StaleLoses(V, A)
    BY <1>3, <1>8 DEF StaleLoses
  <2>3. \A B \in Arch : \A c \in Comps[B] :
            ks[B] = {} /\ <<B, c>> \in staleAll => <<B, c>> \in staleAll'
    BY <1>0, <1>1, <1>8
  <2> QED
    BY <1>4, <2>1, <2>2, <2>3, StaleAfter
<1>11. UNCHANGED Others
  BY DEF RemoveRow, Others
<1> QED
  BY <1>4, <1>7, <1>9, <1>10, <1>11, RowStepKeeps

(* A row moves from A to D.                                                *)
LEMMA MoveKeeps ==
  ASSUME IInv, NEW A \in Arch, NEW r \in 0..(rows[A] - 1), NEW D \in Arch, Move(A, r, D)
  PROVE  IInv'
<1> PICK n \in Nat, s \in Nat \ {0} : n = rows[A] /\ s = ChunkSize[A]
  BY IInvFacts
<1> PICK m \in Nat, z \in Nat \ {0} : m = rows[D] /\ z = ChunkSize[D]
  BY IInvFacts
<1> PICK k0 \in Nat : k0 = ChunkAt(m, z)
  BY ChunkAdded
<1> PICK K : K = {ChunkAt(n - 1, s), ChunkAt(r, s)}
  OBVIOUS
<1> PICK ks : ks = [B \in Arch |-> IF B = A THEN K ELSE IF B = D THEN {k0} ELSE {}]
  OBVIOUS
<1> PICK W1 : W1 = Unseen(A, Pairs(K, Comps[A]))
  OBVIOUS
<1> PICK W2 : W2 = Unseen(D, Pairs({k0}, Comps[D]))
  OBVIOUS
<1> PICK V1 : V1 = Cells(A, Pairs(K, Comps[A]))
  OBVIOUS
<1> PICK V2 : V2 = Cells(D, Pairs({k0}, Comps[D]))
  OBVIOUS
<1>0. n - 1 \in Nat /\ n - 1 <= n /\ K \subseteq Nat /\ K # {}
  <2>1. n - 1 \in Nat /\ r \in Nat
    OBVIOUS
  <2>2. ChunkAt(n - 1, s) \in Nat /\ ChunkAt(r, s) \in Nat
    BY <2>1, ChunkAdded
  <2> QED
    BY <2>1, <2>2
<1>a. A # D /\ m + 1 <= MaxRows[D]
  BY IInvFacts DEF Move
<1>1. /\ ks \in [Arch -> SUBSET Nat] /\ ks[A] = K /\ ks[D] = {k0}
      /\ \A B \in Arch : B # A /\ B # D => ks[B] = {}
  BY <1>0, <1>a
<1>2. rows' = [rows EXCEPT ![A] = n - 1, ![D] = m + 1]
  BY <1>a DEF Move
<1>3. rows'[A] = n - 1 /\ rows'[D] = m + 1 /\ \A B \in Arch : B # A /\ B # D => rows'[B] = rows[B]
  BY <1>2, <1>a, IInvFacts
<1>4. RowsBounded'
  <2>1. rows' \in [Arch -> Nat]
    BY <1>0, <1>2, IInvFacts
  <2>2. \A B \in Arch : rows'[B] <= MaxRows[B]
    <3> TAKE B \in Arch
    <3>1. CASE B = A
      BY <1>0, <1>3, <3>1, IInvFacts
    <3>2. CASE B = D
      BY <1>a, <1>3, <3>2
    <3>3. CASE B # A /\ B # D
      BY <1>3, <3>3, IInvFacts
    <3> QED
      BY <3>1, <3>2, <3>3
  <2> QED
    BY <2>1, <2>2 DEF RowsBounded
<1>5. versions' = [versions EXCEPT ![A] = Pulled(A, r), ![D] = Pushed(D)]
  BY DEF Move
<1>6. \A B \in Arch : B # A /\ B # D => Chunks(B)' = Chunks(B)
  BY <1>3, ChunksAre
<1>b. Chunks(D)' = Chunks(D) \cup {k0}
  BY <1>3, ChunkAdded, ChunksAre
<1>7. Storages' /\ StampStep(ks)
  <2>1. /\ versions'[A] = Pulled(A, r) /\ versions'[D] = Pushed(D)
        /\ \A B \in Arch : B # A /\ B # D => versions'[B] = versions[B]
    BY <1>5, <1>a, IInvFacts
  <2>2. versions' = [B \in Arch |-> versions'[B]]
    BY <1>5, IInvFacts
  <2>3. Fits(A, rows'[A], ks[A], versions'[A])
    <3>1. Fits(A, n - 1, K, Pulled(A, r))
      BY PulledFits
    <3> QED
      BY <1>1, <1>3, <2>1, <3>1
  <2>a. Fits(D, rows'[D], ks[D], versions'[D])
    BY <1>1, <1>3, <2>1, PushedFits
  <2>4. \A B \in Arch : \/ /\ ks[B] = {}
                           /\ versions'[B] = versions[B]
                           /\ Chunks(B)' \subseteq Chunks(B)
                        \/ ks[B] # {} /\ Fits(B, rows'[B], ks[B], versions'[B])
    BY <1>0, <1>1, <1>6, <2>1, <2>3, <2>a
  <2> QED
    BY <2>2, <2>4, StampsAfter
<1>8. /\ unseen' = {u \in unseen \cup W1 \cup W2 : ~(u[2] = A /\ u[3] * ChunkSize[A] >= n - 1)}
      /\ stale' = {x \in stale \ (V1 \cup V2) : ~(x[1] = A /\ x[2] * ChunkSize[A] >= n - 1)}
      /\ staleAll' = staleAll \ ({A, D} \X AllComps)
  BY DEF Move, CellsOf, PulledCells, Pairs
<1>9. UnseenStep(ks)
  <2>1. Shown(W1 \cup W2, ks)
    <3>1. PICK ks1 : ks1 = [B \in Arch |-> IF B = A THEN K ELSE {}]
      OBVIOUS
    <3>2. PICK ks2 : ks2 = [B \in Arch |-> IF B = D THEN {k0} ELSE {}]
      OBVIOUS
    <3>3. Only(ks1, A, K)
      BY <3>1 DEF Only
    <3>4. Only(ks2, D, {k0})
      BY <3>2 DEF Only
    <3>5. Shown(W1, ks1) /\ Shown(W2, ks2)
      BY <3>3, <3>4, OneShown
    <3>6. Both(ks, ks1, ks2)
      BY <1>a, <3>1, <3>2 DEF Both
    <3> QED
      BY <3>5, <3>6, ShownUnion
  <2>2. UnseenGains(W1 \cup W2, A)
    BY <1>3, <1>8 DEF UnseenGains
  <2>3. OthersStay(ks, A)
    BY <1>1, <1>6, <1>b DEF OthersStay
  <2> QED
    BY <1>1, <1>4, <2>1, <2>2, <2>3, UnseenAfter
<1>10. StaleStep(ks)
  <2>1. Within(V1 \cup V2, ks)
    <3>1. \A B, k, c : <<B, k, c>> \in V1 => B = A /\ k \in K
      BY InCells
    <3>2. \A B, k, c : <<B, k, c>> \in V2 => B = D /\ k \in {k0}
      BY InCells
    <3> QED
      BY <1>1, <3>1, <3>2 DEF Within
  <2>2. StaleLoses(V1 \cup V2, A)
    BY <1>3, <1>8 DEF StaleLoses
  <2>3. \A B \in Arch : \A c \in Comps[B] :
            ks[B] = {} /\ <<B, c>> \in staleAll => <<B, c>> \in staleAll'
    BY <1>0, <1>1, <1>8
  <2> QED
    BY <1>4, <2>1, <2>2, <2>3, StaleAfter
<1>11. UNCHANGED Others
  BY DEF Move, Others
<1> QED
  BY <1>4, <1>7, <1>9, <1>10, <1>11, RowStepKeeps

(* The rows of A are dropped, its versions stay.                           *)
LEMMA ClearKeeps ==
  ASSUME IInv, NEW A \in Arch, Clear(A)
  PROVE  IInv'
<1> PICK s \in Nat \ {0} : s = ChunkSize[A]
  BY IInvFacts
<1> PICK ks : ks = [B \in Arch |-> {}]
  OBVIOUS
<1>1. ks \in [Arch -> SUBSET Nat] /\ \A B \in Arch : ks[B] = {}
  OBVIOUS
<1>2. rows' = [rows EXCEPT ![A] = 0]
  BY DEF Clear
<1>3. rows'[A] = 0 /\ \A B \in Arch : B # A => rows'[B] = rows[B]
  BY <1>2, IInvFacts
<1>4. RowsBounded'
  BY <1>2, <1>3, IInvFacts DEF RowsBounded
<1>6. (\A B \in Arch : B # A => Chunks(B)' = Chunks(B)) /\ Chunks(A)' = {}
  <2>1. ChunksOf(0, ChunkSize[A]) = {}
    BY DEF ChunksOf
  <2> QED
    BY <1>3, <2>1, ChunksAre
<1>7. Storages' /\ StampStep(ks)
  <2>1. versions' = versions
    BY DEF Clear
  <2>2. versions' = [B \in Arch |-> versions'[B]]
    BY <2>1, IInvFacts
  <2>3. \A B \in Arch : ks[B] = {} /\ versions'[B] = versions[B] /\ Chunks(B)' \subseteq Chunks(B)
    BY <1>1, <1>6, <2>1
  <2> QED
    BY <2>2, <2>3, StampsAfter
<1>9. UnseenStep(ks)
  <2>1. Shown({}, ks)
    BY <1>1 DEF Shown
  <2>2. \A u \in unseen : u[2] = A => u[3] * ChunkSize[A] >= 0
    <3> TAKE u \in unseen
    <3>1. PICK B \in Arch : \E c \in Comps[B], k \in Chunks(B) :
             \E j \in Watchers[B][c] : u = <<j, B, k, c>>
      BY UnseenShape
    <3>2. PICK k \in Nat : u[3] = k
      BY <3>1, IInvFacts
    <3>3. k * s >= 0
      OBVIOUS
    <3> QED
      BY <3>2, <3>3
  <2>3. UnseenGains({}, A)
    BY <1>3, <2>2 DEF Clear, UnseenGains
  <2>4. OthersStay(ks, A)
    BY <1>1, <1>6 DEF OthersStay
  <2> QED
    BY <1>1, <1>4, <2>1, <2>3, <2>4, UnseenAfter
<1>10. StaleStep(ks)
  <2>1. stale' = {x \in stale : x[1] # A} /\ staleAll' = staleAll
    BY DEF Clear
  <2>2. \A B \in Arch : \A c \in Comps[B], k \in Chunks(B)' :
          <<B, k, c>> \in stale => <<B, k, c>> \in stale'
    BY <1>6, <2>1
  <2> QED
    BY <2>1, <2>2 DEF StaleStep
<1>11. UNCHANGED Others
  BY DEF Clear, Others
<1> QED
  BY <1>4, <1>7, <1>9, <1>10, <1>11, RowStepKeeps


-----------------------------------------------------------------------------
(* Steps that leave the rows alone.                                        *)
LEMMA SameRowsKeep ==
  ASSUME IInv, UNCHANGED <<version, managerVersion, updating, rows, last>>,
         terminated' \in BOOLEAN, Storages', UnseenValid', StaleValid', CellSteps(JobNames)
  PROVE  IInv'
<1>1. Scalars' /\ LastEarlier' /\ RowsBounded'
  BY DEF IInv, Shapes, Scalars, LastEarlier, RowsBounded
<1>2. version \in Nat /\ version' = version /\ last' = last
  BY IInvFacts
<1>3. StampsKnown' /\ Visible(JobNames)' /\ Quiet(JobNames)'
  BY <1>2, CellsKeep
<1> QED
  BY <1>1, <1>3 DEF IInv, Shapes

(* A cell that holds rows is one of the cells there can be.                *)
LEMMA CellIsOne ==
  ASSUME IInv, NEW A \in Arch, NEW k \in Chunks(A), NEW c \in Comps[A]
  PROVE  <<A, k, c>> \in CellSet
<1> PICK n \in Nat, s \in Nat \ {0} : n = rows[A] /\ s = ChunkSize[A]
  BY IInvFacts
<1>1. n <= MaxRows[A] /\ MaxRows[A] \in Nat /\ k \in ChunksOf(n, s)
  BY IInvFacts
<1>2. k \in 0..(n - 1)
  BY <1>1, ChunksShrink
<1>3. k \in 0..MaxRows[A]
  BY <1>1, <1>2
<1>4. <<A, k, c>> \in UNION {{<<A, i, d>> : i \in 0..MaxRows[A], d \in Comps[A]}}
  BY <1>3
<1> QED
  BY <1>4 DEF CellSet

(* getComponent marks one cell.                                            *)
LEMMA GetComponentKeeps ==
  ASSUME IInv, NEW A \in Arch, NEW r \in 0..(rows[A] - 1), NEW d \in Comps[A],
         GetComponent(A, r, d)
  PROVE  IInv'
<1> PICK k0 \in Chunks(A) : k0 = ChunkAt(r, ChunkSize[A])
  BY DEF Chunks
<1>1. /\ versions' = [versions EXCEPT ![A] = SetOne(versions[A], managerVersion, k0, d)]
      /\ unseen' = unseen \cup Unseen(A, {<<k0, d>>})
      /\ stale' = IF managerVersion = version THEN stale \ {<<A, k0, d>>}
                                              ELSE stale \cup {<<A, k0, d>>}
      /\ staleAll' = IF managerVersion = version THEN staleAll \ {<<A, d>>}
                                                 ELSE staleAll \cup {<<A, d>>}
      /\ UNCHANGED <<version, managerVersion, updating, rows, last, job, visits, terminated>>
  BY DEF GetComponent
<1>2. \A B \in Arch : Chunks(B)' = Chunks(B)
  BY <1>1 DEF Chunks
<1>3. /\ VersionsOf(A, versions[A]) /\ k0 \in DOMAIN versions[A].chunk
      /\ managerVersion \in Stamps
  BY IInvFacts
<1> PICK new : new = SetOne(versions[A], managerVersion, k0, d)
  OBVIOUS
<1>4. /\ VersionsOf(A, new)
      /\ DOMAIN new.chunk = DOMAIN versions[A].chunk
      /\ \A c \in Comps[A] : new.all[c] = IF c = d THEN managerVersion ELSE versions[A].all[c]
      /\ \A i \in DOMAIN versions[A].chunk : \A c \in Comps[A] :
            new.chunk[i][c] = IF i = k0 /\ c = d THEN managerVersion ELSE versions[A].chunk[i][c]
  BY <1>3, SetOneIs
<1>5. /\ versions' = [B \in Arch |-> versions'[B]]
      /\ versions'[A] = new
      /\ \A B \in Arch : B # A => versions'[B] = versions[B]
  BY <1>1, IInvFacts
<1>6. Storages'
  <2>1. \A B \in Arch : VersionsOf(B, versions'[B]) /\ Chunks(B)' \subseteq DOMAIN versions'[B].chunk
    BY <1>2, <1>4, <1>5, IInvFacts
  <2> QED
    BY <1>5, <2>1 DEF Storages, VersionsOf
<1>7. /\ \A u : u \in unseen' <=> u \in unseen \/ \E j \in Watchers[A][d] : u = <<j, A, k0, d>>
      /\ \A j, B, k, c : <<j, B, k, c>> \in unseen' <=>
            \/ <<j, B, k, c>> \in unseen
            \/ B = A /\ k = k0 /\ c = d /\ j \in Watchers[A][d]
  <2>1. unseen' = unseen \cup Unseen(A, Pairs({k0}, {d}))
    <3>1. {<<k0, d>>} = {k0} \X {d}
      OBVIOUS
    <3> QED
      BY <1>1, <3>1 DEF Pairs
  <2>2. \A u : u \in Unseen(A, Pairs({k0}, {d})) <=>
            \E k \in {k0}, c \in {d} : \E j \in Watchers[A][c] : u = <<j, A, k, c>>
    BY InUnseen
  <2>4. \A u : u \in unseen' <=> u \in unseen \/ u \in Unseen(A, Pairs({k0}, {d}))
    BY <2>1
  <2>5. \A u : u \in Unseen(A, Pairs({k0}, {d})) <=> \E j \in Watchers[A][d] : u = <<j, A, k0, d>>
    BY <2>2, Zenon
  <2>6. ASSUME NEW j, NEW B, NEW k, NEW c
        PROVE  <<j, B, k, c>> \in Unseen(A, Pairs({k0}, {d})) <=>
                  B = A /\ k = k0 /\ c = d /\ j \in Watchers[A][d]
    <3>1. <<j, B, k, c>> \in Unseen(A, Pairs({k0}, {d})) <=>
             B = A /\ k \in {k0} /\ c \in {d} /\ j \in Watchers[A][c]
      BY InUnseen
    <3>2. (k \in {k0} <=> k = k0) /\ (c \in {d} <=> c = d)
      OBVIOUS
    <3> QED
      BY <3>1, <3>2
  <2> QED
    BY <2>4, <2>5, <2>6, Zenon
<1>8. UnseenValid'
  <2> SUFFICES ASSUME NEW u \in unseen'
               PROVE  \E B \in Arch : \E c \in Comps[B], k \in Chunks(B) :
                        \E j \in Watchers[B][c] : u = <<j, B, k, c>>
    BY <1>2 DEF UnseenValid
  <2>1. CASE u \in unseen
    BY <2>1, UnseenShape
  <2>2. CASE u \notin unseen
    BY <1>7, <2>2
  <2> QED
    BY <2>1, <2>2
<1>9. StaleValid'
  <2>1. <<A, k0, d>> \in CellSet /\ stale \subseteq CellSet
    BY CellIsOne DEF IInv, Shapes, StaleValid
  <2>2. CellSet' = CellSet
    BY DEF CellSet
  <2>3. stale' \subseteq stale \cup {<<A, k0, d>>}
    BY <1>1
  <2> QED
    BY <2>1, <2>2, <2>3 DEF StaleValid
<1>10. /\ \A B, k, c : ~(B = A /\ k = k0 /\ c = d) /\ <<B, k, c>> \in stale => <<B, k, c>> \in stale'
       /\ managerVersion # version => <<A, k0, d>> \in stale' /\ <<A, d>> \in staleAll'
       /\ \A B, c : ~(B = A /\ c = d) /\ <<B, c>> \in staleAll => <<B, c>> \in staleAll'
  BY <1>1
<1>11. CellSteps(JobNames)
  <2> SUFFICES ASSUME NEW B \in Arch, NEW c \in Comps[B], NEW k \in Chunks(B)
               PROVE  CellStep(JobNames, B, k, c)
    BY <1>2 DEF CellSteps
  <2>1. CASE B # A \/ c # d
    <3>1. k \in DOMAIN versions[B].chunk
      BY IInvFacts
    <3>2. /\ versions'[B].chunk[k][c] = versions[B].chunk[k][c]
          /\ versions'[B].all[c] = versions[B].all[c]
      BY <1>4, <1>5, <2>1, <3>1
    <3>3. \A j \in JobNames : <<j, B, k, c>> \in unseen' <=> <<j, B, k, c>> \in unseen
      BY <1>7, <2>1
    <3> QED
      BY <1>10, <2>1, <3>2, <3>3 DEF CellStep, Kept
  <2>2. ASSUME B = A, c = d PROVE Fresh(A, d)
    BY <1>4, <1>5, <1>10 DEF Fresh
  <2>3. CASE B = A /\ c = d /\ k # k0
    <3>1. k \in DOMAIN versions[A].chunk
      BY <2>3, IInvFacts
    <3>2. versions'[A].chunk[k][d] = versions[A].chunk[k][d]
      BY <1>4, <1>5, <2>3, <3>1
    <3>3. \A j \in JobNames : <<j, A, k, d>> \in unseen' <=> <<j, A, k, d>> \in unseen
      BY <1>7, <2>3
    <3> QED
      BY <1>10, <2>2, <2>3, <3>2, <3>3 DEF CellStep, Kept
  <2>4. CASE B = A /\ c = d /\ k = k0 /\ managerVersion = version
    <3>1. versions'[A].chunk[k0][d] = version
      BY <1>3, <1>4, <1>5, <2>4
    <3> QED
      BY <1>7, <2>2, <2>4, <3>1 DEF CellStep, Touched
  <2>5. CASE B = A /\ c = d /\ k = k0 /\ managerVersion # version
    BY <1>10, <2>5 DEF CellStep
  <2> QED
    BY <2>1, <2>3, <2>4, <2>5
<1>12. terminated' \in BOOLEAN
  BY <1>1 DEF IInv, Shapes, Scalars
<1> QED
  BY <1>1, <1>6, <1>8, <1>9, <1>11, <1>12, SameRowsKeep

-----------------------------------------------------------------------------
(* What a filter or forEach leaves of the versions: those of the components*)
(* in set, of the archetype and of its chunks ks.                          *)
StampedStorage(vs, v, ks, set) ==
    [chunk |-> [k \in DOMAIN vs.chunk |-> IF k \in ks THEN Stamped(vs.chunk[k], v, set)
                                                     ELSE vs.chunk[k]],
     all |-> Stamped(vs.all, v, set)]

(* What such a stamp does to a VersionStorage.                             *)
LEMMA StampedIs ==
  ASSUME NEW A, NEW vs, VersionsOf(A, vs), NEW v \in Stamps, NEW ks, NEW set,
         NEW new, new = StampedStorage(vs, v, ks, set)
  PROVE  /\ VersionsOf(A, new)
         /\ DOMAIN new.chunk = DOMAIN vs.chunk
         /\ \A c \in Comps[A] : new.all[c] = IF c \in set THEN v ELSE vs.all[c]
         /\ \A i \in DOMAIN vs.chunk : \A c \in Comps[A] :
               new.chunk[i][c] = IF i \in ks /\ c \in set THEN v ELSE vs.chunk[i][c]
<1>1. PICK D : vs.chunk \in [D -> [Comps[A] -> Stamps]] /\ D = DOMAIN vs.chunk
  BY DEF VersionsOf
<1>2. vs.all \in [Comps[A] -> Stamps \cup {Never}]
  BY DEF VersionsOf
<1>3. ASSUME NEW T, NEW f \in [Comps[A] -> T], v \in T
      PROVE  /\ Stamped(f, v, set) \in [Comps[A] -> T]
             /\ \A c \in Comps[A] : Stamped(f, v, set)[c] = IF c \in set THEN v ELSE f[c]
  BY <1>3 DEF Stamped
<1>4. PICK f : f = [k \in D |-> IF k \in ks THEN Stamped(vs.chunk[k], v, set) ELSE vs.chunk[k]]
  OBVIOUS
<1>5. PICK g : g = Stamped(vs.all, v, set)
  OBVIOUS
<1>6. new = [chunk |-> f, all |-> g]
  BY <1>1, <1>4, <1>5 DEF StampedStorage
<1>7. new.chunk = f /\ new.all = g
  BY <1>6
<1>8. /\ g \in [Comps[A] -> Stamps \cup {Never}]
      /\ \A c \in Comps[A] : g[c] = IF c \in set THEN v ELSE vs.all[c]
  <2>1. PICK T : T = Stamps \cup {Never}
    OBVIOUS
  <2>2. v \in T /\ vs.all \in [Comps[A] -> T]
    BY <1>2, <2>1
  <2>3. /\ g \in [Comps[A] -> T]
        /\ \A c \in Comps[A] : g[c] = IF c \in set THEN v ELSE vs.all[c]
    BY <1>3, <1>5, <2>2
  <2> QED
    BY <2>1, <2>3
<1>9. ASSUME NEW i \in D
      PROVE  /\ f[i] \in [Comps[A] -> Stamps]
             /\ \A c \in Comps[A] : f[i][c] = IF i \in ks /\ c \in set THEN v ELSE vs.chunk[i][c]
  <2>1. vs.chunk[i] \in [Comps[A] -> Stamps]
    BY <1>1
  <2>2. PICK h : h = Stamped(vs.chunk[i], v, set)
    OBVIOUS
  <2>3. /\ h \in [Comps[A] -> Stamps]
        /\ \A c \in Comps[A] : h[c] = IF c \in set THEN v ELSE vs.chunk[i][c]
    BY <1>3, <2>1, <2>2
  <2>4. f[i] = IF i \in ks THEN h ELSE vs.chunk[i]
    BY <1>4, <2>2
  <2> QED
    BY <2>1, <2>3, <2>4
<1>10. f \in [D -> [Comps[A] -> Stamps]] /\ DOMAIN f = D
  BY <1>4, <1>9
<1>11. VersionsOf(A, new)
  BY <1>6, <1>7, <1>8, <1>10 DEF VersionsOf
<1> QED
  BY <1>1, <1>7, <1>8, <1>9, <1>10, <1>11

(* A step that stamps, in the archetypes S, the components set[A] of the   *)
(* chunks ks[A]; of the chunks ks[A] it writes the components w[A].        *)
Stamping(S, ks, set) ==
    /\ versions' = [A \in Arch |-> versions'[A]]
    /\ \A A \in Arch : versions'[A] = IF A \in S THEN StampedStorage(versions[A], version, ks[A], set[A])
                                                 ELSE versions[A]

(* Of the cells that hold rows, stale are those written but not stamped.   *)
StaleWritten(S, ks, set, w) ==
    /\ \A s : s \in stale' => \/ s \in stale
                              \/ \E A \in Arch : \E k \in Chunks(A), c \in Comps[A] : s = <<A, k, c>>
    /\ \A A \in Arch : \A c \in Comps[A], k \in Chunks(A) :
          /\ <<A, k, c>> \in stale /\ ~(A \in S /\ k \in ks[A] /\ c \in set[A]) => <<A, k, c>> \in stale'
          /\ A \in S /\ k \in ks[A] /\ c \in w[A] \ set[A] => <<A, k, c>> \in stale'
    /\ \A A \in Arch : \A c \in Comps[A] :
          <<A, c>> \in staleAll /\ ~(A \in S /\ c \in set[A]) => <<A, c>> \in staleAll'

(* Jobs of J are to see what was written, besides what they had to see.    *)
UnseenWritten(J, S, ks, w) ==
    \A j \in J, A \in Arch : \A c \in Comps[A], k \in Chunks(A) :
        <<j, A, k, c>> \in unseen' <=>
            \/ <<j, A, k, c>> \in unseen
            \/ A \in S /\ k \in ks[A] /\ c \in w[A] /\ j \in Watchers[A][c]

(* Such a step keeps the storages and is a step of cells, for the jobs J.  *)
LEMMA StampingSteps ==
  ASSUME IInv, rows' = rows, NEW J \in SUBSET JobNames, NEW S, NEW ks, NEW set, NEW w,
         Stamping(S, ks, set), StaleWritten(S, ks, set, w), UnseenWritten(J, S, ks, w),
         \A A \in Arch : set[A] \subseteq w[A]
  PROVE  Storages' /\ StaleValid' /\ CellSteps(J)
<1>1. \A A \in Arch : Chunks(A)' = Chunks(A)
  BY DEF Chunks
<1>2. \A A \in Arch : /\ VersionsOf(A, versions[A])
                      /\ Chunks(A) \subseteq DOMAIN versions[A].chunk
                      /\ version \in Stamps
  BY IInvFacts
<1>3. ASSUME NEW A \in Arch, A \in S
      PROVE  /\ VersionsOf(A, versions'[A])
             /\ DOMAIN versions'[A].chunk = DOMAIN versions[A].chunk
             /\ \A c \in Comps[A] : versions'[A].all[c] = IF c \in set[A] THEN version ELSE versions[A].all[c]
             /\ \A i \in DOMAIN versions[A].chunk : \A c \in Comps[A] :
                   versions'[A].chunk[i][c] = IF i \in ks[A] /\ c \in set[A] THEN version
                                                                            ELSE versions[A].chunk[i][c]
  <2>1. versions'[A] = StampedStorage(versions[A], version, ks[A], set[A])
    BY <1>3 DEF Stamping
  <2> QED
    BY <1>2, <2>1, StampedIs
<1>4. \A A \in Arch : A \notin S => versions'[A] = versions[A]
  BY DEF Stamping
<1>5. Storages'
  <2>1. \A A \in Arch : VersionsOf(A, versions'[A]) /\ Chunks(A)' \subseteq DOMAIN versions'[A].chunk
    BY <1>1, <1>2, <1>3, <1>4
  <2> QED
    BY <2>1 DEF Storages, VersionsOf, Stamping
<1>6. StaleValid'
  <2>1. stale \subseteq CellSet /\ CellSet' = CellSet
    BY DEF IInv, Shapes, StaleValid, CellSet
  <2>2. \A s \in stale' : s \in CellSet
    <3> TAKE s \in stale'
    <3>1. s \in stale \/ \E A \in Arch : \E k \in Chunks(A), c \in Comps[A] : s = <<A, k, c>>
      BY DEF StaleWritten
    <3> QED
      BY <2>1, <3>1, CellIsOne
  <2> QED
    BY <2>1, <2>2 DEF StaleValid
<1>7. CellSteps(J)
  <2> SUFFICES ASSUME NEW A \in Arch, NEW c \in Comps[A], NEW k \in Chunks(A)
               PROVE  CellStep(J, A, k, c)
    BY <1>1 DEF CellSteps
  <2>1. k \in DOMAIN versions[A].chunk
    BY <1>2
  <2>2. CASE A \in S /\ k \in ks[A] /\ c \in set[A]
    <3>1. versions'[A].chunk[k][c] = version /\ versions'[A].all[c] = version
      BY <1>3, <2>1, <2>2
    <3>2. \A j \in J : j \in Watchers[A][c] => <<j, A, k, c>> \in unseen'
      BY <2>2 DEF UnseenWritten
    <3> QED
      BY <3>1, <3>2 DEF CellStep, Touched, Fresh
  <2>3. CASE A \in S /\ k \in ks[A] /\ c \in w[A] \ set[A]
    BY <2>3 DEF StaleWritten, CellStep
  <2>4. CASE ~(A \in S /\ k \in ks[A] /\ c \in w[A])
    <3>1. versions'[A].chunk[k][c] = versions[A].chunk[k][c]
      BY <1>3, <1>4, <2>1, <2>4
    <3>2. <<A, k, c>> \in stale => <<A, k, c>> \in stale'
      BY <2>4 DEF StaleWritten
    <3>3. \A j \in J : <<j, A, k, c>> \in unseen' <=> <<j, A, k, c>> \in unseen
      BY <2>4 DEF UnseenWritten
    <3>4. CASE A \in S /\ c \in set[A]
      <4>1. Fresh(A, c)
        BY <1>3, <3>4 DEF Fresh
      <4> QED
        BY <3>1, <3>2, <3>3, <4>1 DEF CellStep, Kept
    <3>5. CASE ~(A \in S /\ c \in set[A])
      <4>1. versions'[A].all[c] = versions[A].all[c]
        BY <1>3, <1>4, <3>5
      <4>2. <<A, c>> \in staleAll => <<A, c>> \in staleAll'
        BY <3>5 DEF StaleWritten
      <4> QED
        BY <3>1, <3>2, <3>3, <4>1, <4>2 DEF CellStep, Kept
    <3> QED
      BY <3>4, <3>5
  <2> QED
    BY <2>2, <2>3, <2>4
<1> QED
  BY <1>5, <1>6, <1>7

(* The mutable parameters are among those the function can write through.  *)
LEMMA MasksWritten ==
  ASSUME NEW args
  PROVE  ForEachMask(args) \subseteq Writes(args)
BY DEF ForEachMask, Writes, MutableForms, WritableForms

(* forEach stamps the archetypes it goes over, whole.                      *)
LEMMA ForEachKeeps ==
  ASSUME IInv, NEW args, ForEach(args)
  PROVE  IInv'
<1> DEFINE S == {A \in Arch : rows[A] > 0 /\ Matches(A, ComponentMask(args))}
           set(A) == ForEachMask(args) \cap Comps[A]
           inside(A) == ForEachChunks(A) \cap DOMAIN versions[A].chunk
           written(A) == Pairs(Chunks(A), Writes(args) \cap Comps[A])
           missed(A) == Pairs(Chunks(A), (Writes(args) \cap Comps[A]) \ set(A))
<1>1. /\ versions' = [A \in Arch |-> IF A \notin S THEN versions[A]
                                     ELSE StampedStorage(versions[A], version, inside(A), set(A))]
      /\ unseen' = unseen \cup UNION {Unseen(A, written(A)) : A \in S}
      /\ stale' = (stale \ UNION {Cells(A, Pairs(inside(A), set(A))) : A \in S})
                      \cup UNION {Cells(A, missed(A)) : A \in S}
      /\ staleAll' = staleAll \ UNION {{A} \X set(A) : A \in S}
      /\ terminated' = \E A \in S : AsksAbsent(args, A)
      /\ UNCHANGED <<version, managerVersion, updating, rows, last, job, visits>>
  BY DEF ForEach, StampedStorage, Pairs
<1> PICK kf : kf = [A \in Arch |-> inside(A)]
  OBVIOUS
<1> PICK sf : sf = [A \in Arch |-> set(A)]
  OBVIOUS
<1> PICK wf : wf = [A \in Arch |-> Writes(args) \cap Comps[A]]
  OBVIOUS
<1>2. \A A \in Arch : sf[A] \subseteq wf[A]
  BY MasksWritten
<1>3. ASSUME NEW A \in Arch
      PROVE  /\ kf[A] = inside(A) /\ sf[A] = set(A) /\ wf[A] = Writes(args) \cap Comps[A]
             /\ Chunks(A) \subseteq kf[A]
  <2>1. PICK n \in Nat, s \in Nat \ {0} : n = rows[A] /\ s = ChunkSize[A]
    BY IInvFacts
  <2>2. ASSUME NEW k \in Chunks(A) PROVE k \in ForEachChunks(A)
    <3>1. PICK r \in 0..(n - 1) : k = r \div s
      BY <2>1 DEF Chunks, ChunkAt
    <3>2. r \in Nat /\ r <= n
      OBVIOUS
    <3>3. k <= n \div s /\ k \in Nat /\ n \div s \in Nat
      BY <3>1, <3>2, DivMono, DivFacts
    <3> QED
      BY <2>1, <3>3 DEF ForEachChunks
  <2>3. Chunks(A) \subseteq DOMAIN versions[A].chunk
    BY IInvFacts
  <2> QED
    BY <2>2, <2>3
<1> HIDE DEF S, set, inside
<1>4. Stamping(S, kf, sf)
  <2>1. versions' = [A \in Arch |-> versions'[A]]
    BY <1>1
  <2>2. \A A \in Arch : versions'[A] = IF A \in S THEN StampedStorage(versions[A], version, kf[A], sf[A])
                                                  ELSE versions[A]
    BY <1>1, <1>3
  <2> QED
    BY <2>1, <2>2 DEF Stamping
<1>5. S \subseteq Arch
  BY DEF S
<1>6. /\ \A u : u \in unseen' <=> u \in unseen \/ \E A \in S : u \in Unseen(A, written(A))
      /\ \A s : s \in stale' <=> \/ s \in stale /\ ~(\E A \in S : s \in Cells(A, Pairs(inside(A), set(A))))
                                 \/ \E A \in S : s \in Cells(A, missed(A))
      /\ \A s : s \in staleAll' <=> s \in staleAll /\ ~(\E A \in S : s \in {A} \X set(A))
  BY <1>1
<1>7. /\ \A A \in S : \A u : u \in Unseen(A, written(A)) <=>
            \E k \in Chunks(A), c \in Writes(args) \cap Comps[A] :
               \E j \in Watchers[A][c] : u = <<j, A, k, c>>
      /\ \A A \in S : \A j, B, k, c : <<j, B, k, c>> \in Unseen(A, written(A)) <=>
            B = A /\ k \in Chunks(A) /\ c \in Writes(args) \cap Comps[A] /\ j \in Watchers[A][c]
  BY <1>5, InUnseen
<1>8. /\ \A A \in S : \A s : s \in Cells(A, missed(A)) <=>
            \E k \in Chunks(A), c \in (Writes(args) \cap Comps[A]) \ set(A) : s = <<A, k, c>>
      /\ \A A \in S : \A B, k, c : <<B, k, c>> \in Cells(A, missed(A)) <=>
            B = A /\ k \in Chunks(A) /\ c \in (Writes(args) \cap Comps[A]) \ set(A)
      /\ \A A \in S : \A B, k, c : <<B, k, c>> \in Cells(A, Pairs(inside(A), set(A))) <=>
            B = A /\ k \in inside(A) /\ c \in set(A)
  BY InCells
<1> HIDE DEF written, missed
<1>9. UnseenWritten(JobNames, S, kf, wf)
  <2> SUFFICES ASSUME NEW j \in JobNames, NEW A \in Arch, NEW c \in Comps[A], NEW k \in Chunks(A)
               PROVE  <<j, A, k, c>> \in unseen' <=>
                         \/ <<j, A, k, c>> \in unseen
                         \/ A \in S /\ k \in kf[A] /\ c \in wf[A] /\ j \in Watchers[A][c]
    BY DEF UnseenWritten
  <2>1. k \in kf[A] /\ wf[A] = Writes(args) \cap Comps[A]
    BY <1>3
  <2>2. (\E B \in S : <<j, A, k, c>> \in Unseen(B, written(B))) <=>
           A \in S /\ c \in Writes(args) \cap Comps[A] /\ j \in Watchers[A][c]
    BY <1>7
  <2> QED
    BY <1>6, <2>1, <2>2
<1>10. StaleWritten(S, kf, sf, wf)
  <2>1. ASSUME NEW s \in stale', s \notin stale
        PROVE  \E A \in Arch : \E k \in Chunks(A), c \in Comps[A] : s = <<A, k, c>>
    <3>1. PICK A \in S : s \in Cells(A, missed(A))
      BY <1>6, <2>1
    <3>2. \E k \in Chunks(A), c \in (Writes(args) \cap Comps[A]) \ set(A) : s = <<A, k, c>>
      BY <1>8, <3>1
    <3> QED
      BY <1>5, <3>2
  <2>2. ASSUME NEW A \in Arch, NEW c \in Comps[A], NEW k \in Chunks(A)
        PROVE  /\ <<A, k, c>> \in stale /\ ~(A \in S /\ k \in kf[A] /\ c \in sf[A]) => <<A, k, c>> \in stale'
               /\ A \in S /\ k \in kf[A] /\ c \in wf[A] \ sf[A] => <<A, k, c>> \in stale'
    <3>1. kf[A] = inside(A) /\ sf[A] = set(A) /\ wf[A] = Writes(args) \cap Comps[A]
      BY <1>3
    <3>2. (\E B \in S : <<A, k, c>> \in Cells(B, Pairs(inside(B), set(B)))) <=>
             A \in S /\ k \in inside(A) /\ c \in set(A)
      BY <1>8
    <3>3. A \in S /\ c \in (Writes(args) \cap Comps[A]) \ set(A) =>
             \E B \in S : <<A, k, c>> \in Cells(B, missed(B))
      BY <1>8
    <3> QED
      BY <1>6, <3>1, <3>2, <3>3
  <2>3. ASSUME NEW A \in Arch, NEW c \in Comps[A], <<A, c>> \in staleAll, ~(A \in S /\ c \in sf[A])
        PROVE  <<A, c>> \in staleAll'
    <3>1. ~(\E B \in S : <<A, c>> \in {B} \X set(B))
      BY <1>3, <2>3
    <3> QED
      BY <1>6, <2>3, <3>1
  <2> QED
    BY <2>1, <2>2, <2>3 DEF StaleWritten
<1>11. Storages' /\ StaleValid' /\ CellSteps(JobNames)
  BY <1>1, <1>2, <1>4, <1>9, <1>10, StampingSteps
<1>12. UnseenValid'
  <2> SUFFICES ASSUME NEW u \in unseen'
               PROVE  \E A \in Arch : \E c \in Comps[A], k \in Chunks(A) :
                        \E j \in Watchers[A][c] : u = <<j, A, k, c>>
    BY <1>1 DEF UnseenValid, Chunks
  <2>1. CASE u \in unseen
    BY <2>1, UnseenShape
  <2>2. CASE u \notin unseen
    <3>1. PICK A \in S : u \in Unseen(A, written(A))
      BY <1>6, <2>2
    <3>2. \E k \in Chunks(A), c \in Writes(args) \cap Comps[A] :
             \E j \in Watchers[A][c] : u = <<j, A, k, c>>
      BY <1>7, <3>1
    <3> QED
      BY <1>5, <3>2
  <2> QED
    BY <2>1, <2>2
<1>13. terminated' \in BOOLEAN
  BY <1>1
<1> QED
  BY <1>1, <1>11, <1>12, <1>13, SameRowsKeep

-----------------------------------------------------------------------------
(* BaseJob::run.                                                           *)

(* A set of numbers with a bound has a last one.                           *)
LEMMA LastOne ==
  ASSUME NEW n \in Nat, NEW T, T \subseteq 1..n, T # {}
  PROVE  \E x \in T : \A y \in T : y <= x
<1> DEFINE U == {n - x : x \in T}
<1>1. U \subseteq Nat /\ U # {}
  <2>1. \A x \in T : n - x \in Nat
    OBVIOUS
  <2>2. PICK x : x \in T
    OBVIOUS
  <2>3. n - x \in U
    BY <2>2
  <2> QED
    BY <2>1, <2>3
<1>2. PICK u \in U : \A v \in U : u <= v
  <2> HIDE DEF U
  <2> QED
    BY <1>1, LeastNat
<1>3. PICK x \in T : u = n - x
  OBVIOUS
<1>4. ASSUME NEW y \in T PROVE y <= x
  <2>1. n - x <= n - y
    BY <1>2, <1>3
  <2> QED
    BY <2>1
<1> QED
  BY <1>4

(* The parameter that decides whether a job sets a version is one its      *)
(* function can write through.                                             *)
LEMMA UpdateWritten ==
  ASSUME NEW j \in JobNames
  PROVE  UpdateMask(Args[j]) \subseteq Writes(Args[j])
<1> PICK args : args = Args[j]
  OBVIOUS
<1>1. PICK n \in Nat : DOMAIN args = 1..n
  BY ArgsAssumption
<1>2. ASSUME NEW c \in UpdateMask(args) PROVE c \in Writes(args)
  <2> DEFINE T == {i \in ComponentPositions(args) : args[i].comp = c}
  <2>1. c \in Named(args) /\ args[LastOf(args, c)].form \in MutableForms
    BY DEF UpdateMask
  <2>2. T # {} /\ T \subseteq 1..n
    BY <1>1, <2>1 DEF Named, ComponentPositions
  <2>3. \E i \in T : \A p \in T : p <= i
    <3> HIDE DEF T
    <3> QED
      BY <2>2, LastOne
  <2>4. \E i \in ComponentPositions(args) :
          /\ args[i].comp = c
          /\ \A p \in ComponentPositions(args) : args[p].comp = c => p <= i
    BY <2>3
  <2>5. LastOf(args, c) \in ComponentPositions(args) /\ args[LastOf(args, c)].comp = c
    BY <2>4 DEF LastOf
  <2> QED
    BY <2>1, <2>5 DEF Writes, MutableForms, WritableForms
<1> QED
  BY <1>2

(* A change a job has not seen passes its filter, unless a stale stamp     *)
(* hides it.                                                               *)
LEMMA UnseenPasses ==
  ASSUME IInv, NEW j, NEW A, NEW k, NEW c, <<j, A, k, c>> \in unseen,
         <<A, k, c>> \notin stale, <<A, c>> \notin staleAll
  PROVE  A \in Arch /\ k \in PassingChunks(j, A)
<1>1. A \in Arch /\ c \in Comps[A] /\ k \in Chunks(A) /\ j \in Watchers[A][c]
  BY UnseenCell
<1>2. j \in JobNames /\ Matches(A, ComponentMask(Args[j])) /\ c \in Check[j] \cap Comps[A]
  BY <1>1 DEF Watchers
<1>3. \/ last[j] = Never
      \/ versions[A].chunk[k][c] > last[j] /\ versions[A].all[c] > last[j]
  BY <1>1, <1>2 DEF IInv, Visible
<1>4. /\ ChangedSince(versions[A].all, last[j], Check[j] \cap Comps[A])
      /\ Passes(j, A, k)
  BY <1>2, <1>3 DEF ChangedSince, Passes
<1>5. rows[A] > 0
  <2>1. PICK r \in 0..(rows[A] - 1) : k = ChunkAt(r, ChunkSize[A])
    BY <1>1 DEF Chunks
  <2>2. rows[A] \in Nat
    BY <1>1, IInvFacts
  <2> QED
    BY <2>1, <2>2
<1>6. JobMask[j] = ComponentMask(Args[j])
  BY <1>2 DEF JobMask
<1>7. A \in PassingArchetypes(j)
  BY <1>1, <1>2, <1>4, <1>5, <1>6 DEF PassingArchetypes
<1> QED
  BY <1>1, <1>4, <1>7 DEF PassingChunks

(* Only chunks of archetypes that pass can pass.                           *)
LEMMA PassingFacts ==
  ASSUME NEW j
  PROVE  /\ PassingArchetypes(j) \subseteq Arch
         /\ \A A \in Arch : /\ PassingChunks(j, A) \subseteq Chunks(A)
                            /\ PassingChunks(j, A) # {} => A \in PassingArchetypes(j)
BY DEF PassingArchetypes, PassingChunks

(* A run of j finds a chunk; a stale stamp hides u from it.                *)
Finds(j) == \E A \in Arch : PassingChunks(j, A) # {}
Hidden(u) == <<u[2], u[3], u[4]>> \in stale \/ <<u[2], u[4]>> \in staleAll

(* What the filter of job j leaves, of the versions and of the cells.      *)
LEMMA FilterSteps ==
  ASSUME IInv, rows' = rows, NEW j \in JobNames, versions' = AfterFilter(j), SeenAndWritten(j),
         NEW J \in SUBSET JobNames, j \in J => ~Finds(j)
  PROVE  /\ Storages' /\ StaleValid' /\ CellSteps(J) /\ UnseenValid'
         /\ Finds(j) => \A A, k, c : <<j, A, k, c>> \notin unseen'
<1> DEFINE P == PassingArchetypes(j)
           set(A) == UpdateMask(Args[j]) \cap Comps[A]
           pc(A) == PassingChunks(j, A)
           wr(A) == Writes(Args[j]) \cap Comps[A]
           missed(A) == Pairs(pc(A), wr(A) \ set(A))
           seen == UNION {{<<j, A, k, c>> : k \in pc(A), c \in Comps[A]} : A \in Arch}
           writes(A) == Unseen(A, Pairs(pc(A), wr(A)))
           wrote == {u \in UNION {writes(A) : A \in Arch} : u[1] # j}
           hidden == {u \in unseen : Finds(j) /\ u[1] = j /\ Hidden(u)}
<1>1. /\ versions' = [A \in Arch |-> IF A \notin P THEN versions[A]
                                     ELSE StampedStorage(versions[A], version, pc(A), set(A))]
      /\ unseen' = (unseen \ (seen \cup hidden)) \cup wrote
      /\ stale' = (stale \ UNION {Cells(A, Pairs(pc(A), set(A))) : A \in Arch})
                      \cup UNION {Cells(A, missed(A)) : A \in Arch}
      /\ staleAll' = staleAll \ UNION {{A} \X set(A) : A \in P}
  BY DEF AfterFilter, SeenAndWritten, StampedStorage, Pairs, SetVersion, Finds, Hidden
<1>2. /\ P \subseteq Arch
      /\ \A A \in Arch : pc(A) \subseteq Chunks(A) /\ (pc(A) # {} => A \in P)
  BY PassingFacts
<1>3. \A A \in Arch : set(A) \subseteq wr(A)
  BY UpdateWritten
<1>4. \A u : u \in seen <=> \E A \in Arch : \E k \in pc(A), c \in Comps[A] : u = <<j, A, k, c>>
  OBVIOUS
<1>5. \A u : u \in unseen' <=> \/ u \in unseen /\ u \notin seen /\ u \notin hidden
                               \/ u[1] # j /\ \E A \in Arch : u \in writes(A)
  BY <1>1
<1>6. \A u : u \in hidden <=> u \in unseen /\ Finds(j) /\ u[1] = j /\ Hidden(u)
  OBVIOUS
<1>7. \A s : s \in stale' <=> \/ /\ s \in stale
                                 /\ ~(\E A \in Arch : s \in Cells(A, Pairs(pc(A), set(A))))
                              \/ \E A \in Arch : s \in Cells(A, missed(A))
  BY <1>1
<1>8. \A s : s \in staleAll' <=> s \in staleAll /\ ~(\E A \in P : s \in {A} \X set(A))
  BY <1>1
<1>9. /\ \A A \in Arch : \A u : u \in writes(A) <=>
            \E k \in pc(A), c \in wr(A) : \E i \in Watchers[A][c] : u = <<i, A, k, c>>
      /\ \A A \in Arch : \A i, B, k, c : <<i, B, k, c>> \in writes(A) <=>
            B = A /\ k \in pc(A) /\ c \in wr(A) /\ i \in Watchers[A][c]
  BY InUnseen
<1>10. /\ \A A \in Arch : \A s : s \in Cells(A, missed(A)) <=>
             \E k \in pc(A), c \in wr(A) \ set(A) : s = <<A, k, c>>
       /\ \A A \in Arch : \A B, k, c : <<B, k, c>> \in Cells(A, missed(A)) <=>
             B = A /\ k \in pc(A) /\ c \in wr(A) \ set(A)
       /\ \A A \in Arch : \A B, k, c : <<B, k, c>> \in Cells(A, Pairs(pc(A), set(A))) <=>
             B = A /\ k \in pc(A) /\ c \in set(A)
  BY InCells
<1>a. \A A \in Arch : wr(A) \subseteq Comps[A]
  OBVIOUS
<1> PICK kf : kf = [A \in Arch |-> pc(A)]
  OBVIOUS
<1> PICK sf : sf = [A \in Arch |-> set(A)]
  OBVIOUS
<1> PICK wf : wf = [A \in Arch |-> wr(A)]
  OBVIOUS
<1>11. \A A \in Arch : kf[A] = pc(A) /\ sf[A] = set(A) /\ wf[A] = wr(A)
  OBVIOUS
<1>12. Finds(j) <=> \E A \in Arch : pc(A) # {}
  BY DEF Finds
<1> HIDE DEF P, set, pc, wr, missed, seen, writes, wrote, hidden
<1>13. Stamping(P, kf, sf)
  <2>1. versions' = [A \in Arch |-> versions'[A]]
    BY <1>1
  <2>2. \A A \in Arch : versions'[A] = IF A \in P THEN StampedStorage(versions[A], version, kf[A], sf[A])
                                                  ELSE versions[A]
    BY <1>1, <1>11
  <2> QED
    BY <2>1, <2>2 DEF Stamping
<1>14. UnseenWritten(J, P, kf, wf)
  <2> SUFFICES ASSUME NEW i \in J, NEW A \in Arch, NEW c \in Comps[A], NEW k \in Chunks(A)
               PROVE  <<i, A, k, c>> \in unseen' <=>
                         \/ <<i, A, k, c>> \in unseen
                         \/ A \in P /\ k \in pc(A) /\ c \in wr(A) /\ i \in Watchers[A][c]
    BY <1>11 DEF UnseenWritten
  <2>1. <<i, A, k, c>>[1] = i
    OBVIOUS
  <2>2. (\E B \in Arch : <<i, A, k, c>> \in writes(B)) <=>
           k \in pc(A) /\ c \in wr(A) /\ i \in Watchers[A][c]
    BY <1>9
  <2>3. CASE i # j
    <3>1. <<i, A, k, c>> \notin seen /\ <<i, A, k, c>> \notin hidden
      BY <1>4, <1>6, <2>1, <2>3
    <3> QED
      BY <1>2, <1>5, <2>1, <2>2, <2>3, <3>1
  <2>4. CASE i = j
    <3>1. ~Finds(j) /\ \A B \in Arch : pc(B) = {}
      BY <1>12, <2>4
    <3>2. <<i, A, k, c>> \notin seen /\ <<i, A, k, c>> \notin hidden
      BY <1>4, <1>6, <3>1
    <3> QED
      BY <1>5, <2>1, <2>4, <3>1, <3>2
  <2> QED
    BY <2>3, <2>4
<1>15. StaleWritten(P, kf, sf, wf)
  <2>1. ASSUME NEW s \in stale', s \notin stale
        PROVE  \E A \in Arch : \E k \in Chunks(A), c \in Comps[A] : s = <<A, k, c>>
    <3>1. PICK A \in Arch : s \in Cells(A, missed(A))
      BY <1>7, <2>1
    <3>2. \E k \in pc(A), c \in wr(A) \ set(A) : s = <<A, k, c>>
      BY <1>10, <3>1
    <3> QED
      BY <1>2, <1>a, <3>2
  <2>2. ASSUME NEW A \in Arch, NEW c \in Comps[A], NEW k \in Chunks(A)
        PROVE  /\ <<A, k, c>> \in stale /\ ~(A \in P /\ k \in kf[A] /\ c \in sf[A]) => <<A, k, c>> \in stale'
               /\ A \in P /\ k \in kf[A] /\ c \in wf[A] \ sf[A] => <<A, k, c>> \in stale'
    <3>1. kf[A] = pc(A) /\ sf[A] = set(A) /\ wf[A] = wr(A)
      BY <1>11
    <3>2. (\E B \in Arch : <<A, k, c>> \in Cells(B, Pairs(pc(B), set(B)))) <=>
             k \in pc(A) /\ c \in set(A)
      BY <1>10
    <3>3. k \in pc(A) /\ c \in wr(A) \ set(A) =>
             \E B \in Arch : <<A, k, c>> \in Cells(B, missed(B))
      BY <1>10
    <3>4. k \in pc(A) => A \in P
      BY <1>2
    <3> QED
      BY <1>7, <3>1, <3>2, <3>3, <3>4
  <2>3. ASSUME NEW A \in Arch, NEW c \in Comps[A], <<A, c>> \in staleAll, ~(A \in P /\ c \in sf[A])
        PROVE  <<A, c>> \in staleAll'
    <3>1. ~(\E B \in P : <<A, c>> \in {B} \X set(B))
      BY <1>11, <2>3
    <3> QED
      BY <1>8, <2>3, <3>1
  <2> QED
    BY <2>1, <2>2, <2>3 DEF StaleWritten
<1>16. Storages' /\ StaleValid' /\ CellSteps(J)
  <2>1. \A A \in Arch : sf[A] \subseteq wf[A]
    BY <1>3, <1>11
  <2> QED
    BY <1>13, <1>14, <1>15, <2>1, StampingSteps
<1>17. UnseenValid'
  <2> SUFFICES ASSUME NEW u \in unseen'
               PROVE  \E A \in Arch : \E c \in Comps[A], k \in Chunks(A) :
                        \E i \in Watchers[A][c] : u = <<i, A, k, c>>
    BY DEF UnseenValid, Chunks
  <2>1. CASE u \in unseen
    BY <2>1, UnseenShape
  <2>2. CASE u \notin unseen
    <3>1. PICK A \in Arch : u \in writes(A)
      BY <1>5, <2>2
    <3>2. \E k \in pc(A), c \in wr(A) : \E i \in Watchers[A][c] : u = <<i, A, k, c>>
      BY <1>9, <3>1
    <3> QED
      BY <1>2, <1>a, <3>2
  <2> QED
    BY <2>1, <2>2
<1>18. ASSUME Finds(j), NEW A, NEW k, NEW c, <<j, A, k, c>> \in unseen' PROVE FALSE
  <2>1. /\ <<j, A, k, c>>[1] = j /\ <<j, A, k, c>>[2] = A
        /\ <<j, A, k, c>>[3] = k /\ <<j, A, k, c>>[4] = c
    OBVIOUS
  <2>2. <<j, A, k, c>> \in unseen /\ <<j, A, k, c>> \notin seen /\ <<j, A, k, c>> \notin hidden
    BY <1>5, <1>18, <2>1
  <2>3. <<A, k, c>> \notin stale /\ <<A, c>> \notin staleAll
    BY <1>6, <1>18, <2>1, <2>2 DEF Hidden
  <2>4. A \in Arch /\ k \in pc(A)
    BY <2>2, <2>3, UnseenPasses DEF pc
  <2>5. c \in Comps[A]
    BY <2>2, UnseenCell
  <2> QED
    BY <1>4, <2>2, <2>4, <2>5
<1> QED
  BY <1>16, <1>17, <1>18

(* A run stamps what it goes over; a change it finds moves the version on. *)
LEMMA RunKeeps ==
  ASSUME IInv, NEW j \in JobNames, NEW parallel \in BOOLEAN, Run(j, parallel)
  PROVE  IInv'
<1>1. /\ versions' = AfterFilter(j) /\ SeenAndWritten(j)
      /\ UNCHANGED <<managerVersion, updating, rows, visits, terminated>>
  BY DEF Run
<1>2. PICK cut : IF TotalCount(FilterResult(j, cut)) = 0
                 THEN UNCHANGED <<version, last, job>>
                 ELSE version < MaxVersion /\ NoteVersion(j) /\ version' = version + 1
  BY DEF Run
<1>3. TotalCount(FilterResult(j, cut)) # 0 <=> Finds(j)
  BY IInvFacts, FilterFinds DEF Finds
<1>4. CASE ~Finds(j)
  <2>1. UNCHANGED <<version, managerVersion, updating, rows, last>>
    BY <1>1, <1>2, <1>3, <1>4
  <2>2. Storages' /\ StaleValid' /\ CellSteps(JobNames) /\ UnseenValid'
    BY <1>1, <1>4, FilterSteps
  <2>3. terminated' \in BOOLEAN
    BY <1>1 DEF IInv, Shapes, Scalars
  <2> QED
    BY <2>1, <2>2, <2>3, SameRowsKeep
<1>5. CASE Finds(j)
  <2> PICK J : J = JobNames \ {j}
    OBVIOUS
  <2>1. version < MaxVersion /\ last' = [last EXCEPT ![j] = version] /\ version' = version + 1
    BY <1>2, <1>3, <1>5 DEF NoteVersion
  <2>2. /\ Storages' /\ StaleValid' /\ CellSteps(J) /\ UnseenValid'
        /\ \A A, k, c : <<j, A, k, c>> \notin unseen'
    <3>1. J \in SUBSET JobNames /\ j \notin J
      OBVIOUS
    <3> QED
      BY <1>1, <1>5, <3>1, FilterSteps
  <2>3. /\ version \in Nat /\ version' \in Nat /\ version <= version' /\ MaxVersion \in Nat
        /\ version' <= MaxVersion /\ version < version'
    BY <2>1, IInvFacts, VersionAssumption
  <2>4. last \in [JobNames -> Nat \cup {Never}] /\ \A i \in JobNames : last[i] < version
    BY DEF IInv, Shapes, LastEarlier
  <2>5. /\ last' \in [JobNames -> Nat \cup {Never}]
        /\ last'[j] = version /\ \A i \in J : last'[i] = last[i]
    BY <2>1, <2>3, <2>4
  <2>6. /\ StampsKnown' /\ Visible(J)' /\ Quiet(J)'
        /\ \A A \in Arch : \A c \in Comps[A], k \in Chunks(A)' :
              versions'[A].chunk[k][c] <= version \/ <<A, k, c>> \in stale'
    <3>1. J \in SUBSET JobNames
      OBVIOUS
    <3> QED
      BY <2>2, <2>3, <2>5, <3>1, CellsKeep
  <2>7. Scalars' /\ RowsBounded'
    BY <1>1, <2>3 DEF IInv, Shapes, Scalars, RowsBounded
  <2>8. LastEarlier'
    <3>1. \A i \in JobNames : last'[i] < version'
      <4> TAKE i \in JobNames
      <4>1. CASE i = j
        BY <2>3, <2>5, <4>1
      <4>2. CASE i # j
        <5>1. last'[i] = last[i] /\ last[i] < version /\ last[i] \in Nat \cup {Never}
          BY <2>4, <2>5, <4>2
        <5> QED
          BY <2>3, <5>1 DEF Never
      <4> QED
        BY <4>1, <4>2
    <3> QED
      BY <2>5, <3>1 DEF LastEarlier
  <2>9. \A i \in JobNames : i = j \/ i \in J
    OBVIOUS
  <2>10. Visible(JobNames)'
    BY <2>2, <2>6, <2>9 DEF Visible
  <2>11. ASSUME NEW A \in Arch, NEW c \in Comps[A], NEW k \in Chunks(A)',
                <<A, k, c>> \notin stale'
         PROVE  ~(versions'[A].chunk[k][c] > version)
    <3>1. versions'[A].chunk[k][c] \in Stamps
      <4>1. k \in DOMAIN versions'[A].chunk /\ VersionsOf(A, versions'[A])
        BY <2>2 DEF Storages, VersionsOf
      <4> QED
        BY <4>1 DEF VersionsOf
    <3>2. versions'[A].chunk[k][c] \in Nat
      BY <3>1, VersionAssumption DEF Stamps
    <3> QED
      BY <2>3, <2>6, <2>11, <3>2
  <2>12. Quiet(JobNames)'
    BY <2>5, <2>6, <2>9, <2>11 DEF Quiet
  <2> QED
    BY <2>2, <2>6, <2>7, <2>8, <2>10, <2>12 DEF IInv, Shapes
<1> QED
  BY <1>4, <1>5

-----------------------------------------------------------------------------
(* No rows, no versions, nothing to see.                                   *)
LEMMA InitIInv == Init => IInv
<1> SUFFICES ASSUME Init PROVE IInv
  OBVIOUS
<1>1. /\ version = 0 /\ managerVersion \in {0, Garbage} /\ updating = FALSE
      /\ rows = [A \in Arch |-> 0]
      /\ versions = [A \in Arch |-> NoVersions(Comps[A], Never)]
      /\ last = [j \in JobNames |-> Never]
      /\ unseen = {} /\ stale = {} /\ terminated = FALSE
  BY DEF Init
<1>2. \A A \in Arch : rows[A] = 0 /\ Chunks(A) = {}
  <2>1. \A A \in Arch : rows[A] = 0
    BY <1>1
  <2> QED
    BY <2>1 DEF Chunks
<1>3. Scalars /\ LastEarlier
  <2>1. 0 \in 0..MaxVersion
    BY VersionAssumption
  <2>2. Scalars
    BY <1>1, <2>1 DEF Scalars, Stamps
  <2>3. last \in [JobNames -> Nat \cup {Never}]
    BY <1>1
  <2>4. \A j \in JobNames : last[j] < version
    BY <1>1 DEF Never
  <2> QED
    BY <2>2, <2>3, <2>4 DEF LastEarlier
<1>4. RowsBounded
  BY <1>1, <1>2, ChunkAssumption DEF RowsBounded
<1>5. Storages
  <2>1. \A A \in Arch : versions[A] = [chunk |-> <<>>, all |-> [c \in Comps[A] |-> Never]]
    BY <1>1 DEF NoVersions
  <2>2. \A A \in Arch : VersionsOf(A, versions[A])
    <3> TAKE A \in Arch
    <3>1. /\ versions[A].chunk = <<>>
          /\ versions[A].all = [c \in Comps[A] |-> Never]
          /\ versions[A] = [chunk |-> versions[A].chunk, all |-> versions[A].all]
      <4>1. PICK f, g : f = <<>> /\ g = [c \in Comps[A] |-> Never]
        OBVIOUS
      <4>2. versions[A] = [chunk |-> f, all |-> g]
        BY <2>1, <4>1
      <4>3. versions[A].chunk = f /\ versions[A].all = g
        BY <4>2
      <4> QED
        BY <4>1, <4>2, <4>3
    <3>2. <<>> \in [DOMAIN <<>> -> [Comps[A] -> Stamps]]
      OBVIOUS
    <3> QED
      BY <3>1, <3>2 DEF VersionsOf
  <2>3. versions = [A \in Arch |-> versions[A]]
    BY <1>1
  <2> QED
    BY <1>2, <2>2, <2>3 DEF Storages, VersionsOf
<1>6. UnseenValid /\ StaleValid
  BY <1>1 DEF UnseenValid, StaleValid
<1>7. StampsKnown /\ Visible(JobNames) /\ Quiet(JobNames)
  BY <1>2 DEF StampsKnown, Visible, Quiet
<1> QED
  BY <1>3, <1>4, <1>5, <1>6, <1>7 DEF IInv, Shapes

(* World::update, and the tasks of a job.                                  *)
LEMMA VersionStepsKeep ==
  ASSUME IInv, \/ BeginUpdate \/ EndUpdate \/ EndJob
               \/ (\E i \in 0..Workers : RunTask(i)) \/ UNCHANGED vars
  PROVE  IInv'
<1>1. /\ UNCHANGED <<rows, versions, last, unseen, stale, staleAll, terminated>>
      /\ updating' \in BOOLEAN /\ managerVersion' \in Stamps
      /\ version' \in 0..MaxVersion /\ version <= version'
  <2>1. /\ version \in 0..MaxVersion /\ managerVersion \in Stamps /\ updating \in BOOLEAN
        /\ version \in Stamps /\ MaxVersion \in Nat
    BY VersionAssumption DEF IInv, Shapes, Scalars, Stamps
  <2>2. CASE BeginUpdate
    BY <2>1, <2>2 DEF BeginUpdate, stamps
  <2>3. CASE EndUpdate
    <3>1. managerVersion' = version /\ updating' = FALSE
      BY <2>3 DEF EndUpdate
    <3>2. UNCHANGED <<version, rows, versions, last, unseen, stale, staleAll, terminated>>
      BY <2>3 DEF EndUpdate, stamps
    <3>3. version' = version /\ version <= version
      BY <2>1, <3>2
    <3>4. updating' \in BOOLEAN /\ managerVersion' \in Stamps
      BY <2>1, <3>1
    <3> QED
      BY <2>1, <3>2, <3>3, <3>4
  <2>4. CASE EndJob
    BY <2>1, <2>4 DEF EndJob, stamps
  <2>5. CASE \E i \in 0..Workers : RunTask(i)
    BY <2>1, <2>5 DEF RunTask, stamps
  <2>6. CASE UNCHANGED vars
    BY <2>1, <2>6 DEF vars, stamps
  <2> QED
    BY <2>2, <2>3, <2>4, <2>5, <2>6
<1>2. \A A \in Arch : Chunks(A)' = Chunks(A)
  BY <1>1 DEF Chunks
<1>3. version \in Nat /\ version' \in Nat
  BY <1>1, IInvFacts
<1>4. Scalars' /\ RowsBounded' /\ Storages' /\ StaleValid' /\ UnseenValid'
  <2>1. Scalars' /\ RowsBounded'
    BY <1>1 DEF IInv, Shapes, Scalars, RowsBounded
  <2>2. Storages'
    BY <1>1, <1>2 DEF IInv, Shapes, Storages, VersionsOf
  <2>3. StaleValid'
    BY <1>1 DEF IInv, Shapes, StaleValid, CellSet
  <2>4. UnseenValid'
    BY <1>1, <1>2 DEF IInv, Shapes, UnseenValid
  <2> QED
    BY <2>1, <2>2, <2>3, <2>4
<1>5. LastEarlier'
  <2>1. last \in [JobNames -> Nat \cup {Never}] /\ \A j \in JobNames : last[j] < version
    BY DEF IInv, Shapes, LastEarlier
  <2>2. \A j \in JobNames : last[j] < version'
    BY <1>1, <1>3, <2>1 DEF Never
  <2> QED
    BY <1>1, <2>1, <2>2 DEF LastEarlier
<1>6. CellSteps(JobNames)
  BY <1>1, <1>2 DEF CellSteps, CellStep, Kept
<1>7. StampsKnown' /\ Visible(JobNames)' /\ Quiet(JobNames)'
  BY <1>1, <1>3, <1>6, CellsKeep
<1> QED
  BY <1>4, <1>5, <1>7 DEF IInv, Shapes

(* Every step keeps the invariant.                                         *)
LEMMA NextKeeps ==
  ASSUME IInv, [Next]_vars
  PROVE  IInv'
<1>1. ASSUME NEW A \in Arch, RowAction(A) PROVE IInv'
  <2>1. CASE Insert(A)
    BY <2>1, InsertKeeps
  <2>2. CASE Clear(A)
    BY <2>2, ClearKeeps
  <2>3. CASE \E r \in 0..(rows[A] - 1) : RemoveRow(A, r)
    BY <2>3, RemoveRowKeeps
  <2>4. CASE \E r \in 0..(rows[A] - 1) : \E B \in Arch : Move(A, r, B)
    BY <2>4, MoveKeeps
  <2>5. CASE \E r \in 0..(rows[A] - 1) : \E c \in Comps[A] : GetComponent(A, r, c)
    BY <2>5, GetComponentKeeps
  <2> QED
    BY <1>1, <2>1, <2>2, <2>3, <2>4, <2>5 DEF RowAction
<1>2. ASSUME NEW f \in Functions, ForEach(f) PROVE IInv'
  BY <1>2, ForEachKeeps
<1>3. ASSUME NEW j \in JobNames, NEW parallel \in BOOLEAN, Run(j, parallel) PROVE IInv'
  BY <1>3, RunKeeps
<1>4. ASSUME \/ BeginUpdate \/ EndUpdate \/ EndJob
             \/ (\E i \in 0..Workers : RunTask(i)) \/ UNCHANGED vars
      PROVE  IInv'
  BY <1>4, VersionStepsKeep
<1> QED
  BY <1>1, <1>2, <1>3, <1>4 DEF Next

(* Every reachable state satisfies the invariant.                          *)
THEOREM JobsInvariant == Spec => []IInv
<1>1. Init => IInv
  BY InitIInv
<1>2. IInv /\ [Next]_vars => IInv'
  BY NextKeeps
<1> QED
  BY <1>1, <1>2, PTL DEF Spec

(* The types, and that the versions of an archetype cover every chunk that *)
(* holds rows, although emplace resizes them to the new row's chunk.       *)
THEOREM JobsTyped == Spec => []TypeOK
<1>1. IInv => TypeOK
  BY IInvImplies
<1> QED
  BY <1>1, JobsInvariant, PTL

(* What a job checks and has not seen has a newer version than the job's,  *)
(* in the chunk and in the archetype, unless its last stamp was stale.     *)
THEOREM NoChangeLost == Spec => []ChangesVisible
<1>1. IInv => ChangesVisible
  BY IInvImplies
<1> QED
  BY <1>1, JobsInvariant, PTL

(* What the filter takes for a change happened since the job last saw the  *)
(* chunk, and was not made by the job itself.                              *)
THEOREM NoSpuriousRun == Spec => []NothingSpurious
<1>1. IInv => NothingSpurious
  BY IInvImplies
<1> QED
  BY <1>1, JobsInvariant, PTL

(* The step that starts a job's tasks takes into its result every chunk    *)
(* with a change the job has not seen and no stale stamp hides.            *)
LEMMA RunShows ==
  ASSUME IInv, [Next]_vars, job = NoJob, job' # NoJob, NEW u \in unseen, u[1] = job'.name,
         <<u[2], u[3], u[4]>> \notin stale, <<u[2], u[4]>> \notin staleAll
  PROVE  InResult(job'.result, u[2], u[3])
<1>1. PICK j \in JobNames, parallel \in BOOLEAN : Run(j, parallel)
  <2>1. job' # job
    OBVIOUS
  <2>2. \A A \in Arch : RowAction(A) => job' = job
    <3>1. \A A : Insert(A) \/ Clear(A) => job' = job
      BY DEF Insert, Clear
    <3>2. \A A, r : RemoveRow(A, r) => job' = job
      BY DEF RemoveRow
    <3>3. \A A, r, B : Move(A, r, B) => job' = job
      BY DEF Move
    <3>4. \A A, r, c : GetComponent(A, r, c) => job' = job
      BY DEF GetComponent
    <3> QED
      BY <3>1, <3>2, <3>3, <3>4 DEF RowAction
  <2>3. \A f \in Functions : ForEach(f) => job' = job
    BY DEF ForEach
  <2>4. BeginUpdate \/ EndUpdate \/ UNCHANGED vars => job' = job
    BY DEF BeginUpdate, EndUpdate, vars
  <2>5. \A i \in 0..Workers : ~RunTask(i)
    BY DEF RunTask
  <2>6. ~EndJob
    BY DEF EndJob
  <2> QED
    BY <2>1, <2>2, <2>3, <2>4, <2>5, <2>6 DEF Next
<1>2. PICK cut, tasks, left :
        job' = [name |-> j, result |-> FilterResult(j, cut), tasks |-> tasks, left |-> left]
  <2>1. PICK cut \in [Arch -> {0, 1}] :
           IF TotalCount(FilterResult(j, cut)) = 0 THEN job' = job
           ELSE \E tasks, left :
                  job' = [name |-> j, result |-> FilterResult(j, cut), tasks |-> tasks, left |-> left]
    BY <1>1 DEF Run
  <2> QED
    BY <2>1
<1>3. job'.name = j /\ job'.result = FilterResult(j, cut)
  BY <1>2
<1>4. PICK A \in Arch : \E c \in Comps[A], k \in Chunks(A) :
         \E i \in Watchers[A][c] : u = <<i, A, k, c>>
  BY UnseenShape
<1>5. PICK c \in Comps[A], k \in Chunks(A) : \E i \in Watchers[A][c] : u = <<i, A, k, c>>
  BY <1>4
<1>6. u = <<j, A, k, c>> /\ u[2] = A /\ u[3] = k /\ u[4] = c
  BY <1>3, <1>5
<1>7. k \in PassingChunks(j, A)
  BY <1>6, UnseenPasses
<1>8. InResult(FilterResult(j, cut), A, k)
  BY <1>7, IInvFacts, FilterFinds
<1> QED
  BY <1>3, <1>6, <1>8

(* A running job goes over every chunk in which something it checks was    *)
(* written since it last saw that chunk, in whatever order entities moved. *)
THEOREM JobShownChanges == Spec => ShownWhatChanged
<1>1. IInv /\ [Next]_vars =>
        [job = NoJob /\ job' # NoJob =>
          \A u \in unseen :
              (/\ u[1] = job'.name
               /\ <<u[2], u[3], u[4]>> \notin stale
               /\ <<u[2], u[4]>> \notin staleAll)
                  => InResult(job'.result, u[2], u[3])]_vars
  BY RunShows
<1> QED
  BY <1>1, JobsInvariant, PTL DEF Spec, ShownWhatChanged

-----------------------------------------------------------------------------
(* A running job.                                                          *)

(* The calls of a task's function: one for each of its rows, numbered on   *)
(* from the task's first.                                                  *)
CallsOf(result, task) ==
    LET seen == TaskRows(result, task)
    IN  {[row |-> seen[k], index |-> task.first + k - 1] : k \in DOMAIN seen}

(* What a filter finds in archetypes of these sizes.                       *)
ItemOf(item, sizes) ==
    /\ item.arch \in Arch
    /\ item.size = sizes[item.arch]
    /\ OfChunks(item, ChunkSize[item.arch])
OfFilter(result, sizes) ==
    /\ Result(result)
    /\ \A i \in 1..Len(result) : ItemOf(result[i], sizes)
    /\ \A i, k \in 1..Len(result) : result[i].arch = result[k].arch => result[i] = result[k]

(* The job runs in n tasks over the archetypes as they are, and its        *)
(* function was called for what the tasks that are done go over.           *)
Running(n) ==
    /\ job = [name |-> job.name, result |-> job.result, tasks |-> job.tasks, left |-> job.left]
    /\ OfFilter(job.result, rows)
    /\ job.tasks = Tasks(job.result, n)
    /\ job.left \subseteq 0..(n - 1)
    /\ visits = UNION {CallsOf(job.result, job.tasks[i]) : i \in (0..(n - 1)) \ job.left}

(* Nothing moves rows meanwhile, as the manager is locked.                 *)
JobInv ==
    /\ job = NoJob => visits = {}
    /\ job # NoJob => \E n \in 1..(Workers + 1) : Running(n)

(* What the filter finds has this form.                                    *)
LEMMA FilterResultIs ==
  ASSUME RowsBounded, NEW j \in JobNames, NEW cut \in [Arch -> {0, 1}]
  PROVE  OfFilter(FilterResult(j, cut), rows)
<1> DEFINE Item(A) == FilteredArchetype(j, A, cut[A])
           Items == {Item(A) : A \in Arch}
<1>1. PICK res \in Seq(Items) :
        /\ res = FilterResult(j, cut)
        /\ \A i \in 1..Len(res) : \E A \in Arch : res[i] = Item(A) /\ EntitiesCount(Item(A)) > 0
  BY ResultItems
<1>2. ASSUME NEW A \in Arch
      PROVE  /\ Item(A).arch = A /\ ItemOf(Item(A), rows)
             /\ EntitiesCount(Item(A)) > 0 => Filtered(Item(A))
  <2>1. PICK fa : fa = Item(A)
    OBVIOUS
  <2>2. PICK match : match = [k \in Chunks(A) |-> k \in PassingChunks(j, A)]
    OBVIOUS
  <2>3. PICK size \in Nat, cs \in Nat \ {0} : size = rows[A] /\ cs = ChunkSize[A]
    BY ChunkAssumption DEF RowsBounded
  <2>4. fa.arch = A /\ fa.size = size /\ fa.blocks = Blocks(match, size, cs) /\ fa.cut \in Nat
    <3>1. cut[A] \in Nat
      OBVIOUS
    <3> QED
      BY <2>1, <2>2, <2>3, <3>1 DEF FilteredArchetype
  <2> HIDE DEF Item
  <2>5. OfChunks(fa, cs)
    BY ONLY <2>4, size \in Nat, cs \in Nat \ {0}, BlocksOfChunks
  <2>6. ASSUME EntitiesCount(fa) > 0 PROVE Filtered(fa)
    <3>1. PassingChunks(j, A) # {} /\ \A k \in PassingChunks(j, A) : \E b \in DOMAIN fa.blocks : TRUE
      BY <2>1, <2>3, <2>6, ItemFacts DEF Item
    <3>2. fa.blocks # <<>>
      BY <3>1
    <3> QED
      BY <2>4, <2>5, <3>2, FilteredBlocks
  <2>7. ItemOf(fa, rows)
    BY <2>3, <2>4, <2>5 DEF ItemOf
  <2> QED
    BY <2>1, <2>4, <2>6, <2>7
<1> HIDE DEF Item, Items
<1>3. ASSUME NEW i \in 1..Len(res)
      PROVE  /\ Filtered(res[i]) /\ ItemOf(res[i], rows)
             /\ \E A \in Arch : res[i] = Item(A) /\ res[i].arch = A
  <2>1. PICK A \in Arch : res[i] = Item(A) /\ EntitiesCount(Item(A)) > 0
    BY ONLY <1>1, i \in 1..Len(res)
  <2>2. /\ Item(A).arch = A /\ ItemOf(Item(A), rows)
        /\ EntitiesCount(Item(A)) > 0 => Filtered(Item(A))
    BY ONLY <1>2, A \in Arch
  <2> QED
    BY ONLY <2>1, <2>2, A \in Arch
<1>4. Result(res)
  BY <1>3 DEF Result
<1>5. ASSUME NEW i \in 1..Len(res), NEW k \in 1..Len(res), res[i].arch = res[k].arch
      PROVE  res[i] = res[k]
  <2>1. PICK A \in Arch : res[i] = Item(A) /\ res[i].arch = A
    BY ONLY <1>3, i \in 1..Len(res)
  <2>2. PICK B \in Arch : res[k] = Item(B) /\ res[k].arch = B
    BY ONLY <1>3, k \in 1..Len(res)
  <2> QED
    BY ONLY <1>5, <2>1, <2>2
<1>6. OfFilter(res, rows)
  BY <1>3, <1>4, <1>5 DEF OfFilter
<1> QED
  BY <1>1, <1>6

(* A job begins with all of its tasks left, at least one and at most one   *)
(* for each thread.                                                        *)
LEMMA RunKeepsJob ==
  ASSUME IInv, JobInv, NEW j \in JobNames, NEW parallel \in BOOLEAN, Run(j, parallel)
  PROVE  JobInv'
<1>1. RowsBounded /\ \A A \in Arch : rows[A] \in Nat
  BY DEF IInv, Shapes, RowsBounded
<1>2. job = NoJob /\ visits = {} /\ visits' = {} /\ rows' = rows
  BY DEF Run, Idle, JobInv
<1>3. PICK cut \in [Arch -> {0, 1}] :
        LET result == FilterResult(j, cut)
            total == TotalCount(result)
            numTasks == IF parallel THEN TaskCount(total, Workers) ELSE 1
        IN  IF total = 0 THEN job' = job
            ELSE job' = [name |-> j, result |-> result, tasks |-> Tasks(result, numTasks),
                         left |-> 0..(numTasks - 1)]
  BY DEF Run
<1> PICK result : result = FilterResult(j, cut)
  OBVIOUS
<1>4. OfFilter(result, rows)
  BY <1>1, FilterResultIs
<1>5. PICK total \in Nat : total = TotalCount(result)
  BY <1>1, FilterFinds
<1> PICK n : n = IF parallel THEN TaskCount(total, Workers) ELSE 1
  OBVIOUS
<1>6. CASE total = 0
  <2>1. job' = NoJob
    BY <1>2, <1>3, <1>5, <1>6
  <2> QED
    BY <1>2, <2>1 DEF JobInv
<1>7. CASE total # 0
  <2>1. n \in 1..(Workers + 1)
    <3>1. TaskCount(total, Workers) = IF total <= Workers + 1 THEN total ELSE Workers + 1
      BY VersionAssumption, MinOfTwo DEF TaskCount
    <3> QED
      BY <1>7, <3>1, VersionAssumption
  <2>2. job' = [name |-> j, result |-> result, tasks |-> Tasks(result, n), left |-> 0..(n - 1)]
    BY <1>3, <1>5, <1>7
  <2>3. job'.name = j /\ job'.result = result /\ job'.tasks = Tasks(result, n) /\ job'.left = 0..(n - 1)
    BY <2>2
  <2>4. job' = [name |-> job'.name, result |-> job'.result, tasks |-> job'.tasks, left |-> job'.left]
    BY ONLY <2>2, <2>3, Zenon
  <2>5. visits' = UNION {CallsOf(job'.result, job'.tasks[i]) : i \in (0..(n - 1)) \ job'.left}
    BY <1>2, <2>3
  <2>6. OfFilter(job'.result, rows') /\ job'.tasks = Tasks(job'.result, n) /\ job'.left \subseteq 0..(n - 1)
    BY <1>2, <1>4, <2>3
  <2>7. Running(n)'
    BY <2>4, <2>5, <2>6 DEF Running
  <2> QED
    BY <1>2, <2>1, <2>7 DEF JobInv
<1> QED
  BY <1>6, <1>7

(* A task that is done adds its calls.                                     *)
LEMMA RunTaskKeepsJob ==
  ASSUME JobInv, NEW i, RunTask(i)
  PROVE  JobInv'
<1>1. PICK n \in 1..(Workers + 1) : Running(n)
  BY DEF JobInv, RunTask
<1> PICK name, result, tasks, left :
      /\ name = job.name /\ result = job.result /\ tasks = job.tasks /\ left = job.left
  OBVIOUS
<1>2. job = [name |-> name, result |-> result, tasks |-> tasks, left |-> left]
  BY ONLY <1>1, name = job.name, result = job.result, tasks = job.tasks, left = job.left DEF Running
<1>3. /\ OfFilter(result, rows) /\ tasks = Tasks(result, n) /\ left \subseteq 0..(n - 1)
      /\ visits = UNION {CallsOf(result, tasks[k]) : k \in (0..(n - 1)) \ left}
  BY <1>1 DEF Running
<1>4. /\ i \in left /\ job' = [job EXCEPT !.left = @ \ {i}] /\ rows' = rows
      /\ visits' = visits \cup CallsOf(result, tasks[i])
  BY DEF RunTask, CallsOf
<1>5. job' = [name |-> name, result |-> result, tasks |-> tasks, left |-> left \ {i}]
  BY ONLY <1>2, <1>4
<1>6. job'.name = name /\ job'.result = result /\ job'.tasks = tasks /\ job'.left = left \ {i}
  BY ONLY <1>5
<1>7. (0..(n - 1)) \ (left \ {i}) = ((0..(n - 1)) \ left) \cup {i}
  BY <1>3, <1>4
<1>8. visits' = UNION {CallsOf(result, tasks[k]) : k \in (0..(n - 1)) \ (left \ {i})}
  BY ONLY <1>3, <1>4, <1>7
<1>9. Running(n)'
  <2>1. job' = [name |-> job'.name, result |-> job'.result, tasks |-> job'.tasks, left |-> job'.left]
    BY ONLY <1>5, <1>6, Zenon
  <2>2. /\ OfFilter(job'.result, rows') /\ job'.tasks = Tasks(job'.result, n) /\ job'.left \subseteq 0..(n - 1)
    BY <1>3, <1>4, <1>6
  <2>3. visits' = UNION {CallsOf(job'.result, job'.tasks[k]) : k \in (0..(n - 1)) \ job'.left}
    BY <1>6, <1>8
  <2> QED
    BY <2>1, <2>2, <2>3 DEF Running
<1>10. job' # NoJob
  <2>1. "left" \in DOMAIN job' /\ "left" \notin DOMAIN NoJob
    BY <1>5 DEF NoJob
  <2> QED
    BY <2>1
<1> QED
  BY <1>9, <1>10 DEF JobInv

(* Every step keeps it.                                                    *)
LEMMA NextKeepsJob ==
  ASSUME IInv, JobInv, [Next]_vars
  PROVE  JobInv'
<1>1. ASSUME job' = job, visits' = visits, rows' = rows PROVE JobInv'
  BY <1>1 DEF JobInv, Running
<1>2. ASSUME job = NoJob, job' = job, visits' = visits PROVE JobInv'
  BY <1>2 DEF JobInv
<1>3. ASSUME NEW A \in Arch, RowAction(A) PROVE JobInv'
  <2>1. Idle /\ job' = job /\ visits' = visits
    <3>1. \A B : Insert(B) \/ Clear(B) => Idle /\ job' = job /\ visits' = visits
      BY DEF Insert, Clear
    <3>2. \A B, r : RemoveRow(B, r) => Idle /\ job' = job /\ visits' = visits
      BY DEF RemoveRow
    <3>3. \A B, r, C : Move(B, r, C) => Idle /\ job' = job /\ visits' = visits
      BY DEF Move
    <3>4. \A B, r, c : GetComponent(B, r, c) => Idle /\ job' = job /\ visits' = visits
      BY DEF GetComponent
    <3> QED
      BY <1>3, <3>1, <3>2, <3>3, <3>4 DEF RowAction
  <2> QED
    BY <1>2, <2>1 DEF Idle
<1>4. ASSUME NEW f \in Functions, ForEach(f) PROVE JobInv'
  BY <1>2, <1>4 DEF ForEach, Idle
<1>5. ASSUME NEW j \in JobNames, NEW parallel \in BOOLEAN, Run(j, parallel) PROVE JobInv'
  BY <1>5, RunKeepsJob
<1>6. ASSUME NEW i \in 0..Workers, RunTask(i) PROVE JobInv'
  BY <1>6, RunTaskKeepsJob
<1>7. CASE BeginUpdate \/ EndUpdate
  BY <1>2, <1>7 DEF BeginUpdate, EndUpdate, Idle
<1>8. CASE EndJob
  BY <1>8 DEF EndJob, JobInv
<1>9. CASE UNCHANGED vars
  BY <1>1, <1>9 DEF vars
<1> QED
  BY <1>3, <1>4, <1>5, <1>6, <1>7, <1>8, <1>9 DEF Next
-----------------------------------------------------------------------------
(* What a finished job has called.                                         *)
CallAt(result, g) == [row |-> MatchedRows(result)[g + 1], index |-> g]
CallsFrom(result, a, b) == {CallAt(result, g) : g \in a..(b - 1)}

(* A task calls for the matched rows from its first on.                    *)
LEMMA CallsOfTask ==
  ASSUME NEW result, Result(result), NEW n \in Nat \ {0}, NEW l,
         Adds(l, n, Shares(TotalCount(result), n)), l[n] = TotalCount(result), NEW i \in 0..(n - 1)
  PROVE  /\ l[i] \in Nat /\ l[i + 1] \in Nat
         /\ CallsOf(result, Tasks(result, n)[i]) = CallsFrom(result, l[i], l[i + 1])
<1> PICK task : task = Tasks(result, n)[i]
  OBVIOUS
<1> PICK seen : seen = TaskRows(result, task)
  OBVIOUS
<1>0. /\ task.first = l[i] /\ task.size \in Nat /\ l[i] \in Nat /\ l[i + 1] = l[i] + task.size
      /\ TaskRows(result, task) \in Seq(Rows)
      /\ Len(TaskRows(result, task)) = task.size
      /\ \A k \in 1..task.size : TaskRows(result, task)[k] = MatchedRows(result)[l[i] + k]
  <2>1. GoesOver(result, task, l[i], l[i + 1])
    BY RowsOfTask
  <2> QED
    BY ONLY <2>1 DEF GoesOver
<1>1. PICK f, s \in Nat : f = l[i] /\ s = task.size /\ l[i + 1] = f + s /\ task.first = f
  BY <1>0
<1>2. seen \in Seq(Rows) /\ Len(seen) = s /\ \A k \in 1..s : seen[k] = MatchedRows(result)[f + k]
  BY <1>0, <1>1
<1>3. DOMAIN seen = 1..s
  BY <1>2
<1>4. CallsOf(result, task) = {[row |-> seen[k], index |-> f + k - 1] : k \in 1..s}
  BY <1>1, <1>3 DEF CallsOf
<1>5. \A k \in 1..s : /\ f + k - 1 \in f..((f + s) - 1)
                      /\ [row |-> seen[k], index |-> f + k - 1] = CallAt(result, f + k - 1)
  <2> TAKE k \in 1..s
  <2>1. f + k - 1 \in f..((f + s) - 1) /\ (f + k - 1) + 1 = f + k
    OBVIOUS
  <2>2. seen[k] = MatchedRows(result)[f + k]
    BY <1>2
  <2> QED
    BY ONLY <2>1, <2>2 DEF CallAt
<1>6. \A g \in f..((f + s) - 1) : \E k \in 1..s : g = f + k - 1
  <2> TAKE g \in f..((f + s) - 1)
  <2>1. (g - f) + 1 \in 1..s /\ g = f + ((g - f) + 1) - 1
    OBVIOUS
  <2> QED
    BY <2>1
<1>7. CallsOf(result, task) = {CallAt(result, g) : g \in f..((f + s) - 1)}
  <2>1. \A x \in CallsOf(result, task) : \E g \in f..((f + s) - 1) : x = CallAt(result, g)
    BY ONLY <1>4, <1>5
  <2>2. \A g \in f..((f + s) - 1) : CallAt(result, g) \in CallsOf(result, task)
    <3> TAKE g \in f..((f + s) - 1)
    <3>1. PICK k \in 1..s : g = f + k - 1
      BY ONLY <1>6, g \in f..((f + s) - 1)
    <3>2. [row |-> seen[k], index |-> f + k - 1] = CallAt(result, g)
      BY ONLY <1>5, <3>1, k \in 1..s
    <3> QED
      BY ONLY <1>4, <3>2, k \in 1..s
  <2> QED
    BY ONLY <2>1, <2>2
<1> QED
  BY <1>1, <1>7 DEF CallsFrom

(* The tasks together call once for each matched row, with its number.     *)
LEMMA CallsOfTasks ==
  ASSUME NEW result, Result(result), NEW n \in Nat \ {0}
  PROVE  UNION {CallsOf(result, Tasks(result, n)[i]) : i \in 0..(n - 1)}
           = CallsFrom(result, 0, TotalCount(result))
<1> PICK total \in Nat : total = TotalCount(result)
  BY TotalsAre
<1> PICK f : f = Shares(total, n)
  OBVIOUS
<1>1. PICK l : Adds(l, n, f) /\ l[n] = total
  BY SharesAre
<1>2. f \in [1..n -> Nat] /\ l \in [0..n -> Nat] /\ l[0] = 0
  BY <1>1, SharesAre DEF Adds
<1> DEFINE Calls(i) == CallsOf(result, Tasks(result, n)[i])
           All == {CallAt(result, g) : g \in 0..(total - 1)}
<1>3. ASSUME NEW i \in 0..(n - 1)
      PROVE  l[i] \in Nat /\ l[i + 1] \in Nat /\ Calls(i) = CallsFrom(result, l[i], l[i + 1])
  <2>1. Adds(l, n, Shares(TotalCount(result), n)) /\ l[n] = TotalCount(result)
    BY <1>1
  <2> QED
    BY <2>1, Zenon, CallsOfTask
<1>4. ASSUME NEW i \in 0..(n - 1), NEW x \in Calls(i) PROVE x \in All
  <2> HIDE DEF Calls
  <2>1. PICK a, b \in Nat : a = l[i] /\ b = l[i + 1]
    BY <1>3
  <2>2. PICK g \in a..(b - 1) : x = CallAt(result, g)
    BY <1>3, <1>4, <2>1 DEF CallsFrom
  <2>3. b <= total
    <3>1. i + 1 \in 0..n /\ n \in 0..n /\ i + 1 <= n
      OBVIOUS
    <3>2. n \in Nat
      OBVIOUS
    <3>3. l[i + 1] <= l[n]
      BY ONLY <1>1, <1>2, <3>1, <3>2, AddsMono
    <3> QED
      BY <1>1, <2>1, <3>3
  <2>4. g \in 0..(total - 1)
    BY ONLY <2>3, g \in a..(b - 1), a \in Nat, b \in Nat, total \in Nat
  <2> QED
    BY <2>2, <2>4
<1>5. ASSUME NEW g \in 0..(total - 1) PROVE \E i \in 0..(n - 1) : CallAt(result, g) \in Calls(i)
  <2>1. g \in Nat /\ g < l[n]
    BY <1>1
  <2>2. PICK k \in 1..n : l[k - 1] <= g /\ g < l[k]
    BY <1>1, <1>2, <2>1, AddsLocate
  <2>3. PICK i \in 0..(n - 1) : i = k - 1 /\ k = i + 1
    OBVIOUS
  <2> HIDE DEF Calls
  <2>4. g \in l[i]..(l[i + 1] - 1)
    BY <1>3, <2>1, <2>2, <2>3
  <2> QED
    BY <1>3, <2>4 DEF CallsFrom
<1>6. UNION {Calls(i) : i \in 0..(n - 1)} = All
  <2> HIDE DEF Calls, All
  <2>1. \A g \in 0..(total - 1) : CallAt(result, g) \in UNION {Calls(i) : i \in 0..(n - 1)}
    BY <1>5
  <2>2. \A x \in All : x \in UNION {Calls(i) : i \in 0..(n - 1)}
    BY <2>1 DEF All
  <2>3. \A x \in UNION {Calls(i) : i \in 0..(n - 1)} : x \in All
    BY <1>4
  <2> QED
    BY ONLY <2>2, <2>3
<1> QED
  BY <1>6 DEF CallsFrom

(* One call for each of the total matched rows, and one for each number.   *)
Numbered(calls, result, total) ==
    /\ Cardinality(calls) = total
    /\ {v.index : v \in calls} = 0..(total - 1)
    /\ {v.row : v \in calls} = {MatchedRows(result)[g] : g \in 1..total}

LEMMA CallsCount ==
  ASSUME NEW result, NEW total \in Nat
  PROVE  Numbered(CallsFrom(result, 0, total), result, total)
<1> DEFINE I == 0..(total - 1)
           All == {CallAt(result, g) : g \in I}
           f == [g \in I |-> CallAt(result, g)]
<1>1. \A g \in I : CallAt(result, g).index = g /\ CallAt(result, g).row = MatchedRows(result)[g + 1]
  BY DEF CallAt
<1>2. f \in Bijection(I, All)
  <2>1. f \in [I -> All] /\ \A x \in All : \E g \in I : f[g] = x
    OBVIOUS
  <2>2. \A g, h \in I : f[g] = f[h] => g = h
    BY <1>1
  <2> HIDE DEF f, All, I
  <2> QED
    BY <2>1, <2>2 DEF Bijection, Injection, Surjection, IsInjective
<1>3. IsFiniteSet(I) /\ Cardinality(I) = total
  <2>1. IsFiniteSet(0..(total - 1)) /\ Cardinality(0..(total - 1)) = IF 0 > total - 1 THEN 0 ELSE (total - 1) - 0 + 1
    BY FS_Interval
  <2>2. (IF 0 > total - 1 THEN 0 ELSE (total - 1) - 0 + 1) = total
    OBVIOUS
  <2> QED
    BY <2>1, <2>2
<1>4. Cardinality(All) = total
  <2> HIDE DEF f, All, I
  <2> QED
    BY <1>2, <1>3, FS_Bijection DEF ExistsBijection
<1>5. {v.index : v \in All} = I
  <2> HIDE DEF I
  <2> QED
    BY <1>1
<1>6. {v.row : v \in All} = {MatchedRows(result)[g] : g \in 1..total}
  <2>1. {v.row : v \in All} = {MatchedRows(result)[g + 1] : g \in I}
    <3> HIDE DEF I
    <3> QED
      BY <1>1
  <2>2. \A g \in I : g + 1 \in 1..total
    OBVIOUS
  <2>3. \A h \in 1..total : h - 1 \in I /\ (h - 1) + 1 = h
    OBVIOUS
  <2> HIDE DEF I
  <2>4. {MatchedRows(result)[g + 1] : g \in I} = {MatchedRows(result)[h] : h \in 1..total}
    BY ONLY <2>2, <2>3
  <2> QED
    BY ONLY <2>1, <2>4
<1> HIDE DEF All, I
<1> QED
  BY <1>4, <1>5, <1>6 DEF All, I, CallsFrom, Numbered

(* A matched row is one whose chunk is in the result: its first row and    *)
(* all others are in the same block, and an archetype the world has twice  *)
(* is found twice alike.                                                   *)
LEMMA InBlocksInResult ==
  ASSUME RowsBounded, NEW result, OfFilter(result, rows), NEW i \in 1..Len(result), NEW A, A = result[i].arch,
         NEW r \in Nat
  PROVE  InBlocks(result, i, r) <=> r < rows[A] /\ InResult(result, A, ChunkAt(r, ChunkSize[A]))
<1>1. /\ Result(result) /\ DOMAIN result = 1..Len(result)
      /\ A \in Arch /\ result[i].size = rows[A] /\ OfChunks(result[i], ChunkSize[A])
  BY DEF OfFilter, ItemOf, Result
<1> PICK fa : fa = result[i]
  OBVIOUS
<1>2. PICK size \in Nat, cs \in Nat \ {0} : size = rows[A] /\ cs = ChunkSize[A] /\ size = fa.size
  BY <1>1, ChunkAssumption DEF RowsBounded
<1>3. PICK n \in Nat : n = Len(fa.blocks) /\ DOMAIN fa.blocks = 1..n
  BY <1>1 DEF OfChunks
<1>4. OfChunks(fa, cs)
  BY <1>1, <1>2
<1> PICK q : q = ChunkAt(r, cs)
  OBVIOUS
<1>5. q = r \div cs /\ q \in Nat
  BY DivFacts DEF ChunkAt
<1>6. ASSUME NEW b \in 1..n, r < size
      PROVE  /\ fa.blocks[b][1] <= r /\ r < fa.blocks[b][2]
                <=> fa.blocks[b][1] <= q * cs /\ q * cs < fa.blocks[b][2]
  <2>0. /\ fa.blocks[b][1] \in Nat /\ fa.blocks[b][2] \in Nat
        /\ \E m \in Nat : fa.blocks[b][1] = m * cs
        /\ fa.blocks[b][2] = size \/ \E o \in Nat : fa.blocks[b][2] = o * cs
    BY ONLY <1>2, <1>3, <1>4, b \in 1..n DEF OfChunks
  <2>1. PICK lo \in Nat, hi \in Nat, m \in Nat :
           /\ lo = fa.blocks[b][1] /\ hi = fa.blocks[b][2] /\ lo = m * cs
           /\ hi = size \/ \E o \in Nat : hi = o * cs
    BY ONLY <2>0
  <2>2. lo <= r /\ r < hi <=> lo <= (r \div cs) * cs /\ (r \div cs) * cs < hi
    <3>1. /\ size \in Nat /\ cs \in Nat \ {0} /\ r \in Nat /\ lo \in Nat /\ hi \in Nat /\ m \in Nat
          /\ r < size /\ lo = m * cs /\ (hi = size \/ \E o \in Nat : hi = o * cs)
      BY ONLY <1>6, <2>1, size \in Nat, cs \in Nat \ {0}, r \in Nat
    <3> QED
      BY ONLY <3>1, BlockOfRow, Zenon
  <2> QED
    BY ONLY <1>5, <2>1, <2>2
<1>7. ASSUME InBlocks(result, i, r) PROVE r < rows[A] /\ InResult(result, A, q)
  <2>1. PICK b \in 1..n : fa.blocks[b][1] <= r /\ r < fa.blocks[b][2]
    BY <1>3, <1>7 DEF InBlocks
  <2>2. r < size
    <3>1. PICK hi \in Nat : hi = fa.blocks[b][2] /\ hi <= size
      BY <1>2, <1>3, <1>4 DEF OfChunks
    <3> QED
      BY <2>1, <3>1
  <2>3. fa.blocks[b][1] <= q * cs /\ q * cs < fa.blocks[b][2]
    BY ONLY <1>6, <2>1, <2>2, b \in 1..n
  <2>4. InResult(result, A, q)
    <3>1. i \in DOMAIN result /\ result[i].arch = A /\ b \in DOMAIN result[i].blocks
      BY <1>1, <1>3
    <3>2. result[i].blocks[b][1] <= q * ChunkSize[A] /\ q * ChunkSize[A] < result[i].blocks[b][2]
      BY <1>2, <2>3
    <3> QED
      BY ONLY <3>1, <3>2 DEF InResult
  <2> QED
    BY <1>2, <2>2, <2>4
<1>8. ASSUME r < rows[A], InResult(result, A, q) PROVE InBlocks(result, i, r)
  <2>1. PICK k \in DOMAIN result : result[k].arch = A /\ \E b \in DOMAIN result[k].blocks :
           result[k].blocks[b][1] <= q * ChunkSize[A] /\ q * ChunkSize[A] < result[k].blocks[b][2]
    BY <1>8 DEF InResult
  <2>2. result[k] = fa
    <3>1. k \in 1..Len(result) /\ result[k].arch = result[i].arch
      BY <1>1, <2>1
    <3> QED
      BY <3>1 DEF OfFilter
  <2>3. PICK b \in 1..n : fa.blocks[b][1] <= q * cs /\ q * cs < fa.blocks[b][2]
    BY <1>2, <1>3, <2>1, <2>2
  <2>4. fa.blocks[b][1] <= r /\ r < fa.blocks[b][2]
    BY <1>2, <1>6, <1>8, <2>3
  <2> QED
    BY <1>3, <2>4 DEF InBlocks
<1> QED
  BY <1>2, <1>7, <1>8

(* So the calls of a finished job are for the rows of matched chunks.      *)
LEMMA RowsOfFilter ==
  ASSUME RowsBounded, NEW result, OfFilter(result, rows)
  PROVE  LET arch(i) == result[i].arch
             places == UNION {{i} \X (0..(rows[arch(i)] - 1)) : i \in DOMAIN result}
         IN  {MatchedRows(result)[g] : g \in 1..TotalCount(result)}
               = {x \in places : InResult(result, arch(x[1]), ChunkAt(x[2], ChunkSize[arch(x[1])]))}
<1> DEFINE arch(i) == result[i].arch
           places == UNION {{i} \X (0..(rows[arch(i)] - 1)) : i \in DOMAIN result}
           matched == {x \in places : InResult(result, arch(x[1]), ChunkAt(x[2], ChunkSize[arch(x[1])]))}
<1>1. /\ Result(result) /\ DOMAIN result = 1..Len(result)
      /\ \A i \in 1..Len(result) : arch(i) \in Arch /\ rows[arch(i)] \in Nat
  BY DEF OfFilter, ItemOf, Result, RowsBounded
<1>2. ASSUME NEW g \in 1..TotalCount(result) PROVE MatchedRows(result)[g] \in matched
  <2>1. PICK a, r : InBlocks(result, a, r) /\ MatchedRows(result)[g] = <<a, r>>
    BY <1>1, MatchedInBlocks
  <2>2. a \in 1..Len(result) /\ r \in Nat
    BY <2>1 DEF InBlocks
  <2>3. r < rows[arch(a)] /\ InResult(result, arch(a), ChunkAt(r, ChunkSize[arch(a)]))
    BY <2>1, <2>2, InBlocksInResult
  <2>4. r \in 0..(rows[arch(a)] - 1)
    BY <1>1, <2>2, <2>3
  <2>5. <<a, r>> \in places
    BY <1>1, <2>2, <2>4
  <2>6. <<a, r>>[1] = a /\ <<a, r>>[2] = r
    OBVIOUS
  <2> HIDE DEF places, arch
  <2>7. <<a, r>> \in matched
    BY <2>3, <2>5, <2>6
  <2> QED
    BY ONLY <2>1, <2>7
<1>3. ASSUME NEW x \in matched PROVE \E g \in 1..TotalCount(result) : MatchedRows(result)[g] = x
  <2>1. PICK a \in 1..Len(result) : x \in {a} \X (0..(rows[arch(a)] - 1))
    BY <1>1
  <2>2. PICK r \in 0..(rows[arch(a)] - 1) : x = <<a, r>> /\ x[1] = a /\ x[2] = r
    BY <2>1
  <2>3. InResult(result, arch(a), ChunkAt(r, ChunkSize[arch(a)]))
    BY <2>2
  <2>4. r \in Nat /\ r < rows[arch(a)]
    <3>1. rows[arch(a)] \in Nat
      BY <1>1
    <3> QED
      BY <3>1
  <2>5. InBlocks(result, a, r)
    BY <2>3, <2>4, InBlocksInResult
  <2> QED
    <3>1. \E g \in 1..TotalCount(result) : MatchedRows(result)[g] = <<a, r>>
      BY ONLY <1>1, <2>5, InBlocksMatched
    <3> QED
      BY ONLY <2>2, <3>1
<1>4. {MatchedRows(result)[g] : g \in 1..TotalCount(result)} = matched
  <2> HIDE DEF matched
  <2> QED
    BY <1>2, <1>3
<1> QED
  BY <1>4

(* When the last task of a job is done its function was called once for    *)
(* every row of every matched chunk and for no other, and entity_index     *)
(* numbers the calls without gaps, in whatever order the tasks ran, for    *)
(* any archetypes, chunk sizes, rows and number of threads.                *)
THEOREM JobCallsEveryRowOnce == Spec => []EveryRowOnce
<1>1. Init => JobInv
  BY DEF Init, JobInv
<1>2. IInv /\ JobInv /\ [Next]_vars => JobInv'
  BY NextKeepsJob
<1>3. ASSUME IInv, JobInv, job # NoJob, job.left = {} PROVE EveryRowOnce
  <2>1. PICK n \in 1..(Workers + 1) : Running(n)
    BY <1>3 DEF JobInv
  <2> PICK result : result = job.result
    OBVIOUS
  <2>2. /\ OfFilter(result, rows) /\ Result(result) /\ RowsBounded /\ n \in Nat \ {0}
    BY <1>3, <2>1, VersionAssumption DEF Running, OfFilter, IInv, Shapes
  <2>3. PICK total \in Nat : total = TotalCount(result)
    BY <2>2, TotalsAre
  <2>4. visits = UNION {CallsOf(result, Tasks(result, n)[i]) : i \in 0..(n - 1)}
    <3>1. (0..(n - 1)) \ job.left = 0..(n - 1) /\ job.tasks = Tasks(result, n)
      BY <1>3, <2>1 DEF Running
    <3> QED
      BY <2>1, <3>1 DEF Running
  <2>5. visits = CallsFrom(result, 0, total)
    BY <2>2, <2>3, <2>4, CallsOfTasks
  <2>6. /\ Cardinality(visits) = total
        /\ {v.index : v \in visits} = 0..(total - 1)
        /\ {v.row : v \in visits} = {MatchedRows(result)[g] : g \in 1..total}
    <3>1. Numbered(visits, result, total)
      BY <2>5, CallsCount
    <3> QED
      BY ONLY <3>1 DEF Numbered
  <2> DEFINE arch(i) == result[i].arch
             places == UNION {{i} \X (0..(rows[arch(i)] - 1)) : i \in DOMAIN result}
             matched == {x \in places : InResult(result, arch(x[1]), ChunkAt(x[2], ChunkSize[arch(x[1])]))}
  <2>7. {v.row : v \in visits} = matched
    <3>1. {MatchedRows(result)[g] : g \in 1..total} = matched
      BY <2>2, <2>3, RowsOfFilter
    <3> HIDE DEF matched
    <3> QED
      BY ONLY <2>6, <3>1
  <2>8. EveryRowOnce <=> (job # NoJob /\ job.left = {} =>
          /\ {v.row : v \in visits} = matched
          /\ {v.index : v \in visits} = 0..(TotalCount(result) - 1)
          /\ Cardinality(visits) = TotalCount(result))
    BY Zenon DEF EveryRowOnce
  <2> HIDE DEF matched
  <2> QED
    BY ONLY <2>3, <2>6, <2>7, <2>8
<1>4. IInv /\ JobInv => EveryRowOnce
  BY <1>3 DEF EveryRowOnce
<1> QED
  BY <1>1, <1>2, <1>4, JobsInvariant, PTL DEF Spec

-----------------------------------------------------------------------------
(* The splitting of the results a run tries.                               *)

(* What the run tries are results of a filter.                             *)
LEMMA FilteredAre ==
  ASSUME NEW maxRows \in Nat, NEW sizes, sizes \subseteq Nat \ {0},
         NEW fa \in FilteredArchetypes(maxRows, sizes)
  PROVE  Filtered(fa)
<1>1. PICK cs \in sizes, size \in 1..maxRows :
         \E match \in [0..((size - 1) \div cs) -> BOOLEAN], cut \in 0..(size - 1) :
            /\ \E k \in 0..((size - 1) \div cs) : match[k]
            /\ fa = [size |-> size, blocks |-> Blocks(match, size, cs), cut |-> cut]
  BY DEF FilteredArchetypes
<1>2. cs \in Nat \ {0} /\ size \in Nat
  OBVIOUS
<1>3. PICK q : q = (size - 1) \div cs
  OBVIOUS
<1>4. q + 1 \in Nat /\ q + 1 = (size - 1) \div cs + 1 /\ q \in Int /\ 0..q = 0..((q + 1) - 1)
  BY <1>2, <1>3
<1>5. PICK match \in [0..q -> BOOLEAN], cut \in 0..(size - 1) :
         /\ \E k \in 0..q : match[k]
         /\ fa = [size |-> size, blocks |-> Blocks(match, size, cs), cut |-> cut]
  BY <1>1, <1>3
<1>6. fa.size = size /\ fa.blocks = Blocks(match, size, cs) /\ fa.cut = cut /\ cut \in Nat
  BY <1>5
<1>7. OfChunks(fa, cs)
  BY <1>2, <1>6, BlocksOfChunks
<1>8. fa.blocks # <<>>
  <2> PICK n \in Nat : n = q + 1 /\ n = (size - 1) \div cs + 1
    BY <1>4
  <2>1. PICK at, end : Covers(fa.blocks, n, match, at, end)
    <3>1. Covers(Blocks(match, size, cs), n, match, [m \in 0..n |-> m * cs],
                 [k \in 0..n |-> IF k * cs < size THEN k * cs ELSE size])
      BY <1>2, BlocksCover
    <3> QED
      BY <1>6, <3>1, Zenon
  <2>2. PICK k \in 0..(n - 1) : match[k]
    BY <1>4, <1>5
  <2>3. PICK i \in 1..Len(fa.blocks) : TRUE
    BY <2>1, <2>2 DEF Covers
  <2> QED
    BY <2>3
<1> QED
  BY <1>2, <1>6, <1>7, <1>8, FilteredBlocks

(* The splitting of every result the run tries: by TasksCoverAlways it is  *)
(* right for any result, however long, and any number of tasks.            *)
THEOREM SplittingCovers == Spec => []TasksCoverRows
<1>1. ASSUME NEW first \in FilteredArchetypes(4, {1, 2}), NEW second \in FilteredArchetypes(3, {1, 2}),
             NEW workers \in 0..2
      PROVE  TasksCover(<<first, second>>, TaskCount(TotalCount(<<first, second>>), workers))
  <2> PICK result : result = <<first, second>>
    OBVIOUS
  <2>1. Filtered(first) /\ Filtered(second)
    BY FilteredAre
  <2>2. result \in Seq({first, second}) /\ Len(result) = 2 /\ result[1] = first /\ result[2] = second
    OBVIOUS
  <2>3. Result(result)
    <3>1. \A i \in 1..Len(result) : Filtered(result[i])
      <4> TAKE i \in 1..Len(result)
      <4>1. i = 1 \/ i = 2
        BY <2>2
      <4> QED
        BY <2>1, <2>2, <4>1
    <3> QED
      BY <2>2, <3>1 DEF Result
  <2>4. PICK total \in Nat \ {0} : total = TotalCount(result)
    <3>1. \A i \in 1..Len(result) : EntitiesCount(result[i]) \in Nat \ {0}
      BY <2>1, <2>2, EndsAre
    <3>2. TotalCount(result) \in Nat /\ TotalCount(result) > 0
      BY <2>2, <3>1, TotalOfCounts
    <3> QED
      BY <3>2
  <2>5. TaskCount(total, workers) \in Nat \ {0}
    <3>1. workers + 1 \in Nat \ {0}
      OBVIOUS
    <3>2. Min({total, workers + 1}) = IF total <= workers + 1 THEN total ELSE workers + 1
      BY <3>1, MinOfTwo
    <3> QED
      BY <3>1, <3>2 DEF TaskCount
  <2>6. TasksCover(result, TaskCount(total, workers))
    BY <2>3, <2>5, TasksCoverAlways
  <2> QED
    BY <2>4, <2>6
<1>2. TasksCoverRows
  BY <1>1 DEF TasksCoverRows
<1> QED
  BY <1>2, PTL
=============================================================================
