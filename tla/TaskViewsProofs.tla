--------------------------- MODULE TaskViewsProofs ---------------------------
(***************************************************************************)
(* A job's tasks go over the matched rows of whatever its filter found,    *)
(* once each and in order (TasksCoverAlways), for any archetypes, chunk    *)
(* sizes, matches, number of tasks and place where the storage changes     *)
(* buffers.                                                                *)
(*                                                                         *)
(* The argument follows the code from the filter to the arrays.  The       *)
(* blocks filterArchetype makes cover the matched chunks and no others     *)
(* (BlocksCover), in order and made of whole chunks (BlocksOfChunks).      *)
(* Their sizes add up to running sums, which number the matched rows: the  *)
(* row of number g is found by the archetype and the block whose sums      *)
(* enclose g (CellOf), and has no other number (MatchedOnce).  Of each     *)
(* loop of the splitting an invariant says where in that numbering it is,  *)
(* and a number that falls with each pass that enough passes are made      *)
(* (LoopStays): Locate finds the block of an entity (LocateIs), Arrays     *)
(* goes on from there (ArraysTile), Advance and Parts go over the          *)
(* archetypes (AdvanceIs, PartsAre).  So what a task visits are the        *)
(* matched rows from its first number to its last (TaskRowsAre), and as    *)
(* the tasks' shares add up to the total (SharesAre), one task begins      *)
(* where the one before ends (TasksAre).                                   *)
(*                                                                         *)
(* Recursive functions are first shown to exist (Recursion); what they are *)
(* at n follows from 0 and the step to n (Upto).                           *)
(***************************************************************************)
EXTENDS TaskViews, TLAPS, SequenceTheorems, WellFoundedInduction

-----------------------------------------------------------------------------
(* Numbers and recursions.                                                 *)

(* Pairs of numbers in order.                                              *)
LessPairs == {p \in Nat \X Nat : p[1] < p[2]}

(* A pair with a name, so that provers need not look into it.              *)
LEMMA PairIs ==
  ASSUME NEW a, NEW b
  PROVE  \E x : x = <<a, b>> /\ x[1] = a /\ x[2] = b
<1>1. \A x : x = <<a, b>> => x[1] = a /\ x[2] = b
  OBVIOUS
<1>2. \E x : x = <<a, b>>
  OBVIOUS
<1> QED
  BY <1>1, <1>2

(* A nonempty set of numbers has a least element.                          *)
LEMMA LeastNat ==
  ASSUME NEW T, T \subseteq Nat, T # {}
  PROVE  \E x \in T : \A y \in T : x <= y
<1>1. IsWellFoundedOn(LessPairs, Nat)
  BY ONLY NatLessThanWellFounded, Zenon DEF OpToRel, LessPairs
<1>2. PICK x \in T : \A y \in T : ~ (<<y, x>> \in LessPairs)
  BY <1>1, WFMin, Zenon
<1>3. ASSUME NEW y \in T PROVE x <= y
  <2>1. ~(<<y, x>> \in LessPairs)
    BY <1>2
  <2>2. x \in Nat /\ y \in Nat
    OBVIOUS
  <2> QED
    BY <2>1, <2>2 DEF LessPairs
<1> QED
  BY <1>3

(* What holds of 0 and goes on from each number to the next holds up to n. *)
LEMMA Upto ==
  ASSUME NEW n \in Nat, NEW T, 0 \in T, \A i \in 1..n : i - 1 \in T => i \in T
  PROVE  0..n \subseteq T
<1> SUFFICES ASSUME NEW j \in 0..n, j \notin T PROVE FALSE
  OBVIOUS
<1> DEFINE U == {i \in 0..n : i \notin T}
<1>1. PICK x \in U : \A y \in U : x <= y
  <2>1. U \subseteq Nat /\ U # {}
    OBVIOUS
  <2> QED
    BY <2>1, LeastNat
<1>2. x \in 1..n
  OBVIOUS
<1>3. x - 1 \in 0..n /\ x - 1 \notin U
  BY <1>1, <1>2
<1> QED
  BY <1>2, <1>3

(* g is what a recursion by F from base goes through in k steps.            *)
Solves(g, k, base, F) == g = [i \in 0..k |-> IF i = 0 THEN base ELSE F[<<i, g[i - 1]>>]]

(* A recursion that stays in a set has a solution.                         *)
LEMMA Recursion ==
  ASSUME NEW n \in Nat, NEW S, NEW base \in S, NEW F \in [(1..n) \X S -> S]
  PROVE  \E g \in [0..n -> S] : Solves(g, n, base, F)
<1> DEFINE T == {k \in 0..n : \E g \in [0..k -> S] : Solves(g, k, base, F)}
<1>1. 0 \in T
  <2>1. PICK g : g = [i \in 0..0 |-> base]
    OBVIOUS
  <2>2. g = [i \in 0..0 |-> IF i = 0 THEN base ELSE F[<<i, g[i - 1]>>]]
    BY <2>1
  <2>3. g \in [0..0 -> S]
    BY <2>1
  <2> QED
    BY <2>2, <2>3 DEF Solves
<1>2. ASSUME NEW k \in 1..n, k - 1 \in T PROVE k \in T
  <2>1. PICK g \in [0..(k - 1) -> S] : Solves(g, k - 1, base, F)
    BY <1>2
  <2>2. PICK h : h = [i \in 0..k |-> IF i = 0 THEN base ELSE F[<<i, g[i - 1]>>]]
    OBVIOUS
  <2>a. g = [i \in 0..(k - 1) |-> IF i = 0 THEN base ELSE F[<<i, g[i - 1]>>]]
    BY <2>1 DEF Solves
  <2>3. \A i \in 0..(k - 1) : h[i] = g[i]
    BY <2>2, <2>a
  <2>4. \A i \in 1..k : i - 1 \in 0..(k - 1)
    OBVIOUS
  <2>5. \A i \in 1..k : h[i - 1] = g[i - 1]
    BY <2>3, <2>4
  <2>6. h = [i \in 0..k |-> IF i = 0 THEN base ELSE F[<<i, h[i - 1]>>]]
    <3>1. \A i \in 0..k : (IF i = 0 THEN base ELSE F[<<i, g[i - 1]>>])
                        = (IF i = 0 THEN base ELSE F[<<i, h[i - 1]>>])
      BY <2>5
    <3> QED
      BY <2>2, <3>1, Zenon
  <2>7. h \in [0..k -> S]
    <3>1. \A i \in 1..k : g[i - 1] \in S
      BY <2>1, <2>4
    <3>2. \A i \in 1..k : <<i, g[i - 1]>> \in (1..n) \X S
      BY <3>1
    <3>3. \A i \in 1..k : F[<<i, g[i - 1]>>] \in S
      BY <3>2
    <3>4. \A i \in 0..k : i = 0 \/ i \in 1..k
      OBVIOUS
    <3> QED
      BY <2>2, <3>3, <3>4
  <2>8. Solves(h, k, base, F)
    BY <2>6, Zenon DEF Solves
  <2> QED
    BY <2>7, <2>8
<1>3. n \in T
  <2>1. 0..n \subseteq T
    <3> HIDE DEF T
    <3> QED
      BY <1>1, <1>2, Upto
  <2> QED
    BY <2>1
<1> QED
  BY <1>3

(* Division of a row by the size of a chunk.                               *)
LEMMA DivMono ==
  ASSUME NEW c \in Nat \ {0}, NEW a \in Nat, NEW b \in Nat, a <= b
  PROVE  a \div c <= b \div c
OBVIOUS

(* The chunk of a row: its number, and the rows it holds.                  *)
LEMMA DivFacts ==
  ASSUME NEW c \in Nat \ {0}, NEW a \in Nat
  PROVE  a \div c \in Nat /\ (a \div c) * c <= a /\ a < (a \div c) * c + c /\ a \div c <= a
OBVIOUS

(* The first row of a chunk is in that chunk.                              *)
LEMMA DivMul ==
  ASSUME NEW c \in Nat \ {0}, NEW a \in Nat
  PROVE  (a * c) \div c = a
OBVIOUS

(* The chunks up to that of a row begin no later than the row.             *)
LEMMA DivUpto ==
  ASSUME NEW c \in Nat \ {0}, NEW a \in Nat, NEW k \in Nat, k <= a \div c
  PROVE  k * c <= a
OBVIOUS

(* The blocks after each number of chunks.                                 *)
BlocksBy(b, n, match, size, cs) ==
    /\ b[0] = <<>>
    /\ \A k \in 1..n : \E e \in Int :
          /\ e = IF k * cs < size THEN k * cs ELSE size
          /\ ~match[k - 1] => b[k] = b[k - 1]
          /\ match[k - 1] /\ k > 1 /\ match[k - 2]
                => b[k] = [b[k - 1] EXCEPT ![Len(b[k - 1])] = <<b[k - 1][Len(b[k - 1])][1], e>>]
          /\ match[k - 1] /\ ~(k > 1 /\ match[k - 2])
                => b[k] = Append(b[k - 1], <<(k - 1) * cs, e>>)

(* Blocks has the values its recursion names, step by step: the scan of    *)
(* the chunks that filterArchetype makes.                                  *)
LEMMA BlocksAre ==
  ASSUME NEW size \in Nat, NEW cs \in Nat \ {0}, NEW match,
         NEW n \in Nat, n = (size - 1) \div cs + 1
  PROVE  \E b : Blocks(match, size, cs) = b[n] /\ BlocksBy(b, n, match, size, cs)
<1> DEFINE S == Seq(Int \X Int)
           end(k) == IF k * cs < size THEN k * cs ELSE size
           Step(k, before) ==
              IF ~match[k - 1] THEN before
              ELSE IF k > 1 /\ match[k - 2]
              THEN [before EXCEPT ![Len(before)] = <<before[Len(before)][1], end(k)>>]
              ELSE Append(before, <<(k - 1) * cs, end(k)>>)
           F == [p \in (1..n) \X S |-> Step(p[1], p[2])]
<1>1. F \in [(1..n) \X S -> S]
  <2> SUFFICES ASSUME NEW k \in 1..n, NEW s \in S PROVE Step(k, s) \in S
    OBVIOUS
  <2>1. end(k) \in Int /\ (k - 1) * cs \in Int
    OBVIOUS
  <2> HIDE DEF end
  <2>2. Append(s, <<(k - 1) * cs, end(k)>>) \in S
    BY <2>1
  <2>3. CASE s = <<>>
    <3>1. ~(Len(s) \in DOMAIN s)
      BY <2>3
    <3>2. [s EXCEPT ![Len(s)] = <<s[Len(s)][1], end(k)>>] = s
      BY <3>1
    <3> QED
      BY <2>2, <3>2
  <2>4. CASE s # <<>>
    <3>1. Len(s) \in 1..Len(s) /\ s[Len(s)] \in Int \X Int
      BY <2>4
    <3>2. [s EXCEPT ![Len(s)] = <<s[Len(s)][1], end(k)>>] \in S
      BY <2>1, <3>1
    <3> QED
      BY <2>2, <3>2
  <2> QED
    BY <2>3, <2>4
<1>2. PICK g \in [0..n -> S] : Solves(g, n, <<>>, F)
  <2>1. <<>> \in S
    OBVIOUS
  <2> HIDE DEF S, F
  <2> QED
    BY <1>1, <2>1, Recursion
<1>3. g = [k \in 0..n |-> IF k = 0 THEN <<>> ELSE Step(k, g[k - 1])]
  <2>1. \A k \in 1..n : g[k - 1] \in S
    OBVIOUS
  <2>2. \A k \in 1..n : F[<<k, g[k - 1]>>] = Step(k, g[k - 1])
    <3> HIDE DEF Step, S
    <3> QED
      BY <2>1
  <2>3. \A k \in 0..n : k # 0 => k \in 1..n
    OBVIOUS
  <2> HIDE DEF F, Step
  <2>4. g = [k \in 0..n |-> IF k = 0 THEN <<>> ELSE F[<<k, g[k - 1]>>]]
    BY <1>2, Zenon DEF Solves
  <2>5. \A k \in 0..n : (IF k = 0 THEN <<>> ELSE F[<<k, g[k - 1]>>])
                      = (IF k = 0 THEN <<>> ELSE Step(k, g[k - 1]))
    BY <2>2, <2>3
  <2> QED
    BY <2>4, <2>5, Zenon
<1> DEFINE blocks[k \in 0..n] == IF k = 0 THEN <<>> ELSE Step(k, blocks[k - 1])
<1>4. blocks = [k \in 0..n |-> IF k = 0 THEN <<>> ELSE Step(k, blocks[k - 1])]
  <2>1. \E b : b = [k \in 0..n |-> IF k = 0 THEN <<>> ELSE Step(k, b[k - 1])]
    BY <1>3, Zenon
  <2> HIDE DEF Step
  <2> QED
    BY <2>1, Zenon
<1>5. Blocks(match, size, cs) = blocks[n]
  BY Zenon DEF Blocks
<1>6. blocks[0] = <<>>
  <2>1. 0 \in 0..n
    OBVIOUS
  <2> HIDE DEF Step, blocks
  <2> QED
    BY <1>4, <2>1
<1>7. ASSUME NEW k \in 1..n PROVE blocks[k] = Step(k, blocks[k - 1])
  <2> HIDE DEF Step, blocks
  <2> QED
    BY <1>4
<1>8. \A k \in 1..n : end(k) \in Int
  OBVIOUS
<1>9. BlocksBy(blocks, n, match, size, cs)
  <2> HIDE DEF blocks
  <2> QED
    BY <1>6, <1>7, <1>8 DEF BlocksBy
<1> HIDE DEF blocks
<1> QED
  BY <1>5, <1>9

(* What the blocks after k chunks say of those chunks; at[m] is the first  *)
(* row of chunk m, end[k] the row after k chunks.                          *)
Covers(b, k, match, at, end) ==
    /\ b \in Seq(Int \X Int)
    /\ \A i \in 1..Len(b) : b[i][1] < b[i][2]
    /\ \A m \in 0..(k - 1) : match[m] =>
          \E i \in 1..Len(b) : b[i][1] <= at[m] /\ at[m] < b[i][2]
    /\ (\A m \in 0..(k - 1) : ~match[m]) => b = <<>>
    /\ k > 0 /\ match[k - 1] => Len(b) > 0 /\ b[Len(b)][2] = end[k]

(* One more chunk: what covered the matched chunks before it covers it     *)
(* too.                                                                    *)
LEMMA CoversNext ==
  ASSUME NEW n \in Nat, NEW match, NEW at \in [0..n -> Int], NEW end \in [0..n -> Int],
         NEW k \in 1..n, at[k - 1] < end[k], k > 1 => end[k - 1] = at[k - 1],
         NEW b, Covers(b, k - 1, match, at, end), NEW d,
         ~match[k - 1] => d = b,
         match[k - 1] /\ k > 1 /\ match[k - 2]
            => d = [b EXCEPT ![Len(b)] = <<b[Len(b)][1], end[k]>>],
         match[k - 1] /\ ~(k > 1 /\ match[k - 2]) => d = Append(b, <<at[k - 1], end[k]>>)
  PROVE  Covers(d, k, match, at, end)
<1>0. b \in Seq(Int \X Int)
  BY DEF Covers
<1> PICK l \in Nat : l = Len(b) /\ DOMAIN b = 1..l
  BY ONLY <1>0
<1>d. DOMAIN b = 1..l
  OBVIOUS
<1>1. /\ b \in Seq(Int \X Int)
      /\ \A i \in 1..l : b[i] \in Int \X Int
      /\ \A i \in 1..l : b[i][1] < b[i][2]
      /\ \A m \in 0..(k - 2) : match[m] =>
            \E i \in 1..l : b[i][1] <= at[m] /\ at[m] < b[i][2]
      /\ (\A m \in 0..(k - 2) : ~match[m]) => b = <<>>
      /\ k > 1 /\ match[k - 2] => l > 0 /\ b[l][2] = end[k - 1]
  <2>1. k - 1 - 1 = k - 2 /\ (k - 1 > 0 <=> k > 1)
    OBVIOUS
  <2> QED
    BY <2>1 DEF Covers
<1>2. \A m \in 0..(k - 1) : m \in 0..(k - 2) \/ m = k - 1
  OBVIOUS
<1>3. k - 1 \in 0..n /\ at[k - 1] \in Int /\ end[k] \in Int
  OBVIOUS
<1>4. CASE ~match[k - 1]
  <2>1. d = b
    BY <1>4
  <2>2. \A m \in 0..(k - 1) : match[m] =>
            \E i \in 1..Len(d) : d[i][1] <= at[m] /\ at[m] < d[i][2]
    BY <1>1, <1>2, <1>4, <2>1
  <2>3. (\A m \in 0..(k - 1) : ~match[m]) => d = <<>>
    <3>1. 0..(k - 2) \subseteq 0..(k - 1)
      OBVIOUS
    <3> QED
      BY <1>1, <2>1, <3>1
  <2> QED
    BY <1>1, <1>4, <2>1, <2>2, <2>3 DEF Covers
<1>5. CASE match[k - 1] /\ k > 1 /\ match[k - 2]
  <2>1. d = [b EXCEPT ![l] = <<b[l][1], end[k]>>]
    BY <1>5
  <2>2. l \in 1..l /\ b[l] \in Int \X Int /\ b[l][1] < b[l][2] /\ b[l][2] = at[k - 1]
    BY <1>1, <1>5
  <2>3. d \in Seq(Int \X Int) /\ Len(d) = l
    BY <1>1, <1>3, <2>1, <2>2
  <2>4. d[l] = <<b[l][1], end[k]>> /\ \A i \in 1..l : i # l => d[i] = b[i]
    BY <1>d, <2>1, <2>2
  <2>5. d[l][1] = b[l][1] /\ d[l][2] = end[k] /\ b[l][1] \in Int
    BY <2>2, <2>4
  <2>6. \A i \in 1..l : d[i][1] < d[i][2]
    <3> TAKE i \in 1..l
    <3>1. CASE i = l
      BY <1>3, <2>2, <2>5, <3>1
    <3>2. CASE i # l
      BY <1>1, <2>4, <3>2
    <3> QED
      BY <3>1, <3>2
  <2>7. ASSUME NEW m \in 0..(k - 1), match[m]
        PROVE  \E i \in 1..l : d[i][1] <= at[m] /\ at[m] < d[i][2]
    <3>1. CASE m = k - 1
      <4>1. d[l][1] <= at[m] /\ at[m] < d[l][2]
        BY <1>3, <2>2, <2>5, <3>1
      <4> QED
        BY <2>2, <4>1
    <3>2. CASE m # k - 1
      <4>1. PICK i \in 1..l : b[i][1] <= at[m] /\ at[m] < b[i][2]
        BY <1>1, <1>2, <2>7, <3>2
      <4>2. CASE i = l
        <5>1. m \in 0..n /\ at[m] \in Int
          OBVIOUS
        <5>2. d[l][1] <= at[m] /\ at[m] < d[l][2]
          BY <1>3, <2>2, <2>5, <4>1, <4>2, <5>1
        <5> QED
          BY <2>2, <5>2
      <4>3. CASE i # l
        BY <2>4, <4>1, <4>3
      <4> QED
        BY <4>2, <4>3
    <3> QED
      BY <3>1, <3>2
  <2>8. ~ \A m \in 0..(k - 1) : ~match[m]
    BY <1>5
  <2>9. Len(d) > 0 /\ d[Len(d)][2] = end[k]
    BY <2>2, <2>3, <2>5
  <2> QED
    BY <2>3, <2>6, <2>7, <2>8, <2>9 DEF Covers
<1>6. CASE match[k - 1] /\ ~(k > 1 /\ match[k - 2])
  <2>1. d = Append(b, <<at[k - 1], end[k]>>)
    BY <1>6
  <2>2. d \in Seq(Int \X Int) /\ Len(d) = l + 1
    BY <1>1, <1>3, <2>1
  <2>3. d[l + 1] = <<at[k - 1], end[k]>> /\ \A i \in 1..l : d[i] = b[i]
    <3>1. PICK x \in Int \X Int : x = <<at[k - 1], end[k]>>
      BY <1>3
    <3>2. d = Append(b, x)
      BY <2>1, <3>1
    <3>3. d[l + 1] = x /\ \A i \in 1..l : d[i] = b[i]
      BY <1>0, <3>2
    <3> QED
      BY <3>1, <3>3
  <2>4. d[l + 1][1] = at[k - 1] /\ d[l + 1][2] = end[k] /\ l + 1 \in 1..(l + 1)
    BY <2>3
  <2>5. \A i \in 1..(l + 1) : d[i][1] < d[i][2]
    <3> TAKE i \in 1..(l + 1)
    <3>1. CASE i = l + 1
      BY <2>4, <3>1
    <3>2. CASE i # l + 1
      <4>1. i \in 1..l
        BY <3>2
      <4> QED
        BY <1>1, <2>3, <4>1
    <3> QED
      BY <3>1, <3>2
  <2>6. ASSUME NEW m \in 0..(k - 1), match[m]
        PROVE  \E i \in 1..(l + 1) : d[i][1] <= at[m] /\ at[m] < d[i][2]
    <3>1. CASE m = k - 1
      <4>1. d[l + 1][1] <= at[m] /\ at[m] < d[l + 1][2]
        BY <1>3, <2>4, <3>1
      <4> QED
        BY <2>4, <4>1
    <3>2. CASE m # k - 1
      <4>1. PICK i \in 1..l : b[i][1] <= at[m] /\ at[m] < b[i][2]
        BY <1>1, <1>2, <2>6, <3>2
      <4>2. i \in 1..(l + 1) /\ d[i] = b[i]
        BY <2>3
      <4> QED
        BY <4>1, <4>2
    <3> QED
      BY <3>1, <3>2
  <2>7. ~ \A m \in 0..(k - 1) : ~match[m]
    BY <1>6
  <2>8. Len(d) > 0 /\ d[Len(d)][2] = end[k]
    BY <2>2, <2>4
  <2> QED
    BY <2>2, <2>5, <2>6, <2>7, <2>8 DEF Covers
<1> QED
  BY <1>4, <1>5, <1>6

(* The same scan in terms of the rows where chunks begin and end.          *)
BlocksSteps(b, n, match, at, end) ==
    \A k \in 1..n :
        /\ at[k - 1] < end[k] /\ (k > 1 => end[k - 1] = at[k - 1])
        /\ ~match[k - 1] => b[k] = b[k - 1]
        /\ match[k - 1] /\ k > 1 /\ match[k - 2]
             => b[k] = [b[k - 1] EXCEPT ![Len(b[k - 1])] = <<b[k - 1][Len(b[k - 1])][1], end[k]>>]
        /\ match[k - 1] /\ ~(k > 1 /\ match[k - 2])
             => b[k] = Append(b[k - 1], <<at[k - 1], end[k]>>)

(* The scan over the chunks makes those steps.                             *)
LEMMA StepsOfBlocks ==
  ASSUME NEW size \in Nat, NEW cs \in Nat \ {0}, NEW match,
         NEW n \in Nat, n = (size - 1) \div cs + 1, NEW b, BlocksBy(b, n, match, size, cs),
         NEW at, at = [m \in 0..n |-> m * cs],
         NEW end, end = [k \in 0..n |-> IF k * cs < size THEN k * cs ELSE size]
  PROVE  BlocksSteps(b, n, match, at, end)
<1>1. ASSUME NEW k \in 1..n
      PROVE  at[k - 1] < end[k] /\ (k > 1 => end[k - 1] = at[k - 1])
  <2>1. PICK p \in Nat : p = k - 1
    OBVIOUS
  <2>2. p * cs \in Int /\ p * cs < size
    <3>1. size > 0
      OBVIOUS
    <3>2. p <= (size - 1) \div cs /\ size - 1 \in Nat
      BY <2>1, <3>1
    <3>3. p * cs <= size - 1
      BY <3>2, DivUpto
    <3> QED
      BY <3>3
  <2>3. k * cs = p * cs + cs
    BY <2>1
  <2>4. p \in 0..n /\ at[p] = p * cs /\ end[p] = p * cs
    BY <2>1, <2>2
  <2>5. end[k] = IF k * cs < size THEN k * cs ELSE size
    OBVIOUS
  <2> QED
    BY <2>1, <2>2, <2>3, <2>4, <2>5
<1>2. ASSUME NEW k \in 1..n
      PROVE  /\ ~match[k - 1] => b[k] = b[k - 1]
             /\ match[k - 1] /\ k > 1 /\ match[k - 2]
                  => b[k] = [b[k - 1] EXCEPT ![Len(b[k - 1])] = <<b[k - 1][Len(b[k - 1])][1], end[k]>>]
             /\ match[k - 1] /\ ~(k > 1 /\ match[k - 2])
                  => b[k] = Append(b[k - 1], <<at[k - 1], end[k]>>)
  <2>1. k - 1 \in 0..n /\ k \in 0..n
    OBVIOUS
  <2>2. at[k - 1] = (k - 1) * cs
    BY <2>1
  <2>3. end[k] = IF k * cs < size THEN k * cs ELSE size
    BY <2>1
  <2>4. PICK e \in Int :
          /\ e = IF k * cs < size THEN k * cs ELSE size
          /\ ~match[k - 1] => b[k] = b[k - 1]
          /\ match[k - 1] /\ k > 1 /\ match[k - 2]
                => b[k] = [b[k - 1] EXCEPT ![Len(b[k - 1])] = <<b[k - 1][Len(b[k - 1])][1], e>>]
          /\ match[k - 1] /\ ~(k > 1 /\ match[k - 2])
                => b[k] = Append(b[k - 1], <<(k - 1) * cs, e>>)
    BY DEF BlocksBy
  <2>5. e = end[k]
    BY <2>3, <2>4
  <2> QED
    BY <2>2, <2>4, <2>5, Zenon
<1> QED
  BY <1>1, <1>2, Zenon DEF BlocksSteps

(* The blocks of an archetype hold the first row of every matched chunk,   *)
(* none is empty, and there is none without a matched chunk.               *)
LEMMA BlocksCover ==
  ASSUME NEW size \in Nat, NEW cs \in Nat \ {0}, NEW match,
         NEW n \in Nat, n = (size - 1) \div cs + 1
  PROVE  Covers(Blocks(match, size, cs), n, match, [m \in 0..n |-> m * cs],
                [k \in 0..n |-> IF k * cs < size THEN k * cs ELSE size])
<1>1. PICK b : Blocks(match, size, cs) = b[n] /\ BlocksBy(b, n, match, size, cs)
  BY BlocksAre
<1>2. PICK at : at = [m \in 0..n |-> m * cs]
  OBVIOUS
<1>3. PICK end : end = [k \in 0..n |-> IF k * cs < size THEN k * cs ELSE size]
  OBVIOUS
<1>4. at \in [0..n -> Int] /\ end \in [0..n -> Int]
  BY <1>2, <1>3
<1>5. BlocksSteps(b, n, match, at, end)
  BY <1>1, <1>2, <1>3, StepsOfBlocks
<1>6. ASSUME NEW k \in 1..n
      PROVE  /\ at[k - 1] < end[k] /\ (k > 1 => end[k - 1] = at[k - 1])
             /\ ~match[k - 1] => b[k] = b[k - 1]
             /\ match[k - 1] /\ k > 1 /\ match[k - 2]
                  => b[k] = [b[k - 1] EXCEPT ![Len(b[k - 1])] = <<b[k - 1][Len(b[k - 1])][1], end[k]>>]
             /\ match[k - 1] /\ ~(k > 1 /\ match[k - 2])
                  => b[k] = Append(b[k - 1], <<at[k - 1], end[k]>>)
  BY <1>5 DEF BlocksSteps
<1> DEFINE T == {k \in 0..n : Covers(b[k], k, match, at, end)}
<1>7. 0 \in T
  <2>1. <<>> \in Seq(Int \X Int) /\ Len(<<>>) = 0
    OBVIOUS
  <2>2. \A m \in 0..(0 - 1) : FALSE
    OBVIOUS
  <2>3. Covers(<<>>, 0, match, at, end)
    BY <2>1, <2>2 DEF Covers
  <2> QED
    BY <1>1, <2>3 DEF BlocksBy
<1>8. ASSUME NEW k \in 1..n, k - 1 \in T PROVE k \in T
  <2>1. Covers(b[k - 1], k - 1, match, at, end)
    BY <1>8
  <2>2. Covers(b[k], k, match, at, end)
    BY <1>4, <1>6, <2>1, CoversNext
  <2> QED
    BY <2>2
<1>9. 0..n \subseteq T
  <2> HIDE DEF T
  <2> QED
    BY <1>7, <1>8, Upto
<1>10. Covers(b[n], n, match, at, end)
  BY <1>9
<1> QED
  BY <1>1, <1>2, <1>3, <1>10, Zenon

(* The blocks after k chunks: in order, each from the first row of a chunk *)
(* to the end of one, the last one not past the chunks seen.               *)
Ordered(b, k, at, end) ==
    /\ b \in Seq(Nat \X Nat)
    /\ \A i \in 1..Len(b) : /\ \E m \in 0..(k - 1) : b[i][1] = at[m]
                            /\ \E m \in 1..k : b[i][2] = end[m]
                            /\ b[i][2] <= end[k]
    /\ \A i, j \in 1..Len(b) : i < j => b[i][2] <= b[j][1]

(* A step keeps blocks in order and within the chunks so far.              *)
LEMMA OrderedNext ==
  ASSUME NEW n \in Nat, NEW match, NEW at \in [0..n -> Nat], NEW end \in [0..n -> Nat],
         NEW k \in 1..n, at[k - 1] < end[k], k > 1 => end[k - 1] = at[k - 1],
         NEW b, Ordered(b, k - 1, at, end), Covers(b, k - 1, match, at, end), NEW d,
         ~match[k - 1] => d = b,
         match[k - 1] /\ k > 1 /\ match[k - 2]
            => d = [b EXCEPT ![Len(b)] = <<b[Len(b)][1], end[k]>>],
         match[k - 1] /\ ~(k > 1 /\ match[k - 2]) => d = Append(b, <<at[k - 1], end[k]>>)
  PROVE  Ordered(d, k, at, end)
<1>0. b \in Seq(Nat \X Nat)
  BY DEF Ordered
<1> PICK l \in Nat : l = Len(b) /\ DOMAIN b = 1..l
  BY ONLY <1>0
<1> DEFINE Good(u, m) == /\ \E o \in 0..(m - 1) : u[1] = at[o]
                         /\ \E o \in 1..m : u[2] = end[o]
                         /\ u[2] <= end[m]
<1>1. /\ \A i \in 1..l : b[i] \in Nat \X Nat /\ b[i][1] \in Nat /\ b[i][2] \in Nat
      /\ \A i \in 1..l : Good(b[i], k - 1)
      /\ \A i, j \in 1..l : i < j => b[i][2] <= b[j][1]
  <2>1. \A i \in 1..l : b[i] \in Nat \X Nat
    BY ONLY <1>0, l = Len(b), l \in Nat
  <2>2. \A i \in 1..l : b[i][1] \in Nat /\ b[i][2] \in Nat
    BY ONLY <2>1
  <2> QED
    BY <2>1, <2>2 DEF Ordered
<1>2. PICK x, y \in Nat : x = at[k - 1] /\ y = end[k] /\ x < y
  <2>1. k - 1 \in 0..n /\ k \in 0..n
    OBVIOUS
  <2> QED
    BY <2>1
<1>3. ASSUME NEW i \in 1..l PROVE b[i][2] <= x
  <2>1. k > 1
    <3>1. PICK m \in 0..((k - 1) - 1) : b[i][1] = at[m]
      BY <1>1
    <3> QED
      BY <3>1
  <2> QED
    BY <1>1, <1>2, <2>1
<1>4. ASSUME NEW u, Good(u, k - 1), u[2] \in Nat, u[2] <= x PROVE Good(u, k)
  <2>1. PICK m \in 0..((k - 1) - 1) : u[1] = at[m]
    BY <1>4
  <2>2. PICK o \in 1..(k - 1) : u[2] = end[o]
    BY <1>4
  <2>3. m \in 0..(k - 1) /\ o \in 1..k
    OBVIOUS
  <2>4. u[2] <= end[k]
    BY ONLY <1>2, <1>4, x \in Nat, y \in Nat
  <2> QED
    BY <2>1, <2>2, <2>3, <2>4
<1>5. \A i \in 1..l : Good(b[i], k)
  <2> HIDE DEF Good
  <2> QED
    BY <1>1, <1>3, <1>4
<1>6. ASSUME NEW u, u[1] = x \/ (\E i \in 1..l : u[1] = b[i][1]), u[2] = y PROVE Good(u, k)
  <2>1. \E o \in 0..(k - 1) : u[1] = at[o]
    <3>1. CASE u[1] = x
      <4>1. k - 1 \in 0..(k - 1)
        OBVIOUS
      <4> QED
        BY <1>2, <3>1, <4>1
    <3>2. CASE \E i \in 1..l : u[1] = b[i][1]
      BY <1>5, <3>2
    <3> QED
      BY <1>6, <3>1, <3>2
  <2>2. k \in 1..k /\ y <= y
    OBVIOUS
  <2> QED
    BY <1>2, <1>6, <2>1, <2>2
<1>o. ASSUME NEW m \in Nat, d \in Seq(Nat \X Nat), Len(d) = m, \A i \in 1..m : Good(d[i], k),
             \A i, j \in 1..m : i < j => d[i][2] <= d[j][1]
      PROVE  Ordered(d, k, at, end)
  BY <1>o DEF Ordered
<1> HIDE DEF Good
<1>7. CASE ~match[k - 1]
  <2>1. d = b
    BY <1>7
  <2> QED
    BY <1>0, <1>1, <1>5, <1>o, <2>1
<1>8. CASE match[k - 1] /\ k > 1 /\ match[k - 2]
  <2>1. d = [b EXCEPT ![l] = <<b[l][1], y>>]
    BY <1>2, <1>8
  <2>2. l \in 1..l
    <3>1. k - 1 > 0 /\ (k - 1) - 1 = k - 2
      BY <1>8
    <3>2. Len(b) > 0
      BY <1>8, <3>1 DEF Covers
    <3> QED
      BY <3>2
  <2>3. PICK z : z = <<b[l][1], y>> /\ z \in Nat \X Nat /\ z[1] = b[l][1] /\ z[2] = y
    <3>1. PICK v \in Nat : v = b[l][1]
      BY <1>1, <2>2
    <3>2. PICK z : z = <<v, y>>
      OBVIOUS
    <3>3. z \in Nat \X Nat /\ z[1] = v /\ z[2] = y
      BY ONLY <3>2, v \in Nat, y \in Nat
    <3> QED
      BY <3>1, <3>2, <3>3
  <2>4. d = [b EXCEPT ![l] = z]
    BY <2>1, <2>3
  <2>5. d \in Seq(Nat \X Nat) /\ Len(d) = l
    BY ONLY <1>0, <2>2, <2>3, <2>4, l = Len(b), l \in Nat
  <2>6. d[l] = z /\ \A i \in 1..l : i # l => d[i] = b[i]
    BY ONLY <2>2, <2>4, DOMAIN b = 1..l
  <2>7. ASSUME NEW i \in 1..l PROVE Good(d[i], k) /\ d[i][1] = b[i][1]
    <3>1. CASE i = l
      BY <1>6, <2>2, <2>3, <2>6, <3>1
    <3>2. CASE i # l
      BY <1>5, <2>6, <3>2
    <3> QED
      BY <3>1, <3>2
  <2>8. ASSUME NEW i \in 1..l, NEW j \in 1..l, i < j PROVE d[i][2] <= d[j][1]
    <3>1. i # l
      BY <2>8
    <3>2. d[i][2] = b[i][2] /\ d[j][1] = b[j][1]
      BY <2>6, <2>7, <3>1
    <3> QED
      BY <1>1, <2>8, <3>2
  <2> QED
    BY <1>o, <2>5, <2>7, <2>8
<1>9. CASE match[k - 1] /\ ~(k > 1 /\ match[k - 2])
  <2>1. PICK z : z = <<x, y>> /\ z \in Nat \X Nat /\ z[1] = x /\ z[2] = y
    <3>1. PICK z : z = <<x, y>>
      OBVIOUS
    <3>2. z \in Nat \X Nat /\ z[1] = x /\ z[2] = y
      BY ONLY <3>1, x \in Nat, y \in Nat
    <3> QED
      BY <3>1, <3>2
  <2>2. d = Append(b, z)
    BY <1>2, <1>9, <2>1
  <2>3. d \in Seq(Nat \X Nat) /\ Len(d) = l + 1 /\ d[l + 1] = z /\ \A i \in 1..l : d[i] = b[i]
    BY ONLY <1>0, <2>1, <2>2, AppendProperties, l = Len(b), l \in Nat
  <2>4. \A i \in 1..(l + 1) : i \in 1..l \/ i = l + 1
    OBVIOUS
  <2>5. ASSUME NEW i \in 1..(l + 1) PROVE Good(d[i], k)
    <3>1. CASE i = l + 1
      BY <1>6, <2>1, <2>3, <3>1
    <3>2. CASE i \in 1..l
      BY <1>5, <2>3, <3>2
    <3> QED
      BY <2>4, <3>1, <3>2
  <2>6. ASSUME NEW i \in 1..(l + 1), NEW j \in 1..(l + 1), i < j PROVE d[i][2] <= d[j][1]
    <3>1. i \in 1..l
      BY <2>6
    <3>2. CASE j = l + 1
      <4>1. d[i][2] = b[i][2] /\ d[j][1] = x
        BY <2>1, <2>3, <3>1, <3>2
      <4> QED
        BY <1>3, <3>1, <4>1
    <3>3. CASE j \in 1..l
      <4>1. d[i] = b[i] /\ d[j] = b[j]
        BY <2>3, <3>1, <3>3
      <4> QED
        BY <1>1, <2>6, <3>1, <3>3, <4>1
    <3> QED
      BY <2>4, <3>2, <3>3
  <2>7. l + 1 \in Nat
    OBVIOUS
  <2> QED
    BY <1>o, <2>3, <2>5, <2>6, <2>7
<1> QED
  BY <1>7, <1>8, <1>9

(* Blocks of whole chunks, the last one possibly short.                    *)
OfChunks(fa, cs) ==
    /\ fa.blocks \in Seq(Nat \X Nat)
    /\ \A i \in 1..Len(fa.blocks) :
          /\ fa.blocks[i][1] \in Nat /\ fa.blocks[i][2] \in Nat
          /\ fa.blocks[i][1] < fa.blocks[i][2] /\ fa.blocks[i][2] <= fa.size
          /\ \E m \in Nat : fa.blocks[i][1] = m * cs
          /\ fa.blocks[i][2] = fa.size \/ \E m \in Nat : fa.blocks[i][2] = m * cs
    /\ \A i, j \in 1..Len(fa.blocks) : i < j => fa.blocks[i][2] <= fa.blocks[j][1]

(* The blocks of an archetype are such blocks, in their order.             *)
LEMMA BlocksOfChunks ==
  ASSUME NEW size \in Nat, NEW cs \in Nat \ {0}, NEW match,
         NEW fa, fa.size = size, fa.blocks = Blocks(match, size, cs)
  PROVE  OfChunks(fa, cs)
<1> PICK n \in Nat : n = (size - 1) \div cs + 1
  <2>1. (size - 1) \div cs + 1 \in Nat
    OBVIOUS
  <2> QED
    BY <2>1
<1>1. PICK b : Blocks(match, size, cs) = b[n] /\ BlocksBy(b, n, match, size, cs)
  BY BlocksAre
<1>2. PICK at : at = [m \in 0..n |-> m * cs]
  OBVIOUS
<1>3. PICK end : end = [k \in 0..n |-> IF k * cs < size THEN k * cs ELSE size]
  OBVIOUS
<1>m. \A k \in Nat : k * cs \in Nat
  OBVIOUS
<1>4. at \in [0..n -> Nat] /\ end \in [0..n -> Nat]
  BY <1>2, <1>3, <1>m
<1>5. BlocksSteps(b, n, match, at, end)
  BY <1>1, <1>2, <1>3, StepsOfBlocks
<1> DEFINE T == {k \in 0..n : Ordered(b[k], k, at, end) /\ Covers(b[k], k, match, at, end)}
<1>6. 0 \in T
  <2>1. b[0] = <<>>
    BY <1>1 DEF BlocksBy
  <2>2. <<>> \in Seq(Nat \X Nat) /\ <<>> \in Seq(Int \X Int) /\ Len(<<>>) = 0
    OBVIOUS
  <2>3. 1..0 = {} /\ 0..(0 - 1) = {}
    OBVIOUS
  <2>4. Ordered(<<>>, 0, at, end)
    BY <2>2, <2>3 DEF Ordered
  <2>5. Covers(<<>>, 0, match, at, end)
    BY <2>2, <2>3 DEF Covers
  <2> QED
    BY <2>1, <2>4, <2>5
<1>7. ASSUME NEW k \in 1..n, k - 1 \in T PROVE k \in T
  <2>1. Ordered(b[k - 1], k - 1, at, end) /\ Covers(b[k - 1], k - 1, match, at, end)
    BY <1>7
  <2>2. /\ at[k - 1] < end[k] /\ (k > 1 => end[k - 1] = at[k - 1])
        /\ ~match[k - 1] => b[k] = b[k - 1]
        /\ match[k - 1] /\ k > 1 /\ match[k - 2]
             => b[k] = [b[k - 1] EXCEPT ![Len(b[k - 1])] = <<b[k - 1][Len(b[k - 1])][1], end[k]>>]
        /\ match[k - 1] /\ ~(k > 1 /\ match[k - 2])
             => b[k] = Append(b[k - 1], <<at[k - 1], end[k]>>)
    BY <1>5 DEF BlocksSteps
  <2>3. at \in [0..n -> Int] /\ end \in [0..n -> Int]
    BY <1>4
  <2>4. Covers(b[k], k, match, at, end)
    BY ONLY <2>1, <2>2, <2>3, CoversNext, k \in 1..n, n \in Nat
  <2>5. Ordered(b[k], k, at, end)
    BY ONLY <1>4, <2>1, <2>2, OrderedNext, k \in 1..n, n \in Nat
  <2> QED
    BY <2>4, <2>5
<1>8. 0..n \subseteq T
  <2> HIDE DEF T
  <2> QED
    BY <1>6, <1>7, Upto
<1>9. Ordered(fa.blocks, n, at, end) /\ Covers(fa.blocks, n, match, at, end)
  BY <1>1, <1>8
<1> PICK bs : bs = fa.blocks
  OBVIOUS
<1>10. bs \in Seq(Nat \X Nat)
  BY <1>9 DEF Ordered
<1>11. ASSUME NEW i \in 1..Len(bs)
       PROVE  /\ bs[i][1] \in Nat /\ bs[i][2] \in Nat
              /\ bs[i][1] < bs[i][2] /\ bs[i][2] <= size
              /\ \E m \in Nat : bs[i][1] = m * cs
              /\ bs[i][2] = size \/ \E m \in Nat : bs[i][2] = m * cs
  <2>1. bs[i] \in Nat \X Nat
    BY ONLY <1>10, i \in 1..Len(bs)
  <2>2. bs[i][1] \in Nat /\ bs[i][2] \in Nat
    BY ONLY <2>1
  <2>3. bs[i][1] < bs[i][2]
    BY <1>9 DEF Covers
  <2>4. PICK m \in 0..(n - 1) : bs[i][1] = at[m]
    BY <1>9 DEF Ordered
  <2>5. PICK o \in 1..n : bs[i][2] = end[o]
    BY <1>9 DEF Ordered
  <2>6. m \in Nat /\ bs[i][1] = m * cs
    <3>1. m \in 0..n /\ m \in Nat
      OBVIOUS
    <3> QED
      BY <1>2, <2>4, <3>1
  <2>7. PICK p \in Nat, f \in Nat : f = p * cs /\ bs[i][2] = IF f < size THEN f ELSE size
    <3>1. o \in 0..n /\ o \in Nat
      OBVIOUS
    <3>2. PICK f : f = o * cs
      OBVIOUS
    <3>3. f \in Nat
      BY <1>m, <3>1, <3>2
    <3>4. end[o] = IF f < size THEN f ELSE size
      BY <1>3, <3>1, <3>2
    <3> QED
      BY <2>5, <3>1, <3>2, <3>3, <3>4
  <2>8. bs[i][2] <= size
    BY ONLY <2>7, size \in Nat
  <2>9. bs[i][2] = size \/ \E q \in Nat : bs[i][2] = q * cs
    <3>1. CASE f < size
      BY ONLY <2>7, <3>1
    <3>2. CASE ~(f < size)
      BY ONLY <2>7, <3>2
    <3> QED
      BY <3>1, <3>2
  <2> QED
    BY <2>2, <2>3, <2>6, <2>8, <2>9
<1>12. \A i, j \in 1..Len(bs) : i < j => bs[i][2] <= bs[j][1]
  BY <1>9 DEF Ordered
<1> QED
  BY <1>10, <1>11, <1>12 DEF OfChunks

(* A block holds a row if it holds the first row of the row's chunk.       *)
LEMMA BlockOfRow ==
  ASSUME NEW size \in Nat, NEW cs \in Nat \ {0}, NEW lo \in Nat, NEW hi \in Nat,
         NEW m \in Nat, lo = m * cs, hi = size \/ \E o \in Nat : hi = o * cs,
         NEW r \in Nat, r < size
  PROVE  lo <= r /\ r < hi <=> lo <= (r \div cs) * cs /\ (r \div cs) * cs < hi
<1> PICK q \in Nat : q = r \div cs
  BY DivFacts
<1> PICK f \in Nat : f = q * cs
  OBVIOUS
<1>1. f <= r /\ r < f + cs
  BY DivFacts
<1>2. lo <= r => lo <= f
  <2>1. ASSUME lo <= r PROVE lo <= f
    <3>1. (m * cs) \div cs <= r \div cs
      BY <2>1, DivMono
    <3>2. m <= q
      BY <3>1, DivMul
    <3>3. m <= f \div cs
      BY <3>2, DivMul
    <3> QED
      BY <3>3, DivUpto
  <2> QED
    BY <2>1
<1>3. f < hi => r < hi
  <2>1. ASSUME NEW o \in Nat, hi = o * cs, f < hi, ~(r < hi) PROVE FALSE
    <3>1. hi <= r
      BY <2>1
    <3>2. (o * cs) \div cs <= r \div cs
      BY <2>1, <3>1, DivMono
    <3>3. o <= q
      BY <3>2, DivMul
    <3>4. o <= f \div cs
      BY <3>3, DivMul
    <3>5. o * cs <= f
      BY <3>4, DivUpto
    <3> QED
      BY <2>1, <3>5
  <2> QED
    BY <2>1
<1> QED
  BY <1>1, <1>2, <1>3

-----------------------------------------------------------------------------
(* Sums of positive numbers.                                               *)
IsSum(s, n, f) == s = [i \in 0..n |-> IF i = 0 THEN 0 ELSE s[i - 1] + f[i]]

(* A running sum exists.                                                   *)
LEMMA SumExists ==
  ASSUME NEW n \in Nat, NEW f \in [1..n -> Nat \ {0}]
  PROVE  \E s : IsSum(s, n, f)
<1> DEFINE F == [p \in (1..n) \X Nat |-> p[2] + f[p[1]]]
<1>1. F \in [(1..n) \X Nat -> Nat]
  OBVIOUS
<1>2. PICK s \in [0..n -> Nat] : Solves(s, n, 0, F)
  <2> HIDE DEF F
  <2> QED
    BY <1>1, Recursion
<1>3. s = [i \in 0..n |-> IF i = 0 THEN 0 ELSE F[<<i, s[i - 1]>>]]
  BY <1>2, Zenon DEF Solves
<1>4. \A i \in 1..n : F[<<i, s[i - 1]>>] = s[i - 1] + f[i]
  <2> TAKE i \in 1..n
  <2>1. s[i - 1] \in Nat
    OBVIOUS
  <2> QED
    BY <2>1
<1>5. \A i \in 0..n : (IF i = 0 THEN 0 ELSE F[<<i, s[i - 1]>>])
                    = (IF i = 0 THEN 0 ELSE s[i - 1] + f[i])
  <2> HIDE DEF F
  <2> QED
    BY <1>4
<1> HIDE DEF F
<1>6. IsSum(s, n, f)
  BY <1>3, <1>5, Zenon DEF IsSum
<1> QED
  BY <1>6

(* A sum of positive numbers is zero only if there are none.               *)
LEMMA SumPositive ==
  ASSUME NEW n \in Nat, NEW f \in [1..n -> Nat \ {0}], NEW s, IsSum(s, n, f)
  PROVE  s[n] \in Nat /\ (s[n] > 0 <=> n > 0)
<1> DEFINE T == {k \in 0..n : s[k] \in Nat /\ (s[k] > 0 <=> k > 0)}
<1>1. 0 \in T
  BY DEF IsSum
<1>2. ASSUME NEW k \in 1..n, k - 1 \in T PROVE k \in T
  <2>1. s[k] = s[k - 1] + f[k]
    BY DEF IsSum
  <2>2. s[k - 1] \in Nat /\ f[k] \in Nat \ {0}
    BY <1>2
  <2> QED
    BY <2>1, <2>2
<1>3. 0..n \subseteq T
  <2> HIDE DEF T
  <2> QED
    BY <1>1, <1>2, Upto
<1> QED
  BY <1>3

(* An archetype's count is positive if it has a block and none is empty.   *)
LEMMA CountOfBlocks ==
  ASSUME NEW fa, fa.blocks \in Seq(Int \X Int),
         \A i \in 1..Len(fa.blocks) : fa.blocks[i][1] < fa.blocks[i][2]
  PROVE  EntitiesCount(fa) \in Nat /\ (EntitiesCount(fa) > 0 <=> fa.blocks # <<>>)
<1> DEFINE n == Len(fa.blocks)
           f == [i \in 1..n |-> BlockSize(fa.blocks[i])]
           sum[i \in 0..n] == IF i = 0 THEN 0 ELSE sum[i - 1] + BlockSize(fa.blocks[i])
<1>0. n \in Nat
  OBVIOUS
<1>1. f \in [1..n -> Nat \ {0}]
  <2>1. \A b \in Int \X Int : b[1] < b[2] => BlockSize(b) \in Nat \ {0}
    BY DEF BlockSize
  <2>2. \A i \in 1..n : fa.blocks[i] \in Int \X Int
    OBVIOUS
  <2>3. \A i \in 1..n : BlockSize(fa.blocks[i]) \in Nat \ {0}
    BY <2>1, <2>2
  <2> QED
    BY <2>3
<1>2. PICK s : IsSum(s, n, f)
  <2> HIDE DEF f, n
  <2> QED
    BY <1>0, <1>1, SumExists
<1>3. \A t : \A i \in 0..n : (IF i = 0 THEN 0 ELSE t[i - 1] + f[i])
                           = (IF i = 0 THEN 0 ELSE t[i - 1] + BlockSize(fa.blocks[i]))
  <2>1. \A i \in 0..n : i # 0 => i \in 1..n
    OBVIOUS
  <2>2. \A i \in 1..n : f[i] = BlockSize(fa.blocks[i])
    OBVIOUS
  <2> HIDE DEF f, n
  <2> QED
    BY <2>1, <2>2
<1>4. s = [i \in 0..n |-> IF i = 0 THEN 0 ELSE s[i - 1] + BlockSize(fa.blocks[i])]
  <2> HIDE DEF f, n
  <2> QED
    BY <1>2, <1>3, Zenon DEF IsSum
<1>5. sum = [i \in 0..n |-> IF i = 0 THEN 0 ELSE sum[i - 1] + BlockSize(fa.blocks[i])]
  <2> HIDE DEF f, n
  <2>1. \E t : t = [i \in 0..n |-> IF i = 0 THEN 0 ELSE t[i - 1] + BlockSize(fa.blocks[i])]
    BY <1>4, Zenon
  <2> QED
    BY <2>1, Zenon
<1>6. IsSum(sum, n, f)
  <2> HIDE DEF f, n, sum
  <2> QED
    BY <1>3, <1>5, Zenon DEF IsSum
<1>7. EntitiesCount(fa) = sum[n]
  BY Zenon DEF EntitiesCount
<1>8. sum[n] \in Nat /\ (sum[n] > 0 <=> n > 0)
  <2> HIDE DEF f, n, sum
  <2> QED
    BY <1>0, <1>1, <1>6, SumPositive
<1>9. n > 0 <=> fa.blocks # <<>>
  OBVIOUS
<1> HIDE DEF f, n, sum
<1> QED
  BY <1>7, <1>8, <1>9

(* The total is positive if there is an element and each has a count.      *)
LEMMA TotalOfCounts ==
  ASSUME NEW S, NEW result \in Seq(S),
         \A i \in 1..Len(result) : EntitiesCount(result[i]) \in Nat \ {0}
  PROVE  TotalCount(result) \in Nat /\ (TotalCount(result) > 0 <=> result # <<>>)
<1> DEFINE n == Len(result)
           f == [i \in 1..n |-> EntitiesCount(result[i])]
           sum[i \in 0..n] == IF i = 0 THEN 0 ELSE sum[i - 1] + EntitiesCount(result[i])
<1>0. n \in Nat
  OBVIOUS
<1>1. f \in [1..n -> Nat \ {0}]
  OBVIOUS
<1>2. PICK s : IsSum(s, n, f)
  <2> HIDE DEF f, n
  <2> QED
    BY <1>0, <1>1, SumExists
<1>3. \A t : \A i \in 0..n : (IF i = 0 THEN 0 ELSE t[i - 1] + f[i])
                           = (IF i = 0 THEN 0 ELSE t[i - 1] + EntitiesCount(result[i]))
  <2>1. \A i \in 0..n : i # 0 => i \in 1..n
    OBVIOUS
  <2>2. \A i \in 1..n : f[i] = EntitiesCount(result[i])
    OBVIOUS
  <2> HIDE DEF f, n
  <2> QED
    BY <2>1, <2>2
<1>4. s = [i \in 0..n |-> IF i = 0 THEN 0 ELSE s[i - 1] + EntitiesCount(result[i])]
  <2> HIDE DEF f, n
  <2> QED
    BY <1>2, <1>3, Zenon DEF IsSum
<1>5. sum = [i \in 0..n |-> IF i = 0 THEN 0 ELSE sum[i - 1] + EntitiesCount(result[i])]
  <2> HIDE DEF f, n
  <2>1. \E t : t = [i \in 0..n |-> IF i = 0 THEN 0 ELSE t[i - 1] + EntitiesCount(result[i])]
    BY <1>4, Zenon
  <2> QED
    BY <2>1, Zenon
<1>6. IsSum(sum, n, f)
  <2> HIDE DEF f, n, sum
  <2> QED
    BY <1>3, <1>5, Zenon DEF IsSum
<1>7. TotalCount(result) = sum[n]
  BY Zenon DEF TotalCount
<1>8. sum[n] \in Nat /\ (sum[n] > 0 <=> n > 0)
  <2> HIDE DEF f, n, sum
  <2> QED
    BY <1>0, <1>1, <1>6, SumPositive
<1>9. n > 0 <=> result # <<>>
  OBVIOUS
<1> HIDE DEF f, n, sum
<1> QED
  BY <1>7, <1>8, <1>9


-----------------------------------------------------------------------------
(* Loops, running sums and concatenations, for the splitting into tasks.   *)

(* A loop whose passes stay in S ends in S; if each pass lowers a rank     *)
(* that is not 0 yet, as many passes as the rank bring it to 0.            *)
LEMMA LoopStays ==
  ASSUME NEW S, NEW next, \A s \in S : next[s] \in S, NEW start \in S, NEW n \in Nat,
         NEW rank \in [S -> Nat], rank[start] <= n,
         \A s \in S : rank[next[s]] < rank[s] \/ rank[next[s]] = 0
  PROVE  Loop(next, start, n) \in S /\ rank[Loop(next, start, n)] = 0
<1> DEFINE F == [p \in (1..n) \X S |-> next[p[2]]]
<1>1. F \in [(1..n) \X S -> S]
  OBVIOUS
<1>2. PICK g \in [0..n -> S] : Solves(g, n, start, F)
  <2> HIDE DEF F
  <2> QED
    BY <1>1, Recursion
<1>3. g = [i \in 0..n |-> IF i = 0 THEN start ELSE next[g[i - 1]]]
  <2>1. \A i \in 1..n : g[i - 1] \in S
    OBVIOUS
  <2>2. \A i \in 1..n : F[<<i, g[i - 1]>>] = next[g[i - 1]]
    BY <2>1
  <2>3. \A i \in 0..n : i # 0 => i \in 1..n
    OBVIOUS
  <2>4. \A i \in 0..n : (IF i = 0 THEN start ELSE F[<<i, g[i - 1]>>])
                      = (IF i = 0 THEN start ELSE next[g[i - 1]])
    BY <2>2, <2>3, Zenon
  <2> HIDE DEF F
  <2> QED
    BY <1>2, <2>4, Zenon DEF Solves
<1> DEFINE pass[i \in 0..n] == IF i = 0 THEN start ELSE next[pass[i - 1]]
<1>4. pass = [i \in 0..n |-> IF i = 0 THEN start ELSE next[pass[i - 1]]]
  <2>1. \E p : p = [i \in 0..n |-> IF i = 0 THEN start ELSE next[p[i - 1]]]
    BY <1>3, Zenon
  <2> QED
    BY <2>1, Zenon
<1>5. Loop(next, start, n) = pass[n]
  BY Zenon DEF Loop
<1> HIDE DEF pass, F
<1>6. pass[0] = start /\ \A i \in 1..n : pass[i] = next[pass[i - 1]]
  <2>1. \A i \in 0..n : pass[i] = IF i = 0 THEN start ELSE next[pass[i - 1]]
    BY <1>4
  <2> QED
    BY <2>1
<1> DEFINE T == {i \in 0..n : /\ pass[i] \in S
                              /\ rank[pass[i]] + i <= rank[start] \/ rank[pass[i]] = 0}
<1>7. 0 \in T
  BY <1>6
<1>8. ASSUME NEW i \in 1..n, i - 1 \in T PROVE i \in T
  <2>1. PICK p \in S : p = pass[i - 1]
    BY <1>8
  <2>2. rank[p] + (i - 1) <= rank[start] \/ rank[p] = 0
    BY <1>8, <2>1
  <2>3. next[p] \in S /\ pass[i] = next[p]
    BY <1>6, <2>1
  <2>4. rank[p] \in Nat /\ rank[next[p]] \in Nat /\ rank[start] \in Nat
    BY <2>3
  <2>5. rank[next[p]] < rank[p] \/ rank[next[p]] = 0
    OBVIOUS
  <2> QED
    BY <2>2, <2>3, <2>4, <2>5
<1>9. 0..n \subseteq T
  <2> HIDE DEF T
  <2> QED
    BY <1>7, <1>8, Upto
<1>10. pass[n] \in S /\ (rank[pass[n]] + n <= rank[start] \/ rank[pass[n]] = 0)
  BY <1>9
<1>11. rank[pass[n]] \in Nat /\ rank[start] \in Nat
  BY <1>10
<1> QED
  BY <1>5, <1>10, <1>11

(* l is a running sum of n numbers f, from 0.                              *)
Adds(l, n, f) ==
    /\ l \in [0..n -> Nat]
    /\ l[0] = 0
    /\ \A i \in 1..n : l[i] = l[i - 1] + f[i]

(* Every sequence of numbers has running sums.                             *)
LEMMA AddsExist ==
  ASSUME NEW n \in Nat, NEW f \in [1..n -> Nat]
  PROVE  \E l : Adds(l, n, f)
<1> DEFINE F == [p \in (1..n) \X Nat |-> p[2] + f[p[1]]]
<1>1. F \in [(1..n) \X Nat -> Nat]
  OBVIOUS
<1>2. PICK s \in [0..n -> Nat] : Solves(s, n, 0, F)
  <2> HIDE DEF F
  <2> QED
    BY <1>1, Recursion
<1>3. s = [i \in 0..n |-> IF i = 0 THEN 0 ELSE F[<<i, s[i - 1]>>]]
  BY <1>2, Zenon DEF Solves
<1>4. \A i \in 1..n : F[<<i, s[i - 1]>>] = s[i - 1] + f[i]
  <2> TAKE i \in 1..n
  <2>1. s[i - 1] \in Nat
    OBVIOUS
  <2> QED
    BY <2>1
<1> HIDE DEF F
<1>5. s[0] = 0 /\ \A i \in 1..n : s[i] = F[<<i, s[i - 1]>>]
  <2>1. \A i \in 0..n : s[i] = IF i = 0 THEN 0 ELSE F[<<i, s[i - 1]>>]
    BY <1>3
  <2>2. 0 \in 0..n /\ \A i \in 1..n : i \in 0..n /\ i # 0
    OBVIOUS
  <2> QED
    BY <2>1, <2>2, Zenon
<1> QED
  BY <1>4, <1>5 DEF Adds

(* Running sums do not fall.                                               *)
LEMMA AddsMono ==
  ASSUME NEW n \in Nat, NEW f \in [1..n -> Nat], NEW l, Adds(l, n, f),
         NEW i \in 0..n, NEW j \in 0..n, i <= j
  PROVE  l[i] <= l[j]
<1> DEFINE T == {k \in 0..n : i <= k => l[i] <= l[k]}
<1>1. l \in [0..n -> Nat]
  BY DEF Adds
<1>2. 0 \in T
  BY <1>1
<1>3. ASSUME NEW k \in 1..n, k - 1 \in T PROVE k \in T
  <2>1. l[k] = l[k - 1] + f[k] /\ l[k - 1] \in Nat /\ l[i] \in Nat /\ f[k] \in Nat
    BY <1>1 DEF Adds
  <2> QED
    BY <1>1, <1>3, <2>1
<1>4. 0..n \subseteq T
  <2> HIDE DEF T
  <2> QED
    BY <1>2, <1>3, Upto
<1> QED
  BY <1>4

(* A number below a running sum belongs to one of the numbers summed up.   *)
LEMMA AddsLocate ==
  ASSUME NEW n \in Nat, NEW f \in [1..n -> Nat], NEW l, Adds(l, n, f), NEW g \in Nat, g < l[n]
  PROVE  \E i \in 1..n : l[i - 1] <= g /\ g < l[i]
<1> DEFINE T == {k \in 0..n : g < l[k] => \E i \in 1..n : l[i - 1] <= g /\ g < l[i]}
<1>1. l \in [0..n -> Nat]
  BY DEF Adds
<1>2. 0 \in T
  BY DEF Adds
<1>3. ASSUME NEW k \in 1..n, k - 1 \in T PROVE k \in T
  <2>1. l[k - 1] \in Nat
    BY <1>1
  <2> QED
    BY <1>3, <2>1
<1>4. 0..n \subseteq T
  <2> HIDE DEF T
  <2> QED
    BY <1>2, <1>3, Upto
<1>5. n \in T
  BY <1>4
<1> QED
  BY <1>5

(* w goes through the concatenations of ss, one sequence more each time.   *)
Concats(w, ss, T) ==
    /\ w \in [0..Len(ss) -> Seq(T)]
    /\ w[0] = <<>>
    /\ \A i \in 1..Len(ss) : w[i] = w[i - 1] \o ss[i]

(* FlattenSeq gives the last of them.                                      *)
LEMMA FlattenIs ==
  ASSUME NEW T, NEW ss \in Seq(Seq(T))
  PROVE  \E w : Concats(w, ss, T) /\ FlattenSeq(ss) = w[Len(ss)]
<1> PICK n \in Nat : n = Len(ss)
  OBVIOUS
<1> DEFINE F == [p \in (1..n) \X Seq(T) |-> p[2] \o ss[p[1]]]
<1>0. \A i \in 1..n : ss[i] \in Seq(T)
  OBVIOUS
<1>1. F \in [(1..n) \X Seq(T) -> Seq(T)]
  BY <1>0
<1>2. PICK g \in [0..n -> Seq(T)] : Solves(g, n, <<>>, F)
  <2>1. <<>> \in Seq(T)
    OBVIOUS
  <2> HIDE DEF F
  <2> QED
    BY <1>1, <2>1, Recursion
<1>3. \A i \in 1..n : F[<<i, g[i - 1]>>] = g[i - 1] \o ss[i]
  <2>1. \A i \in 1..n : i - 1 \in 0..n
    OBVIOUS
  <2>2. \A i \in 1..n : g[i - 1] \in Seq(T)
    BY <2>1, Zenon
  <2> QED
    BY <2>2
<1> HIDE DEF F
<1>4. g[0] = <<>> /\ \A i \in 1..n : g[i] = g[i - 1] \o ss[i]
  <2>1. \A i \in 0..n : g[i] = IF i = 0 THEN <<>> ELSE F[<<i, g[i - 1]>>]
    BY <1>2 DEF Solves
  <2>2. 0 \in 0..n /\ \A i \in 1..n : i \in 0..n /\ i # 0
    OBVIOUS
  <2>3. g[0] = <<>> /\ \A i \in 1..n : g[i] = F[<<i, g[i - 1]>>]
    BY <2>1, <2>2, Zenon
  <2> QED
    BY <1>3, <2>3
<1>5. Concats(g, ss, T)
  BY <1>4 DEF Concats
<1>6. CASE n = 0
  <2>1. FlattenSeq(ss) = ss
    BY <1>6 DEF FlattenSeq
  <2>2. ss = <<>>
    <3>1. PICK Q : Q = Seq(T)
      OBVIOUS
    <3>2. ss \in Seq(Q) /\ Len(ss) = 0
      BY <1>6, <3>1
    <3> QED
      BY <3>2, EmptySeq
  <2> QED
    BY <1>4, <1>5, <1>6, <2>1, <2>2
<1>7. CASE n > 0
  <2> DEFINE flatten[i \in 1..n] == IF i = 1 THEN ss[i] ELSE flatten[i - 1] \o ss[i]
  <2>1. PICK h : h = [i \in 1..n |-> g[i]]
    OBVIOUS
  <2>2. \A i \in 1..n : h[i] = IF i = 1 THEN ss[i] ELSE h[i - 1] \o ss[i]
    <3> TAKE i \in 1..n
    <3>1. CASE i = 1
      <4>1. 1 \in 1..n /\ h[1] = g[1]
        BY <2>1, <3>1
      <4>2. g[1] = g[0] \o ss[1] /\ ss[1] \in Seq(T)
        <5>1. 1 - 1 = 0
          OBVIOUS
        <5> QED
          BY <1>0, <1>4, <4>1, <5>1
      <4>3. <<>> \o ss[1] = ss[1]
        BY <4>2, ConcatEmptySeq
      <4>4. h[1] = ss[1]
        BY <1>4, <4>1, <4>2, <4>3, Zenon
      <4> QED
        BY <3>1, <4>4
    <3>2. CASE i # 1
      <4>1. i - 1 \in 1..n /\ i \in 1..n
        BY <3>2
      <4>2. h[i - 1] = g[i - 1] /\ h[i] = g[i]
        BY <2>1, <4>1
      <4>3. h[i] = h[i - 1] \o ss[i]
        BY <1>4, <4>2, Zenon
      <4> QED
        BY <3>2, <4>3, Zenon
    <3> QED
      BY <3>1, <3>2
  <2>3. h = [i \in 1..n |-> IF i = 1 THEN ss[i] ELSE h[i - 1] \o ss[i]]
    BY <2>1, <2>2
  <2>4. flatten = [i \in 1..n |-> IF i = 1 THEN ss[i] ELSE flatten[i - 1] \o ss[i]]
    <3>1. \E p : p = [i \in 1..n |-> IF i = 1 THEN ss[i] ELSE p[i - 1] \o ss[i]]
      BY <2>3, Zenon
    <3> QED
      BY <3>1, Zenon
  <2>5. FlattenSeq(ss) = flatten[n]
    BY <1>7 DEF FlattenSeq
  <2> HIDE DEF flatten
  <2>6. \A i \in 1..n : flatten[i] = IF i = 1 THEN ss[i] ELSE flatten[i - 1] \o ss[i]
    BY <2>4
  <2> DEFINE U == {i \in 0..n : i > 0 => flatten[i] = h[i]}
  <2>7. 0 \in U
    OBVIOUS
  <2>8. ASSUME NEW i \in 1..n, i - 1 \in U PROVE i \in U
    BY <2>2, <2>6, <2>8
  <2>9. 0..n \subseteq U
    <3> HIDE DEF U
    <3> QED
      BY <2>7, <2>8, Upto
  <2>10. n \in U
    BY <2>9
  <2>11. flatten[n] = g[n]
    BY <1>7, <2>1, <2>10
  <2> QED
    BY <1>5, <2>5, <2>11
<1> QED
  BY <1>6, <1>7

(* The lengths of sequences.                                               *)
Lens(ss) == [i \in 1..Len(ss) |-> Len(ss[i])]

(* Where l adds up those lengths, each element is where it should be.      *)
Joined(ss, l, T) ==
    /\ FlattenSeq(ss) \in Seq(T)
    /\ Len(FlattenSeq(ss)) = l[Len(ss)]
    /\ \A i \in 1..Len(ss) : \A k \in 1..Len(ss[i]) : FlattenSeq(ss)[l[i - 1] + k] = ss[i][k]

(* Where the elements of each sequence are in the concatenation.           *)
LEMMA FlattenAt ==
  ASSUME NEW T, NEW ss \in Seq(Seq(T)), NEW l, Adds(l, Len(ss), Lens(ss))
  PROVE  Joined(ss, l, T)
<1> PICK n \in Nat : n = Len(ss)
  OBVIOUS
<1>1. PICK w : Concats(w, ss, T) /\ FlattenSeq(ss) = w[n]
  BY FlattenIs
<1>2. /\ w \in [0..n -> Seq(T)]
      /\ w[0] = <<>>
      /\ \A i \in 1..n : w[i] = w[i - 1] \o ss[i]
  BY <1>1 DEF Concats
<1>3. /\ l \in [0..n -> Nat]
      /\ l[0] = 0
      /\ \A i \in 1..n : l[i] = l[i - 1] + Len(ss[i])
  BY DEF Adds, Lens
<1>4. \A i \in 1..n : ss[i] \in Seq(T)
  OBVIOUS
<1> DEFINE Good(j) == /\ Len(w[j]) = l[j]
                      /\ \A i \in 1..j : \A k \in 1..Len(ss[i]) : /\ l[i - 1] + k \in 1..l[j]
                                                                  /\ w[j][l[i - 1] + k] = ss[i][k]
           U == {j \in 0..n : Good(j)}
<1>5. 0 \in U
  BY <1>2, <1>3
<1>6. ASSUME NEW j \in 1..n, j - 1 \in U PROVE j \in U
  <2>1. PICK v \in Seq(T), s \in Seq(T) : v = w[j - 1] /\ s = ss[j]
    <3>1. j - 1 \in 0..n
      OBVIOUS
    <3>2. w[j - 1] \in Seq(T) /\ ss[j] \in Seq(T)
      BY <1>2, <1>4, <3>1, Zenon
    <3> QED
      BY <3>2
  <2>2. Len(v) = l[j - 1] /\ l[j - 1] \in Nat /\ l[j] = Len(v) + Len(s)
    BY <1>3, <1>6, <2>1
  <2>3. w[j] = v \o s
    BY <1>2, <2>1
  <2>4. /\ Len(v \o s) = Len(v) + Len(s)
        /\ \A m \in 1..(Len(v) + Len(s)) : (v \o s)[m] = IF m <= Len(v) THEN v[m] ELSE s[m - Len(v)]
    BY ConcatProperties
  <2>5. ASSUME NEW i \in 1..j, NEW k \in 1..Len(ss[i])
        PROVE  l[i - 1] + k \in 1..l[j] /\ w[j][l[i - 1] + k] = ss[i][k]
    <3>1. CASE i = j
      <4>1. k \in 1..Len(s) /\ l[i - 1] + k = Len(v) + k /\ Len(v) \in Nat /\ Len(s) \in Nat
        BY <2>1, <2>2, <3>1
      <4>2. Len(v) + k \in 1..(Len(v) + Len(s)) /\ ~(Len(v) + k <= Len(v)) /\ (Len(v) + k) - Len(v) = k
        BY <4>1
      <4>3. (v \o s)[Len(v) + k] = s[k]
        BY <2>4, <4>2
      <4> QED
        BY <2>1, <2>2, <2>3, <3>1, <4>1, <4>2, <4>3
    <3>2. CASE i # j
      <4>1. i \in 1..(j - 1)
        BY <3>2
      <4>2. l[i - 1] + k \in 1..Len(v) /\ v[l[i - 1] + k] = ss[i][k]
        BY <1>6, <2>1, <2>2, <4>1
      <4>3. PICK m \in 1..Len(v) : m = l[i - 1] + k
        BY <4>2
      <4>4. Len(v) \in Nat /\ Len(s) \in Nat
        OBVIOUS
      <4>5. m \in 1..(Len(v) + Len(s)) /\ m <= Len(v)
        BY <4>3, <4>4
      <4>6. (v \o s)[m] = v[m]
        BY <2>4, <4>5
      <4> QED
        BY <2>2, <2>3, <4>2, <4>3, <4>5, <4>6
    <3> QED
      BY <3>1, <3>2
  <2>6. Len(w[j]) = l[j]
    BY <2>2, <2>3, <2>4
  <2> QED
    BY <2>5, <2>6
<1>7. 0..n \subseteq U
  <2> HIDE DEF U
  <2> QED
    BY <1>5, <1>6, Upto
<1>8. Good(n)
  BY <1>7
<1> QED
  BY <1>1, <1>2, <1>8 DEF Joined

-----------------------------------------------------------------------------
(* What a filter result looks like, and the rows it stands for.            *)

(* An archetype of the result: blocks of rows in their order, none empty,  *)
(* all within its size.                                                    *)
Filtered(fa) ==
    /\ fa.size \in Nat /\ fa.cut \in Nat
    /\ fa.blocks \in Seq(Nat \X Nat) /\ fa.blocks # <<>>
    /\ \A i \in 1..Len(fa.blocks) : fa.blocks[i][1] < fa.blocks[i][2] /\ fa.blocks[i][2] <= fa.size
    /\ \A i, j \in 1..Len(fa.blocks) : i < j => fa.blocks[i][2] <= fa.blocks[j][1]

(* What a filter finds of an archetype is what the tasks start from, if it *)
(* finds any of its rows at all.                                           *)
LEMMA FilteredBlocks ==
  ASSUME NEW fa, fa.size \in Nat, fa.cut \in Nat, NEW cs \in Nat \ {0}, OfChunks(fa, cs), fa.blocks # <<>>
  PROVE  Filtered(fa)
BY DEF OfChunks, Filtered

(* The result of a filter: a sequence of such archetypes.                  *)
Result(result) ==
    /\ \E S : result \in Seq(S)
    /\ \A i \in 1..Len(result) : Filtered(result[i])

(* The matched rows before each block of an archetype, and before each     *)
(* archetype of a result.                                                  *)
Sizes(fa) == [i \in 1..Len(fa.blocks) |-> BlockSize(fa.blocks[i])]
Counts(result) == [i \in 1..Len(result) |-> EntitiesCount(result[i])]
Ends(fa) == CHOOSE l : Adds(l, Len(fa.blocks), Sizes(fa))
Totals(result) == CHOOSE l : Adds(l, Len(result), Counts(result))

(* The sum a recursion computes is the last of the running sums.           *)
LEMMA SumsAgree ==
  ASSUME NEW n \in Nat, NEW f, NEW l, Adds(l, n, f), NEW s,
         s = [i \in 0..n |-> IF i = 0 THEN 0 ELSE s[i - 1] + f[i]]
  PROVE  s[n] = l[n]
<1> DEFINE U == {i \in 0..n : s[i] = l[i]}
<1>1. 0 \in U
  BY DEF Adds
<1>2. ASSUME NEW i \in 1..n, i - 1 \in U PROVE i \in U
  <2>1. i \in 0..n /\ i # 0
    OBVIOUS
  <2>2. s[i] = s[i - 1] + f[i]
    BY <2>1, Zenon
  <2>3. l[i] = l[i - 1] + f[i]
    BY DEF Adds
  <2> QED
    BY <1>2, <2>1, <2>2, <2>3
<1>3. 0..n \subseteq U
  <2> HIDE DEF U
  <2> QED
    BY <1>1, <1>2, Upto
<1>4. n \in U
  BY <1>3
<1> QED
  BY <1>4

(* An archetype has running sums of its block sizes, entities_count is the *)
(* last of them, and some row is matched.                                  *)
LEMMA EndsAre ==
  ASSUME NEW fa, Filtered(fa)
  PROVE  /\ Len(fa.blocks) \in Nat \ {0}
         /\ Sizes(fa) \in [1..Len(fa.blocks) -> Nat]
         /\ Adds(Ends(fa), Len(fa.blocks), Sizes(fa))
         /\ EntitiesCount(fa) = Ends(fa)[Len(fa.blocks)]
         /\ EntitiesCount(fa) \in Nat \ {0}
<1> PICK n : n = Len(fa.blocks)
  OBVIOUS
<1>0. fa.blocks \in Seq(Nat \X Nat) /\ fa.blocks # <<>>
  BY DEF Filtered
<1>1. n \in Nat \ {0} /\ \A i \in 1..n : fa.blocks[i] \in Nat \X Nat
  BY <1>0
<1>2. \A b \in Nat \X Nat : b[1] < b[2] => BlockSize(b) \in Nat \ {0}
  BY DEF BlockSize
<1>3. \A i \in 1..n : BlockSize(fa.blocks[i]) \in Nat \ {0}
  BY <1>1, <1>2 DEF Filtered
<1>4. Sizes(fa) \in [1..n -> Nat] /\ \A i \in 1..n : Sizes(fa)[i] = BlockSize(fa.blocks[i])
  BY <1>3 DEF Sizes
<1>5. Adds(Ends(fa), n, Sizes(fa))
  <2>1. \E l : Adds(l, n, Sizes(fa))
    BY <1>1, <1>4, AddsExist
  <2> QED
    BY <2>1, Zenon DEF Ends
<1> PICK l : l = Ends(fa)
  OBVIOUS
<1>6. /\ l \in [0..n -> Nat] /\ l[0] = 0
      /\ \A i \in 1..n : l[i] = l[i - 1] + BlockSize(fa.blocks[i])
  BY <1>4, <1>5 DEF Adds
<1> DEFINE sum[i \in 0..n] == IF i = 0 THEN 0 ELSE sum[i - 1] + BlockSize(fa.blocks[i])
<1>7. sum = [i \in 0..n |-> IF i = 0 THEN 0 ELSE sum[i - 1] + BlockSize(fa.blocks[i])]
  <2>1. \A i \in 0..n : l[i] = IF i = 0 THEN 0 ELSE l[i - 1] + BlockSize(fa.blocks[i])
    <3>1. \A i \in 0..n : i # 0 => i \in 1..n
      BY <1>1
    <3> QED
      BY <1>6, <3>1
  <2>2. l = [i \in 0..n |-> IF i = 0 THEN 0 ELSE l[i - 1] + BlockSize(fa.blocks[i])]
    BY <1>6, <2>1
  <2>3. \E t : t = [i \in 0..n |-> IF i = 0 THEN 0 ELSE t[i - 1] + BlockSize(fa.blocks[i])]
    BY <2>2, Zenon
  <2> QED
    BY <2>3, Zenon
<1>8. EntitiesCount(fa) = sum[n]
  BY Zenon DEF EntitiesCount
<1> HIDE DEF sum
<1>9. sum = [i \in 0..n |-> IF i = 0 THEN 0 ELSE sum[i - 1] + Sizes(fa)[i]]
  <2>1. \A i \in 0..n : (IF i = 0 THEN 0 ELSE sum[i - 1] + BlockSize(fa.blocks[i]))
                      = (IF i = 0 THEN 0 ELSE sum[i - 1] + Sizes(fa)[i])
    <3>1. \A i \in 0..n : i # 0 => i \in 1..n
      BY <1>1
    <3> QED
      BY <1>4, <3>1
  <2> QED
    BY <1>7, <2>1, Zenon
<1>10. sum[n] = l[n]
  <2>1. n \in Nat
    BY <1>1
  <2> QED
    BY <1>5, <1>9, <2>1, SumsAgree
<1>11. l[n] \in Nat \ {0}
  <2>1. n \in 1..n /\ n - 1 \in 0..n /\ n \in 0..n
    BY <1>1
  <2>2. l[n - 1] \in Nat
    BY <1>6, <2>1
  <2> QED
    BY <1>3, <1>6, <2>1, <2>2
<1> QED
  BY <1>1, <1>4, <1>5, <1>8, <1>10, <1>11

(* A result has running sums of its counts, total_entity_count is the last *)
(* of them.                                                                *)
LEMMA TotalsAre ==
  ASSUME NEW result, Result(result)
  PROVE  /\ Len(result) \in Nat /\ DOMAIN result = 1..Len(result)
         /\ Counts(result) \in [1..Len(result) -> Nat]
         /\ Adds(Totals(result), Len(result), Counts(result))
         /\ TotalCount(result) = Totals(result)[Len(result)]
         /\ TotalCount(result) \in Nat
<1> PICK n : n = Len(result)
  OBVIOUS
<1>1. n \in Nat /\ DOMAIN result = 1..n
  BY DEF Result
<1>3. \A i \in 1..n : EntitiesCount(result[i]) \in Nat
  BY EndsAre DEF Result
<1>4. Counts(result) \in [1..n -> Nat] /\ \A i \in 1..n : Counts(result)[i] = EntitiesCount(result[i])
  BY <1>3 DEF Counts
<1>5. Adds(Totals(result), n, Counts(result))
  <2>1. \E l : Adds(l, n, Counts(result))
    BY <1>1, <1>4, AddsExist
  <2> QED
    BY <2>1, Zenon DEF Totals
<1> PICK l : l = Totals(result)
  OBVIOUS
<1>6. /\ l \in [0..n -> Nat] /\ l[0] = 0
      /\ \A i \in 1..n : l[i] = l[i - 1] + EntitiesCount(result[i])
  BY <1>4, <1>5 DEF Adds
<1> DEFINE sum[i \in 0..n] == IF i = 0 THEN 0 ELSE sum[i - 1] + EntitiesCount(result[i])
<1>7. sum = [i \in 0..n |-> IF i = 0 THEN 0 ELSE sum[i - 1] + EntitiesCount(result[i])]
  <2>1. \A i \in 0..n : l[i] = IF i = 0 THEN 0 ELSE l[i - 1] + EntitiesCount(result[i])
    <3>1. \A i \in 0..n : i # 0 => i \in 1..n
      BY <1>1
    <3> QED
      BY <1>6, <3>1
  <2>2. l = [i \in 0..n |-> IF i = 0 THEN 0 ELSE l[i - 1] + EntitiesCount(result[i])]
    BY <1>6, <2>1
  <2>3. \E t : t = [i \in 0..n |-> IF i = 0 THEN 0 ELSE t[i - 1] + EntitiesCount(result[i])]
    BY <2>2, Zenon
  <2> QED
    BY <2>3, Zenon
<1>8. TotalCount(result) = sum[n]
  BY Zenon DEF TotalCount
<1> HIDE DEF sum
<1>9. sum = [i \in 0..n |-> IF i = 0 THEN 0 ELSE sum[i - 1] + Counts(result)[i]]
  <2>1. \A i \in 0..n : (IF i = 0 THEN 0 ELSE sum[i - 1] + EntitiesCount(result[i]))
                      = (IF i = 0 THEN 0 ELSE sum[i - 1] + Counts(result)[i])
    <3>1. \A i \in 0..n : i # 0 => i \in 1..n
      BY <1>1
    <3> QED
      BY <1>4, <3>1
  <2> QED
    BY <1>7, <2>1, Zenon
<1>10. sum[n] = l[n]
  BY <1>1, <1>5, <1>9, SumsAgree
<1>11. l[n] \in Nat
  BY <1>1, <1>6
<1> QED
  BY <1>1, <1>4, <1>5, <1>8, <1>10, <1>11

(* Places in a result: the number of an archetype and a row.               *)
Rows == Nat \X Nat

(* A sequence given by its elements.                                       *)
LEMMA SeqOfFunction ==
  ASSUME NEW T, NEW n \in Nat, NEW f \in [1..n -> T]
  PROVE  f \in Seq(T) /\ Len(f) = n
OBVIOUS

(* The matched rows of an archetype, the a-th of its result.               *)
RowsOf(a, fa) ==
    FlattenSeq([b \in DOMAIN fa.blocks |->
        [k \in 1..BlockSize(fa.blocks[b]) |-> <<a, fa.blocks[b][1] + k - 1>>]])

(* Row k of a block comes after the rows of the blocks before.             *)
LEMMA RowsOfItem ==
  ASSUME NEW fa, Filtered(fa), NEW a \in Nat
  PROVE  /\ RowsOf(a, fa) \in Seq(Rows)
         /\ Len(RowsOf(a, fa)) = EntitiesCount(fa)
         /\ \A b \in 1..Len(fa.blocks) : \A k \in 1..BlockSize(fa.blocks[b]) :
               RowsOf(a, fa)[Ends(fa)[b - 1] + k] = <<a, fa.blocks[b][1] + k - 1>>
<1> PICK n \in Nat \ {0} : n = Len(fa.blocks)
  BY EndsAre
<1>1. /\ DOMAIN fa.blocks = 1..n
      /\ \A b \in 1..n : fa.blocks[b] \in Nat \X Nat /\ fa.blocks[b][1] < fa.blocks[b][2]
  BY DEF Filtered
<1>2. \A b \in 1..n : BlockSize(fa.blocks[b]) \in Nat
  BY <1>1 DEF BlockSize
<1> DEFINE row(b) == [k \in 1..BlockSize(fa.blocks[b]) |-> <<a, fa.blocks[b][1] + k - 1>>]
           ss == [b \in 1..n |-> row(b)]
<1>3. \A b \in 1..n : row(b) \in Seq(Rows) /\ Len(row(b)) = BlockSize(fa.blocks[b])
  <2> TAKE b \in 1..n
  <2>1. PICK m \in Nat, r \in Nat : m = BlockSize(fa.blocks[b]) /\ r = fa.blocks[b][1]
    BY <1>1, <1>2
  <2>2. [k \in 1..m |-> <<a, r + k - 1>>] \in [1..m -> Rows]
    BY DEF Rows
  <2>3. row(b) \in [1..m -> Rows]
    BY <2>1, <2>2
  <2> HIDE DEF row
  <2> QED
    BY <2>1, <2>3, SeqOfFunction
<1>4. ss \in Seq(Seq(Rows)) /\ Len(ss) = n
  <2>1. ss \in [1..n -> Seq(Rows)]
    <3> HIDE DEF row
    <3> QED
      BY <1>3
  <2> HIDE DEF ss
  <2> QED
    BY <2>1, SeqOfFunction
<1>5. Lens(ss) = Sizes(fa)
  <2>1. \A i \in 1..n : ss[i] = row(i)
    OBVIOUS
  <2> HIDE DEF ss, row
  <2> QED
    BY <1>3, <1>4, <2>1 DEF Sizes, Lens
<1>6. RowsOf(a, fa) = FlattenSeq(ss)
  BY <1>1 DEF RowsOf
<1>7. Adds(Ends(fa), Len(ss), Lens(ss))
  <2> HIDE DEF ss
  <2> QED
    BY <1>4, <1>5, EndsAre
<1>8. /\ FlattenSeq(ss) \in Seq(Rows)
      /\ Len(FlattenSeq(ss)) = Ends(fa)[Len(ss)]
      /\ \A i \in 1..Len(ss) : \A k \in 1..Len(ss[i]) : FlattenSeq(ss)[Ends(fa)[i - 1] + k] = ss[i][k]
  <2> HIDE DEF ss
  <2> QED
    BY <1>4, <1>7, FlattenAt DEF Joined
<1>9. ASSUME NEW b \in 1..n, NEW k \in 1..BlockSize(fa.blocks[b])
      PROVE  RowsOf(a, fa)[Ends(fa)[b - 1] + k] = <<a, fa.blocks[b][1] + k - 1>>
  <2>1. ss[b] = row(b) /\ row(b)[k] = <<a, fa.blocks[b][1] + k - 1>>
    OBVIOUS
  <2> HIDE DEF ss, row
  <2>2. k \in 1..Len(ss[b])
    BY <1>3, <2>1
  <2> QED
    BY <1>4, <1>6, <1>8, <2>1, <2>2
<1> HIDE DEF ss
<1> QED
  BY <1>4, <1>6, <1>8, <1>9, EndsAre

(* Where each matched row is among those of the result: the one of row k   *)
(* of a block comes after those of the archetypes and of the blocks before.*)
At(result, a, b, k) == Totals(result)[a - 1] + Ends(result[a])[b - 1] + k

(* Archetype, block and row.                                               *)
Cell(result, a, b, k) ==
    /\ a \in 1..Len(result)
    /\ b \in 1..Len(result[a].blocks)
    /\ k \in 1..BlockSize(result[a].blocks[b])

(* The matched rows are as many as counted, and At is where each is.       *)
LEMMA MatchedAre ==
  ASSUME NEW result, Result(result)
  PROVE  /\ MatchedRows(result) \in Seq(Rows)
         /\ Len(MatchedRows(result)) = TotalCount(result)
         /\ \A a, b, k : Cell(result, a, b, k) =>
               MatchedRows(result)[At(result, a, b, k)] = <<a, result[a].blocks[b][1] + k - 1>>
<1> PICK n \in Nat : n = Len(result)
  BY TotalsAre
<1>1. DOMAIN result = 1..n /\ \A a \in 1..n : Filtered(result[a])
  BY TotalsAre DEF Result
<1> DEFINE ss == [a \in 1..n |-> RowsOf(a, result[a])]
<1>2. ss \in Seq(Seq(Rows)) /\ Len(ss) = n
  <2>1. \A a \in 1..n : RowsOf(a, result[a]) \in Seq(Rows)
    BY <1>1, RowsOfItem
  <2>2. ss \in [1..n -> Seq(Rows)]
    BY <2>1
  <2> HIDE DEF ss
  <2> QED
    BY <2>2, SeqOfFunction
<1>3. MatchedRows(result) = FlattenSeq(ss)
  <2>1. MatchedRows(result) = FlattenSeq([a \in DOMAIN result |-> RowsOf(a, result[a])])
    BY DEF MatchedRows, RowsOf
  <2> QED
    BY <1>1, <2>1
<1>4. Lens(ss) = Counts(result)
  <2>1. \A a \in 1..n : ss[a] = RowsOf(a, result[a])
    OBVIOUS
  <2> HIDE DEF ss
  <2>2. \A a \in 1..n : Len(ss[a]) = EntitiesCount(result[a])
    BY <1>1, <2>1, RowsOfItem
  <2> QED
    BY <1>2, <2>2 DEF Counts, Lens
<1>5. Adds(Totals(result), Len(ss), Lens(ss))
  <2> HIDE DEF ss
  <2> QED
    BY <1>2, <1>4, TotalsAre
<1>6. /\ FlattenSeq(ss) \in Seq(Rows)
      /\ Len(FlattenSeq(ss)) = Totals(result)[Len(ss)]
      /\ \A i \in 1..Len(ss) : \A k \in 1..Len(ss[i]) : FlattenSeq(ss)[Totals(result)[i - 1] + k] = ss[i][k]
  <2> HIDE DEF ss
  <2> QED
    BY <1>2, <1>5, FlattenAt DEF Joined
<1>7. ASSUME NEW a, NEW b, NEW k, Cell(result, a, b, k)
      PROVE  MatchedRows(result)[At(result, a, b, k)] = <<a, result[a].blocks[b][1] + k - 1>>
  <2>1. /\ a \in 1..n /\ b \in 1..Len(result[a].blocks) /\ k \in 1..BlockSize(result[a].blocks[b])
        /\ Filtered(result[a])
    BY <1>1, <1>7 DEF Cell
  <2>2. ss[a] = RowsOf(a, result[a])
    BY <2>1
  <2> HIDE DEF ss
  <2>3. /\ RowsOf(a, result[a])[Ends(result[a])[b - 1] + k] = <<a, result[a].blocks[b][1] + k - 1>>
        /\ Len(RowsOf(a, result[a])) = EntitiesCount(result[a])
    <3>1. a \in Nat
      BY <2>1
    <3> QED
      BY <2>1, <3>1, RowsOfItem
  <2>4. PICK e : e = Ends(result[a])[b - 1] + k
    OBVIOUS
  <2>5. e \in 1..EntitiesCount(result[a])
    <3> PICK m, f, l :
          /\ m \in Nat \ {0} /\ f \in [1..m -> Nat]
          /\ m = Len(result[a].blocks) /\ f = Sizes(result[a]) /\ l = Ends(result[a])
          /\ Adds(l, m, f) /\ EntitiesCount(result[a]) = l[m]
      BY <2>1, EndsAre
    <3>0. l \in [0..m -> Nat]
      BY DEF Adds
    <3>1. f[b] = BlockSize(result[a].blocks[b])
      BY <2>1 DEF Sizes
    <3>2. b \in 0..m /\ b - 1 \in 0..m /\ m \in 0..m /\ b <= m /\ m \in Nat
      BY <2>1
    <3>3. l[b] = l[b - 1] + f[b] /\ l[b - 1] \in Nat /\ f[b] \in Nat
      BY <2>1, <3>0, <3>2 DEF Adds
    <3>4. l[b] <= l[m]
      BY <3>2, AddsMono
    <3>5. l[m] \in Nat
      BY <3>0, <3>2
    <3>6. k \in 1..f[b]
      BY <2>1, <3>1
    <3>7. e = l[b - 1] + k /\ EntitiesCount(result[a]) = l[m]
      BY <2>4
    <3>8. e \in 1..l[m]
      BY ONLY <3>3, <3>4, <3>5, <3>6, <3>7
    <3> QED
      BY <3>7, <3>8
  <2>6. FlattenSeq(ss)[Totals(result)[a - 1] + e] = ss[a][e]
    BY <1>2, <1>6, <2>1, <2>2, <2>3, <2>5
  <2>7. At(result, a, b, k) = Totals(result)[a - 1] + e
    <3>1. Totals(result)[a - 1] \in Nat
      <4>1. a - 1 \in 0..n
        BY <2>1
      <4> QED
        BY <4>1, TotalsAre DEF Adds
    <3>2. Ends(result[a])[b - 1] \in Nat
      <4>1. b - 1 \in 0..Len(result[a].blocks)
        BY <2>1, EndsAre
      <4> QED
        BY <2>1, <4>1, EndsAre DEF Adds
    <3>3. k \in Int
      <4>1. BlockSize(result[a].blocks[b]) \in Int \/ TRUE
        OBVIOUS
      <4> QED
        BY <2>1
    <3> QED
      BY <2>4, <3>1, <3>2, <3>3 DEF At
  <2> QED
    BY <1>3, <2>2, <2>3, <2>4, <2>6, <2>7
<1> HIDE DEF ss
<1> QED
  BY <1>2, <1>3, <1>6, <1>7, TotalsAre

(* The sums before the blocks of an archetype.  The rows between two       *)
(* blocks are enough for the blocks after the first.                       *)
BlockSums(fa, n, l) ==
    /\ n \in Nat \ {0} /\ n = Len(fa.blocks) /\ DOMAIN fa.blocks = 1..n
    /\ l \in [0..n -> Nat] /\ l = Ends(fa)
    /\ l[0] = 0
    /\ \A i \in 1..n : /\ fa.blocks[i] \in Nat \X Nat
                       /\ fa.blocks[i] = <<fa.blocks[i][1], fa.blocks[i][2]>>
                       /\ fa.blocks[i][1] \in Nat /\ fa.blocks[i][2] \in Nat
                       /\ BlockSize(fa.blocks[i]) \in Nat \ {0}
                       /\ BlockSize(fa.blocks[i]) = fa.blocks[i][2] - fa.blocks[i][1]
                       /\ l[i] = l[i - 1] + BlockSize(fa.blocks[i])
    /\ \A i, j \in 0..n : i <= j => l[i] <= l[j]
    /\ \A i, j \in 1..n : i <= j => l[j] - l[i] <= fa.blocks[j][2] - fa.blocks[i][2]
    /\ EntitiesCount(fa) = l[n]

(* Every archetype of a result has such sums.                              *)
LEMMA BlockSumsOf ==
  ASSUME NEW fa, Filtered(fa)
  PROVE  \E n, l : BlockSums(fa, n, l)
<1> PICK n, l : /\ n \in Nat \ {0} /\ n = Len(fa.blocks) /\ l = Ends(fa)
                /\ Sizes(fa) \in [1..n -> Nat] /\ Adds(l, n, Sizes(fa))
                /\ EntitiesCount(fa) = l[n]
  BY EndsAre
<1>1. DOMAIN fa.blocks = 1..n
  BY DEF Filtered
<1>2. l \in [0..n -> Nat] /\ l[0] = 0 /\ \A i \in 1..n : l[i] = l[i - 1] + Sizes(fa)[i]
  BY DEF Adds
<1>3. ASSUME NEW i \in 1..n
      PROVE  /\ fa.blocks[i] \in Nat \X Nat
             /\ fa.blocks[i] = <<fa.blocks[i][1], fa.blocks[i][2]>>
             /\ fa.blocks[i][1] \in Nat /\ fa.blocks[i][2] \in Nat
             /\ BlockSize(fa.blocks[i]) \in Nat \ {0}
             /\ BlockSize(fa.blocks[i]) = fa.blocks[i][2] - fa.blocks[i][1]
             /\ l[i] = l[i - 1] + BlockSize(fa.blocks[i])
  <2>1. PICK b \in Nat \X Nat : b = fa.blocks[i]
    BY DEF Filtered
  <2>2. b = <<b[1], b[2]>> /\ b[1] \in Nat /\ b[2] \in Nat /\ b[1] < b[2]
    BY <2>1 DEF Filtered
  <2>3. BlockSize(b) \in Nat \ {0} /\ BlockSize(b) = b[2] - b[1]
    BY <2>2 DEF BlockSize
  <2>4. Sizes(fa)[i] = BlockSize(b)
    BY <2>1 DEF Sizes
  <2> QED
    BY <1>2, <2>1, <2>2, <2>3, <2>4
<1>4. \A i, j \in 0..n : i <= j => l[i] <= l[j]
  BY AddsMono
<1>5. ASSUME NEW i \in 1..n
      PROVE  \A j \in 1..n : i <= j => l[j] - l[i] <= fa.blocks[j][2] - fa.blocks[i][2]
  <2> DEFINE T == {j \in 0..n : i <= j => l[j] - l[i] <= fa.blocks[j][2] - fa.blocks[i][2]}
  <2>1. 0 \in T
    OBVIOUS
  <2>2. ASSUME NEW j \in 1..n, j - 1 \in T PROVE j \in T
    <3>1. CASE j < i
      BY <3>1
    <3>2. CASE j = i
      <4>1. l[i] \in Nat
        BY <1>2
      <4> QED
        BY <1>3, <3>2, <4>1
    <3>3. CASE i < j
      <4>1. i <= j - 1 /\ j - 1 \in 1..n
        BY <3>3
      <4>2. l[j - 1] - l[i] <= fa.blocks[j - 1][2] - fa.blocks[i][2]
        BY <2>2, <4>1
      <4>3. fa.blocks[j - 1][2] <= fa.blocks[j][1]
        <5>1. j - 1 < j
          OBVIOUS
        <5> QED
          BY <4>1, <5>1 DEF Filtered
      <4>a. /\ fa.blocks[j][1] \in Nat /\ fa.blocks[j][2] \in Nat
            /\ BlockSize(fa.blocks[j]) = fa.blocks[j][2] - fa.blocks[j][1]
            /\ BlockSize(fa.blocks[j]) \in Nat
        BY <1>3
      <4>b. fa.blocks[j - 1][2] \in Nat /\ fa.blocks[i][2] \in Nat
        BY <1>3, <4>1
      <4> PICK x1 \in Nat : x1 = fa.blocks[j][1]
        BY <4>a
      <4> PICK x2 \in Nat : x2 = fa.blocks[j][2]
        BY <4>a
      <4> PICK y \in Nat : y = fa.blocks[j - 1][2]
        BY <4>b
      <4> PICK z \in Nat : z = fa.blocks[i][2]
        BY <4>b
      <4> PICK w \in Nat : w = BlockSize(fa.blocks[j])
        BY <4>a
      <4>4. w = x2 - x1
        BY <4>a
      <4>5. PICK p, q \in Nat : p = l[j - 1] /\ q = l[i] /\ l[j] = p + w
        <5>1. i \in 0..n /\ j - 1 \in 0..n
          OBVIOUS
        <5>2. l[i] \in Nat /\ l[j - 1] \in Nat
          BY <1>2, <5>1
        <5> QED
          BY <1>3, <4>4, <5>2
      <4>6. (p + w) - q <= x2 - z
        <5>1. p - q <= y - z /\ y <= x1
          BY <4>2, <4>3, <4>5
        <5> QED
          BY ONLY <4>4, <5>1, p \in Nat, q \in Nat, w \in Nat, x1 \in Nat, x2 \in Nat, y \in Nat, z \in Nat
      <4> QED
        BY <4>4, <4>5, <4>6
    <3> QED
      BY <3>1, <3>2, <3>3
  <2>3. 0..n \subseteq T
    <3> HIDE DEF T
    <3> QED
      BY <2>1, <2>2, Upto
  <2> QED
    BY <2>3
<1>6. BlockSums(fa, n, l)
  BY <1>1, <1>2, <1>3, <1>4, <1>5 DEF BlockSums
<1> QED
  BY <1>6

(* The sums before the archetypes of a result.                             *)
ArchetypeSums(result, n, l) ==
    /\ n \in Nat /\ n = Len(result) /\ DOMAIN result = 1..n
    /\ l \in [0..n -> Nat] /\ l = Totals(result)
    /\ l[0] = 0
    /\ \A i \in 1..n : /\ Filtered(result[i])
                       /\ EntitiesCount(result[i]) \in Nat \ {0}
                       /\ l[i] = l[i - 1] + EntitiesCount(result[i])
    /\ \A i, j \in 0..n : i <= j => l[i] <= l[j]
    /\ TotalCount(result) = l[n]

(* Every result has such sums.                                             *)
LEMMA ArchetypeSumsOf ==
  ASSUME NEW result, Result(result)
  PROVE  \E n, l : ArchetypeSums(result, n, l)
<1> PICK n, l : /\ n \in Nat /\ n = Len(result) /\ l = Totals(result) /\ DOMAIN result = 1..n
                /\ Counts(result) \in [1..n -> Nat] /\ Adds(l, n, Counts(result))
                /\ TotalCount(result) = l[n]
  BY TotalsAre
<1>1. l \in [0..n -> Nat] /\ l[0] = 0 /\ \A i \in 1..n : l[i] = l[i - 1] + Counts(result)[i]
  BY DEF Adds
<1>2. \A i \in 1..n : Filtered(result[i])
  BY DEF Result
<1>3. \A i \in 1..n : /\ EntitiesCount(result[i]) \in Nat \ {0}
                      /\ Counts(result)[i] = EntitiesCount(result[i])
  BY <1>2, EndsAre DEF Counts
<1>4. \A i, j \in 0..n : i <= j => l[i] <= l[j]
  BY AddsMono
<1>5. ArchetypeSums(result, n, l)
  BY <1>1, <1>2, <1>3, <1>4 DEF ArchetypeSums
<1> QED
  BY <1>5

(* Each of the matched entities is in a block: the g-th of an archetype,   *)
(* and the g-th of all.                                                    *)
LEMMA BlockOf ==
  ASSUME NEW fa, Filtered(fa), NEW g \in 1..EntitiesCount(fa)
  PROVE  \E b \in 1..Len(fa.blocks) : \E k \in 1..BlockSize(fa.blocks[b]) : g = Ends(fa)[b - 1] + k
<1> PICK n, l : BlockSums(fa, n, l)
  BY BlockSumsOf
<1>1. n \in Nat /\ Adds(l, n, Sizes(fa)) /\ Sizes(fa) \in [1..n -> Nat]
  BY EndsAre DEF BlockSums
<1>2. PICK h \in Nat : h = g - 1 /\ h < l[n]
  <2>0. l \in [0..n -> Nat] /\ EntitiesCount(fa) = l[n]
    BY DEF BlockSums
  <2>1. PICK t \in Nat : t = l[n] /\ t = EntitiesCount(fa)
    BY <1>1, <2>0
  <2> QED
    BY <2>1
<1>3. PICK b \in 1..n : l[b - 1] <= h /\ h < l[b]
  BY <1>1, <1>2, AddsLocate
<1>4. PICK p, s \in Nat : p = l[b - 1] /\ s = BlockSize(fa.blocks[b]) /\ l[b] = p + s
  <2>1. b - 1 \in 0..n
    BY <1>1
  <2> QED
    BY <2>1 DEF BlockSums
<1>5. PICK k \in 1..s : g = p + k
  <2>1. g - p \in 1..s /\ g = p + (g - p)
    BY <1>2, <1>3, <1>4
  <2> QED
    BY <2>1
<1> QED
  BY <1>4, <1>5 DEF BlockSums

(* Every number up to the total is the number of a matched row.            *)
LEMMA CellOf ==
  ASSUME NEW result, Result(result), NEW g \in 1..TotalCount(result)
  PROVE  \E a, b, k : Cell(result, a, b, k) /\ g = At(result, a, b, k)
<1> PICK n, l : ArchetypeSums(result, n, l)
  BY ArchetypeSumsOf
<1>1. n \in Nat /\ Adds(l, n, Counts(result)) /\ Counts(result) \in [1..n -> Nat]
  BY TotalsAre DEF ArchetypeSums
<1>2. PICK h \in Nat : h = g - 1 /\ h < l[n]
  <2>1. PICK t \in Nat : t = l[n] /\ t = TotalCount(result)
    BY <1>1 DEF ArchetypeSums
  <2> QED
    BY <2>1
<1>3. PICK a \in 1..n : l[a - 1] <= h /\ h < l[a]
  BY <1>1, <1>2, AddsLocate
<1>4. PICK p, s \in Nat : p = l[a - 1] /\ s = EntitiesCount(result[a]) /\ l[a] = p + s
  <2>1. a - 1 \in 0..n
    BY <1>1
  <2> QED
    BY <2>1 DEF ArchetypeSums
<1>5. PICK e \in 1..s : g = p + e
  <2>1. g - p \in 1..s /\ g = p + (g - p)
    BY <1>2, <1>3, <1>4
  <2> QED
    BY <2>1
<1>6. Filtered(result[a])
  BY DEF ArchetypeSums
<1>a. PICK b \in 1..Len(result[a].blocks) : \E k \in 1..BlockSize(result[a].blocks[b]) :
          e = Ends(result[a])[b - 1] + k
  <2>1. e \in 1..EntitiesCount(result[a])
    BY <1>4
  <2> QED
    BY <1>6, <2>1, BlockOf
<1>7. PICK k \in 1..BlockSize(result[a].blocks[b]) : e = Ends(result[a])[b - 1] + k
  BY <1>a
<1>8. Cell(result, a, b, k)
  BY <1>7 DEF Cell, ArchetypeSums
<1>9. g = At(result, a, b, k)
  <2> PICK m, c : BlockSums(result[a], m, c)
    BY <1>6, BlockSumsOf
  <2>1. b \in 1..m /\ b - 1 \in 0..m
    BY <1>7 DEF BlockSums
  <2>2. PICK x \in Nat : x = c[b - 1] /\ x = Ends(result[a])[b - 1]
    BY <2>1 DEF BlockSums
  <2>3. k \in Nat
    BY <1>7, <2>1 DEF BlockSums
  <2>4. e = x + k /\ p = Totals(result)[a - 1]
    BY <1>4, <1>7, <2>2 DEF ArchetypeSums
  <2> QED
    BY <1>5, <2>2, <2>3, <2>4 DEF At
<1> QED
  BY <1>8, <1>9

(* The place of a cell is one of those of the result.                      *)
LEMMA AtBounds ==
  ASSUME NEW result, Result(result), NEW a, NEW b, NEW k, Cell(result, a, b, k)
  PROVE  /\ a \in Nat /\ b \in Nat /\ k \in Nat
         /\ Totals(result)[a - 1] \in Nat /\ Ends(result[a])[b - 1] \in Nat
         /\ Ends(result[a])[b - 1] + k \in 1..EntitiesCount(result[a])
         /\ At(result, a, b, k) \in 1..TotalCount(result)
<1> PICK n, l : ArchetypeSums(result, n, l)
  BY ArchetypeSumsOf
<1>1. a \in 1..n /\ n \in Nat /\ Filtered(result[a])
  BY DEF Cell, ArchetypeSums
<1> PICK m, c : BlockSums(result[a], m, c)
  BY <1>1, BlockSumsOf
<1>2. b \in 1..m /\ m \in Nat
  BY DEF Cell, BlockSums
<1>3. k \in 1..BlockSize(result[a].blocks[b]) /\ BlockSize(result[a].blocks[b]) \in Nat
  BY <1>2 DEF Cell, BlockSums
<1>4. a - 1 \in 0..n /\ a \in 0..n /\ n \in 0..n /\ b - 1 \in 0..m /\ b \in 0..m /\ m \in 0..m
  BY <1>1, <1>2
<1>5. l \in [0..n -> Nat] /\ c \in [0..m -> Nat] /\ l = Totals(result) /\ c = Ends(result[a])
  BY DEF BlockSums, ArchetypeSums
<1>6. l[a] = l[a - 1] + EntitiesCount(result[a]) /\ EntitiesCount(result[a]) \in Nat
  BY <1>1 DEF ArchetypeSums
<1>7. l[a] <= l[n] /\ TotalCount(result) = l[n]
  <2>1. a <= n
    BY <1>1
  <2> QED
    BY <1>4, <2>1 DEF ArchetypeSums
<1>8. c[b] = c[b - 1] + BlockSize(result[a].blocks[b])
  BY <1>2 DEF BlockSums
<1>9. c[b] <= c[m] /\ EntitiesCount(result[a]) = c[m]
  <2>1. b <= m
    BY <1>2
  <2> QED
    BY <1>4, <2>1 DEF BlockSums
<1>10. l[a - 1] \in Nat /\ l[a] \in Nat /\ l[n] \in Nat /\ c[b - 1] \in Nat /\ c[b] \in Nat /\ c[m] \in Nat
  BY <1>4, <1>5
<1>11. k \in Nat /\ c[b - 1] + k \in 1..c[m]
  BY ONLY <1>3, <1>8, <1>9, <1>10
<1>12. l[a - 1] + c[b - 1] + k \in 1..l[n]
  BY ONLY <1>6, <1>7, <1>9, <1>10, <1>11
<1> QED
  BY <1>1, <1>2, <1>5, <1>7, <1>9, <1>10, <1>11, <1>12 DEF At

(* The row of a cell.                                                      *)
RowAt(result, a, b, k) == <<a, result[a].blocks[b][1] + k - 1>>

(* Different cells are different rows; the rows are those of the blocks.   *)
LEMMA CellsDiffer ==
  ASSUME NEW result, Result(result), NEW a, NEW b, NEW k, Cell(result, a, b, k),
         NEW c, NEW d, NEW e, Cell(result, c, d, e),
         RowAt(result, a, b, k) = RowAt(result, c, d, e)
  PROVE  a = c /\ b = d /\ k = e
<1> PICK n, l : ArchetypeSums(result, n, l)
  BY ArchetypeSumsOf
<1>1. a \in 1..n /\ Filtered(result[a]) /\ a = c
  BY DEF Cell, ArchetypeSums, RowAt
<1> PICK fa : fa = result[a]
  OBVIOUS
<1> PICK m, q : BlockSums(fa, m, q)
  BY <1>1, BlockSumsOf
<1>2. b \in 1..m /\ d \in 1..m /\ m \in Nat
  BY <1>1 DEF Cell, BlockSums
<1>3. /\ k \in 1..(fa.blocks[b][2] - fa.blocks[b][1]) /\ fa.blocks[b][1] \in Nat /\ fa.blocks[b][2] \in Nat
      /\ e \in 1..(fa.blocks[d][2] - fa.blocks[d][1]) /\ fa.blocks[d][1] \in Nat /\ fa.blocks[d][2] \in Nat
  BY <1>1, <1>2 DEF Cell, BlockSums
<1>4. fa.blocks[b][1] + k - 1 = fa.blocks[d][1] + e - 1
  BY <1>1 DEF RowAt
<1>5. ~(b < d)
  <2>1. b < d => fa.blocks[b][2] <= fa.blocks[d][1]
    BY <1>1, <1>2 DEF Filtered, BlockSums
  <2> QED
    BY <1>2, <1>3, <1>4, <2>1
<1>6. ~(d < b)
  <2>1. d < b => fa.blocks[d][2] <= fa.blocks[b][1]
    BY <1>1, <1>2 DEF Filtered, BlockSums
  <2> QED
    BY <1>2, <1>3, <1>4, <2>1
<1>7. b = d
  BY <1>2, <1>5, <1>6
<1> QED
  BY <1>1, <1>3, <1>4, <1>7

(* No row is matched twice.                                                *)
LEMMA MatchedOnce ==
  ASSUME NEW result, Result(result), NEW g \in 1..TotalCount(result), NEW h \in 1..TotalCount(result),
         MatchedRows(result)[g] = MatchedRows(result)[h]
  PROVE  g = h
<1>1. PICK a, b, k : Cell(result, a, b, k) /\ g = At(result, a, b, k)
  BY CellOf
<1>2. PICK c, d, e : Cell(result, c, d, e) /\ h = At(result, c, d, e)
  BY CellOf
<1>3. MatchedRows(result)[g] = RowAt(result, a, b, k) /\ MatchedRows(result)[h] = RowAt(result, c, d, e)
  BY <1>1, <1>2, MatchedAre DEF RowAt
<1>4. a = c /\ b = d /\ k = e
  BY <1>1, <1>2, <1>3, CellsDiffer
<1> QED
  BY <1>1, <1>2, <1>4

(* The matched rows are the rows of the blocks.                            *)
InBlocks(result, a, r) ==
    /\ a \in 1..Len(result) /\ r \in Nat
    /\ \E b \in 1..Len(result[a].blocks) : result[a].blocks[b][1] <= r /\ r < result[a].blocks[b][2]

(* A matched row is in a block ...                                         *)
LEMMA MatchedInBlocks ==
  ASSUME NEW result, Result(result), NEW g \in 1..TotalCount(result)
  PROVE  \E a, r : InBlocks(result, a, r) /\ MatchedRows(result)[g] = <<a, r>>
<1>1. PICK a, b, k : Cell(result, a, b, k) /\ g = At(result, a, b, k)
  BY CellOf
<1>2. MatchedRows(result)[g] = <<a, result[a].blocks[b][1] + k - 1>>
  BY <1>1, MatchedAre
<1>3. a \in 1..Len(result) /\ Filtered(result[a])
  BY <1>1 DEF Cell, Result
<1> PICK m, c : BlockSums(result[a], m, c)
  BY <1>3, BlockSumsOf
<1>4. b \in 1..m /\ m = Len(result[a].blocks)
  BY <1>1 DEF Cell, BlockSums
<1>5. /\ k \in 1..(result[a].blocks[b][2] - result[a].blocks[b][1])
      /\ result[a].blocks[b][1] \in Nat /\ result[a].blocks[b][2] \in Nat
  BY <1>1, <1>4 DEF Cell, BlockSums
<1>6. PICK r \in Nat : /\ r = result[a].blocks[b][1] + k - 1
                       /\ result[a].blocks[b][1] <= r /\ r < result[a].blocks[b][2]
  BY <1>5
<1> QED
  BY <1>2, <1>3, <1>4, <1>6 DEF InBlocks

(* ... and a row in a block is matched.                                    *)
LEMMA InBlocksMatched ==
  ASSUME NEW result, Result(result), NEW a, NEW r, InBlocks(result, a, r)
  PROVE  \E g \in 1..TotalCount(result) : MatchedRows(result)[g] = <<a, r>>
<1>1. a \in 1..Len(result) /\ Filtered(result[a]) /\ r \in Nat
  BY DEF InBlocks, Result
<1> PICK m, c : BlockSums(result[a], m, c)
  BY <1>1, BlockSumsOf
<1>2. PICK b \in 1..m : result[a].blocks[b][1] <= r /\ r < result[a].blocks[b][2]
  BY DEF InBlocks, BlockSums
<1>3. /\ BlockSize(result[a].blocks[b]) = result[a].blocks[b][2] - result[a].blocks[b][1]
      /\ result[a].blocks[b][1] \in Nat /\ result[a].blocks[b][2] \in Nat
  BY DEF BlockSums
<1>4. PICK k \in 1..BlockSize(result[a].blocks[b]) : r = result[a].blocks[b][1] + k - 1
  <2>1. PICK x, y \in Nat : x = result[a].blocks[b][1] /\ y = result[a].blocks[b][2]
    BY <1>3
  <2>2. (r - x) + 1 \in 1..(y - x) /\ r = x + ((r - x) + 1) - 1
    <3>1. r \in Nat /\ x <= r /\ r < y
      BY <1>1, <1>2, <2>1
    <3> QED
      BY ONLY <3>1, x \in Nat, y \in Nat
  <2> QED
    BY <1>3, <2>1, <2>2
<1>5. Cell(result, a, b, k)
  BY <1>1 DEF Cell, BlockSums
<1>6. At(result, a, b, k) \in 1..TotalCount(result)
  BY <1>5, AtBounds
<1> QED
  BY <1>4, <1>5, <1>6, MatchedAre

-----------------------------------------------------------------------------
(* Arrays <<archetype, row, length>>, and the matched rows they hold.      *)
Triples == Nat \X Nat \X Nat

(* The array stays inside a block and on one side of the cut.              *)
Inside(result, x) ==
    /\ x[1] \in 1..Len(result)
    /\ \E b \in 1..Len(result[x[1]].blocks) :
          result[x[1]].blocks[b][1] <= x[2] /\ x[2] + x[3] <= result[x[1]].blocks[b][2]
    /\ x[2] < result[x[1]].cut => x[2] + x[3] <= result[x[1]].cut

(* The array holds the matched rows from the g-th on (counted from 0).     *)
Holds(result, x, g) ==
    /\ x \in Triples
    /\ Inside(result, x)
    /\ \A k \in 1..x[3] : MatchedRows(result)[g + k] = <<x[1], x[2] + k - 1>>

(* The arrays hold the matched rows from g to h, in order; l has where each*)
(* begins.                                                                 *)
TilesAt(result, s, l, g, h) ==
    /\ l \in [0..Len(s) -> Nat]
    /\ l[0] = g /\ l[Len(s)] = h
    /\ \A i \in 1..Len(s) : l[i] = l[i - 1] + s[i][3] /\ Holds(result, s[i], l[i - 1])
Tiles(result, s, g, h) == s \in Seq(Triples) /\ \E l : TilesAt(result, s, l, g, h)

(* No arrays hold no rows.                                                 *)
LEMMA TilesEmpty ==
  ASSUME NEW result, NEW g \in Nat
  PROVE  Tiles(result, <<>>, g, g)
<1>1. PICK l : l = [i \in 0..0 |-> g]
  OBVIOUS
<1>2. l \in [0..0 -> Nat] /\ l[0] = g
  BY <1>1
<1>3. Len(<<>>) = 0 /\ <<>> \in Seq(Triples) /\ 1..0 = {}
  OBVIOUS
<1>4. TilesAt(result, <<>>, l, g, g)
  BY <1>2, <1>3 DEF TilesAt
<1> QED
  BY <1>3, <1>4 DEF Tiles

(* One array holds its rows.                                               *)
LEMMA TilesOne ==
  ASSUME NEW result, NEW g \in Nat, NEW x, Holds(result, x, g)
  PROVE  Tiles(result, <<x>>, g, g + x[3])
<1>0. x \in Triples /\ x[3] \in Nat
  BY DEF Holds, Triples
<1>1. PICK l : l = [i \in 0..1 |-> IF i = 0 THEN g ELSE g + x[3]]
  OBVIOUS
<1>2. l \in [0..1 -> Nat] /\ l[0] = g /\ l[1] = g + x[3]
  BY <1>0, <1>1
<1>3. <<x>> \in Seq(Triples) /\ Len(<<x>>) = 1 /\ <<x>>[1] = x
  BY <1>0
<1>4. TilesAt(result, <<x>>, l, g, g + x[3])
  <2> PICK s : s = <<x>>
    OBVIOUS
  <2>1. Len(s) = 1 /\ s[1] = x
    BY <1>3
  <2>2. \A i \in 1..1 : i = 1
    OBVIOUS
  <2>3. \A i \in 1..1 : l[i] = l[i - 1] + s[i][3] /\ Holds(result, s[i], l[i - 1])
    BY <1>2, <2>1, <2>2
  <2> QED
    BY <1>2, <2>1, <2>3 DEF TilesAt
<1> QED
  BY <1>3, <1>4 DEF Tiles

(* Arrays that go on where the others end.                                 *)
LEMMA TilesJoin ==
  ASSUME NEW result, NEW s, NEW t, NEW g, NEW h, NEW j, Tiles(result, s, g, h), Tiles(result, t, h, j)
  PROVE  Tiles(result, s \o t, g, j)
<1> PICK l : TilesAt(result, s, l, g, h)
  BY DEF Tiles
<1> PICK r : TilesAt(result, t, r, h, j)
  BY DEF Tiles
<1>1. s \in Seq(Triples) /\ t \in Seq(Triples)
  BY DEF Tiles
<1> PICK n \in Nat : n = Len(s)
  BY <1>1
<1> PICK m \in Nat : m = Len(t)
  BY <1>1
<1>2. /\ l \in [0..n -> Nat] /\ l[0] = g /\ l[n] = h
      /\ \A i \in 1..n : l[i] = l[i - 1] + s[i][3] /\ Holds(result, s[i], l[i - 1])
  BY DEF TilesAt
<1>3. /\ r \in [0..m -> Nat] /\ r[0] = h /\ r[m] = j
      /\ \A i \in 1..m : r[i] = r[i - 1] + t[i][3] /\ Holds(result, t[i], r[i - 1])
  BY DEF TilesAt
<1> PICK u \in Seq(Triples) : u = s \o t
  BY <1>1, ConcatProperties
<1>4. Len(u) = n + m /\ \A i \in 1..(n + m) : u[i] = IF i <= n THEN s[i] ELSE t[i - n]
  BY <1>1, ConcatProperties
<1> PICK q : q = [i \in 0..(n + m) |-> IF i <= n THEN l[i] ELSE r[i - n]]
  OBVIOUS
<1>5. \A i \in 0..n : q[i] = l[i] /\ q[i] \in Nat
  <2>1. \A i \in 0..n : i \in 0..(n + m) /\ i <= n
    OBVIOUS
  <2>2. \A i \in 0..n : q[i] = l[i]
    BY <2>1
  <2> QED
    BY <1>2, <2>2
<1>6. ASSUME NEW i \in n..(n + m) PROVE q[i] = r[i - n] /\ q[i] \in Nat
  <2>1. i - n \in 0..m /\ i \in 0..(n + m)
    OBVIOUS
  <2>2. r[i - n] \in Nat
    BY <1>3, <2>1
  <2>3. CASE i = n
    BY <1>2, <1>3, <1>5, <2>2, <2>3
  <2>4. CASE i # n
    BY <2>1, <2>2, <2>4
  <2> QED
    BY <2>3, <2>4
<1>7. q \in [0..(n + m) -> Nat]
  <2>1. \A i \in 0..(n + m) : i \in 0..n \/ i \in n..(n + m)
    OBVIOUS
  <2>2. \A i \in 0..(n + m) : q[i] \in Nat
    BY <1>5, <1>6, <2>1
  <2>3. q = [i \in 0..(n + m) |-> q[i]]
    OBVIOUS
  <2> QED
    BY <2>2, <2>3, Zenon
<1>8. q[0] = g /\ q[n + m] = j
  <2>1. n + m \in n..(n + m) /\ (n + m) - n = m /\ 0 \in 0..n
    OBVIOUS
  <2> QED
    BY <1>2, <1>3, <1>5, <1>6, <2>1
<1>9. ASSUME NEW i \in 1..(n + m)
      PROVE  q[i] = q[i - 1] + u[i][3] /\ Holds(result, u[i], q[i - 1])
  <2>1. CASE i <= n
    <3>1. i \in 1..n /\ i \in 0..n /\ i - 1 \in 0..n
      BY <2>1
    <3>2. q[i] = l[i] /\ q[i - 1] = l[i - 1] /\ u[i] = s[i]
      BY <1>4, <1>5, <2>1, <3>1
    <3> QED
      BY <1>2, <3>1, <3>2
  <2>2. CASE ~(i <= n)
    <3>1. PICK k \in 1..m : k = i - n /\ k - 1 = (i - 1) - n
      BY <2>2
    <3>2. i \in n..(n + m) /\ i - 1 \in n..(n + m)
      BY <2>2
    <3>3. q[i] = r[k] /\ q[i - 1] = r[k - 1] /\ u[i] = t[k]
      BY <1>4, <1>6, <2>2, <3>1, <3>2
    <3> QED
      BY <1>3, <3>1, <3>3
  <2> QED
    BY <2>1, <2>2
<1>10. TilesAt(result, u, q, g, j)
  BY <1>4, <1>7, <1>8, <1>9 DEF TilesAt
<1> QED
  BY <1>10 DEF Tiles

(* An array that goes on where others end holds the rows after theirs.     *)
LEMMA TilesAppend ==
  ASSUME NEW result, NEW s, NEW g \in Nat, NEW h \in Nat, Tiles(result, s, g, h), NEW x, Holds(result, x, h)
  PROVE  Tiles(result, Append(s, x), g, h + x[3])
<1>1. s \in Seq(Triples) /\ x \in Triples
  BY DEF Tiles, Holds
<1>2. Append(s, x) = s \o <<x>>
  BY <1>1, AppendIsConcat
<1>3. Tiles(result, <<x>>, h, h + x[3])
  BY TilesOne
<1> QED
  BY <1>2, <1>3, TilesJoin

(* The rows of arrays, one after the other.                                *)
ArrayRows(x) == [k \in 1..x[3] |-> <<x[1], x[2] + k - 1>>]
AllRows(s) == FlattenSeq([i \in DOMAIN s |-> ArrayRows(s[i])])

(* The matched rows from g to h.                                           *)
RowsFromTo(result, s, g, h) ==
    /\ h \in Nat /\ g <= h
    /\ AllRows(s) \in Seq(Rows)
    /\ Len(AllRows(s)) = h - g
    /\ \A k \in 1..(h - g) : AllRows(s)[k] = MatchedRows(result)[g + k]

(* Arrays that hold the rows from g to h visit those rows.                 *)
LEMMA TilesRows ==
  ASSUME NEW result, NEW s, NEW g \in Nat, NEW h, Tiles(result, s, g, h)
  PROVE  RowsFromTo(result, s, g, h)
<1> PICK l : TilesAt(result, s, l, g, h)
  BY DEF Tiles
<1>1. s \in Seq(Triples)
  BY DEF Tiles
<1> PICK n \in Nat : n = Len(s) /\ DOMAIN s = 1..n
  BY <1>1
<1>2. /\ l \in [0..n -> Nat] /\ l[0] = g /\ l[n] = h
      /\ \A i \in 1..n : l[i] = l[i - 1] + s[i][3] /\ Holds(result, s[i], l[i - 1])
  BY DEF TilesAt
<1>3. \A i \in 1..n : s[i] \in Triples /\ s[i][1] \in Nat /\ s[i][2] \in Nat /\ s[i][3] \in Nat
  BY <1>2 DEF Holds, Triples
<1> DEFINE ss == [i \in 1..n |-> ArrayRows(s[i])]
           f == [i \in 1..n |-> s[i][3]]
<1>4. \A i \in 1..n : ArrayRows(s[i]) \in Seq(Rows) /\ Len(ArrayRows(s[i])) = s[i][3]
  <2> TAKE i \in 1..n
  <2>1. PICK x, y, z \in Nat : x = s[i][1] /\ y = s[i][2] /\ z = s[i][3]
    BY <1>3
  <2>2. [k \in 1..z |-> <<x, y + k - 1>>] \in [1..z -> Rows]
    BY DEF Rows
  <2>3. ArrayRows(s[i]) \in [1..z -> Rows]
    BY <2>1, <2>2 DEF ArrayRows
  <2> QED
    BY <2>1, <2>3, SeqOfFunction
<1>5. ss \in Seq(Seq(Rows)) /\ Len(ss) = n
  <2>1. ss \in [1..n -> Seq(Rows)]
    BY <1>4
  <2> HIDE DEF ss
  <2> QED
    BY <2>1, SeqOfFunction
<1>6. \A i \in 1..n : ss[i] = ArrayRows(s[i]) /\ Len(ss[i]) = s[i][3]
  BY <1>4
<1>7. f \in [1..n -> Nat] /\ f = Lens(ss)
  <2> HIDE DEF ss
  <2> QED
    BY <1>3, <1>5, <1>6 DEF Lens
<1>8. PICK a : Adds(a, n, f)
  <2> HIDE DEF f
  <2> QED
    BY <1>7, AddsExist
<1>9. a \in [0..n -> Nat] /\ a[0] = 0 /\ \A i \in 1..n : a[i] = a[i - 1] + s[i][3]
  BY <1>8 DEF Adds
<1> DEFINE R == FlattenSeq(ss)
<1>10. /\ R \in Seq(Rows) /\ Len(R) = a[n]
       /\ \A i \in 1..n : \A k \in 1..Len(ss[i]) : R[a[i - 1] + k] = ss[i][k]
  <2> HIDE DEF ss, f
  <2>1. Adds(a, Len(ss), Lens(ss))
    BY ONLY <1>5, <1>7, <1>8, Zenon
  <2>2. /\ FlattenSeq(ss) \in Seq(Rows) /\ Len(FlattenSeq(ss)) = a[Len(ss)]
        /\ \A i \in 1..Len(ss) : \A k \in 1..Len(ss[i]) : FlattenSeq(ss)[a[i - 1] + k] = ss[i][k]
    <3>1. Joined(ss, a, Rows)
      BY ONLY <1>5, <2>1, FlattenAt
    <3> QED
      BY ONLY <3>1, Zenon DEF Joined
  <2> QED
    BY ONLY <1>5, <2>2, Zenon
<1>11. R = AllRows(s)
  BY DEF AllRows
<1> DEFINE U == {i \in 0..n : l[i] = g + a[i]}
<1>12. 0..n \subseteq U
  <2>1. 0 \in U
    BY <1>2, <1>9
  <2>2. ASSUME NEW i \in 1..n, i - 1 \in U PROVE i \in U
    <3>1. PICK x, y, z \in Nat : x = l[i - 1] /\ y = a[i - 1] /\ z = s[i][3]
      <4>1. i - 1 \in 0..n
        OBVIOUS
      <4> QED
        BY <1>2, <1>3, <1>9, <4>1
    <3>2. l[i] = x + z
      BY <1>2, <3>1
    <3>3. a[i] = y + z
      BY <1>9, <3>1
    <3>4. x = g + y
      BY <2>2, <3>1
    <3>5. l[i] = g + a[i]
      BY <3>2, <3>3, <3>4
    <3> QED
      BY <3>5
  <2> HIDE DEF U
  <2> QED
    BY <2>1, <2>2, Upto
<1>13. a[n] \in Nat /\ h = g + a[n]
  BY <1>2, <1>9, <1>12
<1>14. ASSUME NEW k \in 1..(h - g) PROVE R[k] = MatchedRows(result)[g + k]
  <2>1. PICK e \in Nat : e = k - 1 /\ e < a[n]
    BY <1>13
  <2>2. PICK i \in 1..n : a[i - 1] <= e /\ e < a[i]
    <3> HIDE DEF f
    <3> QED
      BY <1>7, <1>8, <2>1, AddsLocate
  <2>3. PICK y, z \in Nat : y = a[i - 1] /\ z = s[i][3] /\ a[i] = y + z
    <3>1. i - 1 \in 0..n
      OBVIOUS
    <3> QED
      BY <1>3, <1>9, <3>1
  <2>4. PICK p \in 1..z : k = y + p
    <3>1. k - y \in 1..z /\ k = y + (k - y)
      BY <2>1, <2>2, <2>3
    <3> QED
      BY <3>1
  <2>5. R[k] = <<s[i][1], s[i][2] + p - 1>>
    <3>1. R[k] = ss[i][p]
      <4> HIDE DEF ss
      <4> QED
        BY <1>6, <1>10, <2>3, <2>4
    <3>2. ss[i][p] = <<s[i][1], s[i][2] + p - 1>>
      BY <2>3, <2>4 DEF ArrayRows
    <3> QED
      BY <3>1, <3>2
  <2>6. l[i - 1] = g + y /\ l[i - 1] + p = g + k
    <3>1. i - 1 \in 0..n /\ i - 1 \in U
      BY <1>12
    <3>2. l[i - 1] = g + y
      BY <2>3, <3>1
    <3> QED
      BY <2>3, <2>4, <3>2
  <2>7. MatchedRows(result)[l[i - 1] + p] = <<s[i][1], s[i][2] + p - 1>>
    BY <1>2, <2>3, <2>4 DEF Holds
  <2> QED
    BY <2>5, <2>6, <2>7
<1> HIDE DEF ss, f, R
<1> QED
  BY <1>10, <1>11, <1>13, <1>14 DEF RowsFromTo

-----------------------------------------------------------------------------
(* The loops.                                                              *)

(* Where the first-th matched entity of an archetype is: in block b, after *)
(* y of its rows, or at the end of block b.                                *)
LEMMA LocateIs ==
  ASSUME NEW fa, Filtered(fa), NEW n, NEW l, BlockSums(fa, n, l), NEW first \in Nat, first < EntitiesCount(fa)
  PROVE  \E b \in 1..n : \E y \in 0..BlockSize(fa.blocks[b]) :
            l[b - 1] + y = first /\ Locate(fa, first) = <<b, fa.blocks[b][1] + y>>
<1> DEFINE size(b) == BlockSize(fa.blocks[b])
           next == [p \in Nat \X Nat |-> IF p[2] > size(p[1]) THEN <<p[1] + 1, p[2] - size(p[1])>> ELSE p]
           end == Loop(next, <<1, first>>, n)
           S == {p \in (1..n) \X Nat : l[p[1] - 1] + p[2] = first}
           rank == [p \in S |-> IF p[2] > size(p[1]) THEN (n + 1) - p[1] ELSE 0]
<1>1. n \in Nat \ {0} /\ n = Len(fa.blocks) /\ l \in [0..n -> Nat] /\ l[0] = 0 /\ first < l[n]
  BY DEF BlockSums
<1>2. \A b \in 1..n : size(b) \in Nat \ {0} /\ l[b] = l[b - 1] + size(b)
  BY DEF BlockSums
<1>3. \A b \in 1..n : l[b] <= l[n] /\ l[b - 1] \in Nat /\ l[b] \in Nat /\ l[n] \in Nat
  <2> TAKE b \in 1..n
  <2>1. b \in 0..n /\ n \in 0..n /\ b - 1 \in 0..n /\ b <= n
    BY <1>1
  <2> QED
    BY <1>1, <2>1 DEF BlockSums
<1> HIDE DEF size
<1>4. ASSUME NEW p \in S
      PROVE  /\ next[p] \in S
             /\ rank[p] \in Nat
             /\ rank[next[p]] < rank[p] \/ rank[next[p]] = 0
  <2> PICK b \in 1..n, y \in Nat : p = <<b, y>> /\ p[1] = b /\ p[2] = y /\ l[b - 1] + y = first
    OBVIOUS
  <2>1. p \in Nat \X Nat
    BY <1>1
  <2> PICK z \in Nat : z = size(b)
    BY <1>2
  <2>2. rank[p] = IF y > z THEN (n + 1) - b ELSE 0
    OBVIOUS
  <2>3. CASE y > z
    <3>1. next[p] = <<b + 1, y - z>>
      BY <2>1, <2>3
    <3>2. l[b] + (y - z) = first /\ l[b] < first
      BY <1>2, <1>3, <2>3
    <3>3. b # n
      <4>1. l[b] \in Nat /\ l[n] \in Nat
        BY <1>1, <1>3
      <4> QED
        BY <1>1, <3>2, <4>1
    <3>4. b + 1 \in 1..n /\ y - z \in Nat /\ (b + 1) - 1 = b
      BY <1>1, <2>3, <3>3
    <3>5. <<b + 1, y - z>> \in S
      BY <3>2, <3>4
    <3>6. rank[<<b + 1, y - z>>] = IF y - z > size(b + 1) THEN (n + 1) - (b + 1) ELSE 0
      BY <3>5
    <3>7. (n + 1) - (b + 1) < (n + 1) - b /\ (n + 1) - b \in Nat
      BY <1>1
    <3> HIDE DEF next, rank, S
    <3>8. rank[next[p]] = (n + 1) - (b + 1) \/ rank[next[p]] = 0
      BY <3>1, <3>6
    <3> QED
      BY <2>2, <2>3, <3>1, <3>5, <3>7, <3>8
  <2>4. CASE ~(y > z)
    <3>1. next[p] = p
      BY <2>1, <2>4
    <3>2. rank[p] = 0
      BY <2>2, <2>4
    <3> HIDE DEF next, rank, S
    <3> QED
      BY <3>1, <3>2
  <2> QED
    BY <2>3, <2>4
<1>5. <<1, first>> \in S /\ rank[<<1, first>>] <= n
  <2>1. <<1, first>> \in S
    BY <1>1
  <2>2. rank[<<1, first>>] = IF first > size(1) THEN (n + 1) - 1 ELSE 0
    BY <2>1
  <2> HIDE DEF rank, S
  <2> QED
    BY <1>1, <2>1, <2>2
<1>6. rank \in [S -> Nat]
  <2>1. \A p \in S : rank[p] \in Nat
    <3> HIDE DEF rank, S, next
    <3> QED
      BY <1>4
  <2>2. rank = [p \in S |-> rank[p]]
    OBVIOUS
  <2> HIDE DEF rank, S
  <2> QED
    BY <2>1, <2>2, Zenon
<1>7. end \in S /\ rank[end] = 0
  <2>1. (\A s \in S : next[s] \in S) /\ (\A s \in S : rank[next[s]] < rank[s] \/ rank[next[s]] = 0)
    <3> HIDE DEF rank, S, next
    <3> QED
      BY <1>4
  <2>2. n \in Nat
    BY <1>1
  <2> HIDE DEF rank, S, next
  <2> QED
    BY ONLY <1>5, <1>6, <2>1, <2>2, LoopStays
<1>8. Locate(fa, first) = <<end[1], fa.blocks[end[1]][1] + end[2]>>
  BY <1>1 DEF Locate, size
<1>9. PICK b \in 1..n, y \in Nat : end = <<b, y>> /\ end[1] = b /\ end[2] = y /\ l[b - 1] + y = first
  <2> HIDE DEF end
  <2> QED
    BY <1>7
<1>10. ~(y > size(b))
  <2>1. rank[end] = IF y > size(b) THEN (n + 1) - b ELSE 0
    <3> HIDE DEF end
    <3> QED
      BY <1>7, <1>9
  <2>2. (n + 1) - b # 0
    BY <1>1
  <2> HIDE DEF rank, end
  <2> QED
    BY <1>7, <2>1, <2>2
<1>11. y \in 0..size(b)
  BY <1>2, <1>10
<1> HIDE DEF end, next, rank, S
<1> QED
  BY <1>8, <1>9, <1>11 DEF size

(* What Min is for two numbers and for three.                              *)
LEMMA MinOfTwo ==
  ASSUME NEW x \in Int, NEW y \in Int
  PROVE  Min({x, y}) = IF x <= y THEN x ELSE y
<1>1. PICK m \in {x, y} : \A u \in {x, y} : m <= u
  <2>1. CASE x <= y
    <3>1. x \in {x, y} /\ \A u \in {x, y} : x <= u
      BY <2>1
    <3> QED
      BY <3>1
  <2>2. CASE ~(x <= y)
    <3>1. y \in {x, y} /\ \A u \in {x, y} : y <= u
      BY <2>2
    <3> QED
      BY <3>1
  <2> QED
    BY <2>1, <2>2
<1>2. Min({x, y}) \in {x, y} /\ \A u \in {x, y} : Min({x, y}) <= u
  BY <1>1, Zenon DEF Min
<1> QED
  BY <1>2

LEMMA MinOfThree ==
  ASSUME NEW x \in Int, NEW y \in Int, NEW z \in Int
  PROVE  /\ Min({x, y, z}) \in {x, y, z}
         /\ Min({x, y, z}) <= x /\ Min({x, y, z}) <= y /\ Min({x, y, z}) <= z
<1>1. PICK m \in {x, y, z} : \A u \in {x, y, z} : m <= u
  <2>1. CASE x <= y /\ x <= z
    <3>1. \A u \in {x, y, z} : x <= u
      BY <2>1
    <3> QED
      BY <3>1
  <2>2. CASE y <= x /\ y <= z
    <3>1. \A u \in {x, y, z} : y <= u
      BY <2>2
    <3> QED
      BY <3>1
  <2>3. CASE z <= x /\ z <= y
    <3>1. \A u \in {x, y, z} : z <= u
      BY <2>3
    <3> QED
      BY <3>1
  <2> QED
    BY <2>1, <2>2, <2>3
<1>2. Min({x, y, z}) \in {x, y, z} /\ \A u \in {x, y, z} : Min({x, y, z}) <= u
  BY <1>1, Zenon DEF Min
<1> QED
  BY <1>2

(* The arrays of the a-th archetype.                                       *)
Tagged(a, s) == [k \in DOMAIN s |-> <<a, s[k][1], s[k][2]>>]

(* Appending an array appends its tagged form.                             *)
LEMMA TaggedAppend ==
  ASSUME NEW a \in Nat, NEW s \in Seq(Nat \X Nat), NEW row \in Nat, NEW k \in Nat,
         NEW x, x = <<row, k>>, NEW y, y = <<a, row, k>>
  PROVE  Tagged(a, Append(s, x)) = Append(Tagged(a, s), y)
<1> PICK n \in Nat : n = Len(s) /\ DOMAIN s = 1..n
  OBVIOUS
<1>x. x \in Nat \X Nat /\ x[1] = row /\ x[2] = k
  OBVIOUS
<1>y. y \in Triples
  BY DEF Triples
<1> PICK t : t = Append(s, x)
  OBVIOUS
<1>1. t \in Seq(Nat \X Nat) /\ Len(t) = n + 1 /\ DOMAIN t = 1..(n + 1) /\ t[n + 1] = x /\ \A i \in 1..n : t[i] = s[i]
  BY <1>x, AppendProperties
<1>2. Tagged(a, s) \in [1..n -> Triples]
  <2>1. \A i \in 1..n : <<a, s[i][1], s[i][2]>> \in Triples
    BY DEF Triples
  <2> QED
    BY <2>1 DEF Tagged
<1>3. PICK u \in Seq(Triples) : u = Tagged(a, s) /\ Len(u) = n
  BY <1>2, SeqOfFunction
<1>4. PICK v : v = Append(u, y)
  OBVIOUS
<1>5. v \in Seq(Triples) /\ Len(v) = n + 1 /\ DOMAIN v = 1..(n + 1) /\ v[n + 1] = y /\ \A i \in 1..n : v[i] = u[i]
  BY <1>y, <1>3, <1>4, AppendProperties
<1>6. PICK w : w = Tagged(a, t)
  OBVIOUS
<1>7. w = [i \in 1..(n + 1) |-> <<a, t[i][1], t[i][2]>>]
  BY <1>1, <1>6 DEF Tagged
<1>8. w[n + 1] = y /\ (\A i \in 1..n : w[i] = u[i])
  <2>1. n + 1 \in 1..(n + 1) /\ \A i \in 1..n : i \in 1..(n + 1)
    OBVIOUS
  <2>2. \A i \in 1..n : u[i] = <<a, s[i][1], s[i][2]>>
    BY <1>3 DEF Tagged
  <2>3. w[n + 1] = <<a, t[n + 1][1], t[n + 1][2]>>
    BY <1>7, <2>1
  <2>4. \A i \in 1..n : w[i] = <<a, t[i][1], t[i][2]>>
    BY <1>7, <2>1
  <2>5. w[n + 1] = y
    BY <1>x, <1>1, <2>3
  <2>6. \A i \in 1..n : w[i] = u[i]
    BY <1>1, <2>2, <2>4
  <2> QED
    BY <2>5, <2>6
<1>9. \A i \in 1..(n + 1) : i \in 1..n \/ i = n + 1
  OBVIOUS
<1>10. \A i \in 1..(n + 1) : w[i] = v[i]
  BY <1>5, <1>8, <1>9
<1>11. v = [i \in 1..(n + 1) |-> v[i]]
  BY <1>5
<1>12. w = [i \in 1..(n + 1) |-> w[i]]
  BY <1>7
<1>13. w = v
  BY <1>10, <1>11, <1>12, Zenon
<1> QED
  BY <1>3, <1>4, <1>6, <1>13

(* An array within a block and up to the cut at most holds matched rows.   *)
LEMMA HoldsArray ==
  ASSUME NEW result, Result(result), NEW a \in 1..Len(result), NEW n, NEW l, BlockSums(result[a], n, l),
         NEW b \in 1..n, NEW row \in Nat, result[a].blocks[b][1] <= row,
         NEW k \in Nat, row + k <= result[a].blocks[b][2], k <= DistToChunkEnd(result[a], row),
         NEW g, g = Totals(result)[a - 1] + l[b - 1] + (row - result[a].blocks[b][1])
  PROVE  Holds(result, <<a, row, k>>, g)
<1> PICK fa : fa = result[a]
  OBVIOUS
<1>1. Filtered(fa) /\ a \in Nat
  BY TotalsAre DEF Result
<1>2. n \in Nat /\ n = Len(fa.blocks) /\ l = Ends(fa) /\ l \in [0..n -> Nat]
  BY DEF BlockSums
<1>3. fa.cut \in Nat /\ fa.size \in Nat
  BY <1>1 DEF Filtered
<1> PICK x : x = <<a, row, k>>
  OBVIOUS
<1>x. x \in Triples /\ x[1] = a /\ x[2] = row /\ x[3] = k
  BY <1>1 DEF Triples
<1>4. Inside(result, x)
  <2>1. row < fa.cut => row + k <= fa.cut
    BY <1>3 DEF DistToChunkEnd
  <2> QED
    BY <1>x, <1>2, <2>1 DEF Inside
<1>5. ASSUME NEW j \in 1..k PROVE MatchedRows(result)[g + j] = <<a, row + j - 1>>
  <2> PICK lo \in Nat : lo = fa.blocks[b][1]
    BY DEF BlockSums
  <2> PICK hi \in Nat : hi = fa.blocks[b][2]
    BY DEF BlockSums
  <2>1. BlockSize(fa.blocks[b]) = hi - lo
    BY DEF BlockSums
  <2>a. lo <= row /\ row + k <= hi /\ j \in Nat /\ 1 <= j /\ j <= k
    OBVIOUS
  <2>b. (row - lo) + j \in 1..(hi - lo)
    BY ONLY <2>a, row \in Nat, lo \in Nat, hi \in Nat, k \in Nat
  <2>2. PICK m \in 1..(hi - lo) : m = (row - lo) + j
    BY <2>b
  <2>3. Cell(result, a, b, m)
    BY <1>2, <2>1, <2>2 DEF Cell
  <2>4. PICK p, q \in Nat : p = Totals(result)[a - 1] /\ q = l[b - 1]
    BY <1>2, <2>3, AtBounds
  <2>5. At(result, a, b, m) = p + q + m
    BY <1>2, <2>4 DEF At
  <2>6. g + j = p + q + m
    <3>1. g = p + q + (row - lo)
      BY <2>4
    <3> QED
      BY ONLY <2>2, <2>a, <2>4, <3>1, row \in Nat, lo \in Nat, hi \in Nat
  <2>7. MatchedRows(result)[At(result, a, b, m)] = <<a, result[a].blocks[b][1] + m - 1>>
    <3>1. \A c, d, e : Cell(result, c, d, e) =>
             MatchedRows(result)[At(result, c, d, e)] = <<c, result[c].blocks[d][1] + e - 1>>
      BY ONLY Result(result), MatchedAre
    <3> QED
      BY ONLY <2>3, <3>1, Zenon
  <2>8. result[a].blocks[b][1] + m - 1 = row + j - 1
    <3>1. result[a].blocks[b][1] = lo
      OBVIOUS
    <3> QED
      BY ONLY <2>2, <2>a, <3>1, row \in Nat, lo \in Nat
  <2> QED
    BY <2>5, <2>6, <2>7, <2>8
<1>6. Holds(result, x, g)
  BY <1>x, <1>4, <1>5 DEF Holds
<1> QED
  BY <1>6

(* The arrays of count matched entities of an archetype, from the first-th *)
(* on, hold those and no others.                                           *)
LEMMA ArraysTile ==
  ASSUME NEW result, Result(result), NEW a \in 1..Len(result),
         NEW first \in Nat, NEW count \in Nat \ {0}, first + count <= EntitiesCount(result[a])
  PROVE  LET arrays == Arrays(result[a], first, count)
             base == Totals(result)[a - 1]
         IN  /\ arrays \in Seq(Nat \X Nat)
             /\ Tiles(result, Tagged(a, arrays), base + first, base + first + count)
<1> PICK fa : fa = result[a]
  OBVIOUS
<1>1. Filtered(fa)
  BY DEF Result
<1> PICK n, l : BlockSums(fa, n, l)
  BY <1>1, BlockSumsOf
<1>2. n \in Nat \ {0} /\ n = Len(fa.blocks) /\ l \in [0..n -> Nat] /\ l = Ends(fa)
  BY DEF BlockSums
<1>3. PICK base \in Nat : base = Totals(result)[a - 1]
  <2>1. a - 1 \in 0..Len(result)
    OBVIOUS
  <2> QED
    BY <2>1, TotalsAre DEF Adds
<1>4. \A b \in 1..n : /\ fa.blocks[b][1] \in Nat /\ fa.blocks[b][2] \in Nat
                      /\ fa.blocks[b][1] < fa.blocks[b][2] /\ fa.blocks[b][2] <= fa.size
                      /\ l[b - 1] \in Nat
                      /\ l[b] = l[b - 1] + (fa.blocks[b][2] - fa.blocks[b][1])
  <2> TAKE b \in 1..n
  <2>1. b - 1 \in 0..n
    BY <1>2
  <2> QED
    BY <1>1, <1>2, <2>1 DEF BlockSums, Filtered
<1>5. fa.size \in Nat /\ fa.cut \in Nat
  BY <1>1 DEF Filtered
<1>6. l[n] \in Nat /\ first + count <= l[n]
  <2>1. n \in 0..n
    BY <1>2
  <2> QED
    BY <1>2, <2>1 DEF BlockSums
<1> DEFINE Next1(b, row, left, s) ==
              LET done == row = fa.blocks[b][2]
                  c == IF done THEN b + 1 ELSE b
                  r == IF done THEN fa.blocks[c][1] ELSE row
                  k == Min({fa.blocks[c][2] - r, DistToChunkEnd(fa, r), left})
              IN  <<c, r + k, left - k, Append(s, <<r, k>>)>>
           next == [p \in Nat \X Nat \X Nat \X Seq(Nat \X Nat) |->
                      IF p[3] = 0 THEN p ELSE Next1(p[1], p[2], p[3], p[4])]
           At1(b, row, left, s) ==
              /\ b \in 1..n /\ row \in Nat /\ left \in 0..count /\ s \in Seq(Nat \X Nat)
              /\ fa.blocks[b][1] <= row /\ row <= fa.blocks[b][2]
              /\ l[b - 1] + (row - fa.blocks[b][1]) + left = first + count
              /\ Tiles(result, Tagged(a, s), base + first, (base + first + count) - left)
           S == {p \in Nat \X Nat \X Nat \X Seq(Nat \X Nat) : At1(p[1], p[2], p[3], p[4])}
           rank == [p \in S |-> p[3]]
           Went1(b, row, left, s) ==
              \E c, r, k : /\ Next1(b, row, left, s) = <<c, r + k, left - k, Append(s, <<r, k>>)>>
                          /\ At1(c, r + k, left - k, Append(s, <<r, k>>))
                          /\ k \in 1..left /\ c \in Nat /\ r \in Nat
<1>7. ASSUME NEW b, NEW row, NEW left, NEW s, At1(b, row, left, s), left # 0
      PROVE  Went1(b, row, left, s)
  <2>1. PICK c : c = IF row = fa.blocks[b][2] THEN b + 1 ELSE b
    OBVIOUS
  <2>2. PICK r : r = IF row = fa.blocks[b][2] THEN fa.blocks[c][1] ELSE row
    OBVIOUS
  <2>3. PICK k : k = Min({fa.blocks[c][2] - r, DistToChunkEnd(fa, r), left})
    OBVIOUS
  <2>4. Next1(b, row, left, s) = <<c, r + k, left - k, Append(s, <<r, k>>)>>
    BY <2>1, <2>2, <2>3, Zenon
  <2>5. /\ b \in 1..n /\ row \in Nat /\ left \in 1..count /\ s \in Seq(Nat \X Nat)
        /\ fa.blocks[b][1] <= row /\ row <= fa.blocks[b][2]
        /\ l[b - 1] + (row - fa.blocks[b][1]) + left = first + count
        /\ Tiles(result, Tagged(a, s), base + first, (base + first + count) - left)
    BY <1>7
  <2> HIDE DEF Next1, At1
  <2>6. /\ c \in 1..n /\ r \in Nat
        /\ fa.blocks[c][1] <= r /\ r < fa.blocks[c][2]
        /\ l[c - 1] + (r - fa.blocks[c][1]) + left = first + count
    <3> PICK x \in Nat : x = fa.blocks[b][1]
      BY <1>4, <2>5
    <3> PICK y \in Nat : y = fa.blocks[b][2]
      BY <1>4, <2>5
    <3> PICK u \in Nat : u = l[b - 1]
      BY <1>4, <2>5
    <3>u. l[b] = u + (y - x) /\ x <= row /\ row <= y /\ u + (row - x) + left = first + count
      BY <1>4, <2>5
    <3>1. CASE row = y
      <4>1. c = b + 1 /\ r = fa.blocks[c][1]
        BY <2>1, <2>2, <3>1
      <4>2. PICK v \in Nat : v = l[b] /\ v + left = first + count
        <5>1. u + (y - x) \in Nat /\ u + (y - x) + left = first + count
          BY ONLY <3>u, <3>1, x \in Nat, y \in Nat, u \in Nat
        <5> QED
          BY <3>u, <5>1
      <4>3. b # n
        <5>1. b = n => v = l[n]
          BY <4>2
        <5>2. left \in Nat /\ left # 0
          BY <2>5
        <5>3. l[n] \in Nat /\ first + count <= l[n]
          BY <1>6
        <5> QED
          BY ONLY <4>2, <5>1, <5>2, <5>3, v \in Nat
      <4>4. c \in 1..n /\ c - 1 = b
        <5>1. n \in Nat /\ b \in 1..n
          BY <1>2, <2>5
        <5> QED
          BY ONLY <4>1, <4>3, <5>1
      <4>5. PICK w \in Nat : w = fa.blocks[c][1] /\ w < fa.blocks[c][2]
        BY <1>4, <4>4
      <4>6. l[c - 1] + (w - w) + left = first + count
        BY <4>2, <4>4
      <4> QED
        BY <4>1, <4>4, <4>5, <4>6
    <3>2. CASE row # y
      <4>0. row \in Nat
        BY <2>5
      <4>1. c = b /\ r = row
        BY <2>1, <2>2, <3>2
      <4>2. row < y
        BY ONLY <3>u, <3>2, <4>0, y \in Nat
      <4> QED
        BY <2>5, <4>1, <4>2
    <3> QED
      BY <3>1, <3>2
  <2> PICK lo \in Nat : lo = fa.blocks[c][1]
    BY <1>4, <2>6
  <2> PICK hi \in Nat : hi = fa.blocks[c][2]
    BY <1>4, <2>6
  <2>7. lo <= r /\ r < hi /\ hi <= fa.size /\ r \in Nat /\ left \in Nat /\ left # 0
    BY <1>4, <2>5, <2>6
  <2> PICK d \in Nat \ {0} : d = DistToChunkEnd(fa, r)
    BY <1>5, <2>7 DEF DistToChunkEnd
  <2>8. k \in 1..left /\ k <= hi - r /\ k <= d /\ k \in Nat
    <3>1. hi - r \in Nat \ {0}
      BY ONLY <2>7, hi \in Nat
    <3>2. PICK e \in Nat \ {0} : e = hi - r
      BY <3>1
    <3>3. k = Min({e, d, left})
      BY <2>3, <3>2
    <3>4. /\ Min({e, d, left}) \in {e, d, left}
          /\ Min({e, d, left}) <= e /\ Min({e, d, left}) <= d /\ Min({e, d, left}) <= left
      <4>1. e \in Int /\ d \in Int /\ left \in Int
        BY ONLY <2>7, e \in Nat \ {0}, d \in Nat \ {0}
      <4> QED
        BY ONLY <4>1, MinOfThree
    <3>5. k \in {e, d, left} /\ k <= e /\ k <= d /\ k <= left
      BY ONLY <3>3, <3>4
    <3>6. k \in 1..left /\ k \in Nat
      BY ONLY <2>7, <3>5, e \in Nat \ {0}, d \in Nat \ {0}
    <3> QED
      BY ONLY <3>2, <3>5, <3>6
  <2>n. first \in Nat /\ count \in Nat /\ base \in Nat /\ left \in 1..count
    BY <2>5
  <2>9. PICK g \in Nat : g = (base + first + count) - left
    <3>1. (base + first + count) - left \in Nat
      BY ONLY <2>n
    <3> QED
      BY <3>1
  <2>10. g = base + l[c - 1] + (r - lo)
    <3>1. PICK u \in Nat : u = l[c - 1]
      BY <1>4, <2>6
    <3>2. u + (r - lo) + left = first + count
      BY <2>6, <3>1
    <3>3. g = base + u + (r - lo)
      BY ONLY <2>7, <2>9, <2>n, <3>2, lo \in Nat, u \in Nat
    <3> QED
      BY <3>1, <3>3
  <2>11. Holds(result, <<a, r, k>>, g)
    <3>1. r + k <= hi /\ k <= DistToChunkEnd(fa, r)
      <4>1. r + k <= hi
        BY ONLY <2>7, <2>8, hi \in Nat
      <4> QED
        BY <2>8, <4>1
    <3> QED
      BY <1>3, <2>6, <2>7, <2>8, <2>10, <3>1, HoldsArray
  <2>12. Tiles(result, Tagged(a, Append(s, <<r, k>>)), base + first, g + k)
    <3>0. a \in Nat
      OBVIOUS
    <3>1. PICK x : x = <<a, r, k>> /\ x[1] = a /\ x[2] = r /\ x[3] = k
      <4>1. \A x : x = <<a, r, k>> =>
             x[1] = a /\ x[2] = r /\ x[3] = k
        OBVIOUS
      <4>2. \E x : x = <<a, r, k>>
        OBVIOUS
      <4> QED
        BY ONLY <4>1, <4>2
    <3>2. Tiles(result, Append(Tagged(a, s), x), base + first, g + x[3])
      <4>1. base + first \in Nat
        BY ONLY <2>n
      <4>2. Tiles(result, Tagged(a, s), base + first, g) /\ Holds(result, x, g)
        BY <2>5, <2>9, <2>11, <3>1
      <4> QED
        BY ONLY <4>1, <4>2, g \in Nat, TilesAppend
    <3>3. Tagged(a, Append(s, <<r, k>>)) = Append(Tagged(a, s), x)
      <4>1. s \in Seq(Nat \X Nat) /\ r \in Nat /\ k \in Nat
        BY <2>5, <2>6, <2>8
      <4>2. PICK y : y = <<r, k>>
        OBVIOUS
      <4>3. Tagged(a, Append(s, y)) = Append(Tagged(a, s), x)
        <5>1. x = <<a, r, k>>
          BY <3>1
        <5> QED
          BY ONLY <3>0, <4>1, <4>2, <5>1, TaggedAppend
      <4> QED
        BY ONLY <4>2, <4>3, Zenon
    <3> QED
      BY <3>1, <3>2, <3>3
  <2>13. At1(c, r + k, left - k, Append(s, <<r, k>>))
    <3>1. (base + first + count) - (left - k) = g + k
      BY ONLY <2>n, <2>8, <2>9
    <3>2. <<r, k>> \in Nat \X Nat
      BY <2>7, <2>8
    <3>3. Append(s, <<r, k>>) \in Seq(Nat \X Nat)
      BY <2>5, <3>2, AppendProperties
    <3>4. r + k \in Nat /\ lo <= r + k /\ r + k <= hi /\ left - k \in 0..count
      BY ONLY <2>n, <2>7, <2>8, lo \in Nat, hi \in Nat
    <3>5. l[c - 1] + ((r + k) - lo) + (left - k) = first + count
      <4>1. PICK u \in Nat : u = l[c - 1]
        BY <1>4, <2>6
      <4>2. u + (r - lo) + left = first + count
        BY <2>6, <4>1
      <4>3. u + ((r + k) - lo) + (left - k) = first + count
        BY ONLY <2>7, <2>8, <2>n, <4>2, lo \in Nat, u \in Nat
      <4> QED
        BY <4>1, <4>3
    <3> QED
      BY <2>6, <2>12, <3>1, <3>3, <3>4, <3>5 DEF At1
  <2>14. c \in Nat
    BY <2>6
  <2> QED
    BY <2>4, <2>7, <2>8, <2>13, <2>14
<1>8. ASSUME NEW p \in S
      PROVE  /\ next[p] \in S
             /\ rank[p] \in Nat
             /\ rank[next[p]] < rank[p] \/ rank[next[p]] = 0
  <2>1. PICK b, row, left, s : /\ p = <<b, row, left, s>> /\ At1(b, row, left, s)
                               /\ p \in Nat \X Nat \X Nat \X Seq(Nat \X Nat)
                               /\ p[1] = b /\ p[2] = row /\ p[3] = left /\ p[4] = s
    OBVIOUS
  <2>2. left \in Nat
    BY <2>1
  <2>3. rank[p] = left
    BY <2>1
  <2> HIDE DEF At1, Next1
  <2>4. CASE left = 0
    <3>1. next[p] = p
      BY <2>1, <2>4
    <3> HIDE DEF next, rank, S
    <3> QED
      BY <2>2, <2>3, <2>4, <3>1
  <2>5. CASE left # 0
    <3>1. next[p] = Next1(b, row, left, s)
      BY <2>1, <2>5
    <3>a. At1(b, row, left, s)
      BY <2>1
    <3>b. Went1(b, row, left, s)
      <4> HIDE DEF Went1
      <4> QED
        BY ONLY <1>7, <2>5, <3>a
    <3>2. PICK c, r, k : /\ Next1(b, row, left, s) = <<c, r + k, left - k, Append(s, <<r, k>>)>>
                         /\ At1(c, r + k, left - k, Append(s, <<r, k>>))
                         /\ k \in 1..left /\ c \in Nat /\ r \in Nat
      BY ONLY <3>b
    <3>3. PICK q : q = <<c, r + k, left - k, Append(s, <<r, k>>)>>
      OBVIOUS
    <3>4. r + k \in Nat /\ left - k \in Nat /\ left - k < left
      BY ONLY <2>2, <3>2
    <3>5. Append(s, <<r, k>>) \in Seq(Nat \X Nat)
      BY <3>2 DEF At1
    <3>6. q \in S /\ q[3] = left - k
      BY <3>2, <3>3, <3>4, <3>5
    <3>7. rank[q] = left - k /\ next[p] = q
      BY <3>1, <3>2, <3>3, <3>6
    <3> HIDE DEF next, rank, S
    <3> QED
      BY <2>2, <2>3, <3>4, <3>6, <3>7
  <2> QED
    BY <2>4, <2>5
<1>9. PICK start : start = Locate(fa, first)
  OBVIOUS
<1>10. PICK b \in 1..n : \E y \in 0..BlockSize(fa.blocks[b]) :
          l[b - 1] + y = first /\ start = <<b, fa.blocks[b][1] + y>>
  <2>1. first < EntitiesCount(fa)
    <3>1. EntitiesCount(fa) \in Nat
      BY <1>1, EndsAre
    <3>2. first \in Nat /\ count \in Nat \ {0} /\ first + count <= EntitiesCount(fa)
      OBVIOUS
    <3> QED
      BY ONLY <3>1, <3>2
  <2> QED
    BY <1>1, <1>9, <2>1, LocateIs
<1>11. PICK y \in 0..BlockSize(fa.blocks[b]) : l[b - 1] + y = first /\ start = <<b, fa.blocks[b][1] + y>>
  BY <1>10
<1> PICK lo \in Nat : lo = fa.blocks[b][1]
  BY <1>4
<1> PICK hi \in Nat : hi = fa.blocks[b][2]
  BY <1>4
<1>12. y \in Nat /\ lo + y <= hi
  <2>1. BlockSize(fa.blocks[b]) = hi - lo
    BY DEF BlockSums
  <2>2. y \in 0..(hi - lo)
    BY <1>11, <2>1
  <2> QED
    BY ONLY <2>2, lo \in Nat, hi \in Nat
<1>13. PICK row \in Nat : row = lo + y /\ start[1] = b /\ start[2] = row
  <2>1. lo + y \in Nat
    BY <1>12
  <2> QED
    BY <1>11, <2>1
<1>14. count <= fa.size - row
  <2>1. PICK u \in Nat : u = l[b - 1] /\ l[b] = u + (hi - lo)
    BY <1>4
  <2>2. b \in 1..n /\ n \in 1..n /\ b <= n
    BY <1>2
  <2>3. l[n] - l[b] <= fa.blocks[n][2] - fa.blocks[b][2]
    BY <2>2 DEF BlockSums
  <2>4. PICK e \in Nat : e = fa.blocks[n][2] /\ e <= fa.size
    BY <1>4, <2>2
  <2>5. PICK z \in Nat : z = l[n] /\ first + count <= z
    BY <1>6
  <2>6. PICK sz \in Nat : sz = fa.size
    BY <1>5
  <2>7. e <= sz /\ first + count <= z
    BY <2>4, <2>5, <2>6
  <2>8. z - (u + (hi - lo)) <= e - hi /\ u + y = first
    BY <1>11, <2>1, <2>3, <2>4, <2>5
  <2>9. first \in Nat /\ count \in Nat /\ row = lo + y /\ y \in Nat
    BY <1>12, <1>13
  <2>10. count <= sz - row
    BY ONLY <2>7, <2>8, <2>9, row \in Nat, u \in Nat, lo \in Nat, hi \in Nat, e \in Nat, z \in Nat, sz \in Nat
  <2> QED
    BY ONLY <2>6, <2>10
<1>15. Min({count, fa.size - start[2]}) = count
  <2>1. count \in Int /\ fa.size - row \in Int
    BY <1>5
  <2>2. Min({count, fa.size - row}) = IF count <= fa.size - row THEN count ELSE fa.size - row
    BY ONLY <2>1, MinOfTwo
  <2> QED
    BY <1>13, <1>14, <2>2
<1> PICK from : from = <<b, row, count, <<>>>>
  OBVIOUS
<1> DEFINE end == Loop(next, from, count)
<1>16. Arrays(fa, first, count) = end[4]
  <2>1. from = <<start[1], start[2], Min({count, fa.size - start[2]}), <<>>>>
    BY <1>13, <1>15
  <2>2. from = <<Locate(fa, first)[1], Locate(fa, first)[2],
                 Min({count, fa.size - Locate(fa, first)[2]}), <<>>>>
    BY <1>9, <2>1
  <2>3. count = Min({count, fa.size - Locate(fa, first)[2]})
    BY <1>9, <1>15
  <2>4. Arrays(fa, first, count) =
          Loop(next, <<Locate(fa, first)[1], Locate(fa, first)[2],
                       Min({count, fa.size - Locate(fa, first)[2]}), <<>>>>,
               Min({count, fa.size - Locate(fa, first)[2]}))[4]
    BY Zenon DEF Arrays
  <2> HIDE DEF next
  <2> QED
    BY <2>2, <2>3, <2>4
<1>17. At1(b, row, count, <<>>)
  <2>1. l[b - 1] + (row - lo) + count = first + count
    <3>1. PICK u \in Nat : u = l[b - 1] /\ u + y = first
      BY <1>4, <1>11
    <3>2. u + (row - lo) + count = first + count
      BY ONLY <1>12, <1>13, <3>1, lo \in Nat, u \in Nat, count \in Nat \ {0}
    <3> QED
      BY <3>1, <3>2
  <2>2. lo <= row /\ row <= hi
    BY <1>12, <1>13
  <2>3. Tagged(a, <<>>) = <<>>
    BY DEF Tagged
  <2>4. base + first \in Nat /\ (base + first + count) - count = base + first
    OBVIOUS
  <2>5. Tiles(result, Tagged(a, <<>>), base + first, (base + first + count) - count)
    BY <2>3, <2>4, TilesEmpty
  <2>6. <<>> \in Seq(Nat \X Nat) /\ count \in 0..count
    OBVIOUS
  <2> QED
    BY <1>13, <2>1, <2>2, <2>5, <2>6
<1>18. from \in S /\ rank[from] <= count
  <2>1. from \in S
    <3>1. from \in Nat \X Nat \X Nat \X Seq(Nat \X Nat)
      <4>1. b \in Nat /\ row \in Nat /\ count \in Nat /\ <<>> \in Seq(Nat \X Nat)
        BY <1>2
      <4> QED
        BY ONLY <4>1, from = <<b, row, count, <<>>>>
    <3> HIDE DEF At1
    <3> QED
      BY <1>17, <3>1
  <2>2. rank[from] = from[3]
    BY <2>1
  <2>3. from[3] = count /\ count <= count
    OBVIOUS
  <2> QED
    BY <2>1, <2>2, <2>3
<1>19. rank \in [S -> Nat]
  <2>1. \A p \in S : rank[p] \in Nat
    <3> HIDE DEF rank, S, next
    <3> QED
      BY <1>8
  <2>2. rank = [p \in S |-> rank[p]]
    OBVIOUS
  <2> HIDE DEF rank, S
  <2> QED
    BY <2>1, <2>2, Zenon
<1>20. end \in S /\ rank[end] = 0
  <2>1. (\A s \in S : next[s] \in S) /\ (\A s \in S : rank[next[s]] < rank[s] \/ rank[next[s]] = 0)
    <3> HIDE DEF rank, S, next
    <3> QED
      BY <1>8
  <2>2. count \in Nat
    OBVIOUS
  <2>3. Loop(next, from, count) \in S /\ rank[Loop(next, from, count)] = 0
    <3> HIDE DEF rank, S, next, end, At1, Next1
    <3> QED
      BY ONLY <1>18, <1>19, <2>1, <2>2, LoopStays
  <2> HIDE DEF rank, S, next
  <2> QED
    BY ONLY <2>3
<1>21. end[3] = 0 /\ At1(end[1], end[2], end[3], end[4])
  <2>1. rank[end] = end[3]
    BY <1>20
  <2> HIDE DEF end, At1
  <2> QED
    BY <1>20, <2>1
<1>22. Tiles(result, Tagged(a, end[4]), base + first, base + first + count) /\ end[4] \in Seq(Nat \X Nat)
  <2>1. (base + first + count) - 0 = base + first + count
    OBVIOUS
  <2> HIDE DEF end
  <2> QED
    BY <1>21, <2>1
<1> HIDE DEF end
<1> QED
  BY <1>3, <1>16, <1>22

(* The position <<archetype, entity>> of the g-th matched entity of all    *)
(* (counted from 0), or the end.                                           *)
OnPlace(result, pos, g) ==
    /\ pos = <<pos[1], pos[2]>> /\ pos[1] \in 1..(Len(result) + 1) /\ pos[2] \in Nat
    /\ Totals(result)[pos[1] - 1] + pos[2] = g
    /\ IF pos[1] <= Len(result) THEN pos[2] < EntitiesCount(result[pos[1]]) ELSE pos[2] = 0

(* What follows an archetype's last matched entity begins the next one.    *)
LEMMA PlaceAfter ==
  ASSUME NEW result, NEW n, NEW l, ArchetypeSums(result, n, l), NEW a \in 1..n,
         NEW g, g = l[a - 1] + EntitiesCount(result[a])
  PROVE  OnPlace(result, <<a + 1, 0>>, g)
<1>1. n \in Nat /\ n = Len(result) /\ l = Totals(result)
  BY DEF ArchetypeSums
<1>2. l[a] = g /\ l[a] \in Nat
  <2>1. a \in 0..n
    BY <1>1
  <2> QED
    BY <2>1 DEF ArchetypeSums
<1> PICK x : x = <<a + 1, 0>> /\ x[1] = a + 1 /\ x[2] = 0
  BY ONLY PairIs
<1>3. a + 1 \in 1..(n + 1) /\ (a + 1) - 1 = a
  BY <1>1
<1>4. a + 1 <= n => 0 < EntitiesCount(result[a + 1])
  <2>1. a + 1 <= n => a + 1 \in 1..n
    BY <1>1
  <2>2. \A i \in 1..n : EntitiesCount(result[i]) \in Nat \ {0}
    BY DEF ArchetypeSums
  <2>3. a + 1 \in 1..n => 0 < EntitiesCount(result[a + 1])
    BY <2>2
  <2> QED
    BY <2>1, <2>3
<1>5. Totals(result)[x[1] - 1] + x[2] = g
  BY <1>1, <1>2, <1>3
<1>6. OnPlace(result, x, g)
  BY <1>1, <1>3, <1>4, <1>5 DEF OnPlace
<1> QED
  BY <1>6

(* A place that is not the end is in an archetype.                         *)
LEMMA PlaceIn ==
  ASSUME NEW result, NEW n, NEW l, ArchetypeSums(result, n, l), NEW pos, NEW g, OnPlace(result, pos, g)
  PROVE  /\ pos = <<pos[1], pos[2]>> /\ pos[2] \in Nat
         /\ pos[1] \in 1..(n + 1) /\ l[pos[1] - 1] \in Nat /\ l[pos[1] - 1] + pos[2] = g
         /\ l[n] \in Nat /\ l[n] = TotalCount(result)
         /\ g < l[n] => /\ pos[1] \in 1..n
                        /\ EntitiesCount(result[pos[1]]) \in Nat
                        /\ pos[2] < EntitiesCount(result[pos[1]])
         /\ pos[1] = n + 1 => g = l[n]
<1>1. n \in Nat /\ n = Len(result) /\ l = Totals(result) /\ l \in [0..n -> Nat] /\ l[n] = TotalCount(result)
  BY DEF ArchetypeSums
<1> PICK a, e : a = pos[1] /\ e = pos[2]
  OBVIOUS
<1>2. /\ pos = <<a, e>> /\ a \in 1..(n + 1) /\ e \in Nat /\ l[a - 1] + e = g
      /\ IF a <= n THEN e < EntitiesCount(result[a]) ELSE e = 0
  BY <1>1 DEF OnPlace
<1>3. a - 1 \in 0..n /\ n \in 0..n
  BY <1>1, <1>2
<1>4. l[a - 1] \in Nat /\ l[n] \in Nat
  BY <1>1, <1>3
<1>5. a = n + 1 => g = l[n]
  <2>1. a = n + 1 => a - 1 = n /\ ~(a <= n)
    BY <1>1
  <2> QED
    BY <1>2, <1>4, <2>1
<1>6. a # n + 1 => a \in 1..n /\ a <= n
  BY <1>1, <1>2
<1>7. a \in 1..n => EntitiesCount(result[a]) \in Nat
  BY DEF ArchetypeSums
<1>8. g < l[n] => a # n + 1
  BY <1>4, <1>5
<1> QED
  BY <1>1, <1>2, <1>4, <1>5, <1>6, <1>7, <1>8

(* Advance goes k places on.                                               *)
LEMMA AdvanceIs ==
  ASSUME NEW result, Result(result), NEW from, NEW g \in Nat, OnPlace(result, from, g),
         NEW k \in Nat, g + k <= TotalCount(result)
  PROVE  OnPlace(result, Advance(result, from, k), g + k)
<1> PICK n, l : ArchetypeSums(result, n, l)
  BY ArchetypeSumsOf
<1>1. n \in Nat /\ n = Len(result) /\ l = Totals(result) /\ l \in [0..n -> Nat] /\ l[n] = TotalCount(result)
  BY DEF ArchetypeSums
<1>t. l[n] \in Nat /\ g + k <= l[n]
  <2>1. n \in 0..n
    BY <1>1
  <2> QED
    BY <1>1, <2>1
<1> DEFINE step(a, e, m, free) ==
              IF free > m THEN <<a, e + m, 0>> ELSE <<a + 1, 0, m - free>>
           next == [p \in Nat \X Nat \X Nat |->
                      IF p[3] = 0 THEN p ELSE step(p[1], p[2], p[3], EntitiesCount(result[p[1]]) - p[2])]
           S == {p \in Nat \X Nat \X Nat : p[3] <= k /\ OnPlace(result, <<p[1], p[2]>>, (g + k) - p[3])}
           rank == [p \in S |-> IF p[3] = 0 THEN 0 ELSE (n + 1) - p[1]]
           start == <<from[1], from[2], k>>
           end == Loop(next, start, n)
           Took(a, e, m) ==
              \E c, x, r \in Nat :
                 /\ step(a, e, m, EntitiesCount(result[a]) - e) = <<c, x, r>>
                 /\ r <= k /\ OnPlace(result, <<c, x>>, (g + k) - r)
                 /\ r = 0 \/ c = a + 1
<1>2. Advance(result, from, k) = <<end[1], end[2]>>
  <2>1. next = [p \in Nat \X Nat \X Nat |->
          LET free == EntitiesCount(result[p[1]]) - p[2]
          IN  IF p[3] = 0 THEN p
              ELSE IF free > p[3] THEN <<p[1], p[2] + p[3], 0>>
                                  ELSE <<p[1] + 1, 0, p[3] - free>>]
    BY Zenon
  <2>2. n = Len(result)
    BY <1>1
  <2> HIDE DEF next
  <2>3. Advance(result, from, k) = <<Loop(next, start, Len(result))[1], Loop(next, start, Len(result))[2]>>
    BY <2>1, Zenon DEF Advance
  <2> QED
    BY <2>2, <2>3, Zenon
<1>3. ASSUME NEW a \in Nat, NEW e \in Nat, NEW m \in 1..k, OnPlace(result, <<a, e>>, (g + k) - m)
      PROVE  a \in 1..n /\ Took(a, e, m)
  <2>1. PICK h \in Nat : h = (g + k) - m /\ h < l[n]
    <3>1. (g + k) - m \in Nat /\ (g + k) - m < l[n]
      BY <1>t
    <3> QED
      BY <3>1
  <2>2. PICK pos : pos = <<a, e>> /\ pos[1] = a /\ pos[2] = e
    BY ONLY PairIs
  <2>3. OnPlace(result, pos, h)
    BY <1>3, <2>1, <2>2
  <2>4. a \in 1..n /\ EntitiesCount(result[a]) \in Nat /\ e < EntitiesCount(result[a]) /\ l[a - 1] \in Nat /\ l[a - 1] + e = h
    BY <2>1, <2>2, <2>3, PlaceIn
  <2>5. PICK cnt \in Nat : cnt = EntitiesCount(result[a])
    BY <2>4
  <2>6. PICK u \in Nat : u = l[a - 1]
    BY <2>4
  <2>7. e < cnt /\ u + e = h
    BY <2>4, <2>5, <2>6
  <2>8. CASE cnt - e > m
    <3>1. step(a, e, m, cnt - e) = <<a, e + m, 0>>
      BY <2>8
    <3>2. e + m \in Nat /\ e + m < cnt /\ u + (e + m) = g + k
      BY ONLY <2>1, <2>7, <2>8, m \in 1..k, k \in Nat, g \in Nat, e \in Nat, cnt \in Nat, u \in Nat, h \in Nat
    <3>3. PICK x : x = <<a, e + m>> /\ x[1] = a /\ x[2] = e + m
      BY ONLY PairIs
    <3>4. a \in 1..(n + 1) /\ a <= n
      BY <1>1, <2>4
    <3>5. OnPlace(result, x, g + k)
      BY <1>1, <2>5, <2>6, <3>2, <3>3, <3>4 DEF OnPlace
    <3>6. (g + k) - 0 = g + k /\ 0 <= k /\ 0 \in Nat
      OBVIOUS
    <3> HIDE DEF step
    <3> QED
      BY <2>4, <2>5, <3>1, <3>2, <3>3, <3>5, <3>6
  <2>9. CASE ~(cnt - e > m)
    <3>1. step(a, e, m, cnt - e) = <<a + 1, 0, m - (cnt - e)>>
      BY <2>9
    <3>2. PICK r \in Nat : r = m - (cnt - e) /\ r <= k /\ (g + k) - r = u + cnt
      <4>1. /\ m - (cnt - e) \in Nat /\ m - (cnt - e) <= k
            /\ (g + k) - (m - (cnt - e)) = u + cnt
        BY ONLY <2>1, <2>7, <2>9, m \in 1..k, k \in Nat, g \in Nat, e \in Nat, cnt \in Nat, u \in Nat, h \in Nat
      <4> QED
        BY <4>1
    <3>3. OnPlace(result, <<a + 1, 0>>, (g + k) - r)
      BY <2>4, <2>5, <2>6, <3>2, PlaceAfter
    <3>4. step(a, e, m, EntitiesCount(result[a]) - e) = <<a + 1, 0, r>>
      BY <2>5, <3>1, <3>2
    <3>5. a + 1 \in Nat /\ 0 \in Nat
      OBVIOUS
    <3> HIDE DEF step
    <3> QED
      BY <2>4, <3>2, <3>3, <3>4, <3>5
  <2> QED
    BY <2>8, <2>9
<1>4. ASSUME NEW p \in S
      PROVE  /\ next[p] \in S
             /\ rank[p] \in Nat
             /\ rank[next[p]] < rank[p] \/ rank[next[p]] = 0
  <2>0. p \in Nat \X Nat \X Nat /\ p[3] <= k /\ OnPlace(result, <<p[1], p[2]>>, (g + k) - p[3])
    OBVIOUS
  <2>1. PICK a, e, m \in Nat : /\ p = <<a, e, m>> /\ p[1] = a /\ p[2] = e /\ p[3] = m /\ m <= k
                               /\ OnPlace(result, <<a, e>>, (g + k) - m)
    <3>1. p = <<p[1], p[2], p[3]>> /\ p[1] \in Nat /\ p[2] \in Nat /\ p[3] \in Nat
      BY ONLY <2>0
    <3> QED
      BY ONLY <2>0, <3>1, Zenon
  <2>2. p \in Nat \X Nat \X Nat
    OBVIOUS
  <2>3. rank[p] = IF m = 0 THEN 0 ELSE (n + 1) - a
    BY <2>1
  <2>4. CASE m = 0
    <3>1. next[p] = p
      BY <2>1, <2>2, <2>4
    <3> HIDE DEF next, rank, S
    <3> QED
      BY <2>3, <2>4, <3>1
  <2>5. CASE m # 0
    <3>0. m \in 1..k
      BY <2>1, <2>5
    <3> HIDE DEF step
    <3>1. next[p] = step(a, e, m, EntitiesCount(result[a]) - e)
      BY <2>1, <2>2, <2>5
    <3>a. OnPlace(result, <<a, e>>, (g + k) - m)
      BY <2>1
    <3>3. a \in 1..n /\ Took(a, e, m)
      <4> HIDE DEF Took
      <4> QED
        BY ONLY <1>3, <3>0, <3>a, a \in Nat, e \in Nat
    <3>2. PICK c, x, r \in Nat : /\ step(a, e, m, EntitiesCount(result[a]) - e) = <<c, x, r>>
                                 /\ r <= k /\ OnPlace(result, <<c, x>>, (g + k) - r)
                                 /\ r = 0 \/ c = a + 1
      BY ONLY <3>3
    <3>4. PICK q : q = <<c, x, r>> /\ q[1] = c /\ q[2] = x /\ q[3] = r
      <4>1. \A q : q = <<c, x, r>> =>
             q[1] = c /\ q[2] = x /\ q[3] = r
        OBVIOUS
      <4>2. \E q : q = <<c, x, r>>
        OBVIOUS
      <4> QED
        BY ONLY <4>1, <4>2
    <3>5. q \in S
      BY <3>2, <3>4
    <3>6. rank[q] = (IF r = 0 THEN 0 ELSE (n + 1) - c) /\ next[p] = q
      BY <3>1, <3>2, <3>4, <3>5
    <3>7. (n + 1) - a \in Nat /\ (n + 1) - (a + 1) < (n + 1) - a
      BY ONLY <1>1, <3>3
    <3>8. rank[p] = (n + 1) - a
      BY <2>3, <2>5
    <3>9. rank[q] = 0 \/ rank[q] = (n + 1) - (a + 1)
      BY ONLY <3>2, <3>6
    <3> HIDE DEF next, rank, S
    <3> QED
      BY <3>5, <3>6, <3>7, <3>8, <3>9
  <2> QED
    BY <2>4, <2>5
<1>5. from = <<from[1], from[2]>> /\ from[1] \in 1..(n + 1) /\ from[2] \in Nat
  BY <1>1 DEF OnPlace
<1>6. start \in S /\ rank[start] <= n
  <2>1. PICK a, e : from = <<a, e>> /\ a \in 1..(n + 1) /\ e \in Nat /\ from[1] = a /\ from[2] = e
    BY <1>5
  <2>2. PICK s : s = <<a, e, k>> /\ s[1] = a /\ s[2] = e /\ s[3] = k
    <3>1. \A s : s = <<a, e, k>> =>
           s[1] = a /\ s[2] = e /\ s[3] = k
      OBVIOUS
    <3>2. \E s : s = <<a, e, k>>
      OBVIOUS
    <3> QED
      BY ONLY <3>1, <3>2
  <2>3. (g + k) - k = g /\ k <= k /\ a \in Nat /\ (n + 1) - a <= n
    BY <1>1, <2>1
  <2>4. s \in S
    BY <2>1, <2>2, <2>3
  <2>5. rank[s] = IF k = 0 THEN 0 ELSE (n + 1) - a
    BY <2>2, <2>4
  <2>6. start = s
    BY <2>1, <2>2
  <2>7. rank[s] <= n
    BY ONLY <1>1, <2>3, <2>5
  <2> QED
    BY ONLY <2>4, <2>6, <2>7
<1>7. rank \in [S -> Nat]
  <2>1. \A p \in S : rank[p] \in Nat
    <3> HIDE DEF rank, S, next
    <3> QED
      BY <1>4
  <2>2. rank = [p \in S |-> rank[p]]
    OBVIOUS
  <2> HIDE DEF rank, S
  <2> QED
    BY <2>1, <2>2, Zenon
<1>8. end \in S /\ rank[end] = 0
  <2>1. (\A s \in S : next[s] \in S) /\ (\A s \in S : rank[next[s]] < rank[s] \/ rank[next[s]] = 0)
    <3> HIDE DEF rank, S, next
    <3> QED
      BY <1>4
  <2>2. n \in Nat
    BY <1>1
  <2> HIDE DEF rank, S, next, start
  <2> QED
    BY ONLY <1>6, <1>7, <2>1, <2>2, LoopStays
<1>9. PICK a, e, m \in Nat : /\ end = <<a, e, m>> /\ end[1] = a /\ end[2] = e /\ end[3] = m /\ m <= k
                             /\ OnPlace(result, <<a, e>>, (g + k) - m)
  <2> HIDE DEF end
  <2>0. end \in Nat \X Nat \X Nat /\ end[3] <= k /\ OnPlace(result, <<end[1], end[2]>>, (g + k) - end[3])
    BY <1>8
  <2>1. end = <<end[1], end[2], end[3]>> /\ end[1] \in Nat /\ end[2] \in Nat /\ end[3] \in Nat
    BY ONLY <2>0
  <2> QED
    BY ONLY <2>0, <2>1, Zenon
<1>10. m = 0
  <2>1. rank[end] = IF m = 0 THEN 0 ELSE (n + 1) - a
    <3> HIDE DEF end
    <3> QED
      BY <1>8, <1>9
  <2>2. m # 0 => m \in 1..k
    BY <1>9
  <2>3. m \in 1..k => a \in 1..n
    BY ONLY <1>3, <1>9
  <2>4. a \in 1..n => (n + 1) - a # 0
    BY ONLY <1>1
  <2> HIDE DEF rank, end
  <2> QED
    BY ONLY <1>8, <2>1, <2>2, <2>3, <2>4
<1>11. (g + k) - 0 = g + k
  OBVIOUS
<1> HIDE DEF end
<1> QED
  BY <1>2, <1>9, <1>10, <1>11

(* Sequences of arrays, each going on where the one before ends.           *)
LEMMA TilesFlatten ==
  ASSUME NEW result, NEW ss \in Seq(Seq(Triples)), NEW l \in [0..Len(ss) -> Nat],
         \A i \in 1..Len(ss) : Tiles(result, ss[i], l[i - 1], l[i])
  PROVE  Tiles(result, FlattenSeq(ss), l[0], l[Len(ss)])
<1> PICK n \in Nat : n = Len(ss)
  OBVIOUS
<1>1. PICK w : Concats(w, ss, Triples) /\ FlattenSeq(ss) = w[n]
  BY FlattenIs
<1>2. w[0] = <<>> /\ \A i \in 1..n : w[i] = w[i - 1] \o ss[i]
  BY <1>1 DEF Concats
<1> DEFINE U == {i \in 0..n : Tiles(result, w[i], l[0], l[i])}
<1>3. 0 \in U
  <2>1. l[0] \in Nat
    OBVIOUS
  <2> QED
    BY <1>2, <2>1, TilesEmpty
<1>4. ASSUME NEW i \in 1..n, i - 1 \in U PROVE i \in U
  <2>1. Tiles(result, w[i - 1], l[0], l[i - 1]) /\ Tiles(result, ss[i], l[i - 1], l[i])
    BY <1>4
  <2>2. Tiles(result, w[i - 1] \o ss[i], l[0], l[i])
    BY ONLY <2>1, TilesJoin
  <2>3. w[i] = w[i - 1] \o ss[i]
    BY ONLY <1>2, i \in 1..n
  <2>4. i \in 0..n
    OBVIOUS
  <2> QED
    BY <2>2, <2>3, <2>4
<1>5. 0..n \subseteq U
  <2> HIDE DEF U
  <2> QED
    BY <1>3, <1>4, Upto
<1>6. n \in U
  BY <1>5
<1> QED
  BY <1>1, <1>6

(* The arrays of a part of a task.                                         *)
PartArrays(result, part) == Tagged(part[1], Arrays(result[part[1]], part[2], part[3]))

(* Parts whose arrays go over the entities from g to h; l has where each   *)
(* part begins.                                                            *)
SpansAt(result, parts, l, g, h) ==
    /\ l \in [0..Len(parts) -> Nat] /\ l[0] = g /\ l[Len(parts)] = h
    /\ \A i \in 1..Len(parts) : Tiles(result, PartArrays(result, parts[i]), l[i - 1], l[i])
Spans(result, parts, g, h) == parts \in Seq(Triples) /\ \E l : SpansAt(result, parts, l, g, h)

(* No parts go over no entities.                                           *)
LEMMA SpansEmpty ==
  ASSUME NEW result, NEW g \in Nat
  PROVE  Spans(result, <<>>, g, g)
<1>1. PICK l : l = [i \in 0..0 |-> g]
  OBVIOUS
<1>2. l \in [0..0 -> Nat] /\ l[0] = g
  BY <1>1
<1>3. Len(<<>>) = 0 /\ <<>> \in Seq(Triples) /\ 1..0 = {}
  OBVIOUS
<1>4. SpansAt(result, <<>>, l, g, g)
  BY <1>2, <1>3 DEF SpansAt
<1> QED
  BY <1>3, <1>4 DEF Spans

(* A part that goes on where others end goes over the entities after.      *)
LEMMA SpansAppend ==
  ASSUME NEW result, NEW parts, NEW g, NEW h, Spans(result, parts, g, h),
         NEW x \in Triples, NEW j \in Nat, Tiles(result, PartArrays(result, x), h, j)
  PROVE  Spans(result, Append(parts, x), g, j)
<1> PICK l : SpansAt(result, parts, l, g, h)
  BY DEF Spans
<1>1. parts \in Seq(Triples)
  BY DEF Spans
<1> PICK n \in Nat : n = Len(parts)
  BY <1>1
<1>2. /\ l \in [0..n -> Nat] /\ l[0] = g /\ l[n] = h
      /\ \A i \in 1..n : Tiles(result, PartArrays(result, parts[i]), l[i - 1], l[i])
  BY DEF SpansAt
<1> PICK s : s = Append(parts, x)
  OBVIOUS
<1>3. s \in Seq(Triples) /\ Len(s) = n + 1 /\ s[n + 1] = x /\ \A i \in 1..n : s[i] = parts[i]
  BY <1>1, AppendProperties
<1> PICK q : q = [i \in 0..(n + 1) |-> IF i <= n THEN l[i] ELSE j]
  OBVIOUS
<1>4. \A i \in 0..n : i \in 0..(n + 1) /\ i <= n
  OBVIOUS
<1>5. q[n + 1] = j /\ (\A i \in 0..n : q[i] = l[i])
  <2>1. n + 1 \in 0..(n + 1) /\ ~(n + 1 <= n)
    OBVIOUS
  <2> QED
    BY <1>4, <2>1
<1>6. q \in [0..(n + 1) -> Nat]
  <2>1. \A i \in 0..(n + 1) : i <= n => i \in 0..n
    OBVIOUS
  <2>2. \A i \in 0..(n + 1) : (IF i <= n THEN l[i] ELSE j) \in Nat
    BY <1>2, <2>1
  <2> QED
    BY <2>2
<1>7. ASSUME NEW i \in 1..(n + 1) PROVE Tiles(result, PartArrays(result, s[i]), q[i - 1], q[i])
  <2>1. CASE i \in 1..n
    <3>1. i \in 0..n /\ i - 1 \in 0..n
      BY <2>1
    <3>2. q[i] = l[i] /\ q[i - 1] = l[i - 1] /\ s[i] = parts[i]
      BY <1>3, <1>5, <2>1, <3>1
    <3> QED
      BY <1>2, <2>1, <3>2
  <2>2. CASE i = n + 1
    <3>1. n \in 0..n /\ (n + 1) - 1 = n
      OBVIOUS
    <3>2. q[i] = j /\ q[i - 1] = h /\ s[i] = x
      BY <1>2, <1>3, <1>5, <2>2, <3>1
    <3> QED
      BY <3>2
  <2>3. i \in 1..n \/ i = n + 1
    OBVIOUS
  <2> QED
    BY <2>1, <2>2, <2>3
<1>8. q[0] = g
  <2>1. 0 \in 0..n
    OBVIOUS
  <2> QED
    BY <1>2, <1>5, <2>1
<1>9. SpansAt(result, s, q, g, j)
  BY <1>3, <1>5, <1>6, <1>7, <1>8 DEF SpansAt
<1> QED
  BY <1>3, <1>9 DEF Spans

(* The arrays of such parts, one after the other, hold the rows.           *)
LEMMA SpansTile ==
  ASSUME NEW result, NEW parts, NEW g, NEW h, Spans(result, parts, g, h)
  PROVE  Tiles(result, FlattenSeq([i \in DOMAIN parts |-> PartArrays(result, parts[i])]), g, h)
<1> PICK l : SpansAt(result, parts, l, g, h)
  BY DEF Spans
<1>1. parts \in Seq(Triples)
  BY DEF Spans
<1> PICK n \in Nat : n = Len(parts) /\ DOMAIN parts = 1..n
  BY <1>1
<1>2. /\ l \in [0..n -> Nat] /\ l[0] = g /\ l[n] = h
      /\ \A i \in 1..n : Tiles(result, PartArrays(result, parts[i]), l[i - 1], l[i])
  BY DEF SpansAt
<1> PICK ss : ss = [i \in 1..n |-> PartArrays(result, parts[i])]
  OBVIOUS
<1>3. ss \in [1..n -> Seq(Triples)]
  BY <1>2 DEF Tiles
<1>4. ss \in Seq(Seq(Triples)) /\ Len(ss) = n
  BY <1>3, SeqOfFunction
<1>5. \A i \in 1..n : Tiles(result, ss[i], l[i - 1], l[i])
  BY <1>2
<1>6. Tiles(result, FlattenSeq(ss), l[0], l[n])
  BY <1>2, <1>4, <1>5, TilesFlatten
<1> QED
  BY <1>2, <1>6

(* The parts of a task go over its entities.                               *)
LEMMA PartsAre ==
  ASSUME NEW result, Result(result), NEW task, NEW g \in Nat, OnPlace(result, task.at, g),
         NEW k \in Nat, k = task.size, g + k <= TotalCount(result)
  PROVE  Spans(result, Parts(result, task), g, g + k)
<1> PICK n, l : ArchetypeSums(result, n, l)
  BY ArchetypeSumsOf
<1>1. n \in Nat /\ n = Len(result) /\ l = Totals(result) /\ l \in [0..n -> Nat] /\ l[n] = TotalCount(result)
  BY DEF ArchetypeSums
<1>t. l[n] \in Nat /\ g + k <= l[n]
  <2>1. n \in 0..n
    BY <1>1
  <2> QED
    BY <1>1, <2>1
<1> DEFINE step(a, e, m, s, c) == <<a + 1, 0, m - c, Append(s, <<a, e, c>>)>>
           next == [p \in Nat \X Nat \X Nat \X Seq(Nat \X Nat \X Nat) |->
                      IF p[3] = 0 THEN p
                      ELSE step(p[1], p[2], p[3], p[4], Min({p[3], EntitiesCount(result[p[1]]) - p[2]}))]
           Good(a, e, m, s) ==
              /\ m <= k
              /\ m = 0 \/ OnPlace(result, <<a, e>>, (g + k) - m)
              /\ Spans(result, s, g, (g + k) - m)
           S == {p \in Nat \X Nat \X Nat \X Seq(Nat \X Nat \X Nat) : Good(p[1], p[2], p[3], p[4])}
           rank == [p \in S |-> IF p[3] = 0 \/ n < p[1] THEN 0 ELSE (n + 1) - p[1]]
           start == <<task.at[1], task.at[2], task.size, <<>>>>
           end == Loop(next, start, n)
<1>2. Parts(result, task) = end[4]
  <2>1. next = [p \in Nat \X Nat \X Nat \X Seq(Nat \X Nat \X Nat) |->
          LET c == Min({p[3], EntitiesCount(result[p[1]]) - p[2]})
          IN  IF p[3] = 0 THEN p
              ELSE <<p[1] + 1, 0, p[3] - c, Append(p[4], <<p[1], p[2], c>>)>>]
    BY Zenon
  <2>2. n = Len(result)
    BY <1>1
  <2> HIDE DEF next
  <2>3. Parts(result, task) = Loop(next, start, Len(result))[4]
    BY <2>1, Zenon DEF Parts
  <2> QED
    BY <2>2, <2>3, Zenon
<1>3. ASSUME NEW a \in Nat, NEW e \in Nat, NEW m \in Nat \ {0}, NEW s \in Seq(Triples), Good(a, e, m, s),
             NEW c, c = Min({m, EntitiesCount(result[a]) - e})
      PROVE  /\ a \in 1..n /\ c \in Nat
             /\ Append(s, <<a, e, c>>) \in Seq(Triples)
             /\ m - c \in Nat
             /\ Good(a + 1, 0, m - c, Append(s, <<a, e, c>>))
  <2>0. m \in 1..k /\ OnPlace(result, <<a, e>>, (g + k) - m) /\ Spans(result, s, g, (g + k) - m)
    BY <1>3
  <2> HIDE DEF Good
  <2>1. PICK h \in Nat : h = (g + k) - m /\ h < l[n]
    <3>1. (g + k) - m \in Nat /\ (g + k) - m < l[n]
      BY <1>t, <2>0
    <3> QED
      BY <3>1
  <2>2. PICK pos : pos = <<a, e>> /\ pos[1] = a /\ pos[2] = e
    BY ONLY PairIs
  <2>3. OnPlace(result, pos, h)
    BY <2>0, <2>1, <2>2
  <2>4. a \in 1..n /\ EntitiesCount(result[a]) \in Nat /\ e < EntitiesCount(result[a]) /\ l[a - 1] \in Nat /\ l[a - 1] + e = h
    <3>1. /\ l[pos[1] - 1] \in Nat /\ l[pos[1] - 1] + pos[2] = h
          /\ h < l[n] => /\ pos[1] \in 1..n
                         /\ EntitiesCount(result[pos[1]]) \in Nat
                         /\ pos[2] < EntitiesCount(result[pos[1]])
      BY ONLY ArchetypeSums(result, n, l), <2>3, PlaceIn
    <3> QED
      BY ONLY <2>1, <2>2, <3>1
  <2>5. PICK cnt \in Nat : cnt = EntitiesCount(result[a])
    BY <2>4
  <2>6. PICK u \in Nat : u = l[a - 1]
    BY <2>4
  <2>7. e < cnt /\ u + e = h
    BY <2>4, <2>5, <2>6
  <2>8. c = IF m <= cnt - e THEN m ELSE cnt - e
    <3>1. m \in Int /\ cnt - e \in Int
      OBVIOUS
    <3>2. Min({m, cnt - e}) = IF m <= cnt - e THEN m ELSE cnt - e
      BY ONLY <3>1, MinOfTwo
    <3> QED
      BY <1>3, <2>5, <3>2
  <2>9. c \in Nat \ {0} /\ e + c <= cnt /\ m - c \in Nat /\ m - c <= k
    BY ONLY <2>0, <2>7, <2>8, e \in Nat, cnt \in Nat, m \in Nat \ {0}, k \in Nat
  <2>10. PICK x : x = <<a, e, c>> /\ x[1] = a /\ x[2] = e /\ x[3] = c
    <3>1. \A x : x = <<a, e, c>> =>
           x[1] = a /\ x[2] = e /\ x[3] = c
      OBVIOUS
    <3>2. \E x : x = <<a, e, c>>
      OBVIOUS
    <3> QED
      BY ONLY <3>1, <3>2
  <2>11. x \in Triples
    BY <2>9, <2>10 DEF Triples
  <2>12. Append(s, x) \in Seq(Triples)
    BY <2>11, AppendProperties
  <2>13. Tiles(result, PartArrays(result, x), h, h + c)
    <3>1. a \in 1..Len(result) /\ e + c <= EntitiesCount(result[a])
      BY <1>1, <2>4, <2>5, <2>9
    <3>2. Tiles(result, Tagged(a, Arrays(result[a], e, c)),
                Totals(result)[a - 1] + e, Totals(result)[a - 1] + e + c)
      BY <2>9, <3>1, ArraysTile
    <3>3. Totals(result)[a - 1] + e = h
      BY <1>1, <2>4
    <3> QED
      BY <2>10, <3>2, <3>3 DEF PartArrays
  <2>14. h + c \in Nat /\ (g + k) - (m - c) = h + c
    BY ONLY <2>0, <2>1, <2>9, g \in Nat, k \in Nat, h \in Nat
  <2>15. Spans(result, Append(s, x), g, h + c)
    <3>1. Spans(result, s, g, h)
      BY <2>0, <2>1
    <3> QED
      BY <2>11, <2>13, <2>14, <3>1, SpansAppend
  <2>16. m - c = 0 \/ OnPlace(result, <<a + 1, 0>>, (g + k) - (m - c))
    <3>1. m - c # 0 => h + c = u + cnt
      BY ONLY <2>7, <2>8, e \in Nat, cnt \in Nat, m \in Nat \ {0}, h \in Nat, u \in Nat
    <3>2. m - c # 0 => h + c = l[a - 1] + EntitiesCount(result[a])
      BY <2>5, <2>6, <3>1
    <3> QED
      BY <2>4, <2>14, <3>2, PlaceAfter
  <2>17. Good(a + 1, 0, m - c, Append(s, x))
    BY <2>9, <2>14, <2>15, <2>16 DEF Good
  <2> QED
    BY <2>4, <2>9, <2>10, <2>12, <2>17
<1>4. ASSUME NEW p \in S
      PROVE  /\ next[p] \in S
             /\ rank[p] \in Nat
             /\ rank[next[p]] < rank[p] \/ rank[next[p]] = 0
  <2>1. PICK a, e, m, s : /\ a \in Nat /\ e \in Nat /\ m \in Nat /\ s \in Seq(Nat \X Nat \X Nat)
                          /\ p = <<a, e, m, s>> /\ p[1] = a /\ p[2] = e /\ p[3] = m /\ p[4] = s
                          /\ Good(a, e, m, s)
    <3> HIDE DEF Good
    <3> QED
      OBVIOUS
  <2>2. p \in Nat \X Nat \X Nat \X Seq(Nat \X Nat \X Nat)
    OBVIOUS
  <2>3. rank[p] = IF m = 0 \/ n < a THEN 0 ELSE (n + 1) - a
    <3> HIDE DEF Good
    <3> QED
      BY <2>1
  <2> HIDE DEF Good
  <2>4. CASE m = 0
    <3>1. next[p] = p
      BY <2>1, <2>2, <2>4
    <3> HIDE DEF next, rank, S
    <3> QED
      BY <2>3, <2>4, <3>1
  <2>5. CASE m # 0
    <3>1. PICK c : c = Min({m, EntitiesCount(result[a]) - e})
      OBVIOUS
    <3>s. m \in Nat \ {0} /\ s \in Seq(Triples)
      BY <2>1, <2>5 DEF Triples
    <3>2. /\ a \in 1..n /\ c \in Nat
          /\ Append(s, <<a, e, c>>) \in Seq(Triples)
          /\ m - c \in Nat
          /\ Good(a + 1, 0, m - c, Append(s, <<a, e, c>>))
      BY ONLY <1>3, <2>1, <3>1, <3>s
    <3>3. PICK t : t = Append(s, <<a, e, c>>)
      OBVIOUS
    <3>4. PICK q : q = <<a + 1, 0, m - c, t>> /\ q[1] = a + 1 /\ q[2] = 0 /\ q[3] = m - c /\ q[4] = t
      <4>1. \A q : q = <<a + 1, 0, m - c, t>> =>
             q[1] = a + 1 /\ q[2] = 0 /\ q[3] = m - c /\ q[4] = t
        OBVIOUS
      <4>2. \E q : q = <<a + 1, 0, m - c, t>>
        OBVIOUS
      <4> QED
        BY ONLY <4>1, <4>2
    <3>5. next[p] = q
      <4>1. next[p] = step(a, e, m, s, c)
        <5> HIDE DEF step
        <5> QED
          BY <2>1, <2>2, <2>5, <3>1
      <4>2. step(a, e, m, s, c) = q
        BY <3>3, <3>4
      <4> HIDE DEF next, step
      <4> QED
        BY <4>1, <4>2
    <3>6. q \in Nat \X Nat \X Nat \X Seq(Nat \X Nat \X Nat)
      <4>1. a + 1 \in Nat /\ 0 \in Nat /\ t \in Seq(Nat \X Nat \X Nat)
        BY <2>1, <3>2, <3>3 DEF Triples
      <4> QED
        BY <3>2, <3>4, <4>1
    <3>7. q \in S
      BY <3>2, <3>3, <3>4, <3>6
    <3>8. rank[q] = IF m - c = 0 \/ n < a + 1 THEN 0 ELSE (n + 1) - (a + 1)
      BY <3>4, <3>7
    <3>9. rank[p] = (n + 1) - a
      BY <1>1, <2>3, <2>5, <3>2
    <3>10. (n + 1) - a \in Nat /\ (n + 1) - (a + 1) < (n + 1) - a
      BY <1>1, <3>2
    <3> HIDE DEF next, rank, S
    <3> QED
      BY <3>5, <3>7, <3>8, <3>9, <3>10
  <2> QED
    BY <2>4, <2>5
<1>5. start \in S /\ rank[start] <= n
  <2>1. PICK a, e : task.at = <<a, e>> /\ a \in 1..(n + 1) /\ e \in Nat /\ task.at[1] = a /\ task.at[2] = e
    BY <1>1 DEF OnPlace
  <2>2. PICK s : s = <<a, e, k, <<>>>> /\ s[1] = a /\ s[2] = e /\ s[3] = k /\ s[4] = <<>>
    <3>1. \A s : s = <<a, e, k, <<>>>> =>
           s[1] = a /\ s[2] = e /\ s[3] = k /\ s[4] = <<>>
      OBVIOUS
    <3>2. \E s : s = <<a, e, k, <<>>>>
      OBVIOUS
    <3> QED
      BY ONLY <3>1, <3>2
  <2>3. (g + k) - k = g /\ k <= k /\ a \in Nat
    BY <1>1, <2>1
  <2>4. Good(a, e, k, <<>>)
    BY <2>1, <2>3, SpansEmpty
  <2>5. s \in Nat \X Nat \X Nat \X Seq(Nat \X Nat \X Nat)
    <3>1. <<>> \in Seq(Nat \X Nat \X Nat)
      OBVIOUS
    <3> QED
      BY ONLY <2>1, <2>2, <2>3, <3>1, k \in Nat
  <2>6. s \in S
    <3> HIDE DEF Good
    <3> QED
      BY <2>2, <2>4, <2>5
  <2>7. rank[s] = IF k = 0 \/ n < a THEN 0 ELSE (n + 1) - a
    <3> HIDE DEF Good
    <3> QED
      BY <2>2, <2>6
  <2>8. start = s
    BY <2>1, <2>2
  <2>9. rank[s] <= n
    BY ONLY <1>1, <2>1, <2>7
  <2> QED
    BY ONLY <2>6, <2>8, <2>9
<1>6. rank \in [S -> Nat]
  <2>1. \A p \in S : rank[p] \in Nat
    <3> HIDE DEF rank, S, next
    <3> QED
      BY <1>4
  <2>2. rank = [p \in S |-> rank[p]]
    OBVIOUS
  <2> HIDE DEF rank, S
  <2> QED
    BY <2>1, <2>2, Zenon
<1>7. end \in S /\ rank[end] = 0
  <2>1. (\A s \in S : next[s] \in S) /\ (\A s \in S : rank[next[s]] < rank[s] \/ rank[next[s]] = 0)
    <3> HIDE DEF rank, S, next
    <3> QED
      BY <1>4
  <2>2. n \in Nat
    BY <1>1
  <2> HIDE DEF rank, S, next, start
  <2> QED
    BY ONLY <1>5, <1>6, <2>1, <2>2, LoopStays
<1>8. PICK a, e, m : /\ a \in Nat /\ e \in Nat /\ m \in Nat /\ end[4] \in Seq(Nat \X Nat \X Nat)
                     /\ end[1] = a /\ end[2] = e /\ end[3] = m
                     /\ Good(a, e, m, end[4])
  <2> HIDE DEF end, Good
  <2> QED
    BY <1>7
<1>9. m = 0
  <2>1. rank[end] = IF m = 0 \/ n < a THEN 0 ELSE (n + 1) - a
    <3> HIDE DEF end, Good
    <3> QED
      BY <1>7, <1>8
  <2>2. m # 0 => a \in 1..n
    <3>1. m # 0 => OnPlace(result, <<a, e>>, (g + k) - m) /\ m <= k
      <4> HIDE DEF end
      <4> QED
        BY <1>8
    <3>2. PICK pos : pos = <<a, e>> /\ pos[1] = a
      BY ONLY PairIs
    <3>3. m # 0 => (g + k) - m < l[n]
      BY ONLY <1>t, <1>8, <3>1, g \in Nat, k \in Nat
    <3> HIDE DEF end, Good
    <3> QED
      BY <3>1, <3>2, <3>3, PlaceIn
  <2>3. a \in 1..n => (n + 1) - a # 0 /\ ~(n < a)
    BY ONLY <1>1
  <2> HIDE DEF rank, end
  <2> QED
    BY ONLY <1>7, <2>1, <2>2, <2>3
<1>10. (g + k) - 0 = g + k
  OBVIOUS
<1> HIDE DEF end
<1> QED
  BY <1>2, <1>8, <1>9, <1>10

(* The arrays of a task hold its entities, the matched rows from the place *)
(* it begins at.                                                           *)
LEMMA TaskArraysTile ==
  ASSUME NEW result, Result(result), NEW task, NEW g \in Nat, OnPlace(result, task.at, g),
         NEW k \in Nat, k = task.size, g + k <= TotalCount(result)
  PROVE  Tiles(result, TaskArrays(result, task), g, g + k)
<1> PICK parts : parts = Parts(result, task)
  OBVIOUS
<1>1. Spans(result, parts, g, g + k)
  BY PartsAre
<1>2. TaskArrays(result, task) = FlattenSeq([i \in DOMAIN parts |-> PartArrays(result, parts[i])])
  BY DEF TaskArrays, PartArrays, Tagged
<1> QED
  BY <1>1, <1>2, SpansTile

(* So a task visits those rows.                                            *)
LEMMA TaskRowsAre ==
  ASSUME NEW result, Result(result), NEW task, NEW g \in Nat, OnPlace(result, task.at, g),
         NEW k \in Nat, k = task.size, g + k <= TotalCount(result)
  PROVE  /\ TaskRows(result, task) \in Seq(Rows)
         /\ Len(TaskRows(result, task)) = k
         /\ \A i \in 1..k : TaskRows(result, task)[i] = MatchedRows(result)[g + i]
<1> PICK arrays : arrays = TaskArrays(result, task)
  OBVIOUS
<1>1. Tiles(result, arrays, g, g + k)
  BY TaskArraysTile
<1>2. TaskRows(result, task) = AllRows(arrays)
  BY DEF TaskRows, AllRows, ArrayRows
<1> PICK h : h = g + k
  OBVIOUS
<1>3. h - g = k
  OBVIOUS
<1>4. /\ AllRows(arrays) \in Seq(Rows) /\ Len(AllRows(arrays)) = h - g
      /\ \A i \in 1..(h - g) : AllRows(arrays)[i] = MatchedRows(result)[g + i]
  <2>1. Tiles(result, arrays, g, h)
    BY ONLY <1>1, h = g + k, Zenon
  <2>2. RowsFromTo(result, arrays, g, h)
    BY ONLY <2>1, g \in Nat, TilesRows
  <2> QED
    BY ONLY <2>2, Zenon DEF RowsFromTo
<1> QED
  BY ONLY <1>2, <1>3, <1>4

-----------------------------------------------------------------------------
(* The tasks.                                                              *)
Shares(total, n) == [i \in 1..n |-> TaskSize(total, n, i - 1)]

(* The shares of the tasks add up to the whole.                            *)
LEMMA SharesAre ==
  ASSUME NEW total \in Nat, NEW n \in Nat \ {0}
  PROVE  /\ Shares(total, n) \in [1..n -> Nat]
         /\ \E l : Adds(l, n, Shares(total, n)) /\ l[n] = total
<1> PICK q \in Nat : q = total \div n
  OBVIOUS
<1> PICK r \in 0..(n - 1) : r = total % n
  OBVIOUS
<1>1. total = n * q + r
  OBVIOUS
<1>2. \A i \in 1..n : TaskSize(total, n, i - 1) = q + (IF i <= r THEN 1 ELSE 0)
  BY DEF TaskSize
<1>3. Shares(total, n) \in [1..n -> Nat]
  BY <1>2 DEF Shares
<1>4. PICK l : Adds(l, n, Shares(total, n))
  BY <1>3, AddsExist
<1>5. l \in [0..n -> Nat] /\ l[0] = 0 /\ \A i \in 1..n : l[i] = l[i - 1] + (q + (IF i <= r THEN 1 ELSE 0))
  BY <1>2, <1>4 DEF Adds, Shares
<1> DEFINE T == {i \in 0..n : l[i] = i * q + (IF i <= r THEN i ELSE r)}
<1>6. 0 \in T
  BY <1>5
<1>7. ASSUME NEW i \in 1..n, i - 1 \in T PROVE i \in T
  <2>1. PICK j \in Nat : j = i - 1 /\ i = j + 1
    OBVIOUS
  <2>2. PICK m \in Nat : m = l[j] /\ m = j * q + (IF j <= r THEN j ELSE r)
    BY <1>5, <1>7, <2>1
  <2>3. l[i] = m + (q + (IF i <= r THEN 1 ELSE 0))
    BY <1>5, <2>1, <2>2
  <2>4. (j + 1) * q = j * q + q /\ j * q \in Nat
    OBVIOUS
  <2>5. l[i] = (j + 1) * q + (IF i <= r THEN i ELSE r)
    BY <2>1, <2>2, <2>3, <2>4
  <2> QED
    BY <2>1, <2>5
<1>8. 0..n \subseteq T
  <2> HIDE DEF T
  <2> QED
    BY <1>6, <1>7, Upto
<1>9. n \in T
  BY <1>8
<1>10. l[n] = n * q + r
  BY <1>9
<1> QED
  BY <1>1, <1>3, <1>4, <1>10

(* What task i of n is when the ones before it end at place l[i].          *)
TaskIs(result, task, i, n, l) ==
    /\ task.first = l[i]
    /\ task.size = TaskSize(TotalCount(result), n, i)
    /\ task.size \in Nat
    /\ l[i + 1] = l[i] + task.size
    /\ OnPlace(result, task.at, l[i])

(* A chain of tasks, each beginning where the one before ends.             *)
LEMMA ChainIs ==
  ASSUME NEW result, Result(result), NEW n \in Nat \ {0}, NEW l,
         Adds(l, n, Shares(TotalCount(result), n)), l[n] = TotalCount(result),
         NEW t, t[0] = [at |-> <<1, 0>>, first |-> 0, size |-> TaskSize(TotalCount(result), n, 0)],
         \A i \in 1..(n - 1) :
            /\ t[i].first = t[i - 1].first + t[i - 1].size
            /\ t[i].size = TaskSize(TotalCount(result), n, i)
            /\ Advance(result, t[i - 1].at, t[i - 1].size) \in Nat \X Nat =>
                  t[i].at = Advance(result, t[i - 1].at, t[i - 1].size)
  PROVE  \A i \in 0..(n - 1) :
            /\ TaskIs(result, t[i], i, n, l)
            /\ i # 0 => Advance(result, t[i - 1].at, t[i - 1].size) \in Nat \X Nat
<1> PICK total \in Nat : total = TotalCount(result)
  BY TotalsAre
<1>1. Shares(total, n) \in [1..n -> Nat]
  BY SharesAre
<1>2. l \in [0..n -> Nat] /\ l[0] = 0 /\ \A i \in 1..n : l[i] = l[i - 1] + Shares(total, n)[i]
  BY DEF Adds
<1>3. ASSUME NEW i \in 0..(n - 1)
      PROVE  TaskSize(total, n, i) \in Nat /\ l[i + 1] = l[i] + TaskSize(total, n, i) /\ l[i] \in Nat
  <2>1. i + 1 \in 1..n /\ (i + 1) - 1 = i /\ i \in 0..n
    OBVIOUS
  <2>2. Shares(total, n)[i + 1] = TaskSize(total, n, i)
    BY <2>1 DEF Shares
  <2>3. Shares(total, n)[i + 1] \in Nat
    BY <1>1, <2>1
  <2> QED
    BY <1>2, <2>1, <2>2, <2>3
<1>4. ASSUME NEW i \in 0..n PROVE l[i] <= total
  <2>1. n \in 0..n /\ i <= n
    OBVIOUS
  <2>2. l[i] <= l[n]
    BY <1>1, <2>1, AddsMono
  <2> QED
    BY <2>2
<1>5. OnPlace(result, <<1, 0>>, 0)
  <2> PICK m, c : ArchetypeSums(result, m, c)
    BY ArchetypeSumsOf
  <2>1. m \in Nat /\ m = Len(result) /\ c = Totals(result) /\ c[0] = 0
    BY DEF ArchetypeSums
  <2>2. 1 <= m => 0 < EntitiesCount(result[1])
    <3>1. 1 <= m => 1 \in 1..m
      BY <2>1
    <3>2. \A i \in 1..m : EntitiesCount(result[i]) \in Nat \ {0}
      BY DEF ArchetypeSums
    <3>3. 1 \in 1..m => 0 < EntitiesCount(result[1])
      BY <3>2
    <3> QED
      BY <3>1, <3>3
  <2> PICK x : x = <<1, 0>> /\ x[1] = 1 /\ x[2] = 0
    BY ONLY PairIs
  <2>3. 1 \in 1..(m + 1) /\ 1 - 1 = 0 /\ (~(1 <= m) => m = 0)
    BY <2>1
  <2>4. Totals(result)[x[1] - 1] + x[2] = 0
    BY <2>1, <2>3
  <2>5. OnPlace(result, x, 0)
    BY <2>1, <2>2, <2>3, <2>4 DEF OnPlace
  <2> QED
    BY <2>5
<1> DEFINE T == {i \in 0..(n - 1) : /\ TaskIs(result, t[i], i, n, l)
                                    /\ i # 0 => Advance(result, t[i - 1].at, t[i - 1].size) \in Nat \X Nat}
<1>6. 0 \in T
  <2>1. 0 \in 0..(n - 1)
    OBVIOUS
  <2>2. t[0].at = <<1, 0>> /\ t[0].first = 0 /\ t[0].size = TaskSize(total, n, 0)
    OBVIOUS
  <2>3. TaskIs(result, t[0], 0, n, l)
    BY <1>2, <1>3, <1>5, <2>1, <2>2 DEF TaskIs
  <2> QED
    BY <2>1, <2>3
<1>7. ASSUME NEW i \in 1..(n - 1), i - 1 \in T PROVE i \in T
  <2>1. i - 1 \in 0..(n - 1) /\ i \in 0..(n - 1) /\ (i - 1) + 1 = i /\ i \in 0..n
    OBVIOUS
  <2>2. TaskIs(result, t[i - 1], i - 1, n, l)
    BY <1>7
  <2>3. PICK from, k, g : from = t[i - 1].at /\ k = t[i - 1].size /\ g = l[i - 1]
    OBVIOUS
  <2>4. k \in Nat /\ g \in Nat /\ OnPlace(result, from, g) /\ g + k = l[i] /\ t[i - 1].first = g
    BY <1>3, <2>1, <2>2, <2>3 DEF TaskIs
  <2>5. g + k <= TotalCount(result)
    BY <1>4, <2>1, <2>4
  <2>6. PICK to : to = Advance(result, from, k)
    OBVIOUS
  <2>7. OnPlace(result, to, g + k)
    BY <2>4, <2>5, <2>6, AdvanceIs
  <2>8. to \in Nat \X Nat
    <3>1. Len(result) \in Nat
      BY TotalsAre
    <3>2. to = <<to[1], to[2]>> /\ to[1] \in Nat /\ to[2] \in Nat
      BY <2>7, <3>1 DEF OnPlace
    <3> QED
      BY <3>2
  <2>9. t[i].at = to /\ t[i].first = g + k /\ t[i].size = TaskSize(total, n, i)
    BY <2>3, <2>4, <2>6, <2>8
  <2>10. TaskIs(result, t[i], i, n, l)
    BY <1>3, <2>1, <2>4, <2>7, <2>9 DEF TaskIs
  <2> QED
    BY <2>1, <2>3, <2>6, <2>8, <2>10
<1>8. 0..(n - 1) \subseteq T
  <2>1. n - 1 \in Nat
    OBVIOUS
  <2> HIDE DEF T
  <2> QED
    BY <1>6, <1>7, <2>1, Upto
<1> QED
  BY <1>8

(* Every task is where the running sums of the shares say.                 *)
LEMMA TasksAre ==
  ASSUME NEW result, Result(result), NEW n \in Nat \ {0}, NEW l,
         Adds(l, n, Shares(TotalCount(result), n)), l[n] = TotalCount(result)
  PROVE  \A i \in 0..(n - 1) : TaskIs(result, Tasks(result, n)[i], i, n, l)
<1> PICK total \in Nat : total = TotalCount(result)
  BY TotalsAre
<1> PICK m \in Nat : m = n - 1
  OBVIOUS
<1>1. \A i \in 0..m : TaskSize(total, n, i) \in Nat
  BY DEF TaskSize
<1> DEFINE S == [at : Nat \X Nat, first : Nat, size : Nat]
           base == [at |-> <<1, 0>>, first |-> 0, size |-> TaskSize(total, n, 0)]
           move(x) == Advance(result, x.at, x.size)
           goes(x, i) == [at |-> IF move(x) \in Nat \X Nat THEN move(x) ELSE <<1, 0>>,
                          first |-> x.first + x.size, size |-> TaskSize(total, n, i)]
           real(x, i) == [at |-> move(x), first |-> x.first + x.size, size |-> TaskSize(total, n, i)]
           F == [p \in (1..m) \X S |-> goes(p[2], p[1])]
<1>2. base \in S
  BY <1>1
<1>3. F \in [(1..m) \X S -> S]
  <2>1. ASSUME NEW i \in 1..m, NEW x \in S PROVE goes(x, i) \in S
    <3>1. TaskSize(total, n, i) \in Nat
      BY <1>1
    <3> HIDE DEF move
    <3> QED
      BY <3>1
  <2> HIDE DEF S, goes
  <2> QED
    BY <2>1
<1>4. PICK g \in [0..m -> S] : Solves(g, m, base, F)
  <2> HIDE DEF S, base, F
  <2> QED
    BY <1>2, <1>3, Recursion
<1>5. g[0] = base /\ \A i \in 1..m : g[i] = goes(g[i - 1], i)
  <2>1. \A i \in 0..m : g[i] = IF i = 0 THEN base ELSE F[<<i, g[i - 1]>>]
    <3> HIDE DEF S, base, F
    <3>1. g = [i \in 0..m |-> IF i = 0 THEN base ELSE F[<<i, g[i - 1]>>]]
      BY <1>4, Zenon DEF Solves
    <3> QED
      BY <3>1
  <2>2. \A i \in 1..m : g[i - 1] \in S
    <3>1. \A i \in 1..m : i - 1 \in 0..m
      OBVIOUS
    <3> HIDE DEF S
    <3> QED
      BY <3>1
  <2>3. \A i \in 1..m : F[<<i, g[i - 1]>>] = goes(g[i - 1], i)
    <3> HIDE DEF S, goes
    <3> QED
      BY <2>2
  <2>4. 0 \in 0..m /\ \A i \in 1..m : i \in 0..m /\ i # 0
    OBVIOUS
  <2> HIDE DEF S, base, F, goes
  <2> QED
    BY <2>1, <2>3, <2>4, Zenon
<1>6. \A i \in 1..m : g[i] = real(g[i - 1], i)
  <2>1. \A i \in 1..m :
           /\ g[i].first = g[i - 1].first + g[i - 1].size
           /\ g[i].size = TaskSize(total, n, i)
           /\ move(g[i - 1]) \in Nat \X Nat => g[i].at = move(g[i - 1])
    <3> TAKE i \in 1..m
    <3>1. g[i] = goes(g[i - 1], i)
      <4> HIDE DEF goes
      <4> QED
        BY ONLY <1>5, i \in 1..m
    <3>2. PICK x : x = IF move(g[i - 1]) \in Nat \X Nat THEN move(g[i - 1]) ELSE <<1, 0>>
      OBVIOUS
    <3>3. PICK y, z : y = g[i - 1].first + g[i - 1].size /\ z = TaskSize(total, n, i)
      OBVIOUS
    <3>4. g[i] = [at |-> x, first |-> y, size |-> z]
      BY ONLY <3>1, <3>2, <3>3
    <3>5. g[i].at = x /\ g[i].first = y /\ g[i].size = z
      BY ONLY <3>4
    <3> HIDE DEF move
    <3> QED
      BY ONLY <3>2, <3>3, <3>5
  <2>2. \A i \in 0..m : i # 0 => move(g[i - 1]) \in Nat \X Nat
    <3>1. g[0] = [at |-> <<1, 0>>, first |-> 0, size |-> TaskSize(total, n, 0)]
      BY <1>5
    <3> QED
      BY ONLY <2>1, <3>1, Result(result), n \in Nat \ {0}, ChainIs, m = n - 1, total = TotalCount(result),
              Adds(l, n, Shares(TotalCount(result), n)), l[n] = TotalCount(result)
  <2>3. ASSUME NEW i \in 1..m PROVE g[i] = real(g[i - 1], i)
    <3>1. move(g[i - 1]) \in Nat \X Nat
      BY <2>2
    <3>2. g[i] = goes(g[i - 1], i)
      BY <1>5
    <3> HIDE DEF move
    <3> QED
      BY <3>1, <3>2
  <2> HIDE DEF real
  <2> QED
    BY <2>3
<1>7. g = [i \in 0..m |-> IF i = 0 THEN base ELSE real(g[i - 1], i)]
  <2>1. \A i \in 0..m : i # 0 => i \in 1..m
    OBVIOUS
  <2>2. \A i \in 0..m : g[i] = IF i = 0 THEN base ELSE real(g[i - 1], i)
    <3> HIDE DEF base, real
    <3> QED
      BY <1>5, <1>6, <2>1
  <2>3. g = [i \in 0..m |-> g[i]]
    <3> HIDE DEF S
    <3> QED
      OBVIOUS
  <2> HIDE DEF base, real
  <2> QED
    BY <2>2, <2>3, Zenon
<1> DEFINE task[i \in 0..(n - 1)] ==
      IF i = 0 THEN [at |-> <<1, 0>>, first |-> 0, size |-> TaskSize(TotalCount(result), n, 0)]
      ELSE [at    |-> Advance(result, task[i - 1].at, task[i - 1].size),
            first |-> task[i - 1].first + task[i - 1].size,
            size  |-> TaskSize(TotalCount(result), n, i)]
<1>8. Tasks(result, n) = task
  BY Zenon DEF Tasks
<1>9. task = [i \in 0..(n - 1) |->
      IF i = 0 THEN [at |-> <<1, 0>>, first |-> 0, size |-> TaskSize(TotalCount(result), n, 0)]
      ELSE [at    |-> Advance(result, task[i - 1].at, task[i - 1].size),
            first |-> task[i - 1].first + task[i - 1].size,
            size  |-> TaskSize(TotalCount(result), n, i)]]
  <2>1. \E s : s = [i \in 0..(n - 1) |->
      IF i = 0 THEN [at |-> <<1, 0>>, first |-> 0, size |-> TaskSize(TotalCount(result), n, 0)]
      ELSE [at    |-> Advance(result, s[i - 1].at, s[i - 1].size),
            first |-> s[i - 1].first + s[i - 1].size,
            size  |-> TaskSize(TotalCount(result), n, i)]]
    <3>1. g = [i \in 0..(n - 1) |->
      IF i = 0 THEN [at |-> <<1, 0>>, first |-> 0, size |-> TaskSize(TotalCount(result), n, 0)]
      ELSE [at    |-> Advance(result, g[i - 1].at, g[i - 1].size),
            first |-> g[i - 1].first + g[i - 1].size,
            size  |-> TaskSize(TotalCount(result), n, i)]]
      BY ONLY <1>7, m = n - 1, total = TotalCount(result)
    <3> QED
      BY ONLY <3>1, Zenon
  <2> QED
    BY <2>1, Zenon
<1> HIDE DEF task
<1>10. /\ task[0] = [at |-> <<1, 0>>, first |-> 0, size |-> TaskSize(TotalCount(result), n, 0)]
       /\ \A i \in 1..(n - 1) :
            task[i] = [at    |-> Advance(result, task[i - 1].at, task[i - 1].size),
                       first |-> task[i - 1].first + task[i - 1].size,
                       size  |-> TaskSize(TotalCount(result), n, i)]
  <2>1. 0 \in 0..(n - 1) /\ \A i \in 1..(n - 1) : i \in 0..(n - 1) /\ i # 0
    OBVIOUS
  <2>2. PICK s : s = task
    OBVIOUS
  <2>3. \A i \in 0..(n - 1) : s[i] =
      IF i = 0 THEN [at |-> <<1, 0>>, first |-> 0, size |-> TaskSize(TotalCount(result), n, 0)]
      ELSE [at    |-> Advance(result, s[i - 1].at, s[i - 1].size),
            first |-> s[i - 1].first + s[i - 1].size,
            size  |-> TaskSize(TotalCount(result), n, i)]
    BY <1>9, <2>2
  <2> QED
    BY ONLY <2>1, <2>2, <2>3
<1>11. \A i \in 1..(n - 1) :
            /\ task[i].first = task[i - 1].first + task[i - 1].size
            /\ task[i].size = TaskSize(TotalCount(result), n, i)
            /\ task[i].at = Advance(result, task[i - 1].at, task[i - 1].size)
  <2> TAKE i \in 1..(n - 1)
  <2>1. PICK x, y, z : /\ x = Advance(result, task[i - 1].at, task[i - 1].size)
                       /\ y = task[i - 1].first + task[i - 1].size
                       /\ z = TaskSize(TotalCount(result), n, i)
    OBVIOUS
  <2>2. task[i] = [at |-> x, first |-> y, size |-> z]
    BY ONLY <1>10, <2>1, i \in 1..(n - 1)
  <2>3. task[i].at = x /\ task[i].first = y /\ task[i].size = z
    BY ONLY <2>2
  <2> QED
    BY ONLY <2>1, <2>3, Zenon
<1> QED
  BY ONLY <1>8, <1>10, <1>11, Result(result), n \in Nat \ {0}, ChainIs,
          Adds(l, n, Shares(TotalCount(result), n)), l[n] = TotalCount(result)

(* A task goes over the matched rows after the first `from` up to `to`, in *)
(* arrays that lie end to end.                                             *)
GoesOver(result, task, from, to) ==
  /\ task.first = from /\ task.size \in Nat /\ from \in Nat /\ to = from + task.size
  /\ to <= TotalCount(result)
  /\ Tiles(result, TaskArrays(result, task), from, from + task.size)
  /\ TaskRows(result, task) \in Seq(Rows)
  /\ Len(TaskRows(result, task)) = task.size
  /\ \A k \in 1..task.size : TaskRows(result, task)[k] = MatchedRows(result)[from + k]

(* Task i + 1 of n: where its rows are among those of the result.          *)
LEMMA RowsOfTask ==
  ASSUME NEW result, Result(result), NEW n \in Nat \ {0}, NEW l,
         Adds(l, n, Shares(TotalCount(result), n)), l[n] = TotalCount(result), NEW i \in 0..(n - 1)
  PROVE  GoesOver(result, Tasks(result, n)[i], l[i], l[i + 1])
<1> PICK task : task = Tasks(result, n)[i]
  OBVIOUS
<1>1. TaskIs(result, task, i, n, l)
  BY TasksAre
<1> PICK k : k = task.size
  OBVIOUS
<1>2. Shares(TotalCount(result), n) \in [1..n -> Nat] /\ TotalCount(result) \in Nat
  BY SharesAre, TotalsAre
<1>3. l \in [0..n -> Nat] /\ i \in 0..n /\ i + 1 \in 0..n /\ n \in 0..n /\ i + 1 <= n
  BY DEF Adds
<1>4. l[i + 1] <= l[n]
  BY ONLY <1>2, <1>3, n \in Nat \ {0}, Adds(l, n, Shares(TotalCount(result), n)), AddsMono
<1>5. /\ k \in Nat /\ l[i] \in Nat /\ task.first = l[i] /\ l[i + 1] = l[i] + k
      /\ OnPlace(result, task.at, l[i]) /\ l[i] + k <= TotalCount(result)
  BY <1>1, <1>3, <1>4 DEF TaskIs
<1>6. Tiles(result, TaskArrays(result, task), l[i], l[i] + k)
  BY <1>5, TaskArraysTile
<1>7. /\ TaskRows(result, task) \in Seq(Rows)
      /\ Len(TaskRows(result, task)) = k
      /\ \A j \in 1..k : TaskRows(result, task)[j] = MatchedRows(result)[l[i] + j]
  BY <1>5, TaskRowsAre
<1> QED
  BY <1>5, <1>6, <1>7 DEF GoesOver

(* A job's tasks, in any number, go over the matched rows of whatever its  *)
(* filter found, once each and in order; each task over as many as its     *)
(* share; each array stays inside a block and on one side of the place     *)
(* where the storage changes buffers (TaskGroup, ArchetypeGroup,           *)
(* ArrayView).                                                             *)
THEOREM TasksCoverAlways ==
  ASSUME NEW result, Result(result), NEW n \in Nat \ {0}
  PROVE  TasksCover(result, n)
<1> PICK l : Adds(l, n, Shares(TotalCount(result), n)) /\ l[n] = TotalCount(result)
  <2>1. TotalCount(result) \in Nat
    BY TotalsAre
  <2> QED
    BY <2>1, SharesAre
<1> PICK tasks : tasks = Tasks(result, n)
  OBVIOUS
<1>1. ASSUME NEW i \in 1..n
      PROVE  /\ tasks[i - 1].size \in Nat /\ l[i - 1] \in Nat /\ l[i] = l[i - 1] + tasks[i - 1].size
             /\ Tiles(result, TaskArrays(result, tasks[i - 1]), l[i - 1], l[i - 1] + tasks[i - 1].size)
             /\ TaskRows(result, tasks[i - 1]) \in Seq(Rows)
             /\ Len(TaskRows(result, tasks[i - 1])) = tasks[i - 1].size
             /\ \A k \in 1..tasks[i - 1].size :
                   TaskRows(result, tasks[i - 1])[k] = MatchedRows(result)[l[i - 1] + k]
  <2>1. PICK j \in 0..(n - 1) : j = i - 1 /\ j + 1 = i
    OBVIOUS
  <2>2. GoesOver(result, tasks[j], l[j], l[j + 1])
    BY RowsOfTask
  <2> QED
    BY ONLY <2>1, <2>2 DEF GoesOver
<1> PICK ss : ss = [i \in 1..n |-> TaskRows(result, tasks[i - 1])]
  OBVIOUS
<1>2. ss \in [1..n -> Seq(Rows)]
  BY <1>1
<1>3. ss \in Seq(Seq(Rows)) /\ Len(ss) = n
  BY <1>2, SeqOfFunction
<1>4. \A i \in 1..n : ss[i] = TaskRows(result, tasks[i - 1]) /\ Len(ss[i]) = tasks[i - 1].size
  BY <1>1
<1> PICK f : f = Lens(ss)
  OBVIOUS
<1>5. f = [i \in 1..n |-> Len(ss[i])] /\ f \in [1..n -> Nat]
  <2>1. \A i \in 1..n : Len(ss[i]) \in Nat
    BY <1>1, <1>4
  <2>2. f = [i \in 1..n |-> Len(ss[i])]
    BY ONLY <1>3, f = Lens(ss) DEF Lens
  <2> QED
    BY ONLY <2>1, <2>2
<1>6. Adds(l, n, f)
  <2>1. l \in [0..n -> Nat] /\ l[0] = 0
    BY DEF Adds
  <2>2. \A i \in 1..n : l[i] = l[i - 1] + f[i]
    <3> TAKE i \in 1..n
    <3>1. f[i] = Len(ss[i])
      BY ONLY <1>5, i \in 1..n
    <3>2. f[i] = tasks[i - 1].size
      BY <1>4, <3>1
    <3>3. l[i] = l[i - 1] + tasks[i - 1].size
      BY <1>1
    <3> QED
      BY ONLY <3>2, <3>3, Zenon
  <2> QED
    BY <2>1, <2>2 DEF Adds
<1> PICK flat : flat = FlattenSeq(ss)
  OBVIOUS
<1>7. /\ flat \in Seq(Rows) /\ Len(flat) = l[n]
      /\ \A i \in 1..n : \A k \in 1..Len(ss[i]) : flat[l[i - 1] + k] = ss[i][k]
  <2>1. Adds(l, Len(ss), Lens(ss))
    BY ONLY <1>3, <1>6, f = Lens(ss), Zenon
  <2>2. /\ FlattenSeq(ss) \in Seq(Rows) /\ Len(FlattenSeq(ss)) = l[Len(ss)]
        /\ \A i \in 1..Len(ss) : \A k \in 1..Len(ss[i]) : FlattenSeq(ss)[l[i - 1] + k] = ss[i][k]
    <3>1. Joined(ss, l, Rows)
      BY ONLY <1>3, <2>1, FlattenAt
    <3> QED
      BY ONLY <3>1, Zenon DEF Joined
  <2> QED
    BY ONLY <1>3, <2>2, flat = FlattenSeq(ss), Zenon
<1> PICK m \in Nat : m = l[n] /\ m = TotalCount(result)
  BY TotalsAre
<1>8. ASSUME NEW g \in 1..m PROVE flat[g] = MatchedRows(result)[g]
  <2>1. PICK e \in Nat : e = g - 1 /\ e < l[n]
    OBVIOUS
  <2>2. PICK i \in 1..n : l[i - 1] <= e /\ e < l[i]
    BY <1>5, <1>6, <2>1, AddsLocate
  <2>3. PICK p, s \in Nat : p = l[i - 1] /\ s = tasks[i - 1].size /\ l[i] = p + s
    BY <1>1
  <2>4. PICK k \in 1..s : g = p + k
    <3>1. g - p \in 1..s /\ g = p + (g - p)
      <4>1. m \in Nat /\ g \in 1..m
        OBVIOUS
      <4>2. p <= e /\ e < p + s /\ e = g - 1
        BY <2>1, <2>2, <2>3
      <4> QED
        BY ONLY <4>1, <4>2, p \in Nat, s \in Nat, e \in Nat
    <3> QED
      BY <3>1
  <2>5. flat[p + k] = ss[i][k]
    <3>1. Len(ss[i]) = s
      BY ONLY <1>4, <2>3, i \in 1..n
    <3>2. k \in 1..Len(ss[i])
      BY ONLY <3>1, k \in 1..s
    <3>3. flat[l[i - 1] + k] = ss[i][k]
      BY ONLY <1>7, <3>2, i \in 1..n, Zenon
    <3> QED
      BY ONLY <2>3, <3>3, Zenon
  <2>6. ss[i][k] = MatchedRows(result)[p + k]
    BY <1>1, <1>4, <2>3, <2>4
  <2> QED
    BY <2>4, <2>5, <2>6
<1>9. flat = MatchedRows(result)
  <2>1. MatchedRows(result) \in Seq(Rows) /\ Len(MatchedRows(result)) = m
    BY MatchedAre
  <2>2. flat = [g \in 1..m |-> flat[g]]
    BY <1>7
  <2>3. MatchedRows(result) = [g \in 1..m |-> MatchedRows(result)[g]]
    BY <2>1
  <2> QED
    BY <1>8, <2>2, <2>3, Zenon
<1>10. ASSUME NEW i \in 1..n, NEW x \in ToSet(TaskArrays(result, tasks[i - 1]))
       PROVE  /\ \E b \in ToSet(result[x[1]].blocks) : b[1] <= x[2] /\ x[2] + x[3] <= b[2]
              /\ x[2] < result[x[1]].cut => x[2] + x[3] <= result[x[1]].cut
  <2>1. PICK s : s = TaskArrays(result, tasks[i - 1])
    OBVIOUS
  <2>2. Tiles(result, s, l[i - 1], l[i - 1] + tasks[i - 1].size)
    BY <1>1, <2>1
  <2>3. s \in Seq(Triples) /\ \A k \in 1..Len(s) : Inside(result, s[k])
    BY <2>2 DEF Tiles, TilesAt, Holds
  <2>4. PICK k \in 1..Len(s) : x = s[k]
    BY <2>1, <2>3 DEF ToSet
  <2>5. Inside(result, x)
    BY <2>3, <2>4
  <2>6. PICK b \in 1..Len(result[x[1]].blocks) :
           result[x[1]].blocks[b][1] <= x[2] /\ x[2] + x[3] <= result[x[1]].blocks[b][2]
    BY <2>5 DEF Inside
  <2>7. result[x[1]].blocks[b] \in ToSet(result[x[1]].blocks)
    <3>1. x[1] \in 1..Len(result)
      BY <2>5 DEF Inside
    <3>2. DOMAIN result[x[1]].blocks = 1..Len(result[x[1]].blocks)
      BY <3>1 DEF Result, Filtered
    <3> QED
      BY <2>6, <3>2 DEF ToSet
  <2> QED
    BY <2>5, <2>6, <2>7 DEF Inside
<1>11. FlattenSeq([i \in 1..n |-> TaskRows(result, tasks[i - 1])]) = MatchedRows(result)
  BY <1>9
<1>12. \A i \in 1..n : Len(TaskRows(result, tasks[i - 1])) = tasks[i - 1].size
  BY <1>1
<1> QED
  BY <1>10, <1>11, <1>12 DEF TasksCover
=============================================================================
