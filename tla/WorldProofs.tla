----------------------------- MODULE WorldProofs -----------------------------
(***************************************************************************)
(* The systems, the events and the storage of a world, and that the three  *)
(* side by side keep their types.                                          *)
(*                                                                         *)
(* The order of systems respects what they were configured with, and       *)
(* update() updates each of them once, for any systems, names, constraints *)
(* and priorities.  The first part describes one order that reorderSystems *)
(* computes; the second what the infos keep from one reordering to the     *)
(* next; the third the loop of update().                                   *)
(*                                                                         *)
(* A post calls each receiver of its type once, for any managers, types    *)
(* and receivers and any calls that receivers make, as long as nothing is  *)
(* done that EventManager does not provide for.  The argument is that the  *)
(* one manager in use has a list for every id, and that no call changes a  *)
(* list that is walked; so what a post has called so far is the beginning  *)
(* of the list it walks, whose members are the receivers subscribed.       *)
(*                                                                         *)
(* Every world finds what was stored in it, for any worlds, types, strings *)
(* and checksums.  The tables of singletons are indexed by ids that all    *)
(* worlds share, and each is as long as its own world needed so far: the   *)
(* invariant says what an entry means whether the table reaches it or not. *)
(***************************************************************************)
EXTENDS MCWorld, TLAPS, FiniteSetTheorems, SequenceTheorems, WellFoundedInduction

-----------------------------------------------------------------------------
(* Numbers and recursions.                                                 *)
(* Pairs of numbers in order.                                              *)
LessPairs == {p \in Nat \X Nat : p[1] < p[2]}

(* A nonempty set of numbers has a least element.                          *)
LEMMA LeastNat ==
  ASSUME NEW T, T \subseteq Nat, T # {}
  PROVE  \E x \in T : \A y \in T : x <= y
<1>1. IsWellFoundedOn(LessPairs, Nat)
  BY ONLY NatLessThanWellFounded, Zenon DEF OpToRel, LessPairs
<1>2. PICK x \in T : \A y \in T : ~ (<<y, x>> \in LessPairs)
  BY <1>1, WFMin, Zenon
<1>3. ASSUME NEW y \in T PROVE x <= y
  <2>1. ~(<<y, x>> \in LessPairs)
    BY <1>2
  <2>2. x \in Nat /\ y \in Nat
    OBVIOUS
  <2> QED
    BY <2>1, <2>2 DEF LessPairs
<1> QED
  BY <1>3

(* What holds of 0 and goes on from each number to the next holds up to n. *)
LEMMA Upto ==
  ASSUME NEW n \in Nat, NEW T, 0 \in T, \A i \in 1..n : i - 1 \in T => i \in T
  PROVE  0..n \subseteq T
<1> SUFFICES ASSUME NEW j \in 0..n, j \notin T PROVE FALSE
  OBVIOUS
<1> DEFINE U == {i \in 0..n : i \notin T}
<1>1. PICK x \in U : \A y \in U : x <= y
  <2>1. U \subseteq Nat /\ U # {}
    OBVIOUS
  <2> QED
    BY <2>1, LeastNat
<1>2. x \in 1..n
  OBVIOUS
<1>3. x - 1 \in 0..n /\ x - 1 \notin U
  BY <1>1, <1>2
<1> QED
  BY <1>2, <1>3

(* g is what a recursion by F from base goes through in k steps.            *)
Solves(g, k, base, F) == g = [i \in 0..k |-> IF i = 0 THEN base ELSE F[<<i, g[i - 1]>>]]

(* A recursion that stays in a set has a solution.                         *)
LEMMA Recursion ==
  ASSUME NEW n \in Nat, NEW S, NEW base \in S, NEW F \in [(1..n) \X S -> S]
  PROVE  \E g \in [0..n -> S] : Solves(g, n, base, F)
<1> DEFINE T == {k \in 0..n : \E g \in [0..k -> S] : Solves(g, k, base, F)}
<1>1. 0 \in T
  <2>1. PICK g : g = [i \in 0..0 |-> base]
    OBVIOUS
  <2>2. g = [i \in 0..0 |-> IF i = 0 THEN base ELSE F[<<i, g[i - 1]>>]]
    BY <2>1
  <2>3. g \in [0..0 -> S]
    BY <2>1
  <2> QED
    BY <2>2, <2>3 DEF Solves
<1>2. ASSUME NEW k \in 1..n, k - 1 \in T PROVE k \in T
  <2>1. PICK g \in [0..(k - 1) -> S] : Solves(g, k - 1, base, F)
    BY <1>2
  <2>2. PICK h : h = [i \in 0..k |-> IF i = 0 THEN base ELSE F[<<i, g[i - 1]>>]]
    OBVIOUS
  <2>a. g = [i \in 0..(k - 1) |-> IF i = 0 THEN base ELSE F[<<i, g[i - 1]>>]]
    BY <2>1 DEF Solves
  <2>3. \A i \in 0..(k - 1) : h[i] = g[i]
    BY <2>2, <2>a
  <2>4. \A i \in 1..k : i - 1 \in 0..(k - 1)
    OBVIOUS
  <2>5. \A i \in 1..k : h[i - 1] = g[i - 1]
    BY <2>3, <2>4
  <2>6. h = [i \in 0..k |-> IF i = 0 THEN base ELSE F[<<i, h[i - 1]>>]]
    <3>1. \A i \in 0..k : (IF i = 0 THEN base ELSE F[<<i, g[i - 1]>>])
                        = (IF i = 0 THEN base ELSE F[<<i, h[i - 1]>>])
      BY <2>5
    <3> QED
      BY <2>2, <3>1, Zenon
  <2>7. h \in [0..k -> S]
    <3>1. \A i \in 1..k : g[i - 1] \in S
      BY <2>1, <2>4
    <3>2. \A i \in 1..k : <<i, g[i - 1]>> \in (1..n) \X S
      BY <3>1
    <3>3. \A i \in 1..k : F[<<i, g[i - 1]>>] \in S
      BY <3>2
    <3>4. \A i \in 0..k : i = 0 \/ i \in 1..k
      OBVIOUS
    <3> QED
      BY <2>2, <3>3, <3>4
  <2>8. Solves(h, k, base, F)
    BY <2>6, Zenon DEF Solves
  <2> QED
    BY <2>7, <2>8
<1>3. n \in T
  <2>1. 0..n \subseteq T
    <3> HIDE DEF T
    <3> QED
      BY <1>1, <1>2, Upto
  <2> QED
    BY <2>1
<1> QED
  BY <1>3

-----------------------------------------------------------------------------
(* One order.                                                              *)
Infos == [system : SystemPtrs, config : Configs]

LEMMA LeastIs ==
  ASSUME NEW S, S \subseteq Nat, S # {}
  PROVE  Least(S) \in S /\ \A j \in S : Least(S) <= j
<1>1. \E i \in S : \A j \in S : i <= j
  BY LeastNat
<1> QED
  BY <1>1 DEF Least

(* The positions of the sorted list that a round may take from.            *)
Free(is, q, placed) ==
  {i \in DOMAIN q : ~Contains(placed, q[i]) /\ CanBePlaced(is, placed, q[i])}

(* A round takes the first of them.                                        *)
LEMMA RoundIs ==
  ASSUME NEW is, NEW N \in Nat, NEW q \in [1..N -> 1..N], NEW placed \in Seq(1..N)
  PROVE  \/ NextPlaced(is, q, placed) = placed
         \/ \E x \in Free(is, q, placed) :
              /\ \A y \in Free(is, q, placed) : x <= y
              /\ NextPlaced(is, q, placed) = Append(placed, q[x])
<1> DEFINE free == Free(is, q, placed)
<1>1. NextPlaced(is, q, placed) = IF free = {} THEN placed ELSE Append(placed, q[Least(free)])
  BY DEF NextPlaced, Free
<1>2. free \subseteq Nat
  BY DEF Free
<1> HIDE DEF free
<1>3. CASE free = {}
  BY <1>1, <1>3
<1>4. CASE free # {}
  <2>1. Least(free) \in free /\ \A y \in free : Least(free) <= y
    BY <1>2, <1>4, LeastIs
  <2> QED
    BY <1>1, <1>4, <2>1 DEF free
<1> QED
  BY <1>3, <1>4

LEMMA RoundTyped ==
  ASSUME NEW is, NEW N \in Nat, NEW q \in [1..N -> 1..N], NEW placed \in Seq(1..N)
  PROVE  /\ NextPlaced(is, q, placed) \in Seq(1..N)
         /\ Len(NextPlaced(is, q, placed)) <= Len(placed) + 1
<1>1. CASE NextPlaced(is, q, placed) = placed
  BY <1>1
<1>2. ASSUME NEW x \in Free(is, q, placed), NextPlaced(is, q, placed) = Append(placed, q[x])
      PROVE  /\ NextPlaced(is, q, placed) \in Seq(1..N)
             /\ Len(NextPlaced(is, q, placed)) <= Len(placed) + 1
  <2>1. q[x] \in 1..N
    BY DEF Free
  <2> QED
    BY <1>2, <2>1
<1> QED
  BY <1>1, <1>2, RoundIs

(* The rounds of a placement.                                              *)
Rounds(g, is, q) ==
  /\ g[0] = <<>>
  /\ \A n \in 1..Len(is) : g[n] = NextPlaced(is, q, g[n - 1])

LEMMA PlacementIs ==
  ASSUME NEW is \in Seq(Infos), NEW q \in [1..Len(is) -> 1..Len(is)]
  PROVE  \E g \in [0..Len(is) -> Seq(1..Len(is))] :
           Rounds(g, is, q) /\ Placement(is, q) = g[Len(is)]
<1>1. PICK N \in Nat : N = Len(is)
  OBVIOUS
<1> DEFINE S == Seq(1..N)
           F == [p \in (1..N) \X S |-> NextPlaced(is, q, p[2])]
<1>2. F \in [(1..N) \X S -> S]
  <2>1. \A s \in S : NextPlaced(is, q, s) \in S
    BY <1>1, RoundTyped
  <2> QED
    BY <2>1
<1>3. PICK g \in [0..N -> S] : Solves(g, N, <<>>, F)
  <2>1. <<>> \in S
    OBVIOUS
  <2> HIDE DEF S, F
  <2> QED
    BY <1>2, <2>1, Recursion
<1>4. g = [n \in 0..N |-> IF n = 0 THEN <<>> ELSE NextPlaced(is, q, g[n - 1])]
  <2>1. \A n \in 1..N : g[n - 1] \in S
    OBVIOUS
  <2>2. \A n \in 1..N : F[<<n, g[n - 1]>>] = NextPlaced(is, q, g[n - 1])
    <3> HIDE DEF S
    <3> QED
      BY <2>1
  <2>3. \A n \in 0..N : n # 0 => n \in 1..N
    OBVIOUS
  <2> HIDE DEF F
  <2>4. g = [n \in 0..N |-> IF n = 0 THEN <<>> ELSE F[<<n, g[n - 1]>>]]
    BY <1>3, Zenon DEF Solves
  <2>5. \A n \in 0..N : (IF n = 0 THEN <<>> ELSE F[<<n, g[n - 1]>>])
                      = (IF n = 0 THEN <<>> ELSE NextPlaced(is, q, g[n - 1]))
    BY <2>2, <2>3
  <2> QED
    BY <2>4, <2>5, Zenon
<1> DEFINE round[n \in 0..N] == IF n = 0 THEN <<>> ELSE NextPlaced(is, q, round[n - 1])
<1>5. round = [n \in 0..N |-> IF n = 0 THEN <<>> ELSE NextPlaced(is, q, round[n - 1])]
  <2>1. \E b : b = [n \in 0..N |-> IF n = 0 THEN <<>> ELSE NextPlaced(is, q, b[n - 1])]
    BY <1>4, Zenon
  <2> QED
    BY <2>1, Zenon
<1>6. Placement(is, q) = round[N]
  BY <1>1, Zenon DEF Placement
<1> HIDE DEF round
<1>7. round \in [0..N -> S] /\ round[0] = <<>>
  <2>1. round[0] = <<>> /\ DOMAIN round = 0..N
    BY <1>5
  <2>2. \A n \in 1..N : round[n] = NextPlaced(is, q, round[n - 1])
    BY <1>5
  <2> DEFINE T == {n \in 0..N : round[n] \in S}
  <2>3. 0 \in T
    <3>1. <<>> \in S /\ 0 \in 0..N
      OBVIOUS
    <3> QED
      BY <2>1, <3>1
  <2>4. \A n \in 1..N : n - 1 \in T => n \in T
    <3> SUFFICES ASSUME NEW n \in 1..N, round[n - 1] \in S PROVE round[n] \in S
      OBVIOUS
    <3>1. NextPlaced(is, q, round[n - 1]) \in S
      BY <1>1, RoundTyped
    <3> QED
      BY <2>2, <3>1
  <2>5. 0..N \subseteq T
    <3> HIDE DEF T
    <3> QED
      BY <2>3, <2>4, Upto
  <2> QED
    BY <1>5, <2>1, <2>5
<1>8. \A n \in 1..N : round[n] = NextPlaced(is, q, round[n - 1])
  BY <1>5
<1> QED
  BY <1>1, <1>6, <1>7, <1>8 DEF Rounds

(* One more round has at most one more element, and the same before it.    *)
LEMMA RoundsGrow ==
  ASSUME NEW is \in Seq(Infos), NEW q \in [1..Len(is) -> 1..Len(is)],
         NEW g \in [0..Len(is) -> Seq(1..Len(is))], Rounds(g, is, q),
         Len(g[Len(is)]) = Len(is)
  PROVE  \A n \in 0..Len(is) : Len(g[n]) = n
<1>1. PICK N \in Nat : N = Len(is)
  OBVIOUS
<1>2. g \in [0..N -> Seq(1..N)] /\ g[0] = <<>> /\ Len(g[N]) = N /\ q \in [1..N -> 1..N]
  BY <1>1 DEF Rounds
<1>3. \A n \in 1..N : Len(g[n]) <= Len(g[n - 1]) + 1
  <2> TAKE n \in 1..N
  <2>0. n - 1 \in 0..N
    OBVIOUS
  <2>1. g[n] = NextPlaced(is, q, g[n - 1]) /\ g[n - 1] \in Seq(1..N)
    BY <1>1, <1>2, <2>0 DEF Rounds
  <2> QED
    BY <1>2, <2>1, RoundTyped
<1>4. \A n \in 0..N : Len(g[n]) \in Nat
  BY <1>2
<1>5. \A n \in 0..N : Len(g[n]) <= n
  <2> DEFINE T == {n \in 0..N : Len(g[n]) <= n}
  <2>1. 0 \in T
    BY <1>2
  <2>2. \A n \in 1..N : n - 1 \in T => n \in T
    BY <1>3, <1>4
  <2>3. 0..N \subseteq T
    <3> HIDE DEF T
    <3> QED
      BY <2>1, <2>2, Upto
  <2> QED
    BY <2>3
<1>6. \A k \in 0..N : Len(g[N - k]) + k >= N
  <2> DEFINE T == {k \in 0..N : Len(g[N - k]) + k >= N}
  <2>1. 0 \in T
    BY <1>2
  <2>2. ASSUME NEW k \in 1..N, k - 1 \in T PROVE k \in T
    <3>1. Len(g[N - (k - 1)]) + (k - 1) >= N
      BY <2>2
    <3>2. N - (k - 1) \in 1..N /\ (N - (k - 1)) - 1 = N - k /\ N - k \in 0..N
      OBVIOUS
    <3>3. Len(g[N - (k - 1)]) <= Len(g[N - k]) + 1
      BY <1>3, <3>2
    <3>4. Len(g[N - (k - 1)]) \in Nat /\ Len(g[N - k]) \in Nat
      BY <1>4, <3>2
    <3> QED
      BY <3>1, <3>2, <3>3, <3>4
  <2>3. 0..N \subseteq T
    <3> HIDE DEF T
    <3> QED
      BY <2>1, <2>2, Upto
  <2> QED
    BY <2>3
<1>7. ASSUME NEW n \in 0..N PROVE Len(g[n]) = n
  <2>1. N - n \in 0..N /\ N - (N - n) = n
    OBVIOUS
  <2>2. Len(g[n]) + (N - n) >= N
    BY <1>6, <2>1
  <2> QED
    BY <1>4, <1>5, <2>2
<1> QED
  BY <1>1, <1>7

(* The names of the first systems of p, and whether that is enough for m.  *)
NamesUpto(is, p, n) == {NameOf(is[p[k]]) : k \in 1..n}
AllNames(is) == {NameOf(is[k]) : k \in 1..Len(is)}
Fits(is, p, n, m) == is[m].config.after \cap (AllNames(is) \ NamesUpto(is, p, n)) = {}

(* p takes, one after another, the first one of q that fits.               *)
InOrder(is, q, p) ==
  /\ p \in [1..Len(is) -> 1..Len(is)]
  /\ \A i, k \in 1..Len(is) : p[i] = p[k] => i = k
  /\ \A i \in 1..Len(is) : Fits(is, p, i - 1, p[i])
  /\ \A i \in 1..Len(is) : \E x \in 1..Len(is) :
        /\ p[i] = q[x]
        /\ \A y \in 1..Len(is) :
             ((\A k \in 1..(i - 1) : p[k] # q[y]) /\ Fits(is, p, i - 1, q[y])) => x <= y

LEMMA PlacementInOrder ==
  ASSUME NEW is \in Seq(Infos), NEW q \in [1..Len(is) -> 1..Len(is)],
         Len(Placement(is, q)) = Len(is)
  PROVE  InOrder(is, q, Placement(is, q))
<1>1. PICK N \in Nat : N = Len(is)
  OBVIOUS
<1>2. PICK g \in [0..N -> Seq(1..N)] : Rounds(g, is, q) /\ Placement(is, q) = g[N]
  BY <1>1, PlacementIs
<1>3. PICK p : p = g[N]
  OBVIOUS
<1>4. \A n \in 0..N : Len(g[n]) = n
  <2>1. g \in [0..Len(is) -> Seq(1..Len(is))] /\ Rounds(g, is, q) /\ Len(g[Len(is)]) = Len(is)
    BY <1>1, <1>2
  <2>2. \A n \in 0..Len(is) : Len(g[n]) = n
    BY <2>1, RoundsGrow
  <2> QED
    BY <1>1, <2>2
<1>5. /\ g[0] = <<>> /\ q \in [1..N -> 1..N]
      /\ \A n \in 1..N : g[n] = NextPlaced(is, q, g[n - 1])
  BY <1>1, <1>2 DEF Rounds
<1>6. ASSUME NEW n \in 1..N
      PROVE  \E x \in Free(is, q, g[n - 1]) :
               /\ \A y \in Free(is, q, g[n - 1]) : x <= y
               /\ g[n] = Append(g[n - 1], q[x])
  <2>1. n - 1 \in 0..N /\ n \in 0..N
    OBVIOUS
  <2>2. g[n - 1] \in Seq(1..N) /\ Len(g[n]) = n /\ Len(g[n - 1]) = n - 1
    BY <1>4, <2>1
  <2>3. g[n] # g[n - 1]
    BY <2>2
  <2>4. \/ NextPlaced(is, q, g[n - 1]) = g[n - 1]
        \/ \E x \in Free(is, q, g[n - 1]) :
             /\ \A y \in Free(is, q, g[n - 1]) : x <= y
             /\ NextPlaced(is, q, g[n - 1]) = Append(g[n - 1], q[x])
    <3>1. q \in [1..N -> 1..N]
      BY <1>5
    <3> QED
      BY <2>2, <3>1, RoundIs
  <2>5. g[n] = NextPlaced(is, q, g[n - 1])
    BY <1>5
  <2> QED
    BY <2>3, <2>4, <2>5
<1>7. \A k \in 0..N : \A i \in 1..(N - k) : p[i] = g[N - k][i]
  <2> DEFINE T == {k \in 0..N : \A i \in 1..(N - k) : p[i] = g[N - k][i]}
  <2>1. 0 \in T
    BY <1>3
  <2>2. ASSUME NEW k \in 1..N, k - 1 \in T PROVE k \in T
    <3>1. PICK n \in 1..N : n = N - (k - 1)
      OBVIOUS
    <3>2. PICK x \in Free(is, q, g[n - 1]) : g[n] = Append(g[n - 1], q[x])
      BY <1>6
    <3>3. n - 1 \in 0..N /\ N - k = n - 1 /\ N - (k - 1) = n
      BY <3>1
    <3>4. g[n - 1] \in Seq(1..N) /\ Len(g[n - 1]) = n - 1
      BY <1>4, <3>3
    <3>5. \A i \in 1..(n - 1) : g[n][i] = g[n - 1][i]
      BY <3>2, <3>4
    <3>6. \A i \in 1..n : p[i] = g[n][i]
      BY <2>2, <3>3
    <3>7. ASSUME NEW i \in 1..(n - 1) PROVE p[i] = g[n - 1][i]
      <4>1. i \in 1..n
        BY <3>1
      <4>2. p[i] = g[n][i] /\ g[n][i] = g[n - 1][i]
        BY <3>5, <3>6, <4>1, Zenon
      <4> QED
        BY <4>2, Zenon
    <3>8. \A i \in 1..(N - k) : p[i] = g[N - k][i]
      BY <3>3, <3>7
    <3>9. k \in 0..N
      OBVIOUS
    <3> QED
      BY <3>8, <3>9
  <2>3. 0..N \subseteq T
    <3> HIDE DEF T
    <3> QED
      BY <2>1, <2>2, Upto
  <2> QED
    BY <2>3
<1>8. ASSUME NEW n \in 0..N PROVE \A i \in 1..n : p[i] = g[n][i]
  <2>1. N - n \in 0..N /\ N - (N - n) = n
    OBVIOUS
  <2> QED
    BY <1>7, <2>1
<1>9. p \in [1..N -> 1..N]
  <2>1. N \in 0..N
    OBVIOUS
  <2>2. p \in Seq(1..N) /\ Len(p) = N
    BY <1>3, <1>4, <2>1
  <2> QED
    BY <2>2
(* What a round takes, in terms of p.                                      *)
<1>10. ASSUME NEW n \in 1..N, NEW y \in 1..N
       PROVE  y \in Free(is, q, g[n - 1])
              <=> (\A k \in 1..(n - 1) : p[k] # q[y]) /\ Fits(is, p, n - 1, q[y])
  <2>1. n - 1 \in 0..N
    OBVIOUS
  <2>2. g[n - 1] \in Seq(1..N) /\ Len(g[n - 1]) = n - 1 /\ DOMAIN g[n - 1] = 1..(n - 1)
    BY <1>4, <2>1
  <2>3. \A i \in 1..(n - 1) : p[i] = g[n - 1][i]
    BY <1>8, <2>1
  <2>4. Contains(g[n - 1], q[y]) <=> ~(\A k \in 1..(n - 1) : p[k] # q[y])
    BY <2>2, <2>3 DEF Contains
  <2>5. {NameOf(is[g[n - 1][k]]) : k \in DOMAIN g[n - 1]} = NamesUpto(is, p, n - 1)
    BY <2>2, <2>3 DEF NamesUpto
  <2>6. DOMAIN is = 1..Len(is)
    OBVIOUS
  <2>7. CanBePlaced(is, g[n - 1], q[y]) <=> Fits(is, p, n - 1, q[y])
    BY <2>5, <2>6 DEF CanBePlaced, Fits, AllNames
  <2> QED
    BY <1>5, <2>4, <2>7 DEF Free
<1>11. ASSUME NEW n \in 1..N
       PROVE  \E x \in 1..N :
                /\ p[n] = q[x]
                /\ (\A k \in 1..(n - 1) : p[k] # q[x]) /\ Fits(is, p, n - 1, q[x])
                /\ \A y \in 1..N : ((\A k \in 1..(n - 1) : p[k] # q[y]) /\ Fits(is, p, n - 1, q[y])) => x <= y
  <2>1. PICK x \in Free(is, q, g[n - 1]) :
               /\ \A y \in Free(is, q, g[n - 1]) : x <= y
               /\ g[n] = Append(g[n - 1], q[x])
    BY <1>6
  <2>2. x \in 1..N
    BY <1>5 DEF Free
  <2>3. p[n] = q[x]
    <3>1. n \in 0..N /\ n \in 1..n /\ n - 1 \in 0..N
      OBVIOUS
    <3>2. g[n - 1] \in Seq(1..N) /\ Len(g[n - 1]) = n - 1
      BY <1>4, <3>1
    <3>3. g[n][n] = q[x]
      BY <2>1, <3>2
    <3> QED
      BY <1>8, <3>1, <3>3
  <2> QED
    BY <1>10, <2>1, <2>2, <2>3
<1>12. ASSUME NEW i \in 1..N, NEW k \in 1..N, p[i] = p[k] PROVE i = k
  <2>1. \A n, m \in 1..N : m < n => p[m] # p[n]
    <3> TAKE n, m \in 1..N
    <3> HAVE m < n
    <3>1. m \in 1..(n - 1)
      OBVIOUS
    <3> QED
      BY <1>11, <3>1
  <2>2. ~(i < k) /\ ~(k < i)
    BY <1>12, <2>1
  <2> QED
    BY <2>2
<1>13. \A n \in 1..N : Fits(is, p, n - 1, p[n])
  BY <1>11
<1>14. \A i \in 1..N : \E x \in 1..N :
         /\ p[i] = q[x]
         /\ \A y \in 1..N :
              ((\A k \in 1..(i - 1) : p[k] # q[y]) /\ Fits(is, p, i - 1, q[y])) => x <= y
  BY <1>11
<1>15. InOrder(is, q, p)
  <2>1. \A i, k \in 1..N : p[i] = p[k] => i = k
    BY <1>12
  <2> QED
    BY <1>1, <1>9, <1>13, <1>14, <2>1 DEF InOrder
<1> QED
  BY <1>2, <1>3, <1>15

(* Every info is placed.                                                   *)
LEMMA AllPlaced ==
  ASSUME NEW N \in Nat, NEW p \in [1..N -> 1..N], \A i, k \in 1..N : p[i] = p[k] => i = k
  PROVE  \A m \in 1..N : \E k \in 1..N : p[k] = m
<1>1. p \in Injection(1..N, 1..N)
  BY DEF Injection, IsInjective
<1>2. IsFiniteSet(1..N)
  BY FS_Interval
<1>3. p \in Surjection(1..N, 1..N)
  BY <1>1, <1>2, FS_Injection
<1> QED
  BY <1>3 DEF Surjection

UniqueNames(is) == \A i, k \in 1..Len(is) : NameOf(is[i]) = NameOf(is[k]) => i = k

(* An order of systems of different names.                                 *)
LEMMA OrderIs ==
  ASSUME NEW is \in Seq(Infos), NEW o \in Orders(is)
  PROVE  /\ o \in Seq(SystemPtrs) /\ Len(o) = Len(is)
         /\ \E p : \E q \in Sorted(is) :
              /\ InOrder(is, q, p)
              /\ \A i \in 1..Len(is) : o[i] = is[p[i]].system
<1>0. PICK q \in Sorted(is) : /\ Len(Placement(is, q)) = Len(is)
                              /\ o = [i \in DOMAIN Placement(is, q) |-> is[Placement(is, q)[i]].system]
  BY DEF Orders
<1>1. PICK p : /\ p = Placement(is, q) /\ Len(p) = Len(is)
               /\ o = [i \in DOMAIN p |-> is[p[i]].system]
  BY <1>0
<1>2. q \in [1..Len(is) -> 1..Len(is)]
  BY DEF Sorted
<1>3. InOrder(is, q, p)
  BY <1>1, <1>2, PlacementInOrder
<1>4. p \in [1..Len(is) -> 1..Len(is)]
  BY <1>3 DEF InOrder
<1>5. o = [i \in 1..Len(is) |-> is[p[i]].system]
  BY <1>1, <1>4
<1>6. \A i \in 1..Len(is) : is[p[i]].system \in SystemPtrs
  <2> TAKE i \in 1..Len(is)
  <2>1. p[i] \in 1..Len(is)
    BY <1>4
  <2>2. is[p[i]] \in Infos
    BY <2>1
  <2> QED
    BY <2>2 DEF Infos
<1>7. o \in [1..Len(is) -> SystemPtrs] /\ Len(is) \in Nat
  BY <1>5, <1>6
<1> QED
  BY <1>3, <1>5, <1>7

(* With different names, a system comes after those it must come after,    *)
(* and before one that is above it only if that one still had to wait.     *)
LEMMA OrderFacts ==
  ASSUME NEW is \in Seq(Infos), NEW q \in Sorted(is), NEW p, InOrder(is, q, p),
         NEW o, \A i \in 1..Len(is) : o[i] = is[p[i]].system,
         Len(o) = Len(is), DOMAIN o = 1..Len(is), Unique(o)
  PROVE  /\ UniqueNames(is)
         /\ \A i, j \in 1..Len(is) : i < j => Name[o[j]] \notin is[p[i]].config.after
         /\ \A i, j \in 1..Len(is) : (i < j /\ Above(is[p[j]], is[p[i]])) =>
              \E k \in i..(j - 1) : Name[o[k]] \in is[p[j]].config.after
<1>0. Len(is) \in Nat
  OBVIOUS
<1>1. PICK N \in Nat : N = Len(is)
  BY <1>0
<1>2. /\ p \in [1..N -> 1..N]
      /\ \A i, k \in 1..N : p[i] = p[k] => i = k
      /\ \A i \in 1..N : Fits(is, p, i - 1, p[i])
  BY <1>1 DEF InOrder
<1>3. \A m \in 1..N : \E k \in 1..N : p[k] = m
  BY <1>2, AllPlaced
<1>4. \A i \in 1..N : NameOf(is[p[i]]) = Name[o[i]]
  BY <1>1 DEF NameOf
<1>5. \A i, k \in 1..N : Name[o[i]] = Name[o[k]] => i = k
  BY <1>1 DEF Unique
<1>6. UniqueNames(is)
  <2> SUFFICES ASSUME NEW m \in 1..N, NEW l \in 1..N, NameOf(is[m]) = NameOf(is[l]) PROVE m = l
    BY <1>1 DEF UniqueNames
  <2>1. PICK i \in 1..N, k \in 1..N : p[i] = m /\ p[k] = l
    BY <1>3
  <2>2. Name[o[i]] = Name[o[k]]
    BY <1>4, <2>1
  <2> QED
    BY <1>5, <2>1, <2>2
<1>7. ASSUME NEW i \in 1..N, NEW j \in 1..N, i <= j
      PROVE  Name[o[j]] \in AllNames(is) \ NamesUpto(is, p, i - 1)
  <2>1. Name[o[j]] \in AllNames(is)
    BY <1>1, <1>2, <1>4 DEF AllNames
  <2>2. \A k \in 1..(i - 1) : k \in 1..N /\ k # j
    BY <1>7
  <2>3. \A k \in 1..(i - 1) : NameOf(is[p[k]]) # Name[o[j]]
    BY <1>4, <1>5, <2>2
  <2> QED
    BY <2>1, <2>3 DEF NamesUpto
<1>8. ASSUME NEW i \in 1..N, NEW j \in 1..N, i < j PROVE Name[o[j]] \notin is[p[i]].config.after
  <2>1. Name[o[j]] \in AllNames(is) \ NamesUpto(is, p, i - 1)
    BY <1>7, <1>8
  <2> QED
    BY <1>2, <2>1 DEF Fits
<1>9. ASSUME NEW i \in 1..N, NEW j \in 1..N, i < j, Above(is[p[j]], is[p[i]])
      PROVE  \E k \in i..(j - 1) : Name[o[k]] \in is[p[j]].config.after
  <2>1. PICK x \in 1..N :
          /\ p[i] = q[x]
          /\ \A y \in 1..N : ((\A k \in 1..(i - 1) : p[k] # q[y]) /\ Fits(is, p, i - 1, q[y])) => x <= y
    BY <1>1 DEF InOrder
  <2>2. PICK y \in 1..N : p[j] = q[y]
    BY <1>1 DEF InOrder
  <2>3. ~(x < y)
    <3>1. DOMAIN is = 1..N
      BY <1>1
    <3> QED
      BY <1>9, <2>1, <2>2, <3>1 DEF Sorted
  <2>4. x # y
    BY <1>2, <1>9, <2>1, <2>2
  <2>5. ~(x <= y)
    BY <2>3, <2>4
  <2>6. \A k \in 1..(i - 1) : p[k] # q[y]
    <3>1. \A k \in 1..(i - 1) : k \in 1..N /\ k # j
      BY <1>9
    <3> QED
      BY <1>2, <2>2, <3>1
  <2>7. ~Fits(is, p, i - 1, p[j])
    BY <2>1, <2>2, <2>5, <2>6
  <2>8. PICK name : name \in is[p[j]].config.after /\ name \in AllNames(is) /\ name \notin NamesUpto(is, p, i - 1)
    BY <2>7 DEF Fits
  <2>9. PICK m \in 1..N : name = NameOf(is[m])
    BY <1>1, <2>8 DEF AllNames
  <2>10. PICK k \in 1..N : p[k] = m
    BY <1>3
  <2>11. name = Name[o[k]]
    BY <1>4, <2>9, <2>10
  <2>12. ~(k < i)
    <3>1. k < i => k \in 1..(i - 1)
      OBVIOUS
    <3> QED
      BY <2>8, <2>9, <2>10, <3>1 DEF NamesUpto
  <2>13. k < j
    <3> SUFFICES ASSUME j <= k PROVE FALSE
      OBVIOUS
    <3>1. Name[o[k]] \in AllNames(is) \ NamesUpto(is, p, j - 1)
      BY <1>7
    <3> QED
      BY <1>2, <2>8, <2>11, <3>1 DEF Fits
  <2>14. k \in i..(j - 1)
    BY <2>12, <2>13
  <2> QED
    BY <2>8, <2>11, <2>14
<1> QED
  BY <1>1, <1>6, <1>8, <1>9

-----------------------------------------------------------------------------
(* What reorderSystems leaves.                                             *)

(* Merging adds to update_after, and changes nothing else.                 *)
SameBut(a, b) ==
  /\ a.system = b.system
  /\ a.config.before = b.config.before
  /\ a.config.group = b.config.group
  /\ a.config.priority = b.config.priority
  /\ a.config.after \subseteq b.config.after

LEMMA NamesTyped ==
  ASSUME SystemsAssumption, NEW info \in Infos
  PROVE  NameOf(info) \in STRING
BY DEF SystemsAssumption, NameOf, Infos

LEMMA MoreAfter ==
  ASSUME NEW info \in Infos, NEW E, E \subseteq STRING
  PROVE  LET more == [info EXCEPT !.config.after = @ \cup E]
         IN more \in Infos /\ SameBut(info, more) /\ more.config.after = info.config.after \cup E
<1>1. PICK s \in SystemPtrs, c \in Configs : info = [system |-> s, config |-> c]
  BY DEF Infos
<1>2. PICK b, a \in SUBSET STRING, g \in Groups, p \in Int :
        c = [before |-> b, after |-> a, group |-> g, priority |-> p]
  BY DEF Configs
<1>3. [c EXCEPT !.after = @ \cup E]
        = [before |-> b, after |-> a \cup E, group |-> g, priority |-> p]
  BY <1>2
<1>4. [info EXCEPT !.config = [c EXCEPT !.after = @ \cup E]]
        = [system |-> s, config |-> [c EXCEPT !.after = @ \cup E]]
  BY <1>1
<1>5. [info EXCEPT !.config.after = @ \cup E] = [info EXCEPT !.config = [c EXCEPT !.after = @ \cup E]]
  BY <1>1
<1>6. [info EXCEPT !.config.after = @ \cup E]
        = [system |-> s, config |-> [before |-> b, after |-> a \cup E, group |-> g, priority |-> p]]
  BY <1>3, <1>4, <1>5
<1>7. [before |-> b, after |-> a \cup E, group |-> g, priority |-> p] \in Configs
  BY DEF Configs
<1> QED
  BY <1>1, <1>2, <1>6, <1>7 DEF Infos, SameBut

LEMMA MergedFacts ==
  ASSUME SystemsAssumption, NEW is \in Seq(Infos)
  PROVE  /\ Merged(is) \in Seq(Infos) /\ Len(Merged(is)) = Len(is)
         /\ \A k \in 1..Len(is) : SameBut(is[k], Merged(is)[k])
         /\ UniqueNames(is) =>
              \A i, k \in 1..Len(is) : NameOf(is[k]) \in is[i].config.before
                                       => NameOf(is[i]) \in Merged(is)[k].config.after
<1> DEFINE N == Len(is)
           last(k) == \A j \in DOMAIN is : NameOf(is[j]) = NameOf(is[k]) => j <= k
           earlier(k) == {NameOf(is[i]) : i \in {i \in DOMAIN is :
                             last(i) /\ NameOf(is[k]) \in is[i].config.before}}
           m(k) == IF last(k) THEN [is[k] EXCEPT !.config.after = @ \cup earlier(k)]
                   ELSE is[k]
<1>1. N \in Nat /\ DOMAIN is = 1..N
  OBVIOUS
<1>2. Merged(is) = [k \in 1..N |-> m(k)]
  BY <1>1 DEF Merged
<1>3. \A k \in 1..N : is[k] \in Infos
  OBVIOUS
<1>4. \A k \in 1..N : earlier(k) \subseteq STRING
  BY <1>1, <1>3, NamesTyped
<1> HIDE DEF last, earlier
<1>5. ASSUME NEW k \in 1..N PROVE m(k) \in Infos /\ SameBut(is[k], m(k))
  <2>1. is[k] \in Infos /\ earlier(k) \subseteq STRING
    BY <1>3, <1>4
  <2>3. CASE last(k)
    BY <2>1, <2>3, MoreAfter
  <2>4. CASE ~last(k)
    BY <2>1, <2>4 DEF SameBut
  <2> QED
    BY <2>3, <2>4
<1>6. ASSUME UniqueNames(is), NEW i \in 1..N, NEW k \in 1..N, NameOf(is[k]) \in is[i].config.before
      PROVE  NameOf(is[i]) \in m(k).config.after
  <2>1. last(i) /\ last(k)
    BY <1>1, <1>6 DEF UniqueNames, last
  <2>2. NameOf(is[i]) \in earlier(k)
    BY <1>1, <1>6, <2>1 DEF earlier
  <2>3. is[k] \in Infos /\ earlier(k) \subseteq STRING
    BY <1>3, <1>4
  <2>4. m(k).config.after = is[k].config.after \cup earlier(k)
    BY <2>1, <2>3, MoreAfter
  <2> QED
    BY <2>2, <2>4
<1> HIDE DEF m
<1>7. Merged(is) \in [1..N -> Infos]
  BY <1>2, <1>5
<1>8. Merged(is) \in Seq(Infos) /\ Len(Merged(is)) = N
  BY <1>1, <1>7
<1>9. \A k \in 1..N : SameBut(is[k], Merged(is)[k])
  BY <1>2, <1>5
<1>10. UniqueNames(is) =>
         \A i, k \in 1..N : NameOf(is[k]) \in is[i].config.before
                            => NameOf(is[i]) \in Merged(is)[k].config.after
  BY <1>2, <1>6
<1> QED
  BY <1>8, <1>9, <1>10

(* The systems of ms have infos with the names they update before.         *)
Known(is, ms) ==
  \A s \in ms : \E k \in 1..Len(is) : is[k].system = s /\ is[k].config.before = Configure[s].before

(* Of two systems of ms, the one that is named to come after knows it.     *)
Paired(is, ms) ==
  UniqueNames(is) =>
    \A i, k \in 1..Len(is) :
      (/\ is[i].system \in ms /\ is[k].system \in ms
       /\ NameOf(is[k]) \in Configure[is[i].system].before) => NameOf(is[i]) \in is[k].config.after

(* With different names, a system has one info.                            *)
LEMMA OneInfo ==
  ASSUME NEW is, UniqueNames(is), NEW i \in 1..Len(is), NEW k \in 1..Len(is), is[i].system = is[k].system
  PROVE  i = k
BY DEF UniqueNames, NameOf

(* What a new order promises of priorities.                                *)
PriorityKept ==
  (ordered' # ordered /\ Unique(ordered')) =>
    LET info(s) == infos'[CHOOSE k \in DOMAIN infos' : infos'[k].system = s]
    IN \A i, j \in DOMAIN ordered' :
         (i < j /\ Above(info(ordered'[j]), info(ordered'[i]))) =>
           \E k \in i..(j - 1) : Name[ordered'[k]] \in info(ordered'[j]).config.after

LEMMA ReorderInfos ==
  ASSUME SystemsAssumption, NEW is \in Seq(Infos), NEW throws, Reorder(is, throws),
         merged \subseteq SystemPtrs, Known(is, merged)
  PROVE  /\ infos' \in Seq(Infos) /\ Len(infos') = Len(is)
         /\ \A k \in 1..Len(is) : SameBut(is[k], infos'[k])
         /\ merged' \subseteq SystemPtrs
         /\ \A s \in merged' \ merged :
              \E k \in 1..Len(is) : is[k].system = s /\ is[k].config.before = Configure[s].before
         /\ Known(infos', merged') /\ Paired(infos', merged')
<1>1. infos' = Merged(is) /\ merged' = merged \cup Configured(is)
  BY DEF Reorder
<1>2. /\ infos' \in Seq(Infos) /\ Len(infos') = Len(is)
      /\ \A k \in 1..Len(is) : SameBut(is[k], infos'[k])
      /\ UniqueNames(is) =>
           \A i, k \in 1..Len(is) : NameOf(is[k]) \in is[i].config.before
                                    => NameOf(is[i]) \in infos'[k].config.after
  BY <1>1, MergedFacts
<1>3. \A s \in merged' : \E k \in 1..Len(is) : is[k].system = s /\ is[k].config.before = Configure[s].before
  BY <1>1 DEF Known, Configured
<1>4. Known(infos', merged')
  BY <1>2, <1>3 DEF Known, SameBut
<1>5. \A k \in 1..Len(is) : NameOf(infos'[k]) = NameOf(is[k]) /\ infos'[k].system = is[k].system
  BY <1>2 DEF NameOf, SameBut
<1>6. Paired(infos', merged')
  <2> SUFFICES ASSUME UniqueNames(infos'), NEW i \in 1..Len(is), NEW k \in 1..Len(is),
                      is[i].system \in merged', is[k].system \in merged',
                      NameOf(is[k]) \in Configure[is[i].system].before
               PROVE  NameOf(is[i]) \in infos'[k].config.after
    BY <1>2, <1>5 DEF Paired
  <2>1. UniqueNames(is)
    BY <1>2, <1>5 DEF UniqueNames
  <2>2. PICK l \in 1..Len(is) : /\ is[l].system = is[i].system
                                /\ is[l].config.before = Configure[is[i].system].before
    BY <1>3
  <2>3. l = i
    BY <2>1, <2>2, OneInfo
  <2> QED
    BY <1>2, <2>1, <2>2, <2>3
<1>7. merged' \subseteq SystemPtrs
  BY <1>1 DEF Configured
<1> QED
  BY <1>1, <1>2, <1>3, <1>4, <1>6, <1>7

LEMMA ReorderOrders ==
  ASSUME SystemsAssumption, NEW is \in Seq(Infos), NEW throws, Reorder(is, throws),
         Known(is, merged), Paired(is, merged), OrderRespected
  PROVE  /\ OrderRespected'
         /\ PriorityKept
         /\ IF throws THEN ordered' = ordered
            ELSE ordered' \in Seq(SystemPtrs) /\ Len(ordered') = Len(is)
<1>1. CASE throws
  <2>1. UNCHANGED <<ordered, seen, settled>>
    BY <1>1 DEF Reorder
  <2> QED
    BY <1>1, <2>1 DEF OrderRespected, PriorityKept, Unique
<1>2. CASE ~throws
  <2> DEFINE N == Len(is)
             o == ordered'
  <2>1. o \in Orders(is) /\ seen' = Configured(is) /\ settled' = merged /\ infos' = Merged(is)
    BY <1>2 DEF Reorder
  <2>2. PICK p, q : /\ q \in Sorted(is) /\ InOrder(is, q, p)
                    /\ \A i \in 1..Len(is) : o[i] = is[p[i]].system
    BY <2>1, OrderIs
  <2>3. o \in Seq(SystemPtrs) /\ Len(o) = N /\ DOMAIN o = 1..N
    BY <2>1, OrderIs
  <2>4. p \in [1..N -> 1..N]
    BY <2>2 DEF InOrder
  <2> HIDE DEF o
  <2>5. ASSUME Unique(o)
        PROVE  /\ UniqueNames(is)
               /\ \A i, j \in 1..N : i < j => Name[o[j]] \notin is[p[i]].config.after
               /\ \A i, j \in 1..N : (i < j /\ Above(is[p[j]], is[p[i]])) =>
                    \E k \in i..(j - 1) : Name[o[k]] \in is[p[j]].config.after
    BY <2>2, <2>3, <2>5, OrderFacts
  <2>6. OrderRespected'
    <3> SUFFICES ASSUME Unique(o), NEW i \in 1..N, NEW j \in 1..N, i < j
                 PROVE  /\ o[i] \in Configured(is) => Name[o[j]] \notin Configure[o[i]].after
                        /\ {o[i], o[j]} \subseteq merged => Name[o[i]] \notin Configure[o[j]].before
      BY <2>1, <2>3 DEF OrderRespected, Unique, o
    <3>1. UniqueNames(is) /\ Name[o[j]] \notin is[p[i]].config.after
      BY <2>5
    <3>2. p[i] \in 1..N /\ p[j] \in 1..N
      BY <2>4
    <3>3. ASSUME o[i] \in Configured(is) PROVE Name[o[j]] \notin Configure[o[i]].after
      <4>1. PICK k \in 1..N : is[k].system = o[i] /\ Configure[o[i]].after \subseteq is[k].config.after
        BY <3>3 DEF Configured
      <4>2. k = p[i]
        BY <2>2, <3>1, <3>2, <4>1, OneInfo
      <4> QED
        BY <3>1, <4>1, <4>2
    <3>4. ASSUME {o[i], o[j]} \subseteq merged, Name[o[i]] \in Configure[o[j]].before PROVE FALSE
      <4>1. is[p[i]].system = o[i] /\ is[p[j]].system = o[j]
        BY <2>2
      <4>2. NameOf(is[p[j]]) \in is[p[i]].config.after
        BY <3>1, <3>2, <3>4, <4>1 DEF Paired, NameOf
      <4> QED
        BY <3>1, <4>1, <4>2 DEF NameOf
    <3> QED
      BY <3>3, <3>4
  <2>7. PriorityKept
    <3> DEFINE info(s) == infos'[CHOOSE k \in DOMAIN infos' : infos'[k].system = s]
    <3> SUFFICES ASSUME Unique(o), NEW i \in 1..N, NEW j \in 1..N,
                        i < j, Above(info(o[j]), info(o[i]))
                 PROVE  \E k \in i..(j - 1) : Name[o[k]] \in info(o[j]).config.after
      BY <2>3 DEF PriorityKept, o
    <3>1. UniqueNames(is)
      BY <2>5
    <3>2. infos' \in Seq(Infos) /\ Len(infos') = N /\ \A k \in 1..N : SameBut(is[k], infos'[k])
      BY <2>1, MergedFacts
    <3>3. DOMAIN infos' = 1..N
      BY <3>2
    <3>4. ASSUME NEW k \in 1..N PROVE info(o[k]) = infos'[p[k]]
      <4>1. p[k] \in 1..N
        BY <2>4
      <4>2. infos'[p[k]].system = o[k]
        BY <2>2, <3>2, <4>1 DEF SameBut
      <4>3. PICK l : l = CHOOSE n \in DOMAIN infos' : infos'[n].system = o[k]
        OBVIOUS
      <4>4. l \in 1..N /\ infos'[l].system = o[k]
        BY <3>3, <4>1, <4>2, <4>3
      <4>5. is[l].system = o[k]
        BY <3>2, <4>4 DEF SameBut
      <4>6. l = p[k]
        BY <2>2, <3>1, <4>1, <4>4, <4>5, OneInfo
      <4> QED
        BY <4>3, <4>6
    <3>5. info(o[i]) = infos'[p[i]] /\ info(o[j]) = infos'[p[j]]
      BY <3>4
    <3> HIDE DEF info
    <3>6. SameBut(is[p[i]], infos'[p[i]]) /\ SameBut(is[p[j]], infos'[p[j]])
      BY <2>4, <3>2
    <3>7. Above(is[p[j]], is[p[i]])
      BY <3>5, <3>6 DEF Above, SameBut
    <3>8. PICK k \in i..(j - 1) : Name[o[k]] \in is[p[j]].config.after
      BY <2>5, <3>7
    <3> QED
      BY <3>5, <3>6, <3>8 DEF SameBut
  <2> QED
    BY <1>2, <2>3, <2>6, <2>7 DEF o
<1> QED
  BY <1>1, <1>2

-----------------------------------------------------------------------------
(* What the infos keep from one reordering to the next.                    *)

(* Before init() nothing is configured, so that no name to update before   *)
(* waits to be merged.                                                     *)
NothingBefore ==
  /\ \A k \in 1..Len(infos) : infos[k].config.before = {}
  /\ \A s \in merged : Configure[s].before = {}

OrderInv ==
  /\ infos \in Seq(Infos) /\ wasInit \in BOOLEAN /\ merged \subseteq SystemPtrs
  /\ ordered \in Seq(SystemPtrs) /\ Len(ordered) <= Len(infos)
  /\ Known(infos, merged) /\ Paired(infos, merged)
  /\ ~wasInit => NothingBefore
  /\ OrderRespected

(* What each step keeps or does to the order.                              *)
OrderStep == OrderInv' /\ PriorityKept /\ Len(ordered) <= Len(ordered')

LEMMA Appended ==
  ASSUME NEW is \in Seq(Infos), NEW info \in Infos, NEW ms, Known(is, ms), Paired(is, ms)
  PROVE  /\ Append(is, info) \in Seq(Infos) /\ Len(Append(is, info)) = Len(is) + 1
         /\ \A k \in 1..Len(is) : Append(is, info)[k] = is[k]
         /\ Append(is, info)[Len(is) + 1] = info
         /\ Known(Append(is, info), ms) /\ Paired(Append(is, info), ms)
<1> DEFINE N == Len(is)
           more == Append(is, info)
<1>1. /\ more \in Seq(Infos) /\ Len(more) = N + 1 /\ N \in Nat
      /\ \A k \in 1..N : more[k] = is[k]
      /\ more[N + 1] = info
  OBVIOUS
<1> HIDE DEF more
<1>2. Known(more, ms)
  <2>1. \A k \in 1..N : k \in 1..Len(more)
    BY <1>1
  <2> QED
    BY <1>1, <2>1 DEF Known
<1>3. Paired(more, ms)
  <2> SUFFICES ASSUME UniqueNames(more), NEW i \in 1..(N + 1), NEW k \in 1..(N + 1),
                      more[i].system \in ms, more[k].system \in ms,
                      NameOf(more[k]) \in Configure[more[i].system].before
               PROVE  NameOf(more[i]) \in more[k].config.after
    BY <1>1 DEF Paired
  <2>1. ASSUME NEW l \in 1..(N + 1), more[l].system \in ms PROVE l \in 1..N
    <3>1. PICK j \in 1..N : is[j].system = more[l].system
      BY <2>1 DEF Known
    <3>2. j \in 1..Len(more) /\ l \in 1..Len(more) /\ more[j].system = more[l].system
      BY <1>1, <3>1
    <3> QED
      BY <3>2, OneInfo
  <2>2. i \in 1..N /\ k \in 1..N
    BY <2>1
  <2>3. UniqueNames(is)
    <3>1. \A l \in 1..N : l \in 1..Len(more)
      BY <1>1
    <3> QED
      BY <1>1, <3>1 DEF UniqueNames
  <2> QED
    BY <1>1, <2>2, <2>3 DEF Paired
<1> QED
  BY <1>1, <1>2, <1>3 DEF more

LEMMA InfoTyped ==
  ASSUME SystemsAssumption, NEW s \in SystemPtrs
  PROVE  /\ Info(s) \in Infos /\ Info(s).config.before = {}
         /\ [Info(s) EXCEPT !.config = Configure[s]] \in Infos
<1>1. (CHOOSE g \in Groups : TRUE) \in Groups
  BY DEF SystemsAssumption
<1>2. NoConfig \in Configs /\ NoConfig.before = {}
  BY <1>1 DEF NoConfig, Configs
<1>3. Configure[s] \in Configs
  BY DEF SystemsAssumption
<1> QED
  BY <1>2, <1>3 DEF Info, Infos

(* A step that leaves infos and order alone.                               *)
LEMMA StepStays ==
  ASSUME OrderInv, UNCHANGED <<wasInit, infos, ordered, merged, seen, settled>>
  PROVE  OrderStep
<1>1. OrderRespected' /\ PriorityKept
  BY DEF OrderInv, OrderRespected, Unique, PriorityKept
<1>2. Known(infos', merged') /\ Paired(infos', merged')
  BY DEF OrderInv
<1>3. ~wasInit' => NothingBefore'
  BY DEF OrderInv, NothingBefore
<1> QED
  BY <1>1, <1>2, <1>3 DEF OrderInv, OrderStep

(* A step that adds an info and orders nothing.                            *)
LEMMA StepAdds ==
  ASSUME OrderInv, NEW info \in Infos, info.config.before = {},
         infos' = Append(infos, info), UNCHANGED <<wasInit, ordered, merged, seen, settled>>
  PROVE  OrderStep
<1>1. /\ infos' \in Seq(Infos) /\ Len(infos') = Len(infos) + 1 /\ Len(infos) \in Nat
      /\ \A k \in 1..Len(infos) : infos'[k] = infos[k]
      /\ infos'[Len(infos) + 1] = info
      /\ Known(infos', merged) /\ Paired(infos', merged)
  BY Appended DEF OrderInv
<1>2. OrderRespected' /\ PriorityKept
  BY DEF OrderInv, OrderRespected, Unique, PriorityKept
<1>3. ASSUME ~wasInit' PROVE NothingBefore'
  <2>1. NothingBefore
    BY <1>3 DEF OrderInv
  <2>2. \A k \in 1..Len(infos') : k \in 1..Len(infos) \/ k = Len(infos) + 1
    BY <1>1
  <2> QED
    BY <1>1, <2>1, <2>2 DEF NothingBefore
<1>4. ordered' \in Seq(SystemPtrs) /\ Len(ordered') <= Len(infos') /\ Len(ordered) <= Len(ordered')
  BY <1>1 DEF OrderInv
<1> QED
  BY <1>1, <1>2, <1>3, <1>4 DEF OrderInv, OrderStep

(* A step that orders the infos is.                                        *)
LEMMA StepReorders ==
  ASSUME SystemsAssumption, OrderInv,
         NEW is \in Seq(Infos), NEW throws, Reorder(is, throws),
         Len(infos) <= Len(is), Known(is, merged), Paired(is, merged),
         wasInit' \in BOOLEAN,
         ~wasInit' => ~wasInit /\ \A k \in 1..Len(is) : is[k].config.before = {}
  PROVE  OrderStep
<1>1. merged \subseteq SystemPtrs /\ Len(is) \in Nat /\ Len(infos) \in Nat /\ Len(ordered) \in Nat
  BY DEF OrderInv
<1>2. /\ infos' \in Seq(Infos) /\ Len(infos') = Len(is)
      /\ \A k \in 1..Len(is) : SameBut(is[k], infos'[k])
      /\ merged' \subseteq SystemPtrs
      /\ \A s \in merged' \ merged :
           \E k \in 1..Len(is) : is[k].system = s /\ is[k].config.before = Configure[s].before
      /\ Known(infos', merged') /\ Paired(infos', merged')
  BY <1>1, ReorderInfos
<1>3. /\ OrderRespected'
      /\ PriorityKept
      /\ IF throws THEN ordered' = ordered
         ELSE ordered' \in Seq(SystemPtrs) /\ Len(ordered') = Len(is)
  BY ReorderOrders DEF OrderInv
<1>4. ordered' \in Seq(SystemPtrs) /\ Len(ordered') <= Len(infos') /\ Len(ordered) <= Len(ordered')
  BY <1>1, <1>2, <1>3 DEF OrderInv
<1>5. ASSUME ~wasInit' PROVE NothingBefore'
  <2>1. NothingBefore /\ \A k \in 1..Len(is) : is[k].config.before = {}
    BY <1>5 DEF OrderInv
  <2>2. \A k \in 1..Len(infos') : infos'[k].config.before = {}
    BY <1>2, <2>1 DEF SameBut
  <2>3. ASSUME NEW s \in merged' PROVE Configure[s].before = {}
    <3>1. CASE s \in merged
      BY <2>1, <3>1 DEF NothingBefore
    <3>2. CASE s \notin merged
      BY <1>2, <2>1, <3>2
    <3> QED
      BY <3>1, <3>2
  <2> QED
    BY <2>2, <2>3 DEF NothingBefore
<1> QED
  BY <1>2, <1>3, <1>4, <1>5 DEF OrderInv, OrderStep

(* init() orders the infos with the configurations of some of them.        *)
LEMMA StepInits ==
  ASSUME SystemsAssumption, OrderInv, ~wasInit, NEW throws, InitSystems(throws)
  PROVE  OrderStep
<1> DEFINE first(k) == \A j \in DOMAIN infos : infos[j].system = infos[k].system => k <= j
           inited == {k \in DOMAIN infos : first(k) /\ state[infos[k].system] = "Inited"}
           is == [k \in DOMAIN infos |->
                   IF k \in inited THEN [infos[k] EXCEPT !.config = Configure[infos[k].system]]
                   ELSE infos[k]]
<1>1. wasInit' = TRUE /\ Reorder(is, throws)
  BY DEF InitSystems
<1> HIDE DEF inited
<1>2. infos \in Seq(Infos) /\ DOMAIN infos = 1..Len(infos) /\ Len(infos) \in Nat
  BY DEF OrderInv
<1>3. ASSUME NEW k \in 1..Len(infos)
      PROVE  /\ is[k] \in Infos /\ is[k].system = infos[k].system
             /\ is[k].config.before \in {infos[k].config.before, Configure[infos[k].system].before}
  <2>0. infos[k] \in Infos
    BY <1>2
  <2>1. PICK s \in SystemPtrs, c \in Configs : infos[k] = [system |-> s, config |-> c]
    BY <2>0 DEF Infos
  <2>2. Configure[s] \in Configs
    BY DEF SystemsAssumption
  <2>3. is[k] = infos[k] \/ is[k] = [system |-> s, config |-> Configure[s]]
    BY <1>2, <2>1
  <2> HIDE DEF is
  <2> QED
    BY <2>1, <2>2, <2>3 DEF Infos
<1>4. is \in Seq(Infos) /\ Len(is) = Len(infos)
  <2>1. is \in [1..Len(infos) -> Infos]
    BY <1>2, <1>3
  <2> QED
    BY <1>2, <2>1
<1> HIDE DEF is
<1>5. Known(is, merged)
  BY <1>3, <1>4 DEF Known, OrderInv
<1>6. Paired(is, merged)
  BY <1>4 DEF Paired, OrderInv, NothingBefore
<1> QED
  BY <1>1, <1>4, <1>5, <1>6, StepReorders

LEMMA OrderKept ==
  ASSUME SystemsAssumption, OrderInv, [Next]_vars
  PROVE  OrderStep
<1>1. ASSUME NEW s \in SystemPtrs, AddSystem(s) PROVE OrderStep
  <2>1. Info(s) \in Infos /\ Info(s).config.before = {}
    BY InfoTyped
  <2> QED
    BY <1>1, <2>1, StepAdds DEF AddSystem, history
<1>2. ASSUME NEW s \in SystemPtrs, AddSystemLate(s) PROVE OrderStep
  <2>1. /\ Info(s) \in Infos /\ Info(s).config.before = {}
        /\ [Info(s) EXCEPT !.config = Configure[s]] \in Infos
    BY InfoTyped
  <2>2. CASE state[s] \in {"Uninit", "Inited"}
    <3>1. PICK info \in Infos, throws \in BOOLEAN : Reorder(Append(infos, info), throws)
      BY <1>2, <2>1, <2>2 DEF AddSystemLate
    <3>2. wasInit /\ wasInit' = wasInit
      BY <1>2 DEF AddSystemLate
    <3>3. /\ Append(infos, info) \in Seq(Infos) /\ Len(infos) <= Len(Append(infos, info))
          /\ Known(Append(infos, info), merged) /\ Paired(Append(infos, info), merged)
      BY Appended DEF OrderInv
    <3> QED
      BY <3>1, <3>2, <3>3, StepReorders
  <2>3. CASE state[s] \notin {"Uninit", "Inited"}
    BY <1>2, <2>1, <2>3, StepAdds DEF AddSystemLate
  <2> QED
    BY <2>2, <2>3
<1>3. ASSUME NEW n \in Names, RemoveSystem(n) PROVE OrderStep
  <2>1. wasInit' = wasInit
    BY <1>3 DEF RemoveSystem
  <2>2. CASE UNCHANGED <<infos, ordered, merged, seen, settled>>
    BY <2>1, <2>2, StepStays
  <2>3. CASE \E throws \in BOOLEAN : Reorder(infos, throws)
    <3>1. PICK throws \in BOOLEAN : Reorder(infos, throws)
      BY <2>3
    <3>2. /\ infos \in Seq(Infos) /\ Len(infos) <= Len(infos)
          /\ Known(infos, merged) /\ Paired(infos, merged)
          /\ ~wasInit => \A k \in 1..Len(infos) : infos[k].config.before = {}
      BY DEF OrderInv, NothingBefore
    <3>3. wasInit' \in BOOLEAN
      BY <2>1 DEF OrderInv
    <3> QED
      BY <2>1, <3>1, <3>2, <3>3, StepReorders
  <2> QED
    BY <1>3, <2>2, <2>3 DEF RemoveSystem
<1>4. ASSUME NEW g \in Groups, NEW p \in Priorities, SetGroupPriority(g, p) PROVE OrderStep
  BY <1>4, StepStays DEF SetGroupPriority, history
<1>5. ASSUME NEW s \in SystemPtrs, Pause(s) \/ Resume(s) \/ Stop(s) PROVE OrderStep
  BY <1>5, StepStays DEF Pause, Resume, Stop, Move, manager
<1>6. ASSUME WorldInit PROVE OrderStep
  <2>1. CASE wasInit
    BY <1>6, <2>1, StepStays DEF WorldInit, manager
  <2>2. CASE ~wasInit
    BY <1>6, <2>2, StepInits DEF WorldInit
  <2> QED
    BY <2>1, <2>2
<1>7. ASSUME BeginUpdate PROVE OrderStep
  <2>1. CASE wasInit
    BY <1>7, <2>1, StepStays DEF BeginUpdate, manager
  <2>2. CASE ~wasInit
    BY <1>7, <2>2, StepInits DEF BeginUpdate
  <2> QED
    BY <2>1, <2>2
<1>8. CASE UpdateSystem
  BY <1>8, StepStays DEF UpdateSystem, manager
<1>9. CASE HookReturns
  BY <1>9, StepStays DEF HookReturns, manager, history
<1>10. CASE EndUpdate
  BY <1>10, StepStays DEF EndUpdate, manager
<1>11. CASE DestroyManager
  BY <1>11, StepStays DEF DestroyManager, manager, history
<1>12. CASE UNCHANGED vars
  BY <1>12, StepStays DEF vars
<1> QED
  BY <1>1, <1>2, <1>3, <1>4, <1>5, <1>6, <1>7, <1>8, <1>9, <1>10, <1>11, <1>12 DEF Next

LEMMA OrderStarts ==
  ASSUME Init
  PROVE  OrderInv
<1>1. infos = <<>> /\ ordered = <<>> /\ merged = {} /\ wasInit = FALSE
  BY DEF Init
<1>2. infos \in Seq(Infos) /\ ordered \in Seq(SystemPtrs) /\ Len(infos) = 0 /\ Len(ordered) = 0
  BY <1>1
<1>3. Known(infos, merged) /\ Paired(infos, merged) /\ NothingBefore
  BY <1>1, <1>2 DEF Known, Paired, NothingBefore
<1>4. OrderRespected
  BY <1>2 DEF OrderRespected
<1>5. Len(ordered) <= Len(infos)
  BY <1>2
<1>6. wasInit \in BOOLEAN /\ merged \subseteq SystemPtrs
  BY <1>1, Zenon
<1> QED
  BY <1>2, <1>3, <1>4, <1>5, <1>6 DEF OrderInv

(* What is kept of the infos, at all times.                                *)
THEOREM OrderInvariant == Spec => []OrderInv
<1>1. Init => OrderInv
  BY OrderStarts
<1>2. OrderInv /\ [Next]_vars => OrderInv'
  BY SystemsAssumption, OrderKept DEF OrderStep
<1> QED
  BY <1>1, <1>2, PTL DEF Spec

(* Systems of different names are updated in an order that respects        *)
(* update_after and update_before (reorderSystems), whatever is configured *)
(* and whenever systems are added and removed.                             *)
THEOREM OrderAlwaysRespected == Spec => []OrderRespected
<1>1. OrderInv => OrderRespected
  BY DEF OrderInv
<1> QED
  BY <1>1, OrderInvariant, PTL

(* A new order puts a system before one of higher priority only if that    *)
(* one still had to wait (reorderSystems).                                 *)
THEOREM PriorityAlwaysRespected == Spec => PriorityRespected
<1>1. OrderInv /\ [Next]_vars => [PriorityKept]_vars
  BY SystemsAssumption, OrderKept DEF OrderStep
<1>2. Spec => [][PriorityKept]_vars
  BY <1>1, OrderInvariant, PTL DEF Spec
<1> QED
  BY <1>2, PTL DEF PriorityKept, PriorityRespected

-----------------------------------------------------------------------------
(* The loop of update().                                                   *)

(* The entries of s that the loop has done: the one at the cursor too      *)
(* while its hook runs.                                                    *)
Done == IF running THEN cursor ELSE cursor - 1
Passed(s, n) == {i \in DOMAIN ordered : ordered[i] = s /\ i <= n}

(* A system that is owed an update has had one for each entry passed that  *)
(* was not put behind the loop by a removal.                               *)
UpToDate ==
  /\ wasInit
  /\ \A s \in steady : /\ state[s] \in {"Configured", "Active"}
                       /\ updates[s] + jumped[s] = Cardinality(Passed(s, Done))

LoopTyped ==
  /\ state \in [SystemPtrs -> States]
  /\ byName \in [DOMAIN byName -> SystemPtrs]
  /\ \A n \in DOMAIN byName : Name[byName[n]] = n
  /\ version \in 0..MaxUpdates
  /\ cursor \in Nat /\ running \in BOOLEAN
  /\ running => cursor \in 1..Len(ordered)
  /\ life \in {"alive", "destroyed", "broken"}
  /\ updates \in [SystemPtrs -> Nat]
  /\ jumped \in [SystemPtrs -> Int]
  /\ steady \subseteq SystemPtrs

LoopCounts ==
  life = "alive" =>
    /\ cursor = 0 => /\ steady = {}
                     /\ updates = [s \in SystemPtrs |-> 0]
                     /\ jumped = [s \in SystemPtrs |-> 0]
    /\ cursor > 0 => UpToDate

LoopInv == OrderInv /\ LoopTyped /\ LoopCounts

LEMMA PassedFinite ==
  ASSUME OrderInv, NEW s, NEW n \in Nat
  PROVE  IsFiniteSet(Passed(s, n)) /\ Cardinality(Passed(s, n)) \in Nat
<1>1. Passed(s, n) \subseteq 1..Len(ordered)
  BY DEF OrderInv, Passed
<1>2. Len(ordered) \in Nat
  BY DEF OrderInv
<1>3. IsFiniteSet(1..Len(ordered))
  BY <1>2, FS_Interval
<1> QED
  BY <1>1, <1>3, FS_Subset, FS_CardinalityType

(* One more entry passed.                                                  *)
LEMMA PassedOne ==
  ASSUME OrderInv, NEW s, NEW n \in Nat, n > 0
  PROVE  Cardinality(Passed(s, n)) = IF n <= Len(ordered) /\ ordered[n] = s
                                     THEN Cardinality(Passed(s, n - 1)) + 1
                                     ELSE Cardinality(Passed(s, n - 1))
<1>1. DOMAIN ordered = 1..Len(ordered) /\ Len(ordered) \in Nat
  BY DEF OrderInv
<1>2. CASE n <= Len(ordered) /\ ordered[n] = s
  <2>1. Passed(s, n) = Passed(s, n - 1) \cup {n} /\ n \notin Passed(s, n - 1)
    BY <1>1, <1>2 DEF Passed
  <2>2. IsFiniteSet(Passed(s, n - 1))
    BY PassedFinite
  <2> QED
    BY <1>2, <2>1, <2>2, FS_AddElement
<1>3. CASE ~(n <= Len(ordered) /\ ordered[n] = s)
  <2>1. Passed(s, n) = Passed(s, n - 1)
    BY <1>1, <1>3 DEF Passed
  <2> QED
    BY <1>3, <2>1
<1> QED
  BY <1>2, <1>3

LEMMA PassedNone ==
  ASSUME OrderInv, NEW s
  PROVE  Cardinality(Passed(s, 0)) = 0
<1>1. Passed(s, 0) = {}
  BY DEF Passed, OrderInv
<1> QED
  BY <1>1, FS_EmptySet

(* A step that makes the order no shorter leaves a running hook its place. *)
LEMMA HookKept ==
  ASSUME LoopInv, OrderStep, UNCHANGED <<cursor, running>>
  PROVE  running' => cursor' \in 1..Len(ordered')
<1>1. Len(ordered) \in Nat /\ Len(ordered') \in Nat /\ Len(ordered) <= Len(ordered')
  BY DEF OrderStep, OrderInv, LoopInv
<1> QED
  BY <1>1 DEF LoopInv, LoopTyped

(* A call that leaves the loop, its order and its counts alone.            *)
LEMMA LoopStays ==
  ASSUME LoopInv, OrderStep, UNCHANGED <<cursor, running, updates, jumped>>,
         steady' \subseteq steady,
         life' = "alive" => life = "alive",
         life' = "alive" /\ cursor > 0 => ordered' = ordered,
         wasInit => wasInit',
         \A s \in steady' : state[s] \in {"Configured", "Active"} => state'[s] \in {"Configured", "Active"}
  PROVE  LoopCounts' /\ (running' => cursor' \in 1..Len(ordered'))
<1>1. ASSUME life' = "alive", cursor' = 0
      PROVE  /\ steady' = {}
             /\ updates' = [s \in SystemPtrs |-> 0]
             /\ jumped' = [s \in SystemPtrs |-> 0]
  BY <1>1 DEF LoopInv, LoopCounts
<1>2. ASSUME life' = "alive", cursor' > 0 PROVE UpToDate'
  <2>1. UpToDate /\ ordered' = ordered
    BY <1>2 DEF LoopInv, LoopCounts
  <2>2. Done' = Done
    BY DEF Done
  <2>3. \A s \in steady' : Passed(s, Done)' = Passed(s, Done)
    BY <2>1, <2>2 DEF Passed
  <2> QED
    BY <2>1, <2>3 DEF UpToDate
<1> QED
  BY <1>1, <1>2, HookKept DEF LoopCounts

LEMMA NamedTyped ==
  ASSUME SystemsAssumption, LoopTyped, NEW s \in SystemPtrs, byName' = Named(s)
  PROVE  /\ byName' \in [DOMAIN byName' -> SystemPtrs]
         /\ \A n \in DOMAIN byName' : Name[byName'[n]] = n
BY DEF Named, LoopTyped

(* What init() does to the states.                                         *)
LEMMA InitStates ==
  ASSUME LoopInv, NEW throws \in BOOLEAN, InitSystems(throws)
  PROVE  state' \in [SystemPtrs -> States] /\ wasInit' = TRUE
<1> DEFINE first(k) == \A j \in DOMAIN infos : infos[j].system = infos[k].system => k <= j
           configured == {infos[k].system : k \in
                            {k \in DOMAIN infos : first(k) /\ state[infos[k].system] = "Inited"}}
<1>1. state' = [s \in SystemPtrs |-> CASE s \in configured /\ ~throws -> "Active"
                                      [] s \in configured /\ throws -> "Configured"
                                      [] OTHER -> state[s]]
  BY DEF InitSystems
<1> HIDE DEF configured
<1>2. ASSUME NEW s \in SystemPtrs PROVE state'[s] \in States
  <2>1. state'[s] = CASE s \in configured /\ ~throws -> "Active"
                      [] s \in configured /\ throws -> "Configured"
                      [] OTHER -> state[s]
    BY <1>1
  <2>2. state[s] \in States
    BY DEF LoopInv, LoopTyped
  <2>3. CASE s \in configured
    BY <2>1, <2>3 DEF States
  <2>4. CASE s \notin configured
    BY <2>1, <2>2, <2>4
  <2> QED
    BY <2>3, <2>4
<1> QED
  BY <1>1, <1>2 DEF InitSystems

(* A system is removed: what the new order puts behind the loop, or ahead  *)
(* of it, is added to what the loop is taken to have passed.               *)
LEMMA LoopRemoves ==
  ASSUME SystemsAssumption, LoopInv, OrderStep, NEW n \in Names, RemoveSystem(n)
  PROVE  LoopInv'
<1>1. /\ UNCHANGED <<cursor, running, updates, steady, state, wasInit, version>>
      /\ byName' = [m \in DOMAIN byName \ {n} |-> byName[m]]
      /\ jumped' = [s \in SystemPtrs |->
                      IF cursor = 0 THEN jumped[s]
                      ELSE jumped[s] + Behind(ordered', s) - Behind(ordered, s)]
      /\ life = "alive" /\ life' \in {"alive", "broken"}
      /\ cursor = 0 \/ running
  BY DEF RemoveSystem, Callable
<1>2. cursor \in Nat /\ jumped \in [SystemPtrs -> Int] /\ updates \in [SystemPtrs -> Nat]
  BY DEF LoopInv, LoopTyped
<1>3. ASSUME NEW s PROVE Behind(ordered, s) \in Nat /\ Behind(ordered', s) \in Nat
  <2>1. Behind(ordered, s) = Cardinality(Passed(s, cursor))
    BY DEF Behind, Passed
  <2>2. Behind(ordered', s) \in Nat
    <3> DEFINE behind == {i \in DOMAIN ordered' : ordered'[i] = s /\ i <= cursor}
    <3>1. behind \subseteq 1..Len(ordered') /\ Len(ordered') \in Nat
      BY DEF OrderStep, OrderInv
    <3>2. IsFiniteSet(behind)
      BY <3>1, FS_Interval, FS_Subset
    <3> QED
      BY <3>2, FS_CardinalityType DEF Behind
  <2> QED
    BY <1>2, <2>1, <2>2, PassedFinite DEF LoopInv
<1>4. jumped' \in [SystemPtrs -> Int]
  <2> DEFINE count(s) == IF cursor = 0 THEN jumped[s]
                         ELSE jumped[s] + Behind(ordered', s) - Behind(ordered, s)
  <2>1. \A s \in SystemPtrs : count(s) \in Int
    BY <1>2, <1>3
  <2>2. jumped' = [s \in SystemPtrs |-> count(s)]
    BY <1>1
  <2> QED
    BY <2>1, <2>2
<1>5. ASSUME cursor = 0
      PROVE  steady' = {} /\ updates' = [s \in SystemPtrs |-> 0] /\ jumped' = [s \in SystemPtrs |-> 0]
  BY <1>1, <1>5 DEF LoopInv, LoopCounts
<1>6. ASSUME cursor > 0 PROVE UpToDate'
  <2>1. UpToDate /\ Done = cursor /\ Done' = cursor
    BY <1>1, <1>2, <1>6 DEF LoopInv, LoopCounts, Done
  <2>2. ASSUME NEW s \in steady
        PROVE  /\ state[s] \in {"Configured", "Active"}
               /\ updates[s] + jumped'[s] = Cardinality(Passed(s, Done))'
    <3>1. s \in SystemPtrs
      BY DEF LoopInv, LoopTyped
    <3>2. state[s] \in {"Configured", "Active"} /\ updates[s] + jumped[s] = Behind(ordered, s)
      BY <2>1 DEF UpToDate, Passed, Behind
    <3>3. Cardinality(Passed(s, Done))' = Behind(ordered', s)
      BY <1>1, <2>1 DEF Passed, Behind
    <3>4. jumped'[s] = jumped[s] + Behind(ordered', s) - Behind(ordered, s)
      BY <1>1, <1>2, <1>6, <3>1
    <3>5. updates[s] \in Int /\ jumped[s] \in Int
      BY <1>2, <3>1
    <3> HIDE DEF Behind
    <3> QED
      BY <1>3, <3>2, <3>3, <3>4, <3>5
  <2> QED
    BY <1>1, <2>1, <2>2 DEF UpToDate
<1>7. LoopCounts'
  BY <1>1, <1>2, <1>5, <1>6 DEF LoopCounts
<1>8. LoopTyped'
  BY <1>1, <1>4, HookKept DEF LoopInv, LoopTyped
<1> QED
  BY <1>7, <1>8 DEF LoopInv, OrderStep

(* A system is added, at once configured after init().                     *)
LEMMA LoopAdds ==
  ASSUME SystemsAssumption, LoopInv, OrderStep, NEW s \in SystemPtrs,
         AddSystem(s) \/ AddSystemLate(s)
  PROVE  LoopInv'
<1>1. /\ UNCHANGED <<cursor, running, updates, steady, jumped, wasInit, version>>
      /\ byName' = Named(s) /\ life = "alive" /\ life' \in {"alive", "broken"}
      /\ life' = "alive" /\ cursor > 0 => ordered' = ordered
  <2>1. CASE AddSystem(s)
    BY <2>1 DEF AddSystem, Callable, history
  <2>2. CASE AddSystemLate(s)
    <3>1. CASE state[s] \in {"Uninit", "Inited"}
      <4>1. PICK throws, is : /\ throws \in BOOLEAN /\ Reorder(is, throws)
                              /\ life' = IF cursor > 0 /\ ~throws THEN "broken" ELSE life
        BY <2>2, <3>1 DEF AddSystemLate
      <4>2. throws => ordered' = ordered
        BY <4>1 DEF Reorder
      <4> QED
        BY <2>2, <4>1, <4>2 DEF AddSystemLate, Callable
    <3>2. CASE state[s] \notin {"Uninit", "Inited"}
      BY <2>2, <3>2 DEF AddSystemLate, Callable
    <3> QED
      BY <3>1, <3>2
  <2> QED
    BY <2>1, <2>2
<1>2. /\ state \in [SystemPtrs -> States]
      /\ \/ state' = state
         \/ state' = [state EXCEPT ![s] = "Inited"]
         \/ state[s] \in {"Uninit", "Inited"} /\ state' = [state EXCEPT ![s] = "Configured"]
      /\ state' # state => state[s] \in {"Uninit", "Inited"}
  <2>1. CASE AddSystem(s)
    BY <2>1 DEF AddSystem, LoopInv, LoopTyped
  <2>2. CASE AddSystemLate(s)
    BY <2>2 DEF AddSystemLate, LoopInv, LoopTyped
  <2> QED
    BY <2>1, <2>2
<1>3. state' \in [SystemPtrs -> States]
  BY <1>2 DEF States
<1>4. ASSUME NEW t \in steady, state[t] \in {"Configured", "Active"} PROVE state'[t] = state[t]
  <2>1. CASE state' = state
    BY <2>1
  <2>2. CASE state' # state
    <3>1. t # s /\ t \in SystemPtrs
      BY <1>2, <1>4, <2>2 DEF LoopInv, LoopTyped
    <3> QED
      BY <1>2, <3>1
  <2> QED
    BY <2>1, <2>2
<1>5. LoopCounts' /\ (running' => cursor' \in 1..Len(ordered'))
  BY <1>1, <1>4, LoopStays
<1>6. byName' \in [DOMAIN byName' -> SystemPtrs] /\ \A n \in DOMAIN byName' : Name[byName'[n]] = n
  BY <1>1, NamedTyped DEF LoopInv
<1>7. LoopTyped'
  BY <1>1, <1>3, <1>5, <1>6 DEF LoopInv, LoopTyped
<1> QED
  BY <1>5, <1>7 DEF LoopInv, OrderStep

(* A system is paused, resumed or stopped.                                 *)
LEMMA LoopMoves ==
  ASSUME SystemsAssumption, LoopInv, OrderStep, NEW s \in SystemPtrs,
         Pause(s) \/ Resume(s) \/ Stop(s)
  PROVE  LoopInv'
<1>1. /\ UNCHANGED <<cursor, running, updates, jumped, wasInit, version, life, ordered, byName>>
      /\ steady' \subseteq steady /\ steady' \subseteq SystemPtrs
      /\ life = "alive"
  BY DEF Pause, Resume, Stop, Move, manager, Callable, LoopInv, LoopTyped
<1>2. /\ state' \in [SystemPtrs -> States]
      /\ \A t \in steady' : state[t] \in {"Configured", "Active"} => state'[t] \in {"Configured", "Active"}
  <2>1. state \in [SystemPtrs -> States]
    BY DEF LoopInv, LoopTyped
  <2>2. CASE Pause(s)
    <3>1. state' = [state EXCEPT ![s] = "Paused"] /\ s \notin steady'
      BY <2>2 DEF Pause, Move
    <3> QED
      BY <1>1, <2>1, <3>1 DEF States
  <2>3. CASE Resume(s)
    BY <1>1, <2>1, <2>3 DEF Resume, Move, States
  <2>4. CASE Stop(s)
    <3>1. state' = [state EXCEPT ![s] = "Stopped"] /\ state[s] = "Paused"
      BY <2>4 DEF Stop, Move
    <3> QED
      BY <1>1, <2>1, <3>1 DEF States
  <2> QED
    BY <2>2, <2>3, <2>4
<1>3. LoopCounts' /\ (running' => cursor' \in 1..Len(ordered'))
  BY <1>1, <1>2, LoopStays
<1>4. LoopTyped'
  BY <1>1, <1>2, <1>3 DEF LoopInv, LoopTyped
<1> QED
  BY <1>3, <1>4 DEF LoopInv, OrderStep

(* init() from outside of update(): during it, it has nothing to do.       *)
LEMMA LoopInits ==
  ASSUME SystemsAssumption, LoopInv, OrderStep, WorldInit
  PROVE  LoopInv'
<1>1. /\ UNCHANGED <<cursor, running, updates, jumped, life, steady, byName>>
      /\ version' = 0 /\ life = "alive"
  BY DEF WorldInit, Callable, manager, InitSystems
<1>2. state' \in [SystemPtrs -> States] /\ (wasInit => wasInit')
  <2>1. CASE wasInit
    BY <2>1 DEF WorldInit, manager, LoopInv, LoopTyped
  <2>2. CASE ~wasInit
    <3>1. PICK throws \in BOOLEAN : InitSystems(throws)
      BY <2>2 DEF WorldInit
    <3> QED
      BY <3>1, InitStates
  <2> QED
    BY <2>1, <2>2
<1>3. CASE wasInit
  <2>1. UNCHANGED <<state, ordered>>
    BY <1>3 DEF WorldInit, manager
  <2>2. LoopCounts' /\ (running' => cursor' \in 1..Len(ordered'))
    BY <1>1, <1>2, <2>1, LoopStays
  <2> QED
    BY <1>1, <1>2, <2>2, SystemsAssumption DEF LoopInv, LoopTyped, OrderStep, SystemsAssumption
<1>4. CASE ~wasInit
  <2>1. cursor = 0 /\ steady = {}
    <3>1. cursor \in Nat
      BY DEF LoopInv, LoopTyped
    <3> QED
      BY <1>1, <1>4, <3>1 DEF LoopInv, LoopCounts, UpToDate
  <2>2. LoopCounts' /\ (running' => cursor' \in 1..Len(ordered'))
    BY <1>1, <1>2, <2>1, LoopStays
  <2> QED
    BY <1>1, <1>2, <2>2, SystemsAssumption DEF LoopInv, LoopTyped, OrderStep, SystemsAssumption
<1> QED
  BY <1>3, <1>4

(* update() begins.                                                        *)
LEMMA LoopBegins ==
  ASSUME SystemsAssumption, LoopInv, OrderStep, BeginUpdate
  PROVE  LoopInv'
<1>1. /\ UNCHANGED <<running, life, updates, jumped, byName>>
      /\ life = "alive" /\ cursor = 0 /\ version < MaxUpdates /\ version' = version + 1
      /\ cursor' \in {0, 1}
      /\ steady' = IF cursor' = 0 THEN {} ELSE Owed(ordered', state')
  BY DEF BeginUpdate, manager, InitSystems
<1>2. state' \in [SystemPtrs -> States] /\ wasInit'
  <2>1. CASE wasInit
    BY <2>1 DEF BeginUpdate, manager, LoopInv, LoopTyped
  <2>2. CASE ~wasInit
    <3>1. PICK throws \in BOOLEAN : InitSystems(throws)
      BY <2>2 DEF BeginUpdate
    <3> QED
      BY <3>1, InitStates
  <2> QED
    BY <2>1, <2>2
<1>3. /\ updates = [s \in SystemPtrs |-> 0] /\ jumped = [s \in SystemPtrs |-> 0]
      /\ ~running
  BY <1>1 DEF LoopInv, LoopCounts, LoopTyped
<1>4. steady' \subseteq SystemPtrs /\ \A s \in steady' : state'[s] \in {"Configured", "Active"}
  <2>1. ordered' \in Seq(SystemPtrs)
    BY DEF OrderStep, OrderInv
  <2>2. ToSet(ordered') \subseteq SystemPtrs
    BY <2>1 DEF ToSet
  <2> QED
    BY <1>1, <2>2 DEF Owed
<1>5. ASSUME cursor' > 0 PROVE UpToDate'
  <2>1. Done' = 0
    BY <1>1, <1>3, <1>5 DEF Done
  <2>2. \A s : Cardinality(Passed(s, 0))' = 0
    <3>1. \A s : Passed(s, 0)' = {}
      BY DEF Passed, OrderStep, OrderInv
    <3> QED
      BY <3>1, FS_EmptySet
  <2>3. \A s : Passed(s, Done)' = Passed(s, 0)'
    BY <2>1 DEF Passed
  <2> QED
    BY <1>1, <1>2, <1>3, <1>4, <2>2, <2>3 DEF UpToDate
<1>6. LoopCounts'
  BY <1>1, <1>3, <1>5 DEF LoopCounts
<1>7. version' \in 0..MaxUpdates
  BY <1>1 DEF LoopInv, LoopTyped, SystemsAssumption
<1>8. LoopTyped'
  BY <1>1, <1>2, <1>3, <1>4, <1>7 DEF LoopInv, LoopTyped
<1> QED
  BY <1>6, <1>8 DEF LoopInv, OrderStep

(* The loop comes to an entry: every entry of a system that is owed an     *)
(* update adds one, as its state still allows it.                          *)
LEMMA LoopUpdates ==
  ASSUME SystemsAssumption, LoopInv, OrderStep, UpdateSystem
  PROVE  LoopInv'
<1> DEFINE s == ordered[cursor]
<1>1. /\ UNCHANGED <<ordered, wasInit, byName, version, life, steady, jumped>>
      /\ life = "alive" /\ cursor > 0 /\ ~running /\ cursor <= Len(ordered)
  BY DEF UpdateSystem, manager
<1>2. /\ state \in [SystemPtrs -> States] /\ updates \in [SystemPtrs -> Nat]
      /\ jumped \in [SystemPtrs -> Int]
      /\ cursor \in 1..Len(ordered) /\ s \in SystemPtrs /\ steady \subseteq SystemPtrs
      /\ Len(ordered) \in Nat
  BY <1>1 DEF LoopInv, LoopTyped, OrderInv
<1>3. UpToDate
  BY <1>1, <1>2 DEF LoopInv, LoopCounts
<1>4. Done = cursor - 1
  BY <1>1 DEF Done
<1>6. Done' = cursor
  <2>1. CASE state[s] \in {"Configured", "Active"}
    <3>1. running' = TRUE /\ cursor' = cursor
      BY <2>1 DEF UpdateSystem
    <3> QED
      BY <3>1 DEF Done
  <2>2. CASE state[s] \notin {"Configured", "Active"}
    <3>1. running' = running /\ cursor' = cursor + 1
      BY <2>2 DEF UpdateSystem
    <3> QED
      BY <1>1, <1>2, <3>1 DEF Done
  <2> QED
    BY <2>1, <2>2
<1>7. \A t : Cardinality(Passed(t, cursor)) = IF s = t THEN Cardinality(Passed(t, cursor - 1)) + 1
                                              ELSE Cardinality(Passed(t, cursor - 1))
  BY <1>2, PassedOne DEF LoopInv
<1>8. \A t : Passed(t, Done)' = Passed(t, cursor)
  BY <1>1, <1>6 DEF Passed
<1> HIDE DEF s
<1>9. CASE state[s] \in {"Configured", "Active"}
  <2>1. /\ state' = [state EXCEPT ![s] = "Active"]
        /\ updates' = [updates EXCEPT ![s] = @ + 1]
        /\ running' = TRUE /\ cursor' = cursor
    BY <1>9 DEF UpdateSystem, s
  <2>2. ASSUME NEW t \in steady
        PROVE  state'[t] \in {"Configured", "Active"} /\ updates'[t] + jumped[t] = Cardinality(Passed(t, cursor))
    <3>1. t \in SystemPtrs /\ state[t] \in {"Configured", "Active"} /\ updates[t] + jumped[t] = Cardinality(Passed(t, cursor - 1))
      BY <1>2, <1>3, <1>4 DEF UpToDate
    <3> QED
      BY <1>2, <1>7, <2>1, <3>1
  <2>3. UpToDate'
    BY <1>1, <1>3, <1>8, <2>2 DEF UpToDate
  <2>4. LoopCounts'
    BY <1>2, <2>1, <2>3 DEF LoopCounts
  <2>5. state' \in [SystemPtrs -> States] /\ updates' \in [SystemPtrs -> Nat]
    BY <1>2, <2>1 DEF States
  <2>6. LoopTyped'
    BY <1>1, <1>2, <2>1, <2>5 DEF LoopInv, LoopTyped
  <2> QED
    BY <2>4, <2>6 DEF LoopInv, OrderStep
<1>10. CASE state[s] \notin {"Configured", "Active"}
  <2>1. UNCHANGED <<state, updates, running>> /\ cursor' = cursor + 1
    BY <1>10 DEF UpdateSystem, s
  <2>2. ASSUME NEW t \in steady PROVE updates[t] + jumped[t] = Cardinality(Passed(t, cursor))
    <3>1. state[t] \in {"Configured", "Active"} /\ updates[t] + jumped[t] = Cardinality(Passed(t, cursor - 1))
      BY <1>3, <1>4 DEF UpToDate
    <3>2. s # t
      BY <1>10, <3>1
    <3> QED
      BY <1>7, <3>1, <3>2
  <2>3. UpToDate'
    BY <1>1, <1>3, <1>8, <2>1, <2>2 DEF UpToDate
  <2>4. LoopCounts'
    BY <1>2, <2>1, <2>3 DEF LoopCounts
  <2>5. LoopTyped'
    BY <1>1, <1>2, <2>1 DEF LoopInv, LoopTyped
  <2> QED
    BY <2>4, <2>5 DEF LoopInv, OrderStep
<1> QED
  BY <1>9, <1>10

(* The hook of an entry returns: the entry is done as before.              *)
LEMMA LoopReturns ==
  ASSUME SystemsAssumption, LoopInv, OrderStep, HookReturns
  PROVE  LoopInv'
<1>1. /\ UNCHANGED <<state, ordered, wasInit, byName, version, life, updates, steady, jumped>>
      /\ life = "alive" /\ running /\ running' = FALSE /\ cursor' = cursor + 1
  BY DEF HookReturns, manager, history
<1>2. cursor \in Nat /\ cursor > 0
  BY <1>1 DEF LoopInv, LoopTyped
<1>3. Done' = Done
  BY <1>1, <1>2 DEF Done
<1>4. \A t : Passed(t, Done)' = Passed(t, Done)
  BY <1>1, <1>3 DEF Passed
<1>5. UpToDate
  BY <1>1, <1>2 DEF LoopInv, LoopCounts
<1>6. UpToDate'
  BY <1>1, <1>4, <1>5 DEF UpToDate
<1>7. LoopCounts'
  BY <1>1, <1>2, <1>6 DEF LoopCounts
<1>8. LoopTyped'
  <2>1. running' \in BOOLEAN /\ ~running'
    BY <1>1, Zenon
  <2> QED
    BY <1>1, <1>2, <2>1 DEF LoopInv, LoopTyped
<1> QED
  BY <1>7, <1>8 DEF LoopInv, OrderStep

LEMMA LoopKept ==
  ASSUME SystemsAssumption, LoopInv, [Next]_vars
  PROVE  LoopInv'
<1>1. OrderStep
  BY OrderKept DEF LoopInv
<1>2. ASSUME NEW s \in SystemPtrs, AddSystem(s) \/ AddSystemLate(s) PROVE LoopInv'
  BY <1>1, <1>2, LoopAdds
<1>3. ASSUME NEW n \in Names, RemoveSystem(n) PROVE LoopInv'
  BY <1>1, <1>3, LoopRemoves
<1>4. ASSUME NEW g \in Groups, NEW p \in Priorities, SetGroupPriority(g, p) PROVE LoopInv'
  <2>1. UNCHANGED <<state, ordered, wasInit, byName, version, cursor, running, life, updates, steady, jumped>>
    BY <1>4 DEF SetGroupPriority, history
  <2>2. LoopCounts' /\ (running' => cursor' \in 1..Len(ordered'))
    BY <1>1, <2>1, LoopStays
  <2> QED
    BY <1>1, <2>1, <2>2 DEF LoopInv, LoopTyped, OrderStep
<1>5. ASSUME NEW s \in SystemPtrs, Pause(s) \/ Resume(s) \/ Stop(s) PROVE LoopInv'
  BY <1>1, <1>5, LoopMoves
<1>6. CASE WorldInit
  BY <1>1, <1>6, LoopInits
<1>7. CASE BeginUpdate
  BY <1>1, <1>7, LoopBegins
<1>8. CASE UpdateSystem
  BY <1>1, <1>8, LoopUpdates
<1>9. CASE HookReturns
  BY <1>1, <1>9, LoopReturns
<1>10. CASE EndUpdate
  <2>1. /\ UNCHANGED <<state, ordered, wasInit, byName, version, running, life>> /\ ~running
        /\ cursor' = 0 /\ updates' = [s \in SystemPtrs |-> 0]
        /\ jumped' = [s \in SystemPtrs |-> 0] /\ steady' = {}
    BY <1>10 DEF EndUpdate, manager
  <2>2. LoopCounts'
    BY <2>1 DEF LoopCounts
  <2>3. LoopTyped'
    BY <2>1 DEF LoopInv, LoopTyped
  <2> QED
    BY <1>1, <2>2, <2>3 DEF LoopInv, OrderStep
<1>11. CASE DestroyManager
  <2>1. /\ UNCHANGED <<ordered, wasInit, byName, version, cursor, running, updates, steady, jumped>>
        /\ life' = "destroyed"
        /\ state' = [s \in SystemPtrs |-> IF s \in ToSet(ordered) THEN "Uninit" ELSE state[s]]
    BY <1>11 DEF DestroyManager, manager, history
  <2>2. LoopCounts'
    BY <2>1 DEF LoopCounts
  <2>3. LoopTyped'
    BY <2>1 DEF LoopInv, LoopTyped, States
  <2> QED
    BY <1>1, <2>2, <2>3 DEF LoopInv, OrderStep
<1>12. CASE UNCHANGED vars
  <2>1. UNCHANGED <<state, ordered, wasInit, byName, version, cursor, running, life, updates, steady, jumped>>
    BY <1>12 DEF vars
  <2>2. LoopCounts' /\ (running' => cursor' \in 1..Len(ordered'))
    BY <1>1, <2>1, LoopStays
  <2> QED
    BY <1>1, <2>1, <2>2 DEF LoopInv, LoopTyped, OrderStep
<1> QED
  BY <1>2, <1>3, <1>4, <1>5, <1>6, <1>7, <1>8, <1>9, <1>10, <1>11, <1>12 DEF Next

LEMMA LoopStarts ==
  ASSUME SystemsAssumption, Init
  PROVE  LoopInv
<1>1. OrderInv
  BY OrderStarts
<1>2. LoopTyped
  <2>1. running \in BOOLEAN /\ ~running /\ life \in {"alive", "destroyed", "broken"}
    BY Zenon DEF Init
  <2>2. /\ byName \in [DOMAIN byName -> SystemPtrs]
        /\ \A n \in DOMAIN byName : Name[byName[n]] = n
    BY DEF Init
  <2>3. /\ state \in [SystemPtrs -> States] /\ steady \subseteq SystemPtrs
        /\ updates \in [SystemPtrs -> Nat] /\ jumped \in [SystemPtrs -> Int]
    BY DEF Init, States
  <2>4. version \in 0..MaxUpdates /\ cursor \in Nat
    BY DEF Init, SystemsAssumption
  <2> QED
    BY <2>1, <2>2, <2>3, <2>4 DEF LoopTyped
<1>3. LoopCounts
  BY DEF Init, LoopCounts
<1> QED
  BY <1>1, <1>2, <1>3 DEF LoopInv

(* What update() has done so far agrees with its place in the order.       *)
THEOREM LoopInvariant == Spec => []LoopInv
<1>1. Init => LoopInv
  BY SystemsAssumption, LoopStarts
<1>2. LoopInv /\ [Next]_vars => LoopInv'
  BY SystemsAssumption, LoopKept
<1> QED
  BY <1>1, <1>2, PTL DEF Spec

(* Types of the systems, of the order and of the loop: a hook runs at an   *)
(* entry of the order, whatever it has added or removed.                   *)
THEOREM SystemsTyped == Spec => []TypeOK
<1>1. LoopInv => TypeOK
  <2> SUFFICES ASSUME LoopInv PROVE TypeOK
    OBVIOUS
  <2>1. \A k \in DOMAIN infos : infos[k].system \in SystemPtrs
    <3>1. \A k \in DOMAIN infos : infos[k] \in Infos
      BY DEF LoopInv, OrderInv
    <3> QED
      BY <3>1 DEF Infos
  <2>2. ordered \in Seq(SystemPtrs) /\ wasInit \in BOOLEAN /\ DOMAIN ordered = 1..Len(ordered)
    BY DEF LoopInv, OrderInv
  <2> QED
    BY <2>1, <2>2 DEF LoopInv, LoopTyped, TypeOK
<1> QED
  BY <1>1, LoopInvariant, PTL

(* When update() has passed all systems, one that could be updated since   *)
(* its begin was updated once for each entry it has in the order, less     *)
(* those that removals made by hooks put behind the loop, plus those put   *)
(* ahead of it again (SystemManager::update).  It says nothing of an       *)
(* update() that a hook broke, by a longer order or by the removal of a    *)
(* system that is not last.                                                *)
THEOREM UpdatedOnce == Spec => EachUpdatedOnce
<1> DEFINE AllUpdated ==
      EndUpdate => \A s \in steady :
        updates[s] + jumped[s] = Cardinality({i \in DOMAIN ordered : ordered[i] = s})
<1>1. LoopInv => AllUpdated
  <2> SUFFICES ASSUME LoopInv, EndUpdate, NEW s \in steady
               PROVE  updates[s] + jumped[s] = Cardinality({i \in DOMAIN ordered : ordered[i] = s})
    OBVIOUS
  <2>1. life = "alive" /\ cursor > Len(ordered) /\ ~running /\ cursor \in Nat /\ Len(ordered) \in Nat
    BY DEF EndUpdate, LoopInv, LoopTyped, OrderInv
  <2>2. UpToDate /\ Done = cursor - 1
    BY <2>1 DEF LoopInv, LoopCounts, Done
  <2>3. Passed(s, cursor - 1) = {i \in DOMAIN ordered : ordered[i] = s}
    <3>1. DOMAIN ordered = 1..Len(ordered)
      BY DEF LoopInv, OrderInv
    <3> QED
      BY <2>1, <3>1 DEF Passed
  <2> QED
    BY <2>2, <2>3 DEF UpToDate
<1>2. LoopInv /\ [Next]_vars => [AllUpdated]_vars
  BY <1>1
<1>3. Spec => [][AllUpdated]_vars
  BY <1>2, LoopInvariant, PTL DEF Spec
<1> QED
  BY <1>3, PTL DEF EachUpdatedOnce

-----------------------------------------------------------------------------
(* Events: lists of receivers.                                             *)

ListTyped(L) ==
  /\ L \in Lists /\ L.size <= Len(L.memory)
  /\ \A i \in 1..L.size : L.memory[i] \in Receivers

(* The list has the members of S, each once.                               *)
Holds(L, S) ==
  /\ ListTyped(L)
  /\ \A i, j \in 1..L.size : L.memory[i] = L.memory[j] => i = j
  /\ S = {L.memory[i] : i \in 1..L.size}

(* The parts of a list.                                                    *)
LEMMA ListIs ==
  ASSUME NEW L, ListTyped(L)
  PROVE  /\ L.memory \in Seq(Receivers \cup {Nobody}) /\ Len(L.memory) \in Nat /\ L.size \in Nat
         /\ DOMAIN L.memory = 1..Len(L.memory)
         /\ L.size <= Len(L.memory)
         /\ L = [memory |-> L.memory, size |-> L.size]
BY DEF ListTyped, Lists

(* The entries of a list are receivers.                                    *)
LEMMA EntriesAre ==
  ASSUME NEW L, ListTyped(L)
  PROVE  /\ Entries(L) \in Seq(Receivers) /\ Len(Entries(L)) = L.size
         /\ \A i \in 1..L.size : Entries(L)[i] = L.memory[i]
<1>1. L.size \in Nat /\ \A i \in 1..L.size : L.memory[i] \in Receivers
  BY DEF ListTyped, Lists
<1>2. /\ SubSeq(L.memory, 1, L.size) \in Seq(Receivers)
      /\ Len(SubSeq(L.memory, 1, L.size)) = IF 1 <= L.size THEN L.size - 1 + 1 ELSE 0
      /\ \A i \in 1..(L.size - 1 + 1) : SubSeq(L.memory, 1, L.size)[i] = L.memory[1 + i - 1]
  BY <1>1, SubSeqProperties
<1> QED
  BY <1>1, <1>2 DEF Entries

(* What a resized vector holds.                                            *)
LEMMA ResizedIs ==
  ASSUME NEW S, NEW s \in Seq(S \cup {Nobody}), NEW n \in Nat
  PROVE  /\ Resized(s, n) \in Seq(S \cup {Nobody}) /\ Len(Resized(s, n)) = n
         /\ \A i \in 1..n : Resized(s, n)[i] = IF i <= Len(s) THEN s[i] ELSE Nobody
<1>1. \A i \in 1..n : i \in DOMAIN s <=> i <= Len(s)
  OBVIOUS
<1>2. Resized(s, n) \in [1..n -> S \cup {Nobody}]
  BY DEF Resized
<1>3. \A i \in 1..n : Resized(s, n)[i] = IF i <= Len(s) THEN s[i] ELSE Nobody
  BY <1>1 DEF Resized
<1> QED
  BY <1>2, <1>3

(* A receiver is added behind those there are, in new memory or the old.   *)
LEMMA AddedIs ==
  ASSUME NEW L, ListTyped(L), NEW r \in Receivers
  PROVE  /\ ListTyped(Added(L, r)) /\ Added(L, r).size = L.size + 1
         /\ \A i \in 1..L.size : Added(L, r).memory[i] = L.memory[i]
         /\ Added(L, r).memory[L.size + 1] = r
<1> DEFINE n == Len(L.memory)
           room == IF L.size < n THEN L.memory
                   ELSE Resized(L.memory, IF n = 0 THEN 1 ELSE 2 * n)
<1>1. L.memory \in Seq(Receivers \cup {Nobody}) /\ n \in Nat /\ L.size \in Nat /\ L.size <= n
  BY ListIs
<1>2. /\ room \in Seq(Receivers \cup {Nobody}) /\ L.size + 1 <= Len(room) /\ Len(room) \in Nat
      /\ \A i \in 1..L.size : room[i] = L.memory[i]
  <2>1. CASE L.size < n
    BY <1>1, <2>1
  <2>2. CASE ~(L.size < n)
    <3>1. PICK k \in Nat : k = IF n = 0 THEN 1 ELSE 2 * n
      BY <1>1
    <3>2. k > n /\ room = Resized(L.memory, k)
      BY <1>1, <2>2, <3>1
    <3>3. /\ Resized(L.memory, k) \in Seq(Receivers \cup {Nobody}) /\ Len(Resized(L.memory, k)) = k
          /\ \A i \in 1..k : Resized(L.memory, k)[i] = IF i <= Len(L.memory) THEN L.memory[i] ELSE Nobody
      BY <1>1, <3>1, ResizedIs
    <3> QED
      BY <1>1, <3>2, <3>3
  <2> QED
    BY <2>1, <2>2
<1>3. Added(L, r) = [memory |-> [room EXCEPT ![L.size + 1] = r], size |-> L.size + 1]
  BY DEF Added
<1> HIDE DEF room
<1>4. PICK mem : mem = [room EXCEPT ![L.size + 1] = r]
  OBVIOUS
<1>5. /\ mem \in Seq(Receivers \cup {Nobody}) /\ Len(mem) = Len(room)
      /\ \A i \in 1..L.size : mem[i] = L.memory[i]
      /\ mem[L.size + 1] = r
  <2>1. L.size + 1 \in 1..Len(room)
    BY <1>1, <1>2
  <2> QED
    BY <1>1, <1>2, <1>4, <2>1
<1>6. Added(L, r) = [memory |-> mem, size |-> L.size + 1]
  BY <1>3, <1>4
<1>7. \A i \in 1..(L.size + 1) : mem[i] \in Receivers
  <2>1. \A i \in 1..(L.size + 1) : i \in 1..L.size \/ i = L.size + 1
    BY <1>1
  <2> QED
    BY <1>5, <2>1 DEF ListTyped
<1> QED
  BY <1>1, <1>2, <1>5, <1>6, <1>7 DEF ListTyped, Lists

(* A list that gets a receiver it does not have holds each still once.     *)
LEMMA AddedHolds ==
  ASSUME NEW L, NEW S, Holds(L, S), NEW r \in Receivers, r \notin S
  PROVE  Holds(Added(L, r), S \cup {r})
<1>1. /\ ListTyped(Added(L, r)) /\ Added(L, r).size = L.size + 1
      /\ \A i \in 1..L.size : Added(L, r).memory[i] = L.memory[i]
      /\ Added(L, r).memory[L.size + 1] = r
      /\ L.size \in Nat
  BY AddedIs, ListIs DEF Holds
<1>2. \A i \in 1..(L.size + 1) : i \in 1..L.size \/ i = L.size + 1
  BY <1>1
<1>3. \A i \in 1..L.size : Added(L, r).memory[i] # r /\ i \in 1..(L.size + 1)
  BY <1>1 DEF Holds
<1>4. \A i, j \in 1..(L.size + 1) : Added(L, r).memory[i] = Added(L, r).memory[j] => i = j
  BY <1>1, <1>2, <1>3 DEF Holds
<1>5. S \cup {r} = {Added(L, r).memory[i] : i \in 1..(L.size + 1)}
  <2>1. L.size + 1 \in 1..(L.size + 1)
    BY <1>1
  <2> QED
    BY <1>1, <1>2, <1>3, <2>1 DEF Holds
<1> QED
  BY <1>1, <1>4, <1>5 DEF Holds

(* The first entry of a receiver is erased, and those behind it move up.   *)
LEMMA ErasedIs ==
  ASSUME NEW L, ListTyped(L), NEW r \in Receivers
  PROVE  /\ ListTyped(Erased(L, r))
         /\ \/ /\ \A i \in 1..L.size : L.memory[i] # r
               /\ Erased(L, r) = L
            \/ \E k \in 1..L.size :
                 /\ L.memory[k] = r /\ Erased(L, r).size = L.size - 1
                 /\ \A i \in 1..(L.size - 1) :
                      Erased(L, r).memory[i] = IF i < k THEN L.memory[i] ELSE L.memory[i + 1]
<1>1. /\ L.memory \in Seq(Receivers \cup {Nobody}) /\ Len(L.memory) \in Nat /\ L.size \in Nat
      /\ DOMAIN L.memory = 1..Len(L.memory) /\ L.size <= Len(L.memory)
  BY ListIs
<1>2. /\ Len(Entries(L)) = L.size
      /\ \A i \in 1..L.size : Entries(L)[i] = L.memory[i]
  BY EntriesAre
<1>3. CASE ~Contains(Entries(L), r)
  <2>1. \A i \in 1..L.size : L.memory[i] # r
    BY <1>2, <1>3 DEF Contains
  <2> QED
    BY <1>3, <2>1 DEF Erased
<1>4. CASE Contains(Entries(L), r)
  <2> DEFINE k == SelectInSeq(Entries(L), LAMBDA x : x = r)
             I == {i \in 1..Len(Entries(L)) : Entries(L)[i] = r}
  <2>1. k = IF I # {} THEN Min(I) ELSE 0
    BY DEF SelectInSeq
  <2>2. I # {} /\ I \subseteq Nat
    BY <1>4 DEF Contains
  <2>3. Min(I) \in I
    <3> HIDE DEF I
    <3>1. PICK x \in I : \A y \in I : x <= y
      BY <2>2, LeastNat
    <3> QED
      BY <3>1 DEF Min
  <2>4. k \in 1..L.size /\ L.memory[k] = r
    BY <1>2, <2>1, <2>2, <2>3
  <2>5. Erased(L, r) = [memory |-> [i \in DOMAIN L.memory |->
                                     IF i \in k..(L.size - 1) THEN L.memory[i + 1] ELSE L.memory[i]],
                        size |-> L.size - 1]
    BY <1>4 DEF Erased
  <2> HIDE DEF k
  <2>6. PICK mem : mem = [i \in 1..Len(L.memory) |->
                           IF i \in k..(L.size - 1) THEN L.memory[i + 1] ELSE L.memory[i]]
    OBVIOUS
  <2>7. Erased(L, r) = [memory |-> mem, size |-> L.size - 1]
    BY <1>1, <2>5, <2>6
  <2>8. mem \in [1..Len(L.memory) -> Receivers \cup {Nobody}]
    <3>1. \A i \in 1..Len(L.memory) : i \in k..(L.size - 1) => i + 1 \in 1..Len(L.memory)
      BY <1>1
    <3>2. \A i \in 1..Len(L.memory) : L.memory[i] \in Receivers \cup {Nobody}
      BY <1>1
    <3> QED
      BY <2>6, <3>1, <3>2
  <2>9. mem \in Seq(Receivers \cup {Nobody}) /\ Len(mem) = Len(L.memory)
    BY <1>1, <2>8
  <2>10. \A i \in 1..(L.size - 1) : mem[i] = IF i < k THEN L.memory[i] ELSE L.memory[i + 1]
    <3>1. \A i \in 1..(L.size - 1) : i \in 1..Len(L.memory) /\ (i \in k..(L.size - 1) <=> ~(i < k))
      BY <1>1, <2>4
    <3> QED
      BY <2>6, <3>1
  <2>11. \A i \in 1..(L.size - 1) : mem[i] \in Receivers
    <3>1. \A i \in 1..(L.size - 1) : i \in 1..L.size /\ i + 1 \in 1..L.size
      BY <1>1
    <3> QED
      BY <2>10, <3>1 DEF ListTyped
  <2> QED
    BY <1>1, <2>4, <2>7, <2>9, <2>10, <2>11 DEF ListTyped, Lists
<1> QED
  BY <1>3, <1>4

(* A list that loses a receiver holds the others.                          *)
LEMMA ErasedHolds ==
  ASSUME NEW L, NEW S, Holds(L, S), NEW r \in Receivers
  PROVE  Holds(Erased(L, r), S \ {r}) /\ (r \notin S => Erased(L, r) = L)
<1>1. ListTyped(L) /\ L.size \in Nat /\ ListTyped(Erased(L, r))
  BY ListIs, ErasedIs DEF Holds
<1>2. CASE r \notin S
  <2>1. Erased(L, r) = L
    BY <1>1, <1>2, ErasedIs DEF Holds
  <2>2. S \ {r} = S
    BY <1>2
  <2> QED
    BY <2>1, <2>2
<1>3. CASE r \in S
  <2>1. PICK k \in 1..L.size :
          /\ L.memory[k] = r /\ Erased(L, r).size = L.size - 1
          /\ \A i \in 1..(L.size - 1) :
               Erased(L, r).memory[i] = IF i < k THEN L.memory[i] ELSE L.memory[i + 1]
    BY <1>1, <1>3, ErasedIs DEF Holds
  <2> DEFINE E == Erased(L, r)
             at(i) == IF i < k THEN i ELSE i + 1
  <2>2. \A i \in 1..(L.size - 1) : at(i) \in 1..L.size /\ at(i) # k /\ E.memory[i] = L.memory[at(i)]
    BY <1>1, <2>1
  <2>3. \A i, j \in 1..(L.size - 1) : at(i) = at(j) => i = j
    BY <1>1
  <2>4. \A j \in 1..L.size : j # k => \E i \in 1..(L.size - 1) : at(i) = j
    <3> TAKE j \in 1..L.size
    <3> HAVE j # k
    <3>1. CASE j < k
      <4>1. j \in 1..(L.size - 1) /\ at(j) = j
        BY <1>1, <3>1
      <4> QED
        BY <4>1
    <3>2. CASE j > k
      <4>1. j - 1 \in 1..(L.size - 1) /\ at(j - 1) = j
        BY <1>1, <3>2
      <4> QED
        BY <4>1
    <3> QED
      BY <1>1, <3>1, <3>2
  <2> HIDE DEF at, E
  <2>5. \A i, j \in 1..L.size : L.memory[i] = L.memory[j] => i = j
    BY DEF Holds
  <2>6. \A i, j \in 1..(L.size - 1) : E.memory[i] = E.memory[j] => i = j
    BY <2>2, <2>3, <2>5
  <2>7. S \ {r} = {E.memory[i] : i \in 1..(L.size - 1)}
    <3>1. \A i \in 1..(L.size - 1) : E.memory[i] \in S \ {r}
      BY <2>1, <2>2, <2>5 DEF Holds
    <3>2. ASSUME NEW s \in S \ {r} PROVE \E i \in 1..(L.size - 1) : s = E.memory[i]
      <4>1. PICK j \in 1..L.size : s = L.memory[j]
        BY DEF Holds
      <4> QED
        BY <2>1, <2>2, <2>4, <4>1
    <3> QED
      BY <3>1, <3>2
  <2> QED
    BY <1>1, <1>3, <2>1, <2>6, <2>7 DEF Holds, E
<1> QED
  BY <1>2, <1>3

-----------------------------------------------------------------------------
(* Ids and tables.                                                         *)
TableTyped(T) ==
  T \in Seq(Lists \cup {Nobody}) /\ \A i \in 1..Len(T) : T[i] # Nobody => ListTyped(T[i])

(* The table has a list for each type, with the members of subs it is for. *)
TableHolds(ts, T, subs) ==
  /\ Len(T) = Len(ts)
  /\ \A i \in 1..Len(ts) : T[i] # Nobody /\ Holds(T[i], {r \in subs : Kind[r] = ts[i]})

(* The id of a type that has one,                                          *)
LEMMA IdIs ==
  ASSUME NEW ts \in Seq(Types), NEW t, Contains(ts, t)
  PROVE  Id(ts, t) \in 1..Len(ts) /\ ts[Id(ts, t)] = t
<1>1. \E i \in DOMAIN ts : ts[i] = t
  BY DEF Contains
<1>2. DOMAIN ts = 1..Len(ts)
  OBVIOUS
<1> QED
  BY <1>1, <1>2 DEF Id

(* which is the only one.                                                  *)
LEMMA IdAt ==
  ASSUME NEW ts \in Seq(Types), IsInjective(ts), NEW i \in 1..Len(ts)
  PROVE  Id(ts, ts[i]) = i /\ Contains(ts, ts[i])
<1>1. Contains(ts, ts[i])
  BY DEF Contains
<1>2. Id(ts, ts[i]) \in 1..Len(ts) /\ ts[Id(ts, ts[i])] = ts[i]
  BY <1>1, IdIs
<1> QED
  BY <1>1, <1>2 DEF IsInjective

(* ts2 goes on from ts.                                                    *)
Extends(ts, ts2) ==
  /\ ts2 \in Seq(Types) /\ IsInjective(ts2)
  /\ Len(ts) <= Len(ts2) /\ \A i \in 1..Len(ts) : ts2[i] = ts[i]

(* Registering a type leaves the ids there are, and gives it the next if it *)
(* had none.                                                               *)
LEMMA WithTypeIs ==
  ASSUME NEW ts \in Seq(Types), IsInjective(ts), NEW t \in Types
  PROVE  /\ Extends(ts, WithType(ts, t)) /\ Contains(WithType(ts, t), t)
         /\ IF Contains(ts, t) THEN WithType(ts, t) = ts
            ELSE /\ Len(WithType(ts, t)) = Len(ts) + 1 /\ WithType(ts, t)[Len(ts) + 1] = t
                 /\ Id(WithType(ts, t), t) = Len(ts) + 1
<1>1. CASE Contains(ts, t)
  BY <1>1 DEF WithType, Extends
<1>2. CASE ~Contains(ts, t)
  <2>0. Append(ts, t) \in Seq(Types)
    OBVIOUS
  <2>1. PICK u : u \in Seq(Types) /\ u = Append(ts, t)
    BY <2>0
  <2>2. WithType(ts, t) = u
    BY <1>2, <2>1 DEF WithType
  <2>3. /\ Len(ts) \in Nat /\ Len(u) = Len(ts) + 1 /\ u[Len(ts) + 1] = t
        /\ \A i \in 1..Len(ts) : u[i] = ts[i]
    BY <2>1
  <2>4. \A i \in 1..Len(u) : i \in 1..Len(ts) \/ i = Len(ts) + 1
    BY <2>3
  <2>5. \A i \in 1..Len(ts) : ts[i] # t
    BY <1>2 DEF Contains
  <2>6. IsInjective(u)
    BY <2>3, <2>4, <2>5 DEF IsInjective
  <2>7. Len(ts) + 1 \in 1..Len(u)
    BY <2>3
  <2>8. Contains(u, t) /\ Id(u, t) = Len(ts) + 1
    BY <2>1, <2>3, <2>6, <2>7, IdAt
  <2> QED
    BY <1>2, <2>1, <2>2, <2>3, <2>6, <2>8 DEF Extends
<1> QED
  BY <1>1, <1>2

(* An id stays.                                                            *)
LEMMA IdStays ==
  ASSUME NEW ts \in Seq(Types), NEW ts2, Extends(ts, ts2), NEW t, Contains(ts, t)
  PROVE  Id(ts2, t) = Id(ts, t) /\ Contains(ts2, t)
<1>1. Id(ts, t) \in 1..Len(ts) /\ ts[Id(ts, t)] = t
  BY IdIs
<1>2. Id(ts, t) \in 1..Len(ts2) /\ ts2[Id(ts, t)] = t
  BY <1>1 DEF Extends
<1> QED
  BY <1>2, IdAt DEF Extends

(* A new list is empty.                                                    *)
LEMMA EmptyListHolds ==
  ASSUME EventsAssumption
  PROVE  EmptyList # Nobody /\ Holds(EmptyList, {})
<1>1. EmptyList = [memory |-> <<>>, size |-> 0]
  BY DEF EmptyList
<1>2. EmptyList \in Lists /\ EmptyList.size = 0 /\ Len(EmptyList.memory) = 0
  BY <1>1 DEF Lists
<1>3. 1..EmptyList.size = {}
  BY <1>2
<1>4. ListTyped(EmptyList)
  BY <1>2, <1>3 DEF ListTyped
<1> QED
  BY <1>2, <1>3, <1>4 DEF Holds, EventsAssumption

(* A table gets a list at an id it has none for; it may lose those behind. *)
LEMMA WithListTyped ==
  ASSUME EventsAssumption, NEW T, TableTyped(T), NEW tid \in Nat, tid > 0
  PROVE  /\ TableTyped(WithList(T, tid))
         /\ tid \in 1..Len(WithList(T, tid)) /\ WithList(T, tid)[tid] # Nobody
<1>1. T \in Seq(Lists \cup {Nobody}) /\ Len(T) \in Nat
  BY DEF TableTyped
<1>2. CASE tid \in DOMAIN T /\ T[tid] # Nobody
  BY <1>1, <1>2 DEF WithList
<1>3. CASE ~(tid \in DOMAIN T /\ T[tid] # Nobody)
  <2>1. PICK R : R = Resized(T, tid)
    OBVIOUS
  <2>2. /\ R \in Seq(Lists \cup {Nobody}) /\ Len(R) = tid
        /\ \A i \in 1..tid : R[i] = IF i <= Len(T) THEN T[i] ELSE Nobody
    BY <1>1, <2>1, ResizedIs
  <2>3. WithList(T, tid) = [R EXCEPT ![tid] = EmptyList]
    BY <1>3, <2>1, Zenon DEF WithList
  <2>4. EmptyList # Nobody /\ ListTyped(EmptyList) /\ EmptyList \in Lists
    BY EmptyListHolds DEF Holds, ListTyped
  <2>5. PICK W : W = [R EXCEPT ![tid] = EmptyList]
    OBVIOUS
  <2>6. W \in Seq(Lists \cup {Nobody}) /\ Len(W) = tid /\ W[tid] = EmptyList
    BY <2>2, <2>4, <2>5
  <2>7. ASSUME NEW i \in 1..tid, W[i] # Nobody PROVE ListTyped(W[i])
    <3>1. CASE i = tid
      BY <2>4, <2>6, <3>1
    <3>2. CASE i # tid
      <4>1. W[i] = R[i]
        BY <2>2, <2>5, <3>2
      <4>2. i <= Len(T) /\ W[i] = T[i]
        BY <2>2, <2>7, <4>1
      <4> QED
        BY <1>1, <2>7, <4>2 DEF TableTyped
    <3> QED
      BY <3>1, <3>2
  <2> QED
    BY <2>3, <2>4, <2>5, <2>6, <2>7 DEF TableTyped
<1> QED
  BY <1>2, <1>3

(* A table that gets a list at the id behind its last keeps the others.    *)
LEMMA WithListNext ==
  ASSUME NEW T \in Seq(Lists \cup {Nobody}), NEW n \in Nat, n = Len(T) + 1
  PROVE  /\ Len(WithList(T, n)) = n /\ WithList(T, n)[n] = EmptyList
         /\ \A i \in 1..Len(T) : WithList(T, n)[i] = T[i]
<1>1. PICK R : R = Resized(T, n)
  OBVIOUS
<1>2. /\ R \in Seq(Lists \cup {Nobody}) /\ Len(R) = n
      /\ \A i \in 1..n : R[i] = IF i <= Len(T) THEN T[i] ELSE Nobody
  BY <1>1, ResizedIs
<1>3. Len(T) \in Nat /\ n \notin DOMAIN T
  OBVIOUS
<1>4. WithList(T, n) = [R EXCEPT ![n] = EmptyList]
  BY <1>1, <1>3, Zenon DEF WithList
<1>5. PICK W : W = [R EXCEPT ![n] = EmptyList]
  OBVIOUS
<1>6. /\ Len(W) = n /\ W[n] = EmptyList
      /\ \A i \in 1..Len(T) : i \in 1..n /\ W[i] = T[i]
  BY <1>2, <1>3, <1>5
<1> QED
  BY <1>4, <1>5, <1>6

(* Registering a type leaves the lists there are, and an empty one for it. *)
LEMMA WithListHolds ==
  ASSUME EventsAssumption, NEW ts \in Seq(Types), IsInjective(ts), NEW T, TableTyped(T),
         NEW subs \in SUBSET Receivers, \A r \in subs : Contains(ts, Kind[r]),
         TableHolds(ts, T, subs), NEW t \in Types
  PROVE  LET ts2 == WithType(ts, t)
             T2 == WithList(T, Id(ts2, t))
         IN TableHolds(ts2, T2, subs) /\ \A i \in 1..Len(ts) : T2[i] = T[i]
<1>0. T \in Seq(Lists \cup {Nobody}) /\ Len(T) = Len(ts) /\ Len(ts) \in Nat
  BY DEF TableTyped, TableHolds
<1>a. DOMAIN T = 1..Len(ts)
  BY <1>0
<1>b. \A i \in 1..Len(ts) : T[i] # Nobody
  BY DEF TableHolds
<1>1. /\ T \in Seq(Lists \cup {Nobody}) /\ Len(T) = Len(ts) /\ DOMAIN T = 1..Len(ts) /\ Len(ts) \in Nat
      /\ \A i \in 1..Len(ts) : T[i] # Nobody
  BY <1>0, <1>a, <1>b
<1>2. CASE Contains(ts, t)
  <2>1. WithType(ts, t) = ts /\ Id(ts, t) \in 1..Len(ts)
    BY <1>2, WithTypeIs, IdIs
  <2>2. WithList(T, Id(ts, t)) = T
    BY <1>1, <2>1 DEF WithList
  <2> QED
    BY <2>1, <2>2
<1>3. CASE ~Contains(ts, t)
  <2>1. PICK u : u = WithType(ts, t)
    OBVIOUS
  <2>2. PICK n \in Nat : n = Len(ts) + 1
    BY <1>1
  <2>3. /\ Len(u) = n /\ u[n] = t /\ Id(u, t) = n
        /\ \A i \in 1..Len(ts) : u[i] = ts[i]
    <3>1. /\ Extends(ts, WithType(ts, t)) /\ Len(WithType(ts, t)) = Len(ts) + 1
          /\ WithType(ts, t)[Len(ts) + 1] = t /\ Id(WithType(ts, t), t) = Len(ts) + 1
      BY <1>3, WithTypeIs
    <3>2. \A i \in 1..Len(ts) : u[i] = ts[i]
      BY <2>1, <3>1 DEF Extends
    <3> QED
      BY <2>1, <2>2, <3>1, <3>2
  <2>8. PICK W : W = WithList(T, n)
    OBVIOUS
  <2>9. /\ Len(W) = n /\ W[n] = EmptyList
        /\ \A i \in 1..Len(ts) : W[i] = T[i]
    BY <1>0, <2>2, <2>8, WithListNext
  <2>10. {r \in subs : Kind[r] = t} = {}
    BY <1>3
  <2>11. ASSUME NEW i \in 1..n PROVE W[i] # Nobody /\ Holds(W[i], {r \in subs : Kind[r] = u[i]})
    <3>1. CASE i = n
      BY <2>3, <2>9, <2>10, <3>1, EmptyListHolds
    <3>2. CASE i # n
      <4>1. i \in 1..Len(ts) /\ W[i] = T[i] /\ u[i] = ts[i]
        BY <1>1, <2>2, <2>3, <2>9, <3>2
      <4> QED
        BY <4>1 DEF TableHolds
    <3> QED
      BY <3>1, <3>2
  <2>12. TableHolds(u, W, subs)
    BY <2>3, <2>9, <2>11 DEF TableHolds
  <2> QED
    BY <2>1, <2>3, <2>8, <2>9, <2>12
<1> QED
  BY <1>2, <1>3

-----------------------------------------------------------------------------
(* The invariant.                                                          *)

(* What holds whatever is called.                                          *)
Shapes ==
  /\ eventTypes \in Seq(Types) /\ IsInjective(eventTypes)
  /\ \A f, t : <<f, t>> \in cached => t \in Types /\ Contains(eventTypes, t)
  /\ lists \in [Managers -> Seq(Lists \cup {Nobody})]
  /\ \A m \in Managers : TableTyped(lists[m])
  /\ events \in [Receivers -> Managers \cup {Nobody}]
  /\ live \subseteq Receivers
  /\ subscribed \in [Managers -> SUBSET Receivers]
  /\ used \subseteq Managers
  /\ gone \subseteq Managers

Posts == [manager : Managers, type : Types, next : Nat, end : Nat, got : Seq(Receivers)]

(* No other manager was used, so that the types have ids in its table.     *)
Current(m) == m \notin gone /\ used \subseteq {m}

(* A post has called the receivers before its position, in a list that has *)
(* not changed since.                                                      *)
PostRight(p) ==
  /\ p.manager \in used /\ p.manager \notin gone /\ Contains(eventTypes, p.type)
  /\ LET L == lists[p.manager][Id(eventTypes, p.type)]
     IN /\ p.end = L.size /\ p.next \in 1..(p.end + 1) /\ Len(p.got) = p.next - 1
        /\ \A k \in 1..Len(p.got) : p.got[k] = L.memory[k]

Right ==
  /\ ~broken
  /\ posts \in Seq(Posts) /\ \A k \in 1..Len(posts) : PostRight(posts[k])
  /\ \A m, o \in used : m = o
  /\ \A m \in Managers : Current(m) => TableHolds(eventTypes, lists[m], subscribed[m])
  /\ \A m \in Managers : \A r \in subscribed[m] :
       m \in used /\ m \notin gone /\ r \in live /\ events[r] = m /\ Contains(eventTypes, Kind[r])
  /\ \A r \in Receivers : events[r] # Nobody => events[r] \in used

EventsInv == Shapes /\ (~misused => Right)

(* No type, list or post at first.                                         *)
LEMMA EventsStart ==
  ASSUME EventsAssumption, EventsInit
  PROVE  EventsInv
<1>1. eventTypes = <<>> /\ eventTypes \in Seq(Types) /\ IsInjective(eventTypes) /\ Len(eventTypes) = 0
  BY DEF EventsInit, IsInjective
<1>2. \A m \in Managers : lists[m] = <<>> /\ TableTyped(lists[m]) /\ subscribed[m] = {}
  BY DEF EventsInit, TableTyped
<1>3. Shapes
  <2>1. lists \in [Managers -> Seq(Lists \cup {Nobody})]
    BY DEF EventsInit
  <2> QED
    BY <1>1, <1>2, <2>1 DEF EventsInit, Shapes
<1>4. Right
  <2>1. ~broken
    BY Zenon DEF EventsInit
  <2>2. posts \in Seq(Posts) /\ Len(posts) = 0
    BY DEF EventsInit
  <2>3. \A m \in Managers : TableHolds(eventTypes, lists[m], subscribed[m])
    BY <1>1, <1>2 DEF TableHolds
  <2> QED
    BY <1>2, <2>1, <2>2, <2>3 DEF EventsInit, Right
<1> QED
  BY <1>3, <1>4 DEF EventsInv

(* What entering a function for a type leaves.                             *)
LEMMA EnterTyped ==
  ASSUME EventsAssumption, Shapes, NEW m \in Managers, NEW f, NEW t \in Types, Enter(f, t)
  PROVE  /\ Extends(eventTypes, eventTypes') /\ Contains(eventTypes', t)
         /\ \A g, u : <<g, u>> \in cached' => u \in Types /\ Contains(eventTypes', u)
         /\ TableTyped(Entered(m, f, t))
         /\ Id(eventTypes', t) \in 1..Len(eventTypes')
<1>1. eventTypes \in Seq(Types) /\ IsInjective(eventTypes) /\ TableTyped(lists[m])
  BY DEF Shapes
<1>2. CASE <<f, t>> \in cached
  <2>1. eventTypes' = eventTypes /\ cached' = cached /\ Contains(eventTypes, t)
    BY <1>2 DEF Enter, Shapes
  <2>2. Id(eventTypes, t) \in 1..Len(eventTypes)
    BY <1>1, <2>1, IdIs
  <2> QED
    BY <1>1, <1>2, <2>1, <2>2 DEF Shapes, Extends, Entered
<1>3. CASE <<f, t>> \notin cached
  <2>1. eventTypes' = WithType(eventTypes, t) /\ cached' = cached \cup {<<f, t>>}
    BY <1>3 DEF Enter
  <2>2. Extends(eventTypes, eventTypes') /\ Contains(eventTypes', t)
    BY <1>1, <2>1, WithTypeIs
  <2>3. Id(eventTypes', t) \in 1..Len(eventTypes')
    BY <2>2, IdIs DEF Extends
  <2>4. TableTyped(Entered(m, f, t))
    <3>1. Entered(m, f, t) = WithList(lists[m], Id(eventTypes', t))
      BY <1>3, <2>1 DEF Entered
    <3>2. Id(eventTypes', t) \in Nat /\ Id(eventTypes', t) > 0
      BY <2>3
    <3> QED
      BY <1>1, <3>1, <3>2, WithListTyped
  <2>5. ASSUME NEW g, NEW u, <<g, u>> \in cached' PROVE u \in Types /\ Contains(eventTypes', u)
    <3>1. CASE <<g, u>> \in cached
      BY <1>1, <2>2, <3>1, IdStays DEF Shapes
    <3>2. CASE <<g, u>> \notin cached
      <4>1. u = t
        BY <2>1, <2>5, <3>2
      <4> QED
        BY <2>2, <4>1
    <3> QED
      BY <3>1, <3>2
  <2> QED
    BY <2>2, <2>3, <2>4, <2>5
<1> QED
  BY <1>2, <1>3

(* The only manager in use has a list for every id afterwards.             *)
LEMMA EnterHolds ==
  ASSUME EventsAssumption, Shapes, Right, NEW m \in Managers, Current(m),
         NEW f, NEW t \in Types, Enter(f, t)
  PROVE  /\ TableHolds(eventTypes', Entered(m, f, t), subscribed[m])
         /\ \A i \in 1..Len(eventTypes) : Entered(m, f, t)[i] = lists[m][i]
<1>1. /\ eventTypes \in Seq(Types) /\ IsInjective(eventTypes) /\ TableTyped(lists[m])
      /\ subscribed[m] \in SUBSET Receivers /\ \A r \in subscribed[m] : Contains(eventTypes, Kind[r])
      /\ TableHolds(eventTypes, lists[m], subscribed[m])
  BY DEF Shapes, Right
<1>2. CASE <<f, t>> \in cached
  <2>1. eventTypes' = eventTypes /\ Entered(m, f, t) = lists[m]
    BY <1>2 DEF Enter, Entered
  <2> QED
    BY <1>1, <2>1
<1>3. CASE <<f, t>> \notin cached
  <2>1. /\ eventTypes' = WithType(eventTypes, t)
        /\ Entered(m, f, t) = WithList(lists[m], Id(WithType(eventTypes, t), t))
    BY <1>3 DEF Enter, Entered
  <2> QED
    BY <1>1, <2>1, WithListHolds
<1> QED
  BY <1>2, <1>3

(* A list of the table is replaced.                                        *)
LEMMA TableSetTyped ==
  ASSUME NEW T, TableTyped(T), NEW tid, NEW L, ListTyped(L)
  PROVE  TableTyped([T EXCEPT ![tid] = L]) /\ Len([T EXCEPT ![tid] = L]) = Len(T)
<1>1. T \in Seq(Lists \cup {Nobody}) /\ L \in Lists /\ Len(T) \in Nat /\ DOMAIN T = 1..Len(T)
  BY DEF TableTyped, ListTyped
<1>2. PICK W : W = [T EXCEPT ![tid] = L]
  OBVIOUS
<1>3. \A i \in 1..Len(T) : W[i] = IF i = tid THEN L ELSE T[i]
  BY <1>1, <1>2
<1>4. \A i \in 1..Len(T) : W[i] \in Lists \cup {Nobody}
  BY <1>1, <1>3
<1>5. W \in [1..Len(T) -> Lists \cup {Nobody}]
  BY <1>1, <1>2, <1>4
<1>6. W \in Seq(Lists \cup {Nobody}) /\ Len(W) = Len(T)
  BY <1>1, <1>5
<1> QED
  BY <1>2, <1>3, <1>6 DEF TableTyped

(* The table is right if the new list has the receivers of its type.       *)
LEMMA TableSetHolds ==
  ASSUME EventsAssumption, NEW ts \in Seq(Types), IsInjective(ts), NEW T, TableTyped(T),
         NEW subs, TableHolds(ts, T, subs), NEW t, Contains(ts, t),
         NEW new, \A r : Kind[r] # t => (r \in subs <=> r \in new),
         NEW L, Holds(L, {r \in new : Kind[r] = t})
  PROVE  TableHolds(ts, [T EXCEPT ![Id(ts, t)] = L], new)
<1>1. PICK tid : tid = Id(ts, t)
  OBVIOUS
<1>2. PICK W : W = [T EXCEPT ![tid] = L]
  OBVIOUS
<1>3. tid \in 1..Len(ts) /\ ts[tid] = t /\ \A i \in 1..Len(ts) : ts[i] = t => i = tid
  BY <1>1, IdIs DEF IsInjective
<1>4. ListTyped(L) /\ L # Nobody
  BY DEF Holds, ListTyped, EventsAssumption
<1>5. /\ T \in Seq(Lists \cup {Nobody}) /\ Len(T) = Len(ts) /\ Len(ts) \in Nat
      /\ Len(W) = Len(ts)
  BY <1>2, <1>4, TableSetTyped DEF TableTyped, TableHolds
<1>6. \A i \in 1..Len(ts) : W[i] = IF i = tid THEN L ELSE T[i]
  BY <1>2, <1>5
<1>7. ASSUME NEW i \in 1..Len(ts)
      PROVE  W[i] # Nobody /\ Holds(W[i], {r \in new : Kind[r] = ts[i]})
  <2>1. CASE i = tid
    BY <1>3, <1>4, <1>6, <2>1
  <2>2. CASE i # tid
    <3>1. {r \in new : Kind[r] = ts[i]} = {r \in subs : Kind[r] = ts[i]}
      BY <1>3, <2>2
    <3> QED
      BY <1>6, <2>2, <3>1 DEF TableHolds
  <2> QED
    BY <2>1, <2>2
<1> QED
  BY <1>1, <1>2, <1>5, <1>7 DEF TableHolds

(* The lists of m that posts walk are the same in T.                       *)
Untouched(m, T) ==
  \A i \in DOMAIN posts :
    LET tid == Id(eventTypes, posts[i].type) IN tid \in DOMAIN T /\ T[tid] = lists[m][tid]

(* A table that differs in the list of one type, which no post walks.      *)
LEMMA Untouches ==
  ASSUME Shapes, Right, NEW m \in Managers, Current(m),
         NEW T, TableTyped(T), Len(eventTypes) <= Len(T),
         NEW t, \A i \in 1..Len(eventTypes) :
                  T[i] = lists[m][i] \/ (eventTypes[i] = t /\ Walking(m, t) = {})
  PROVE  Untouched(m, T)
<1> SUFFICES ASSUME NEW i \in DOMAIN posts
             PROVE  /\ Id(eventTypes, posts[i].type) \in DOMAIN T
                    /\ T[Id(eventTypes, posts[i].type)] = lists[m][Id(eventTypes, posts[i].type)]
  BY DEF Untouched
<1>1. posts[i].manager = m /\ Contains(eventTypes, posts[i].type)
  BY DEF Right, PostRight, Current
<1>2. PICK tid : tid = Id(eventTypes, posts[i].type)
  OBVIOUS
<1>3. eventTypes \in Seq(Types) /\ T \in Seq(Lists \cup {Nobody})
  BY DEF Shapes, TableTyped
<1>4. tid \in 1..Len(eventTypes) /\ eventTypes[tid] = posts[i].type
  BY <1>1, <1>2, <1>3, IdIs
<1>5. tid \in DOMAIN T
  BY <1>3, <1>4
<1>6. i \in Walking(m, posts[i].type)
  BY <1>1 DEF Walking
<1> QED
  BY <1>2, <1>4, <1>5, <1>6

(* Posts are as right as they were if the lists they walk are the same.    *)
LEMMA PostsKept ==
  ASSUME EventsAssumption, Shapes, Right, NEW m \in Managers, Current(m),
         NEW T, Untouched(m, T), Extends(eventTypes, eventTypes'),
         lists' = [lists EXCEPT ![m] = T], used' = {m}, gone' = gone
  PROVE  /\ ~PulledAway(m, T)
         /\ \A k \in 1..Len(posts) : \A p : p = posts[k] => PostRight(p)'
<1>1. eventTypes \in Seq(Types) /\ lists'[m] = T /\ m \notin gone
  BY DEF Shapes, Current
<1>2. TableHolds(eventTypes, lists[m], subscribed[m])
  BY DEF Right
<1>3. ASSUME NEW k \in 1..Len(posts)
      PROVE  /\ posts[k].manager = m /\ Contains(eventTypes, posts[k].type)
             /\ Id(eventTypes, posts[k].type) \in 1..Len(eventTypes)
             /\ Id(eventTypes, posts[k].type) \in DOMAIN T
             /\ T[Id(eventTypes, posts[k].type)] = lists[m][Id(eventTypes, posts[k].type)]
  <2>1. posts[k].manager = m /\ Contains(eventTypes, posts[k].type)
    BY DEF Right, PostRight, Current
  <2>2. Id(eventTypes, posts[k].type) \in 1..Len(eventTypes)
    BY <1>1, <2>1, IdIs
  <2>3. k \in DOMAIN posts
    BY DEF Right
  <2> QED
    BY <2>1, <2>2, <2>3 DEF Untouched
<1>4. ~PulledAway(m, T)
  <2>1. SUFFICES ASSUME NEW i \in DOMAIN posts
                 PROVE  LET tid == Id(eventTypes, posts[i].type) IN
                        /\ tid \in DOMAIN T /\ T[tid] # Nobody
                        /\ Len(T[tid].memory) = Len(lists[m][tid].memory)
    BY DEF PulledAway
  <2>2. i \in 1..Len(posts)
    BY DEF Right
  <2> QED
    BY <1>2, <1>3, <2>2 DEF TableHolds
<1>5. ASSUME NEW k \in 1..Len(posts), NEW p, p = posts[k] PROVE PostRight(p)'
  <2>1. PostRight(p)
    BY <1>5 DEF Right
  <2>2. /\ Id(eventTypes', p.type) = Id(eventTypes, p.type) /\ Contains(eventTypes', p.type)
        /\ p.manager = m /\ T[Id(eventTypes, p.type)] = lists[m][Id(eventTypes, p.type)]
    BY <1>1, <1>3, <1>5, IdStays
  <2>3. lists'[p.manager][Id(eventTypes', p.type)] = lists[p.manager][Id(eventTypes, p.type)]
    BY <1>1, <2>2
  <2> QED
    BY <1>1, <2>1, <2>2, <2>3 DEF PostRight
<1> QED
  BY <1>4, <1>5

(* A call that uses manager m and leaves it the table T.                   *)
LEMMA ShapesKept ==
  ASSUME Shapes, NEW m \in Managers, NEW T, TableTyped(T), lists' = [lists EXCEPT ![m] = T],
         Extends(eventTypes, eventTypes'),
         \A f, t : <<f, t>> \in cached' => t \in Types /\ Contains(eventTypes', t),
         events' \in [Receivers -> Managers \cup {Nobody}], live' \subseteq live,
         subscribed' \in [Managers -> SUBSET Receivers],
         used' \subseteq Managers, gone' \subseteq Managers
  PROVE  Shapes'
<1>1. lists \in [Managers -> Seq(Lists \cup {Nobody})] /\ T \in Seq(Lists \cup {Nobody})
  BY DEF Shapes, TableTyped
<1>2. lists' \in [Managers -> Seq(Lists \cup {Nobody})]
  BY <1>1
<1>3. \A o \in Managers : lists'[o] = IF o = m THEN T ELSE lists[o]
  BY <1>1
<1>4. ASSUME NEW o \in Managers PROVE TableTyped(lists'[o])
  BY <1>3 DEF Shapes
<1>5. eventTypes' \in Seq(Types) /\ IsInjective(eventTypes')
  BY DEF Extends
<1>6. live' \subseteq Receivers
  BY DEF Shapes
<1>7. \A o \in Managers : TableTyped(lists[o])'
  BY <1>4 DEF TableTyped, ListTyped
<1>8. IsInjective(eventTypes)'
  BY <1>5 DEF IsInjective
<1>9. \A f, t : (<<f, t>> \in cached)' => t \in Types /\ Contains(eventTypes, t)'
  BY DEF Contains
<1> QED
  BY <1>2, <1>5, <1>6, <1>7, <1>8, <1>9 DEF Shapes

(* and all is right afterwards if its table and its posts are.             *)
LEMMA RightKept ==
  ASSUME EventsAssumption, Shapes, Right, NEW m \in Managers, Current(m),
         NEW T, lists' = [lists EXCEPT ![m] = T], used' = {m}, gone' = gone, ~broken',
         posts' \in Seq(Posts), \A k \in 1..Len(posts') : \A p : p = posts'[k] => PostRight(p)',
         TableHolds(eventTypes', T, subscribed'[m]),
         NEW S, subscribed' = [subscribed EXCEPT ![m] = S],
         \A r \in S : r \in live' /\ events'[r] = m /\ Contains(eventTypes', Kind[r]),
         \A r \in Receivers : events'[r] # Nobody => events'[r] = m
  PROVE  Right'
<1>1. m \notin gone /\ \A o \in used : o = m
  BY DEF Current
<1>2. lists'[m] = T /\ subscribed'[m] = S /\ \A o \in Managers : o # m => subscribed'[o] = subscribed[o]
  BY DEF Shapes
<1>3. \A o \in Managers : o # m => subscribed[o] = {}
  BY <1>1 DEF Right
<1>4. \A o \in Managers : Current(o)' => o = m
  BY DEF Current
<1>5. \A k \in 1..Len(posts') : PostRight(posts[k])'
  OBVIOUS
<1>6. ASSUME NEW o \in Managers, Current(o)' PROVE TableHolds(eventTypes, lists[o], subscribed[o])'
  <2>1. TableHolds(eventTypes', lists'[o], subscribed'[o])
    BY <1>2, <1>4, <1>6
  <2> QED
    BY <2>1, Zenon DEF TableHolds, Holds, ListTyped
<1>7. \A o \in Managers : \A r \in subscribed'[o] :
         o \in used' /\ o \notin gone' /\ r \in live' /\ events'[r] = o /\ Contains(eventTypes', Kind[r])
  BY <1>1, <1>2, <1>3
<1>8. \A r \in Receivers : events'[r] # Nobody => events'[r] \in used'
  OBVIOUS
<1>9. \A o, q \in used' : o = q
  OBVIOUS
<1> QED
  BY <1>5, <1>6, <1>7, <1>8, <1>9 DEF Right, Contains

-----------------------------------------------------------------------------
(* The steps.                                                              *)
LEMMA RegisterNameKeeps ==
  ASSUME EventsAssumption, EventsInv, NEW t \in Types, RegisterName(t)
  PROVE  EventsInv'
<1>1. /\ eventTypes' = WithType(eventTypes, t) /\ cached' = cached /\ misused'
      /\ lists' = lists /\ events' = events /\ live' = live /\ subscribed' = subscribed
      /\ used' = used /\ gone' = gone
  BY DEF RegisterName, WithType
<1>2. Shapes /\ Extends(eventTypes, eventTypes')
  BY <1>1, WithTypeIs DEF EventsInv, Shapes
<1>3. \A f, u : <<f, u>> \in cached' => u \in Types /\ Contains(eventTypes', u)
  BY <1>1, <1>2, IdStays DEF Shapes
<1>4. ASSUME NEW m \in Managers PROVE Shapes'
  <2>1. lists' = [lists EXCEPT ![m] = lists[m]] /\ TableTyped(lists[m])
    BY <1>1, <1>2 DEF Shapes
  <2> QED
    BY <1>1, <1>2, <1>3, <2>1, ShapesKept DEF Shapes
<1>5. CASE Managers = {}
  BY <1>1, <1>2, <1>3, <1>5 DEF Shapes, Extends, EventsInv, Contains, IsInjective
<1> QED
  BY <1>1, <1>4, <1>5 DEF EventsInv

LEMMA RegisterTypeKeeps ==
  ASSUME EventsAssumption, EventsInv, NEW m \in Managers, NEW t \in Types, RegisterType(m, t)
  PROVE  EventsInv'
<1> DEFINE T == WithList(lists[m], Id(eventTypes', t))
<1>1. /\ eventTypes' = WithType(eventTypes, t) /\ cached' = cached
      /\ lists' = [lists EXCEPT ![m] = T] /\ broken' = PulledAway(m, lists'[m])
      /\ events' = events /\ live' = live /\ subscribed' = subscribed
      /\ posts' = posts /\ gone' = gone
  BY DEF RegisterType
<1>2. used' = used \cup {m} /\ (~misused' => ~misused /\ used' = {m} /\ Current(m))
  BY DEF RegisterType, Use, Current
<1>3. Shapes /\ eventTypes \in Seq(Types) /\ IsInjective(eventTypes) /\ TableTyped(lists[m])
  BY DEF EventsInv, Shapes
<1>4. Extends(eventTypes, eventTypes') /\ Contains(eventTypes', t)
  BY <1>1, <1>3, WithTypeIs
<1>5. Id(eventTypes', t) \in 1..Len(eventTypes')
  BY <1>4, IdIs DEF Extends
<1>6. TableTyped(T)
  BY <1>3, <1>5, WithListTyped
<1>7. \A f, u : <<f, u>> \in cached' => u \in Types /\ Contains(eventTypes', u)
  BY <1>1, <1>3, <1>4, IdStays DEF Shapes
<1> HIDE DEF T
<1>8. Shapes'
  BY <1>1, <1>2, <1>3, <1>4, <1>6, <1>7, ShapesKept DEF Shapes
<1>9. ASSUME ~misused' PROVE Right'
  <2>1. Right /\ Current(m) /\ used' = {m}
    BY <1>2, <1>9 DEF EventsInv
  <2>2. /\ TableHolds(eventTypes', T, subscribed[m])
        /\ \A i \in 1..Len(eventTypes) : T[i] = lists[m][i]
    <3>1. /\ subscribed[m] \in SUBSET Receivers /\ \A r \in subscribed[m] : Contains(eventTypes, Kind[r])
          /\ TableHolds(eventTypes, lists[m], subscribed[m])
      BY <1>3, <2>1 DEF Shapes, Right
    <3> QED
      BY <1>1, <1>3, <3>1, WithListHolds DEF T
  <2>3. Untouched(m, T)
    <3>1. Len(eventTypes) <= Len(T)
      BY <1>4, <2>2 DEF TableHolds, Extends
    <3> QED
      BY <1>3, <1>6, <2>1, <2>2, <3>1, Untouches
  <2>4. ~PulledAway(m, T) /\ \A k \in 1..Len(posts) : \A p : p = posts[k] => PostRight(p)'
    BY <1>1, <1>3, <1>4, <2>1, <2>3, PostsKept
  <2>5. ~broken'
    <3>1. lists'[m] = T
      BY <1>1, <1>3 DEF Shapes
    <3> QED
      BY <1>1, <2>4, <3>1, Zenon
  <2>6. /\ posts' \in Seq(Posts) /\ \A k \in 1..Len(posts') : \A p : p = posts'[k] => PostRight(p)'
    BY <1>1, <2>1, <2>4 DEF Right
  <2>7. subscribed' = [subscribed EXCEPT ![m] = subscribed[m]] /\ subscribed'[m] = subscribed[m]
    BY <1>1, <1>3 DEF Shapes
  <2>8. \A r \in subscribed[m] : r \in live' /\ events'[r] = m /\ Contains(eventTypes', Kind[r])
    BY <1>1, <1>3, <1>4, <2>1, IdStays DEF Right
  <2>9. \A r \in Receivers : events'[r] # Nobody => events'[r] = m
    BY <1>1, <2>1 DEF Right, Current
  <2> QED
    BY <1>1, <1>3, <2>1, <2>2, <2>5, <2>6, <2>7, <2>8, <2>9, RightKept
<1> QED
  BY <1>8, <1>9 DEF EventsInv

LEMMA SubscribeKeeps ==
  ASSUME EventsAssumption, EventsInv, NEW m \in Managers, NEW r \in Receivers, Subscribe(m, r)
  PROVE  EventsInv'
<1> DEFINE t == Kind[r]
           table == Entered(m, "subscribe", t)
           tid == Id(eventTypes', t)
           T == [table EXCEPT ![tid] = Added(table[tid], r)]
           S == subscribed[m] \cup {r}
<1>1. /\ r \in live /\ Enter("subscribe", t)
      /\ \/ /\ HasList(table, eventTypes', t)
            /\ lists' = [lists EXCEPT ![m] = T] /\ broken' = PulledAway(m, lists'[m])
         \/ ~HasList(table, eventTypes', t) /\ lists' = lists
      /\ events' = [events EXCEPT ![r] = m] /\ subscribed' = [subscribed EXCEPT ![m] = S]
      /\ live' = live /\ posts' = posts /\ gone' = gone
  BY DEF Subscribe
<1>2. /\ used' = used \cup {m}
      /\ ~misused' => /\ ~misused /\ used' = {m} /\ Current(m)
                      /\ Walking(m, t) = {} /\ \A o \in Managers : r \notin subscribed[o]
  BY DEF Subscribe, Use, Current
<1>3. /\ Shapes /\ eventTypes \in Seq(Types) /\ IsInjective(eventTypes) /\ TableTyped(lists[m])
      /\ t \in Types /\ S \subseteq Receivers
  BY DEF EventsInv, Shapes, EventsAssumption
<1> HIDE DEF t
<1>4. /\ Extends(eventTypes, eventTypes') /\ Contains(eventTypes', t)
      /\ \A g, u : <<g, u>> \in cached' => u \in Types /\ Contains(eventTypes', u)
      /\ TableTyped(table) /\ tid \in 1..Len(eventTypes')
  BY <1>1, <1>3, EnterTyped
<1> HIDE DEF table, tid
<1>5. HasList(table, eventTypes', t) <=> tid \in DOMAIN table /\ table[tid] # Nobody
  BY DEF HasList, tid
<1>6. ASSUME HasList(table, eventTypes', t)
      PROVE  ListTyped(Added(table[tid], r)) /\ TableTyped(T) /\ Len(T) = Len(table)
  <2>1. ListTyped(table[tid])
    BY <1>4, <1>5, <1>6 DEF TableTyped
  <2>2. ListTyped(Added(table[tid], r))
    BY <2>1, AddedIs
  <2> QED
    BY <1>4, <2>2, TableSetTyped
<1> HIDE DEF T, S
<1>7. Shapes'
  <2>1. PICK V : TableTyped(V) /\ lists' = [lists EXCEPT ![m] = V]
    <3>1. lists = [lists EXCEPT ![m] = lists[m]]
      BY <1>3 DEF Shapes
    <3> QED
      BY <1>1, <1>3, <1>6, <3>1
  <2>2. events' \in [Receivers -> Managers \cup {Nobody}] /\ subscribed' \in [Managers -> SUBSET Receivers]
    BY <1>1, <1>3 DEF Shapes
  <2>3. used' \subseteq Managers /\ gone' \subseteq Managers /\ live' \subseteq live
    BY <1>1, <1>2, <1>3 DEF Shapes
  <2> QED
    BY <1>3, <1>4, <2>1, <2>2, <2>3, ShapesKept
<1>8. ASSUME ~misused' PROVE Right'
  <2>1. /\ Right /\ Current(m) /\ used' = {m} /\ Walking(m, t) = {}
        /\ r \notin subscribed[m] /\ subscribed[m] \subseteq Receivers
    BY <1>2, <1>3, <1>8 DEF EventsInv, Shapes
  <2>2. /\ TableHolds(eventTypes', table, subscribed[m])
        /\ \A i \in 1..Len(eventTypes) : table[i] = lists[m][i]
    BY <1>1, <1>3, <2>1, EnterHolds DEF table
  <2>3. table[tid] # Nobody /\ eventTypes'[tid] = t /\ Holds(table[tid], {x \in subscribed[m] : Kind[x] = t})
    <3>1. eventTypes'[tid] = t
      BY <1>4, IdIs DEF tid, Extends
    <3> QED
      BY <1>4, <2>2, <3>1 DEF TableHolds
  <2>4. tid \in DOMAIN table
    BY <1>4, <2>2 DEF TableHolds, TableTyped
  <2>5. lists' = [lists EXCEPT ![m] = T] /\ (broken' <=> PulledAway(m, T))
    <3>1. HasList(table, eventTypes', t)
      BY <1>5, <2>3, <2>4
    <3>2. lists' = [lists EXCEPT ![m] = T] /\ broken' = PulledAway(m, lists'[m])
      BY <1>1, <3>1 DEF T
    <3>3. lists'[m] = T
      BY <1>3, <3>2 DEF Shapes
    <3> QED
      BY <3>2, <3>3
  <2>6. TableHolds(eventTypes', T, S)
    <3>1. {x \in S : Kind[x] = t} = {x \in subscribed[m] : Kind[x] = t} \cup {r}
      BY DEF S, t
    <3>2. Holds(Added(table[tid], r), {x \in S : Kind[x] = t})
      BY <2>1, <2>3, <3>1, AddedHolds
    <3>3. \A x : Kind[x] # t => (x \in subscribed[m] <=> x \in S)
      BY DEF S, t
    <3>4. eventTypes' \in Seq(Types) /\ IsInjective(eventTypes')
      BY <1>4 DEF Extends
    <3>5. TableHolds(eventTypes', [table EXCEPT ![Id(eventTypes', t)] = Added(table[tid], r)], S)
      BY <1>4, <2>2, <3>2, <3>3, <3>4, TableSetHolds
    <3> QED
      BY <3>5 DEF T, tid
  <2>7. TableTyped(T) /\ Len(T) = Len(table)
    BY <1>5, <1>6, <2>3, <2>4
  <2>8. Untouched(m, T)
    <3>1. table \in Seq(Lists \cup {Nobody}) /\ Len(table) = Len(eventTypes') /\ Len(eventTypes) <= Len(eventTypes')
      BY <1>4, <2>2 DEF TableTyped, TableHolds, Extends
    <3>2. ASSUME NEW i \in 1..Len(eventTypes)
          PROVE  T[i] = lists[m][i] \/ (eventTypes[i] = t /\ Walking(m, t) = {})
      <4>1. CASE i = tid
        BY <1>4, <2>1, <2>3, <4>1 DEF Extends
      <4>2. CASE i # tid
        <5>1. i \in DOMAIN table
          BY <1>3, <3>1
        <5>2. T[i] = table[i]
          BY <4>2, <5>1 DEF T
        <5> QED
          BY <2>2, <5>2
      <4> QED
        BY <4>1, <4>2
    <3> QED
      BY <1>3, <2>1, <2>7, <3>1, <3>2, Untouches
  <2>9. ~PulledAway(m, T) /\ \A k \in 1..Len(posts) : \A p : p = posts[k] => PostRight(p)'
    BY <1>1, <1>3, <1>4, <2>1, <2>5, <2>8, PostsKept
  <2>10. /\ posts' \in Seq(Posts) /\ \A k \in 1..Len(posts') : \A p : p = posts'[k] => PostRight(p)'
    BY <1>1, <2>1, <2>9 DEF Right
  <2>11. subscribed'[m] = S
    BY <1>1, <1>3 DEF Shapes
  <2>12. \A x \in S : x \in live' /\ events'[x] = m /\ Contains(eventTypes', Kind[x])
    <3>1. \A x \in subscribed[m] : x \in live' /\ events'[x] = m /\ Contains(eventTypes', Kind[x])
      <4>1. \A x \in subscribed[m] : x \in live /\ events[x] = m /\ Contains(eventTypes, Kind[x])
        BY <2>1 DEF Right
      <4>2. \A x \in subscribed[m] : Contains(eventTypes', Kind[x])
        BY <1>3, <1>4, <4>1, IdStays
      <4> QED
        BY <1>1, <1>3, <2>1, <4>1, <4>2 DEF Shapes
    <3>2. r \in live' /\ events'[r] = m /\ Contains(eventTypes', Kind[r])
      BY <1>1, <1>3, <1>4 DEF Shapes, t
    <3> QED
      BY <3>1, <3>2 DEF S
  <2>13. \A x \in Receivers : events'[x] # Nobody => events'[x] = m
    BY <1>1, <1>3, <2>1 DEF Right, Current, Shapes
  <2>14. ~broken'
    BY <2>5, <2>9, Zenon
  <2>15. TableHolds(eventTypes', T, subscribed'[m])
    BY <2>6, <2>11
  <2> QED
    BY <1>1, <1>3, <2>1, <2>5, <2>10, <2>12, <2>13, <2>14, <2>15, RightKept
<1> QED
  BY <1>7, <1>8 DEF EventsInv

LEMMA UnsubscribeKeeps ==
  ASSUME EventsAssumption, EventsInv, NEW r \in Receivers, NEW remaining,
         remaining \subseteq live, live \ {r} \subseteq remaining, Unsubscribe(r, remaining)
  PROVE  EventsInv'
<1> DEFINE m == events[r]
           t == Kind[r]
           table == Entered(m, "unsubscribe", t)
           tid == Id(eventTypes', t)
           T == [table EXCEPT ![tid] = Erased(table[tid], r)]
           S == subscribed[m] \ {r}
<1>0. m \in Managers \cup {Nobody} /\ t \in Types
  BY DEF EventsInv, Shapes, EventsAssumption
<1>a. Shapes /\ eventTypes \in Seq(Types) /\ IsInjective(eventTypes)
  BY DEF EventsInv, Shapes
<1>b. live' = remaining /\ events' = events /\ posts' = posts /\ gone' = gone
  BY DEF Unsubscribe
<1>c. CASE m = Nobody \/ m \in gone
  <2>1. /\ eventTypes' = eventTypes /\ cached' = cached /\ lists' = lists /\ used' = used
        /\ subscribed' = subscribed /\ (broken' <=> broken) /\ (misused' <=> misused)
    BY <1>c DEF Unsubscribe
  <2>2. Shapes'
    BY <1>a, <1>b, <2>1 DEF Shapes, IsInjective, Contains, TableTyped, ListTyped
  <2>3. ASSUME ~misused' PROVE Right'
    <3>1. Right
      BY <2>1, <2>3 DEF EventsInv
    <3>2. ASSUME NEW o \in Managers, NEW x \in subscribed[o] PROVE x \in live'
      <4>1. o \notin gone /\ events[x] = o /\ x \in live /\ o # Nobody
        BY <3>1 DEF Right, EventsAssumption
      <4>2. x # r
        BY <1>c, <4>1
      <4> QED
        BY <1>b, <4>1, <4>2
    <3>3. ASSUME NEW k \in 1..Len(posts) PROVE PostRight(posts[k])'
      <4>1. PostRight(posts[k])
        BY <3>1 DEF Right
      <4> QED
        BY <1>b, <2>1, <4>1 DEF PostRight, Contains
    <3>4. ~broken'
      BY <2>1, <3>1 DEF Right
    <3>5. ASSUME NEW o \in Managers, Current(o)' PROVE TableHolds(eventTypes, lists[o], subscribed[o])'
      <4>1. Current(o)
        BY <1>b, <2>1, <3>5 DEF Current
      <4>2. TableHolds(eventTypes, lists[o], subscribed[o])
        BY <3>1, <4>1 DEF Right
      <4>3. UNCHANGED <<eventTypes, lists, subscribed>>
        BY <2>1
      <4>4. TableHolds(eventTypes', lists'[o], subscribed'[o])
        BY <4>2, <4>3
      <4> QED
        BY <4>4, Zenon DEF TableHolds, Holds, ListTyped
    <3> QED
      BY <1>b, <2>1, <3>1, <3>2, <3>3, <3>4, <3>5 DEF Right, Contains
  <2> QED
    BY <2>2, <2>3 DEF EventsInv
<1>d. CASE m \in Managers /\ m \notin gone /\ m # Nobody
  <2>1. /\ r \in live /\ Enter("unsubscribe", t)
        /\ \/ /\ HasList(table, eventTypes', t)
              /\ lists' = [lists EXCEPT ![m] = T] /\ broken' = PulledAway(m, lists'[m])
           \/ ~HasList(table, eventTypes', t) /\ lists' = lists
        /\ subscribed' = [subscribed EXCEPT ![m] = S]
    BY <1>d DEF Unsubscribe
  <2>2. /\ used' = used \cup {m}
        /\ ~misused' => /\ ~misused /\ used' = {m} /\ Current(m)
                        /\ r \in subscribed[m] => Walking(m, t) = {}
    BY <1>d DEF Unsubscribe, Use, Current
  <2>3. TableTyped(lists[m]) /\ S \subseteq Receivers
    BY <1>a, <1>d DEF Shapes
  <2> HIDE DEF t, m
  <2>4. /\ Extends(eventTypes, eventTypes') /\ Contains(eventTypes', t)
        /\ \A g, u : <<g, u>> \in cached' => u \in Types /\ Contains(eventTypes', u)
        /\ TableTyped(table) /\ tid \in 1..Len(eventTypes')
    BY <1>0, <1>a, <1>d, <2>1, EnterTyped
  <2> HIDE DEF table, tid
  <2>5. HasList(table, eventTypes', t) <=> tid \in DOMAIN table /\ table[tid] # Nobody
    BY DEF HasList, tid
  <2>6. ASSUME HasList(table, eventTypes', t)
        PROVE  TableTyped(T) /\ Len(T) = Len(table)
    <3>1. ListTyped(table[tid])
      BY <2>4, <2>5, <2>6 DEF TableTyped
    <3>2. ListTyped(Erased(table[tid], r))
      BY <3>1, ErasedIs
    <3> QED
      BY <2>4, <3>2, TableSetTyped
  <2> HIDE DEF T, S
  <2>7. Shapes'
    <3>1. PICK V : TableTyped(V) /\ lists' = [lists EXCEPT ![m] = V]
      <4>1. lists = [lists EXCEPT ![m] = lists[m]]
        BY <1>a DEF Shapes
      <4> QED
        BY <2>1, <2>3, <2>6, <4>1
    <3>2. events' \in [Receivers -> Managers \cup {Nobody}] /\ subscribed' \in [Managers -> SUBSET Receivers]
      BY <1>a, <1>b, <2>1, <2>3 DEF Shapes
    <3>3. used' \subseteq Managers /\ gone' \subseteq Managers /\ live' \subseteq live
      BY <1>a, <1>b, <1>d, <2>2 DEF Shapes
    <3> QED
      BY <1>a, <1>d, <2>4, <3>1, <3>2, <3>3, ShapesKept
  <2>8. ASSUME ~misused' PROVE Right'
    <3>1. /\ Right /\ Current(m) /\ used' = {m} /\ subscribed[m] \subseteq Receivers
          /\ r \in subscribed[m] => Walking(m, t) = {}
      BY <1>a, <1>d, <2>2, <2>8 DEF EventsInv, Shapes
    <3>2. /\ TableHolds(eventTypes', table, subscribed[m])
          /\ \A i \in 1..Len(eventTypes) : table[i] = lists[m][i]
      BY <1>0, <1>a, <1>d, <2>1, <3>1, EnterHolds DEF table
    <3>3. table[tid] # Nobody /\ eventTypes'[tid] = t /\ Holds(table[tid], {x \in subscribed[m] : Kind[x] = t})
      <4>1. eventTypes'[tid] = t
        BY <2>4, IdIs DEF tid, Extends
      <4> QED
        BY <2>4, <3>2, <4>1 DEF TableHolds
    <3>4. tid \in DOMAIN table
      BY <2>4, <3>2 DEF TableHolds, TableTyped
    <3>5. lists' = [lists EXCEPT ![m] = T] /\ (broken' <=> PulledAway(m, T))
      <4>1. HasList(table, eventTypes', t)
        BY <2>5, <3>3, <3>4
      <4>2. lists' = [lists EXCEPT ![m] = T] /\ broken' = PulledAway(m, lists'[m])
        BY <2>1, <4>1 DEF T
      <4>3. lists'[m] = T
        BY <1>a, <1>d, <4>2 DEF Shapes
      <4> QED
        BY <4>2, <4>3
    <3>6. /\ Holds(Erased(table[tid], r), {x \in S : Kind[x] = t})
          /\ r \notin subscribed[m] => Erased(table[tid], r) = table[tid]
      <4>1. {x \in S : Kind[x] = t} = {x \in subscribed[m] : Kind[x] = t} \ {r}
        BY DEF S
      <4>2. r \in {x \in subscribed[m] : Kind[x] = t} <=> r \in subscribed[m]
        BY DEF t
      <4> QED
        BY <3>3, <4>1, <4>2, ErasedHolds
    <3>7. TableHolds(eventTypes', T, S)
      <4>1. \A x : Kind[x] # t => (x \in subscribed[m] <=> x \in S)
        BY DEF S, t
      <4>2. eventTypes' \in Seq(Types) /\ IsInjective(eventTypes')
        BY <2>4 DEF Extends
      <4>3. TableHolds(eventTypes', [table EXCEPT ![Id(eventTypes', t)] = Erased(table[tid], r)], S)
        BY <2>4, <3>2, <3>6, <4>1, <4>2, TableSetHolds
      <4> QED
        BY <4>3 DEF T, tid
    <3>8. TableTyped(T) /\ Len(T) = Len(table)
      BY <2>5, <2>6, <3>3, <3>4
    <3>9. Untouched(m, T)
      <4>1. table \in Seq(Lists \cup {Nobody}) /\ Len(table) = Len(eventTypes') /\ Len(eventTypes) <= Len(eventTypes')
        BY <2>4, <3>2 DEF TableTyped, TableHolds, Extends
      <4>2. ASSUME NEW i \in 1..Len(eventTypes)
            PROVE  T[i] = lists[m][i] \/ (eventTypes[i] = t /\ Walking(m, t) = {})
        <5>1. i \in DOMAIN table
          BY <1>a, <4>1
        <5>2. T[i] = IF i = tid THEN Erased(table[tid], r) ELSE table[i]
          BY <5>1 DEF T
        <5>3. CASE i = tid /\ r \in subscribed[m]
          BY <2>4, <3>1, <3>3, <5>3 DEF Extends
        <5>4. CASE i # tid \/ r \notin subscribed[m]
          BY <3>2, <3>6, <5>2, <5>4
        <5> QED
          BY <5>3, <5>4
      <4> QED
        BY <1>a, <1>d, <3>1, <3>8, <4>1, <4>2, Untouches
    <3>10. ~PulledAway(m, T) /\ \A k \in 1..Len(posts) : \A p : p = posts[k] => PostRight(p)'
      BY <1>a, <1>b, <1>d, <2>4, <3>1, <3>5, <3>9, PostsKept
    <3>11. /\ posts' \in Seq(Posts) /\ \A k \in 1..Len(posts') : \A p : p = posts'[k] => PostRight(p)'
      BY <1>b, <3>1, <3>10 DEF Right
    <3>12. TableHolds(eventTypes', T, subscribed'[m])
      <4>1. subscribed'[m] = S
        BY <1>a, <1>d, <2>1 DEF Shapes
      <4> QED
        BY <3>7, <4>1
    <3>13. ASSUME NEW x \in S PROVE x \in live' /\ events'[x] = m /\ Contains(eventTypes', Kind[x])
      <4>1. x \in live /\ events[x] = m /\ Contains(eventTypes, Kind[x]) /\ x # r
        BY <1>d, <3>1 DEF Right, S
      <4> QED
        BY <1>a, <1>b, <2>4, <4>1, IdStays
    <3>14. \A x \in Receivers : events'[x] # Nobody => events'[x] = m
      BY <1>b, <3>1 DEF Right, Current
    <3>15. ~broken'
      BY <3>5, <3>10, Zenon
    <3> QED
      BY <1>a, <1>b, <1>d, <2>1, <3>1, <3>5, <3>11, <3>12, <3>13, <3>14, <3>15, RightKept
  <2> QED
    BY <2>7, <2>8 DEF EventsInv
<1> QED
  BY <1>0, <1>c, <1>d

LEMMA PostKeeps ==
  ASSUME EventsAssumption, EventsInv, NEW m \in Managers, NEW t \in Types, Post(m, t)
  PROVE  EventsInv' /\ (~misused' => posts' \in Seq(Posts) /\ Len(posts') = Len(posts) + 1)
<1> DEFINE table == Entered(m, "post", t)
           tid == Id(eventTypes', t)
           p == [manager |-> m, type |-> t, next |-> 1, end |-> table[tid].size, got |-> <<>>]
<1>1. /\ Enter("post", t) /\ lists' = [lists EXCEPT ![m] = table]
      /\ broken' <=> ~HasList(table, eventTypes', t) \/ PulledAway(m, table)
      /\ posts' = IF broken' THEN posts ELSE Append(posts, p)
      /\ events' = events /\ live' = live /\ subscribed' = subscribed /\ gone' = gone
  BY DEF Post
<1>2. used' = used \cup {m} /\ (~misused' => ~misused /\ used' = {m} /\ Current(m))
  BY DEF Post, Use, Current
<1>3. Shapes /\ eventTypes \in Seq(Types) /\ IsInjective(eventTypes) /\ TableTyped(lists[m])
  BY DEF EventsInv, Shapes
<1>4. /\ Extends(eventTypes, eventTypes') /\ Contains(eventTypes', t)
      /\ \A g, u : <<g, u>> \in cached' => u \in Types /\ Contains(eventTypes', u)
      /\ TableTyped(table) /\ tid \in 1..Len(eventTypes')
  BY <1>1, <1>3, EnterTyped
<1> HIDE DEF table, tid, p
<1>5. Shapes'
  BY <1>1, <1>2, <1>3, <1>4, ShapesKept DEF Shapes
<1>6. ASSUME ~misused'
      PROVE  Right' /\ posts' \in Seq(Posts) /\ Len(posts') = Len(posts) + 1
  <2>1. Right /\ Current(m) /\ used' = {m} /\ posts \in Seq(Posts)
    BY <1>2, <1>6 DEF EventsInv, Right
  <2>2. /\ TableHolds(eventTypes', table, subscribed[m])
        /\ \A i \in 1..Len(eventTypes) : table[i] = lists[m][i]
    BY <1>1, <1>3, <2>1, EnterHolds DEF table
  <2>3. Untouched(m, table)
    <3>1. Len(eventTypes) <= Len(table)
      BY <1>4, <2>2 DEF TableHolds, Extends
    <3> QED
      BY <1>3, <1>4, <2>1, <2>2, <3>1, Untouches
  <2>4. ~PulledAway(m, table) /\ \A k \in 1..Len(posts) : \A q : q = posts[k] => PostRight(q)'
    BY <1>1, <1>3, <1>4, <2>1, <2>3, PostsKept
  <2>5. tid \in DOMAIN table /\ table[tid] # Nobody /\ ListTyped(table[tid])
    BY <1>4, <2>2 DEF TableHolds, TableTyped, Holds
  <2>6. ~broken'
    <3>1. HasList(table, eventTypes', t)
      BY <2>5 DEF HasList, tid
    <3> QED
      BY <1>1, <2>4, <3>1, Zenon
  <2>7. posts' = Append(posts, p)
    BY <1>1, <2>6, Zenon
  <2>8. table[tid].size \in Nat
    BY <2>5, ListIs
  <2>9. p \in Posts /\ p.manager = m /\ p.type = t /\ p.next = 1 /\ p.end = table[tid].size /\ p.got = <<>>
    BY <2>8 DEF p, Posts
  <2>10. /\ posts' \in Seq(Posts) /\ Len(posts') = Len(posts) + 1 /\ posts'[Len(posts) + 1] = p
         /\ \A k \in 1..Len(posts) : posts'[k] = posts[k]
    BY <2>1, <2>7, <2>9
  <2>11. ASSUME NEW q, q = p PROVE PostRight(q)'
    <3>1. lists'[m] = table
      BY <1>1, <1>3 DEF Shapes
    <3>2. lists'[q.manager][Id(eventTypes', q.type)] = table[tid]
      BY <2>9, <2>11, <3>1 DEF tid
    <3>3. m \in used' /\ m \notin gone' /\ Contains(eventTypes, t)'
      BY <1>1, <1>4, <2>1 DEF Current, Contains
    <3> QED
      BY <2>8, <2>9, <2>11, <3>2, <3>3 DEF PostRight
  <2>12. \A k \in 1..Len(posts') : \A q : q = posts'[k] => PostRight(q)'
    <3>1. \A k \in 1..Len(posts') : k \in 1..Len(posts) \/ k = Len(posts) + 1
      BY <2>1, <2>10
    <3> QED
      BY <2>4, <2>10, <2>11, <3>1
  <2>13. subscribed' = [subscribed EXCEPT ![m] = subscribed[m]] /\ subscribed'[m] = subscribed[m]
    BY <1>1, <1>3 DEF Shapes
  <2>14. \A x \in subscribed[m] : x \in live' /\ events'[x] = m /\ Contains(eventTypes', Kind[x])
    BY <1>1, <1>3, <1>4, <2>1, IdStays DEF Right
  <2>15. \A x \in Receivers : events'[x] # Nobody => events'[x] = m
    BY <1>1, <2>1 DEF Right, Current
  <2>16. TableHolds(eventTypes', table, subscribed'[m])
    BY <2>2, <2>13
  <2> QED
    BY <1>1, <1>3, <2>1, <2>6, <2>10, <2>12, <2>13, <2>14, <2>15, <2>16, RightKept
<1> QED
  BY <1>5, <1>6 DEF EventsInv

(* Steps that change no list, type or receiver.                            *)
LEMMA OnlyPosts ==
  ASSUME Shapes, Right, posts' \in Seq(Posts), ~broken',
         \A k \in 1..Len(posts') : \A p : p = posts'[k] => PostRight(p),
         UNCHANGED <<eventTypes, cached, lists, events, live, gone, used, subscribed>>
  PROVE  Shapes' /\ Right'
<1>1. Shapes'
  BY DEF Shapes, IsInjective, Contains, TableTyped, ListTyped
<1>2. ASSUME NEW k \in 1..Len(posts') PROVE PostRight(posts[k])'
  <2>1. PICK p : p = posts'[k]
    OBVIOUS
  <2>2. PostRight(p)
    BY <2>1
  <2> QED
    BY <2>1, <2>2 DEF PostRight, Contains
<1>3. ASSUME NEW o \in Managers, Current(o)' PROVE TableHolds(eventTypes, lists[o], subscribed[o])'
  <2>1. TableHolds(eventTypes, lists[o], subscribed[o])
    BY <1>3 DEF Right, Current
  <2> QED
    BY <2>1 DEF TableHolds, Holds, ListTyped
<1> QED
  BY <1>1, <1>2, <1>3 DEF Right, Contains

LEMMA DeliverKeeps ==
  ASSUME EventsAssumption, EventsInv, Deliver
  PROVE  EventsInv' /\ (~misused' => posts' \in Seq(Posts) /\ Len(posts') = Len(posts))
<1> DEFINE n == Len(posts)
           p == posts[n]
           L == lists[p.manager][Id(eventTypes, p.type)]
           r == L.memory[p.next]
           q == [p EXCEPT !.next = p.next + 1, !.got = Append(p.got, r)]
<1>1. /\ posts # <<>> /\ p.next <= p.end /\ broken' = (r \notin live)
      /\ posts' = [posts EXCEPT ![n].next = @ + 1, ![n].got = Append(@, r)]
      /\ UNCHANGED <<eventTypes, cached, lists, events, live, gone, used, subscribed, misused>>
  BY DEF Deliver, Last, Walked
<1>2. CASE misused
  BY <1>1, <1>2 DEF EventsInv, Shapes, IsInjective, Contains, TableTyped, ListTyped
<1>3. CASE ~misused
  <2>1. Shapes /\ Right /\ posts \in Seq(Posts)
    BY <1>3 DEF EventsInv, Right
  <2>2. n \in 1..Len(posts) /\ p \in Posts /\ PostRight(p)
    <3>a. posts \in Seq(Posts) /\ posts # <<>>
      BY <1>1, <2>1
    <3>b. Len(posts) \in Nat /\ Len(posts) > 0
      BY <3>a
    <3>1. n \in 1..Len(posts)
      BY <3>b
    <3>2. PostRight(p)
      BY <2>1, <3>1 DEF Right
    <3>3. p \in Posts
      BY <2>1, <3>1
    <3> QED
      BY <3>1, <3>2, <3>3
  <2>3. posts' = [posts EXCEPT ![n] = q]
    BY <1>1, <2>1, <2>2
  <2>4. /\ p.manager \in used /\ p.manager \in Managers /\ Current(p.manager) /\ Contains(eventTypes, p.type)
        /\ p.end = L.size /\ p.next \in 1..(p.end + 1) /\ Len(p.got) = p.next - 1
        /\ \A k \in 1..Len(p.got) : p.got[k] = L.memory[k]
    <3> HIDE DEF p
    <3>1. /\ p.manager \in used /\ p.manager \notin gone /\ Contains(eventTypes, p.type)
          /\ p.end = L.size /\ p.next \in 1..(p.end + 1) /\ Len(p.got) = p.next - 1
          /\ \A k \in 1..Len(p.got) : p.got[k] = L.memory[k]
      BY <2>2 DEF PostRight
    <3>2. p.manager \in Managers /\ used \subseteq {p.manager}
      BY <2>1, <3>1 DEF Right, Shapes
    <3> QED
      BY <3>1, <3>2 DEF Current
  <2> HIDE DEF p, n, L
  <2>5. PICK tid : tid = Id(eventTypes, p.type)
    OBVIOUS
  <2>6. tid \in 1..Len(eventTypes) /\ Holds(L, {x \in subscribed[p.manager] : Kind[x] = eventTypes[tid]})
    <3>1. tid \in 1..Len(eventTypes)
      BY <2>1, <2>4, <2>5, IdIs DEF Shapes
    <3>2. TableHolds(eventTypes, lists[p.manager], subscribed[p.manager])
      BY <2>1, <2>4 DEF Right
    <3> QED
      BY <2>5, <3>1, <3>2 DEF TableHolds, L
  <2>7. p.end \in Nat /\ p.next \in Nat /\ p.next >= 1
    BY <2>2, <2>4 DEF Posts
  <2>8. p.next \in 1..L.size
    BY <1>1, <2>4, <2>7
  <2>9. r \in subscribed[p.manager]
    BY <2>6, <2>8 DEF Holds
  <2>10. r \in live /\ r \in Receivers
    BY <2>1, <2>4, <2>9 DEF Right, Shapes
  <2>11. ~broken'
    BY <1>1, <2>10, Zenon
  <2>12. p.got \in Seq(Receivers)
    BY <2>2 DEF Posts
  <2> HIDE DEF r
  <2>13. /\ Append(p.got, r) \in Seq(Receivers) /\ Len(Append(p.got, r)) = Len(p.got) + 1
         /\ \A k \in 1..Len(p.got) : Append(p.got, r)[k] = p.got[k]
         /\ Append(p.got, r)[Len(p.got) + 1] = r /\ Len(p.got) \in Nat
    BY <2>10, <2>12
  <2>14. /\ q \in Posts /\ q.manager = p.manager /\ q.type = p.type /\ q.end = p.end
         /\ q.next = p.next + 1 /\ q.got = Append(p.got, r)
    <3>1. PICK g \in Seq(Receivers) : g = Append(p.got, r)
      BY <2>13
    <3>2. PICK x \in Nat : x = p.next + 1
      BY <2>7
    <3>3. q = [p EXCEPT !.next = x, !.got = g]
      BY <3>1, <3>2
    <3>a. p = [manager |-> p.manager, type |-> p.type, next |-> p.next, end |-> p.end, got |-> p.got]
      BY <2>2 DEF Posts
    <3> HIDE DEF q
    <3>b. ASSUME NEW a, NEW b, NEW c, NEW d, NEW e,
                 p = [manager |-> a, type |-> b, next |-> c, end |-> d, got |-> e]
          PROVE  q = [manager |-> a, type |-> b, next |-> x, end |-> d, got |-> g]
      BY <3>3, <3>b
    <3>4. q = [manager |-> p.manager, type |-> p.type, next |-> x, end |-> p.end, got |-> g]
      BY <3>a, <3>b
    <3> QED
      BY <2>2, <3>1, <3>2, <3>4 DEF Posts
  <2>15. PostRight(q)
    <3>a. p.next <= p.end /\ Len(p.got) = p.next - 1
      BY <1>1, <2>4
    <3>1. q.next \in 1..(q.end + 1) /\ Len(q.got) = q.next - 1
      BY <2>7, <2>13, <2>14, <3>a
    <3>2. ASSUME NEW k \in 1..Len(q.got) PROVE q.got[k] = L.memory[k]
      <4>1. k \in 1..Len(p.got) \/ (k = Len(p.got) + 1 /\ k = p.next)
        BY <2>4, <2>7, <2>13, <2>14
      <4> QED
        BY <2>4, <2>13, <2>14, <4>1 DEF r
    <3>3. lists[q.manager][Id(eventTypes, q.type)] = L
      BY <2>14 DEF L
    <3> QED
      BY <2>4, <2>14, <3>1, <3>2, <3>3 DEF PostRight, Current
  <2> HIDE DEF q
  <2>16. /\ posts' \in Seq(Posts) /\ Len(posts') = Len(posts)
         /\ \A k \in 1..Len(posts) : posts'[k] = IF k = n THEN q ELSE posts[k]
    BY <2>1, <2>2, <2>3, <2>14
  <2>17. \A k \in 1..Len(posts') : \A x : x = posts'[k] => PostRight(x)
    BY <2>1, <2>15, <2>16 DEF Right
  <2> QED
    BY <1>1, <2>1, <2>11, <2>16, <2>17, OnlyPosts DEF EventsInv
<1> QED
  BY <1>2, <1>3

LEMMA EndPostKeeps ==
  ASSUME EventsAssumption, EventsInv, EndPost
  PROVE  EventsInv'
<1>1. /\ posts # <<>> /\ posts' = Front(posts) /\ (broken' <=> broken)
      /\ UNCHANGED <<eventTypes, cached, lists, events, live, gone, used, subscribed, misused>>
  BY DEF EndPost
<1>2. CASE misused
  BY <1>1, <1>2 DEF EventsInv, Shapes, IsInjective, Contains, TableTyped, ListTyped
<1>3. CASE ~misused
  <2>1. Shapes /\ Right /\ posts \in Seq(Posts) /\ ~broken
    BY <1>3 DEF EventsInv, Right
  <2>2. Len(posts) \in Nat /\ Len(posts) > 0
    BY <1>1, <2>1
  <2>3. posts' = SubSeq(posts, 1, Len(posts) - 1)
    BY <1>1 DEF Front
  <2>4. /\ posts' \in Seq(Posts)
        /\ \A k \in 1..Len(posts') : k \in 1..Len(posts) /\ posts'[k] = posts[k]
    BY <2>1, <2>2, <2>3
  <2>5. \A k \in 1..Len(posts') : \A x : x = posts'[k] => PostRight(x)
    BY <2>1, <2>4 DEF Right
  <2>6. ~broken'
    BY <1>1, <2>1, Zenon
  <2> QED
    BY <1>1, <2>1, <2>4, <2>5, <2>6, OnlyPosts DEF EventsInv
<1> QED
  BY <1>2, <1>3

LEMMA DestroyEventsKeeps ==
  ASSUME EventsAssumption, EventsInv, NEW m \in Managers, DestroyEvents(m)
  PROVE  EventsInv'
<1>1. /\ posts = <<>> /\ posts' = <<>> /\ m \in used /\ gone' = gone \cup {m}
      /\ lists' = [lists EXCEPT ![m] = <<>>] /\ subscribed' = [subscribed EXCEPT ![m] = {}]
      /\ eventTypes' = eventTypes /\ cached' = cached /\ events' = events /\ live' = live
      /\ (broken' <=> broken) /\ used' = used /\ (misused' <=> misused)
  BY DEF DestroyEvents
<1>2. Shapes
  BY DEF EventsInv
<1>3. Shapes'
  <2>1. TableTyped(<<>>)
    BY DEF TableTyped
  <2>2. Extends(eventTypes, eventTypes')
    BY <1>1, <1>2 DEF Shapes, Extends
  <2>3. subscribed' \in [Managers -> SUBSET Receivers] /\ gone' \subseteq Managers
    BY <1>1, <1>2 DEF Shapes
  <2> QED
    BY <1>1, <1>2, <2>1, <2>2, <2>3, ShapesKept DEF Shapes
<1>4. ASSUME ~misused' PROVE Right'
  <2>1. Right
    BY <1>1, <1>4 DEF EventsInv
  <2>2. \A o \in Managers : ~Current(o)'
    BY <1>1 DEF Current
  <2>3. \A o \in Managers : o # m => subscribed[o] = {}
    BY <1>1, <2>1 DEF Right
  <2>4. \A o \in Managers : subscribed'[o] = {}
    BY <1>1, <1>2, <2>3 DEF Shapes
  <2>5. posts' \in Seq(Posts) /\ Len(posts') = 0
    BY <1>1
  <2>6. ~broken'
    BY <1>1, <2>1 DEF Right
  <2> QED
    BY <1>1, <2>1, <2>2, <2>4, <2>5, <2>6 DEF Right
<1> QED
  BY <1>3, <1>4 DEF EventsInv

-----------------------------------------------------------------------------
(* The results.                                                            *)

(* A sequence without repetitions is as long as the set of its members.    *)
LEMMA LenIsCardinality ==
  ASSUME NEW S, NEW s \in Seq(S), \A i, j \in 1..Len(s) : s[i] = s[j] => i = j
  PROVE  Cardinality({s[i] : i \in 1..Len(s)}) = Len(s)
<1> DEFINE R == {s[i] : i \in 1..Len(s)}
<1>1. Len(s) \in Nat /\ s \in [1..Len(s) -> R] /\ \A x \in R : \E i \in 1..Len(s) : s[i] = x
  OBVIOUS
<1>2. s \in Bijection(1..Len(s), R)
  BY <1>1 DEF Bijection, Injection, Surjection, IsInjective
<1>3. ExistsBijection(1..Len(s), R)
  BY <1>2 DEF ExistsBijection
<1>4. IsFiniteSet(1..Len(s)) /\ Cardinality(1..Len(s)) = Len(s)
  <2>1. PICK n \in Nat : n = Len(s)
    OBVIOUS
  <2>2. IsFiniteSet(1..n) /\ Cardinality(1..n) = IF 1 > n THEN 0 ELSE n - 1 + 1
    BY FS_Interval
  <2>3. IF 1 > n THEN n = 0 ELSE n - 1 + 1 = n
    OBVIOUS
  <2> QED
    BY <2>1, <2>2, <2>3
<1> HIDE DEF R
<1>5. Cardinality(R) = Len(s)
  BY <1>3, <1>4, FS_Bijection
<1> QED
  BY <1>5 DEF R

(* One step of EventManager.                                               *)
LEMMA EventsStep ==
  ASSUME EventsAssumption, EventsInv, [EventsNext]_eventVars
  PROVE  EventsInv' /\ (~misused' /\ Len(posts') < Len(posts) => EndPost)
<1>0. ~misused => posts \in Seq(Posts) /\ Len(posts) \in Nat
  BY DEF EventsInv, Right
<1>1. ASSUME NEW t \in Types, RegisterName(t) PROVE EventsInv' /\ posts' = posts
  BY <1>1, RegisterNameKeeps DEF RegisterName
<1>2. ASSUME NEW m \in Managers, NEW t \in Types, RegisterType(m, t) PROVE EventsInv' /\ posts' = posts
  BY <1>2, RegisterTypeKeeps DEF RegisterType
<1>3. ASSUME NEW m \in Managers, NEW t \in Types, Post(m, t)
      PROVE  EventsInv' /\ (~misused' => Len(posts') = Len(posts) + 1) /\ (~misused' => ~misused)
  <2>1. misused' = (misused \/ used' # {m} \/ FALSE)
    BY <1>3 DEF Post, Use
  <2>2. ~misused' => ~misused
    BY <2>1, Zenon
  <2> QED
    BY <1>3, <2>2, PostKeeps
<1>4. ASSUME NEW m \in Managers, NEW r \in Receivers, Subscribe(m, r) PROVE EventsInv' /\ posts' = posts
  BY <1>4, SubscribeKeeps DEF Subscribe
<1>5. ASSUME NEW r \in Receivers, Unsubscribe(r, live) PROVE EventsInv' /\ posts' = posts
  BY <1>5, UnsubscribeKeeps DEF Unsubscribe
<1>6. ASSUME NEW r \in Receivers, DestroyReceiver(r) PROVE EventsInv' /\ posts' = posts
  <2>1. Unsubscribe(r, live \ {r}) /\ live \ {r} \subseteq live
    BY <1>6 DEF DestroyReceiver
  <2> QED
    BY <2>1, UnsubscribeKeeps DEF Unsubscribe
<1>7. ASSUME Deliver
      PROVE  EventsInv' /\ (~misused' => Len(posts') = Len(posts)) /\ (~misused' => ~misused)
  BY <1>7, DeliverKeeps DEF Deliver
<1>8. ASSUME EndPost PROVE EventsInv'
  BY <1>8, EndPostKeeps
<1>9. ASSUME NEW m \in Managers, DestroyEvents(m) PROVE EventsInv' /\ posts' = posts
  BY <1>9, DestroyEventsKeeps DEF DestroyEvents
<1>10. ASSUME UNCHANGED eventVars PROVE EventsInv' /\ posts' = posts
  <2>1. /\ UNCHANGED <<eventTypes, cached, lists, events, live, gone, used, subscribed>>
        /\ posts' = posts /\ (broken' <=> broken) /\ (misused' <=> misused)
    BY <1>10 DEF eventVars
  <2>2. CASE misused
    BY <2>1, <2>2 DEF EventsInv, Shapes, IsInjective, Contains, TableTyped, ListTyped
  <2>3. CASE ~misused
    <3>1. Shapes /\ Right
      BY <2>3 DEF EventsInv
    <3>2. \A k \in 1..Len(posts') : \A p : p = posts'[k] => PostRight(p)
      BY <2>1, <3>1 DEF Right
    <3>3. posts' \in Seq(Posts)
      BY <2>1, <3>1 DEF Right
    <3>4. ~broken'
      BY <2>1, <3>1 DEF Right
    <3> QED
      BY <2>1, <3>1, <3>2, <3>3, <3>4, OnlyPosts DEF EventsInv
  <2> QED
    BY <2>1, <2>2, <2>3
<1>11. posts' = posts => ~(Len(posts') < Len(posts)) \/ misused
  BY <1>0
<1>12. misused => misused' \/ EndPost
  <2>1. ASSUME misused, EventsNext PROVE misused'
    BY <2>1 DEF EventsNext, RegisterName, RegisterType, Post, Subscribe, Unsubscribe,
                DestroyReceiver, Deliver, EndPost, DestroyEvents, Use
  <2> QED
    BY <2>1 DEF eventVars
<1> QED
  BY <1>0, <1>1, <1>2, <1>3, <1>4, <1>5, <1>6, <1>7, <1>8, <1>9, <1>10, <1>11, <1>12 DEF EventsNext

(* The lists, ids and posts, in every reachable state (EventManager,       *)
(* Receivers).                                                             *)
THEOREM EventsInvariant == EventsSpec => []EventsInv
<1>1. EventsInit => EventsInv
  BY EventsStart, EventsAssumption
<1>2. EventsInv /\ [EventsNext]_eventVars => EventsInv'
  BY EventsStep, EventsAssumption
<1> QED
  BY <1>1, <1>2, PTL DEF EventsSpec

(* The types of the variables: what a list has in use are receivers, within *)
(* its memory.                                                             *)
THEOREM EventsTyped == EventsSpec => []EventsTypeOK
<1>1. EventsInv => EventsTypeOK
  <2> SUFFICES ASSUME Shapes PROVE EventsTypeOK
    BY DEF EventsInv
  <2>1. ToSet(eventTypes) \subseteq Types /\ IsInjective(eventTypes)
    BY DEF Shapes, ToSet
  <2>2. ASSUME NEW m \in Managers, NEW i \in DOMAIN lists[m], lists[m][i] # Nobody
        PROVE  /\ Entries(lists[m][i]) \in Seq(Receivers)
               /\ lists[m][i].size <= Len(lists[m][i].memory)
    <3>1. ListTyped(lists[m][i])
      BY <2>2 DEF Shapes, TableTyped
    <3> QED
      BY <3>1, EntriesAre, ListIs
  <2> QED
    BY <2>1, <2>2 DEF EventsTypeOK, Shapes
<1> QED
  BY <1>1, EventsInvariant, PTL

(* As long as the class is used as it provides for, all is defined and each *)
(* post calls every receiver subscribed to its type once, and no other     *)
(* (EventManager::post).                                                   *)
THEOREM ReceiversCalledOnce == EventsSpec => EachReceiverOnce
<1> DEFINE Expected(p) == {r \in subscribed[p.manager] : Kind[r] = p.type}
           Step == ~misused' =>
                     /\ ~broken'
                     /\ Len(posts') < Len(posts) =>
                          LET p == Last(posts)
                              expected == {r \in subscribed[p.manager] : Kind[r] = p.type}
                          IN ToSet(p.got) = expected /\ Len(p.got) = Cardinality(expected)
<1>1. ASSUME EventsInv, EndPost, ~misused, NEW p, p = Last(posts)
      PROVE  ToSet(p.got) = Expected(p) /\ Len(p.got) = Cardinality(Expected(p))
  <2>1. Shapes /\ Right /\ posts \in Seq(Posts) /\ posts # <<>>
    BY <1>1 DEF EventsInv, Right, EndPost
  <2>2. Len(posts) \in Nat /\ Len(posts) > 0
    BY <2>1
  <2>3. p = posts[Len(posts)] /\ Len(posts) \in 1..Len(posts)
    BY <1>1, <2>2 DEF Last
  <2>4. p \in Posts /\ p.next > p.end
    BY <1>1, <2>1, <2>3 DEF EndPost
  <2>5. PostRight(p)
    BY <2>1, <2>3 DEF Right
  <2>6. PICK tid : tid = Id(eventTypes, p.type)
    OBVIOUS
  <2>7. PICK L : L = lists[p.manager][tid]
    OBVIOUS
  <2>8. /\ p.manager \in used /\ p.manager \notin gone /\ Contains(eventTypes, p.type)
        /\ p.end = L.size /\ p.next \in 1..(p.end + 1) /\ Len(p.got) = p.next - 1
        /\ \A k \in 1..Len(p.got) : p.got[k] = L.memory[k]
    BY <2>5, <2>6, <2>7 DEF PostRight
  <2>9. p.manager \in Managers /\ TableHolds(eventTypes, lists[p.manager], subscribed[p.manager])
    BY <2>1, <2>8 DEF Right, Shapes, Current
  <2>10. tid \in 1..Len(eventTypes) /\ eventTypes[tid] = p.type
    BY <2>1, <2>6, <2>8, IdIs DEF Shapes
  <2>11. Holds(L, Expected(p))
    BY <2>7, <2>9, <2>10 DEF TableHolds
  <2>12. p.end \in Nat /\ p.next \in Nat /\ p.got \in Seq(Receivers)
    BY <2>4 DEF Posts
  <2>13. Len(p.got) = L.size
    BY <2>4, <2>8, <2>12
  <2> HIDE DEF Expected
  <2>14. Expected(p) = {p.got[k] : k \in 1..Len(p.got)}
    <3>1. Expected(p) = {L.memory[k] : k \in 1..L.size}
      BY <2>11 DEF Holds
    <3>2. \A k \in 1..L.size : p.got[k] = L.memory[k]
      BY <2>8, <2>13
    <3>3. {p.got[k] : k \in 1..L.size} = {L.memory[k] : k \in 1..L.size}
      BY <3>2
    <3> QED
      BY <2>13, <3>1, <3>3
  <2>15. \A i, j \in 1..Len(p.got) : p.got[i] = p.got[j] => i = j
    BY <2>8, <2>11, <2>13 DEF Holds
  <2>16. Cardinality({p.got[k] : k \in 1..Len(p.got)}) = Len(p.got)
    BY <2>12, <2>15, LenIsCardinality
  <2>17. ToSet(p.got) = {p.got[k] : k \in 1..Len(p.got)}
    BY <2>12 DEF ToSet
  <2> QED
    BY <2>14, <2>16, <2>17
<1>2. ASSUME EventsInv, EventsInv', [EventsNext]_eventVars PROVE [Step]_eventVars
  <2> SUFFICES ASSUME ~misused' PROVE Step
    OBVIOUS
  <2>1. ~broken'
    BY <1>2 DEF EventsInv, Right
  <2>2. ASSUME Len(posts') < Len(posts), NEW p, p = Last(posts)
        PROVE  ToSet(p.got) = Expected(p) /\ Len(p.got) = Cardinality(Expected(p))
    <3>1. EndPost
      BY <1>2, <2>2, EventsStep, EventsAssumption
    <3>2. ~misused
      BY <3>1 DEF EndPost
    <3> QED
      BY <1>1, <1>2, <2>2, <3>1, <3>2
  <2> QED
    BY <2>1, <2>2
<1> QED
  BY <1>2, EventsInvariant, PTL DEF EachReceiverOnce, EventsSpec

-----------------------------------------------------------------------------
(* The storage of the worlds.                                              *)
(* The worlds that exist have ids, tables and histories.                   *)
StorageShapes ==
  /\ id = [w \in DOMAIN id |-> id[w]] /\ DOMAIN id \subseteq Worlds
  /\ singletons = [w \in DOMAIN id |-> singletons[w]]
  /\ tagged = [w \in DOMAIN id |-> tagged[w]]
  /\ stored = [w \in DOMAIN id |-> stored[w]]
  /\ singletonTypes \in Seq(Singletons)
  /\ nextId \in Nat /\ usedIds = {} /\ byDefault \subseteq DOMAIN id

TypesApart(ts) == \A i, k \in 1..Len(ts) : ts[i] = ts[k] => i = k

(* No table is longer than there are ids.                                  *)
StorageTables(ts) ==
  \A w \in DOMAIN id :
    /\ singletons[w] \in Seq(Values \cup {Null})
    /\ Len(singletons[w]) <= Len(ts)

(* What the i-th type of ts has in w's table is what was stored, if anything; no *)
(* type without an id was stored.                                          *)
StorageEntries(ts) ==
  \A w \in DOMAIN id :
    /\ \A i \in 1..Len(ts) :
         IF i <= Len(singletons[w]) /\ ts[i] \in DOMAIN stored[w]
         THEN singletons[w][i] = stored[w][ts[i]]
         ELSE /\ ts[i] \notin DOMAIN stored[w]
              /\ i <= Len(singletons[w]) => singletons[w][i] = Null
    /\ \A t \in Singletons :
         t \in DOMAIN stored[w] => \E i \in 1..Len(ts) : ts[i] = t

ChecksumAlone(str) == \A other \in Strings : Crc32[other] = Crc32[str] => other = str

StorageTags ==
  \A w \in DOMAIN id : \A str \in Strings :
    ChecksumAlone(str) =>
      /\ Crc32[str] \in DOMAIN tagged[w] <=> str \in DOMAIN stored[w]
      /\ str \in DOMAIN stored[w] => tagged[w][Crc32[str]] = stored[w][str]

(* Ids given by default are taken in order and never again.                *)
IdsApart ==
  /\ \A w \in byDefault : id[w] \in Nat /\ id[w] < nextId
  /\ \A w, o \in byDefault : id[w] = id[o] => w = o

StorageInv ==
  /\ StorageShapes /\ StorageTags /\ IdsApart
  /\ TypesApart(singletonTypes) /\ StorageTables(singletonTypes) /\ StorageEntries(singletonTypes)

-----------------------------------------------------------------------------
(* The id of a type that has one.                                          *)
LEMMA TypeIdIs ==
  ASSUME NEW ts, NEW i \in DOMAIN ts, \A k \in DOMAIN ts : ts[k] = ts[i] => k = i
  PROVE  TypeId(ts, ts[i]) = i
BY DEF TypeId

(* A type that is registered has an id, and no other type's id changes.    *)
TypesWith(t, ts) ==
  /\ ts \in Seq(Singletons)
  /\ \A i, k \in 1..Len(ts) : ts[i] = ts[k] => i = k
  /\ Len(singletonTypes) <= Len(ts)
  /\ \A i \in 1..Len(singletonTypes) : ts[i] = singletonTypes[i]
  /\ \A i \in (Len(singletonTypes) + 1)..Len(ts) : ts[i] = t
  /\ TypeId(ts, t) \in 1..Len(ts) /\ ts[TypeId(ts, t)] = t
  /\ Len(ts) > Len(singletonTypes) => \A i \in 1..Len(singletonTypes) : ts[i] # t

(* Registering does that, whether the type was known or not.               *)
LEMMA RegisteredIs ==
  ASSUME StorageShapes, TypesApart(singletonTypes), NEW t \in Singletons
  PROVE  TypesWith(t, Registered(t))
<1> DEFINE ts == Registered(t)
<1>1. singletonTypes \in Seq(Singletons) /\ Len(singletonTypes) \in Nat
  BY DEF StorageShapes
<1>2. /\ ts \in Seq(Singletons)
      /\ \A i, k \in 1..Len(ts) : ts[i] = ts[k] => i = k
      /\ Len(singletonTypes) <= Len(ts)
      /\ \A i \in 1..Len(singletonTypes) : ts[i] = singletonTypes[i]
      /\ \A i \in (Len(singletonTypes) + 1)..Len(ts) : ts[i] = t
      /\ \E i \in 1..Len(ts) : ts[i] = t
      /\ Len(ts) > Len(singletonTypes) => \A i \in 1..Len(singletonTypes) : ts[i] # t
  <2>1. CASE Contains(singletonTypes, t)
    <3>1. ts = singletonTypes
      BY <2>1 DEF Registered
    <3>2. \E i \in 1..Len(singletonTypes) : singletonTypes[i] = t
      BY <2>1 DEF Contains
    <3> QED
      BY <1>1, <3>1, <3>2 DEF TypesApart
  <2>2. CASE ~Contains(singletonTypes, t)
    <3>1. ts = Append(singletonTypes, t)
      BY <2>2 DEF Registered
    <3>2. \A i \in 1..Len(singletonTypes) : singletonTypes[i] # t
      BY <2>2 DEF Contains
    <3>3. /\ ts \in Seq(Singletons) /\ Len(ts) = Len(singletonTypes) + 1
          /\ ts[Len(ts)] = t
          /\ \A i \in 1..Len(singletonTypes) : ts[i] = singletonTypes[i]
      BY <1>1, <3>1
    <3> HIDE DEF ts
    <3> QED
      BY <1>1, <3>2, <3>3 DEF TypesApart
  <2> QED
    BY <2>1, <2>2
<1> HIDE DEF ts
<1>3. PICK i \in 1..Len(ts) : ts[i] = t
  BY <1>2
<1>4. DOMAIN ts = 1..Len(ts)
  BY <1>2
<1>5. TypeId(ts, t) = i
  <2>1. \A k \in DOMAIN ts : ts[k] = ts[i] => k = i
    BY <1>2, <1>3, <1>4
  <2> QED
    BY <1>3, <1>4, <2>1, TypeIdIs
<1> QED
  BY <1>2, <1>3, <1>5 DEF ts, TypesWith

(* The tables say the same when a type has been added.                     *)
LEMMA AskedKeeps ==
  ASSUME StorageInv, NEW t \in Singletons, NEW ts, TypesWith(t, ts)
  PROVE  TypesApart(ts) /\ StorageTables(ts) /\ StorageEntries(ts)
<1>1. singletonTypes \in Seq(Singletons) /\ Len(singletonTypes) \in Nat
  BY DEF StorageInv, StorageShapes
<1>2. /\ ts \in Seq(Singletons) /\ Len(ts) \in Nat
      /\ \A i, k \in 1..Len(ts) : ts[i] = ts[k] => i = k
      /\ Len(singletonTypes) <= Len(ts)
      /\ \A i \in 1..Len(singletonTypes) : ts[i] = singletonTypes[i]
      /\ \A i \in (Len(singletonTypes) + 1)..Len(ts) : ts[i] = t
      /\ Len(ts) > Len(singletonTypes) => \A i \in 1..Len(singletonTypes) : singletonTypes[i] # t
  BY <1>1 DEF TypesWith
<1>3. TypesApart(ts)
  BY <1>2 DEF TypesApart
<1>4. StorageTables(ts)
  BY <1>1, <1>2 DEF StorageInv, StorageTables
<1>5. StorageEntries(ts)
  <2> SUFFICES ASSUME NEW w \in DOMAIN id
               PROVE /\ \A i \in 1..Len(ts) :
                          IF i <= Len(singletons[w]) /\ ts[i] \in DOMAIN stored[w]
                          THEN singletons[w][i] = stored[w][ts[i]]
                          ELSE /\ ts[i] \notin DOMAIN stored[w]
                               /\ i <= Len(singletons[w]) => singletons[w][i] = Null
                     /\ \A s \in Singletons :
                          s \in DOMAIN stored[w] => \E i \in 1..Len(ts) : ts[i] = s
    BY DEF StorageEntries
  <2>1. Len(singletons[w]) \in Nat /\ Len(singletons[w]) <= Len(singletonTypes)
    BY DEF StorageInv, StorageTables
  <2>2. ASSUME NEW i \in 1..Len(ts)
        PROVE  IF i <= Len(singletons[w]) /\ ts[i] \in DOMAIN stored[w]
               THEN singletons[w][i] = stored[w][ts[i]]
               ELSE /\ ts[i] \notin DOMAIN stored[w]
                    /\ i <= Len(singletons[w]) => singletons[w][i] = Null
    <3>1. CASE i \in 1..Len(singletonTypes)
      BY <1>2, <3>1 DEF StorageInv, StorageEntries
    <3>2. CASE i \notin 1..Len(singletonTypes)
      <4>1. i > Len(singletonTypes) /\ i \in (Len(singletonTypes) + 1)..Len(ts)
        BY <1>1, <1>2, <3>2
      <4>2. ts[i] = t /\ \A k \in 1..Len(singletonTypes) : singletonTypes[k] # t
        BY <1>1, <1>2, <4>1
      <4>3. t \notin DOMAIN stored[w]
        BY <4>2 DEF StorageInv, StorageEntries
      <4> QED
        BY <1>1, <2>1, <4>1, <4>2, <4>3
    <3> QED
      BY <3>1, <3>2
  <2>3. ASSUME NEW s \in Singletons, s \in DOMAIN stored[w]
        PROVE  \E i \in 1..Len(ts) : ts[i] = s
    <3>1. PICK i \in 1..Len(singletonTypes) : singletonTypes[i] = s
      BY <2>3 DEF StorageInv, StorageEntries
    <3> QED
      BY <1>1, <1>2, <3>1
  <2> QED
    BY <2>2, <2>3
<1> QED
  BY <1>3, <1>4, <1>5

-----------------------------------------------------------------------------
(* A table with room for an id has Null where it had nothing.              *)
LEMMA RoomIs ==
  ASSUME NEW V, Null \in V, NEW s \in Seq(V), NEW i \in Nat \ {0}
  PROVE  /\ WithRoom(s, i) \in Seq(V)
         /\ Len(WithRoom(s, i)) = (IF i <= Len(s) THEN Len(s) ELSE i)
         /\ \A k \in 1..Len(WithRoom(s, i)) :
              WithRoom(s, i)[k] = (IF k <= Len(s) THEN s[k] ELSE Null)
<1>1. CASE i \in DOMAIN s
  BY <1>1 DEF WithRoom
<1>2. CASE i \notin DOMAIN s
  <2>1. WithRoom(s, i) = [k \in 1..i |-> IF k \in DOMAIN s THEN s[k] ELSE Null]
    BY <1>2 DEF WithRoom, Resize
  <2>2. DOMAIN s = 1..Len(s) /\ Len(s) \in Nat /\ i > Len(s)
    BY <1>2
  <2>3. \A k \in 1..i : (IF k \in DOMAIN s THEN s[k] ELSE Null) \in V
    OBVIOUS
  <2>4. [k \in 1..i |-> IF k \in DOMAIN s THEN s[k] ELSE Null] \in Seq(V)
    BY <2>3
  <2>5. Len(WithRoom(s, i)) = i
    BY <2>1, <2>4
  <2>6. \A k \in 1..i : WithRoom(s, i)[k] = (IF k <= Len(s) THEN s[k] ELSE Null)
    <3> TAKE k \in 1..i
    <3>1. WithRoom(s, i)[k] = (IF k \in DOMAIN s THEN s[k] ELSE Null)
      BY <2>1
    <3>2. k \in DOMAIN s <=> k <= Len(s)
      BY <2>2
    <3> QED
      BY <3>1, <3>2
  <2>7. Len(WithRoom(s, i)) = (IF i <= Len(s) THEN Len(s) ELSE i)
    <3>1. ~(i <= Len(s))
      BY <2>2
    <3> QED
      BY <2>5, <3>1
  <2>8. WithRoom(s, i) \in Seq(V)
    BY <2>1, <2>4
  <2> QED
    BY <2>5, <2>6, <2>7, <2>8
<1> QED
  BY <1>1, <1>2

(* Storing a singleton, under an id the type has by now.                   *)
LEMMA StoreKeeps ==
  ASSUME StorageInv, NEW w \in Worlds, NEW t \in Singletons, NEW v \in Values,
         w \in DOMAIN id, TypesWith(t, singletonTypes'),
         NEW n, n = TypeId(singletonTypes', t),
         singletons' = [singletons EXCEPT ![w] = [WithRoom(@, n) EXCEPT ![n] = v]],
         stored' = [stored EXCEPT ![w] = Put(@, t, v)],
         UNCHANGED <<usedIds, nextId, id, tagged, byDefault>>
  PROVE  StorageInv'
<1> DEFINE ts == singletonTypes'
           table == WithRoom(singletons[w], n)
           V == Values \cup {Null}
<1>0. /\ ts \in Seq(Singletons) /\ Len(ts) \in Nat /\ n \in Nat \ {0}
      /\ n \in 1..Len(ts) /\ ts[n] = t
  BY DEF TypesWith
<1>b. TypesApart(ts) /\ StorageTables(ts) /\ StorageEntries(ts)
  BY AskedKeeps
<1> HIDE DEF ts
<1>a. singletons[w] \in Seq(V) /\ Len(singletons[w]) \in Nat /\ Len(singletons[w]) <= Len(ts)
  BY <1>b DEF StorageTables
<1>1. /\ table \in Seq(V)
      /\ Len(table) = (IF n <= Len(singletons[w]) THEN Len(singletons[w]) ELSE n)
      /\ \A k \in 1..Len(table) : table[k] = (IF k <= Len(singletons[w]) THEN singletons[w][k] ELSE Null)
  <2> HIDE DEF V
  <2>1. Null \in V
    BY DEF V
  <2> QED
    BY <1>0, <1>a, <2>1, RoomIs
<1>2. /\ DOMAIN singletons = DOMAIN id /\ DOMAIN stored = DOMAIN id
      /\ singletons' = [u \in DOMAIN id |-> singletons'[u]]
      /\ stored' = [u \in DOMAIN id |-> stored'[u]]
      /\ singletons'[w] = [table EXCEPT ![n] = v]
      /\ stored'[w] = Put(stored[w], t, v)
      /\ \A u \in DOMAIN id : u # w => singletons'[u] = singletons[u] /\ stored'[u] = stored[u]
  BY DEF StorageInv, StorageShapes
<1>3. /\ DOMAIN stored'[w] = DOMAIN stored[w] \cup {t}
      /\ stored'[w][t] = v
      /\ \A x \in DOMAIN stored[w] : x # t => stored'[w][x] = stored[w][x]
  <2>1. stored'[w] = Put(stored[w], t, v)
    BY <1>2
  <2> QED
    BY <2>1 DEF Put
<1> HIDE DEF table
<1>4. /\ singletons'[w] \in Seq(V) /\ Len(singletons'[w]) = Len(table)
      /\ n <= Len(table) /\ Len(table) <= Len(ts)
      /\ singletons'[w][n] = v
      /\ \A k \in 1..Len(table) : k # n => singletons'[w][k] = table[k]
  <2>1. Len(table) \in Nat /\ n \in 1..Len(table) /\ Len(table) <= Len(ts)
    BY <1>0, <1>1, <1>a
  <2>2. v \in V
    OBVIOUS
  <2> HIDE DEF V
  <2>3. DOMAIN table = 1..Len(table)
    BY <1>1
  <2>4. singletons'[w] = [k \in 1..Len(table) |-> IF k = n THEN v ELSE table[k]]
    <3>1. singletons'[w] = [table EXCEPT ![n] = v]
      BY <1>2
    <3> QED
      BY <2>3, <3>1
  <2>6. \A k \in 1..Len(table) : table[k] \in V
    BY <1>1, <2>3
  <2>5. singletons'[w] \in Seq(V) /\ Len(singletons'[w]) = Len(table)
    <3>1. \A k \in 1..Len(table) : (IF k = n THEN v ELSE table[k]) \in V
      BY <2>2, <2>6
    <3>2. [k \in 1..Len(table) |-> IF k = n THEN v ELSE table[k]] \in [1..Len(table) -> V]
      BY <3>1
    <3>3. singletons'[w] \in [1..Len(table) -> V]
      BY <2>4, <3>2
    <3>4. Len(table) \in Nat
      BY <2>1
    <3> QED
      BY ONLY <3>3, <3>4
  <2> QED
    BY <2>1, <2>4, <2>5
<1>5. StorageShapes'
  BY <1>0, <1>2 DEF StorageInv, StorageShapes, ts
<1>6. StorageTables(singletonTypes)'
  BY <1>2, <1>4, <1>b DEF StorageTables, ts
<1>7. StorageEntries(singletonTypes)'
  <2>1. ASSUME NEW u \in DOMAIN id, u # w
        PROVE  /\ \A i \in 1..Len(ts) :
                    IF i <= Len(singletons'[u]) /\ ts[i] \in DOMAIN stored'[u]
                    THEN singletons'[u][i] = stored'[u][ts[i]]
                    ELSE /\ ts[i] \notin DOMAIN stored'[u]
                         /\ i <= Len(singletons'[u]) => singletons'[u][i] = Null
               /\ \A s \in Singletons :
                    s \in DOMAIN stored'[u] => \E i \in 1..Len(ts) : ts[i] = s
    BY <1>2, <1>b, <2>1 DEF StorageEntries
  <2>2. ASSUME NEW i \in 1..Len(ts)
        PROVE  IF i <= Len(singletons'[w]) /\ ts[i] \in DOMAIN stored'[w]
               THEN singletons'[w][i] = stored'[w][ts[i]]
               ELSE /\ ts[i] \notin DOMAIN stored'[w]
                    /\ i <= Len(singletons'[w]) => singletons'[w][i] = Null
    <3>1. CASE i = n
      BY <1>0, <1>3, <1>4, <3>1
    <3>2. CASE i # n
      <4>1. ts[i] # t
        BY <1>0, <1>b, <3>2 DEF TypesApart
      <4>2. ts[i] \in DOMAIN stored'[w] <=> ts[i] \in DOMAIN stored[w]
        BY <1>3, <4>1
      <4>3. ts[i] \in DOMAIN stored[w] => stored'[w][ts[i]] = stored[w][ts[i]]
        BY <1>3, <4>1
      <4>4. i <= Len(table) => singletons'[w][i] = table[i]
        BY <1>0, <1>1, <1>4, <3>2
      <4>5. IF i <= Len(singletons[w]) /\ ts[i] \in DOMAIN stored[w]
            THEN singletons[w][i] = stored[w][ts[i]]
            ELSE /\ ts[i] \notin DOMAIN stored[w]
                 /\ i <= Len(singletons[w]) => singletons[w][i] = Null
        BY <1>b DEF StorageEntries
      <4>6. Len(singletons[w]) <= Len(table) /\ Len(table) \in Nat
        BY <1>0, <1>1, <1>a
      <4>7. CASE i <= Len(singletons[w])
        <5>1. singletons'[w][i] = singletons[w][i] /\ i <= Len(singletons'[w])
          <6>1. i \in 1..Len(table) /\ i <= Len(table)
            BY <1>0, <1>a, <4>6, <4>7
          <6>2. table[i] = singletons[w][i]
            BY <1>1, <4>7, <6>1
          <6> QED
            BY <1>4, <4>4, <6>1, <6>2
        <5> QED
          BY <4>2, <4>3, <4>5, <4>7, <5>1
      <4>8. CASE ~(i <= Len(singletons[w]))
        <5>1. i <= Len(singletons'[w]) => singletons'[w][i] = Null
          BY <1>0, <1>1, <1>4, <1>a, <4>4, <4>6, <4>8
        <5> QED
          BY <4>2, <4>5, <4>8, <5>1
      <4> QED
        BY <4>7, <4>8
    <3> QED
      BY <3>1, <3>2
  <2>3. ASSUME NEW s \in Singletons, s \in DOMAIN stored'[w]
        PROVE  \E i \in 1..Len(ts) : ts[i] = s
    <3>1. CASE s = t
      BY <1>0, <3>1
    <3>2. CASE s # t
      BY <1>3, <1>b, <2>3, <3>2 DEF StorageEntries
    <3> QED
      BY <3>1, <3>2
  <2> QED
    BY <2>1, <2>2, <2>3 DEF StorageEntries, ts
<1>8. StorageTags'
  <2>1. \A str \in Strings : str # t
    BY KeysAssumption
  <2>2. \A str \in Strings : /\ str \in DOMAIN stored'[w] <=> str \in DOMAIN stored[w]
                             /\ str \in DOMAIN stored[w] => stored'[w][str] = stored[w][str]
    BY <1>3, <2>1
  <2> QED
    BY <1>2, <2>2 DEF StorageInv, StorageTags
<1>9. TypesApart(singletonTypes)' /\ IdsApart'
  BY <1>b DEF StorageInv, TypesApart, IdsApart, ts
<1> QED
  BY <1>5, <1>6, <1>7, <1>8, <1>9 DEF StorageInv

(* Storing an object with a tag.                                           *)
LEMMA StoreTaggedKeeps ==
  ASSUME StorageInv, NEW w \in Worlds, NEW str \in Strings, NEW v \in Values, StoreTagged(w, str, v)
  PROVE  StorageInv'
<1>1. /\ w \in DOMAIN id
      /\ tagged' = [tagged EXCEPT ![w] = Put(@, Crc32[str], v)]
      /\ stored' = [stored EXCEPT ![w] = Put(@, str, v)]
      /\ UNCHANGED <<usedIds, nextId, id, singletonTypes, singletons, byDefault>>
  BY DEF StoreTagged, Exists
<1>2. /\ DOMAIN tagged = DOMAIN id /\ DOMAIN stored = DOMAIN id
      /\ tagged' = [u \in DOMAIN id |-> tagged'[u]]
      /\ stored' = [u \in DOMAIN id |-> stored'[u]]
      /\ \A u \in DOMAIN id : u # w => tagged'[u] = tagged[u] /\ stored'[u] = stored[u]
      /\ tagged'[w] = Put(tagged[w], Crc32[str], v)
      /\ stored'[w] = Put(stored[w], str, v)
  BY <1>1 DEF StorageInv, StorageShapes
<1>3. /\ DOMAIN stored'[w] = DOMAIN stored[w] \cup {str}
      /\ stored'[w][str] = v
      /\ \A x \in DOMAIN stored[w] : x # str => stored'[w][x] = stored[w][x]
  BY <1>2 DEF Put
<1>4. /\ DOMAIN tagged'[w] = DOMAIN tagged[w] \cup {Crc32[str]}
      /\ tagged'[w][Crc32[str]] = v
      /\ \A x \in DOMAIN tagged[w] : x # Crc32[str] => tagged'[w][x] = tagged[w][x]
  BY <1>2 DEF Put
<1>5. StorageShapes' /\ TypesApart(singletonTypes)' /\ StorageTables(singletonTypes)' /\ IdsApart'
  BY <1>1, <1>2 DEF StorageInv, StorageShapes, TypesApart, StorageTables, IdsApart
<1>6. StorageEntries(singletonTypes)'
  <2>1. \A t \in Singletons : t # str
    BY KeysAssumption
  <2>2. \A i \in 1..Len(singletonTypes) : singletonTypes[i] \in Singletons
    BY DEF StorageInv, StorageShapes
  <2>3. \A t \in Singletons : /\ t \in DOMAIN stored'[w] <=> t \in DOMAIN stored[w]
                              /\ t \in DOMAIN stored[w] => stored'[w][t] = stored[w][t]
    BY <1>3, <2>1
  <2>4. \A u \in DOMAIN id : \A t \in Singletons :
            /\ t \in DOMAIN stored'[u] <=> t \in DOMAIN stored[u]
            /\ t \in DOMAIN stored[u] => stored'[u][t] = stored[u][t]
    BY <1>2, <2>3
  <2>5. singletonTypes' = singletonTypes /\ singletons' = singletons /\ id' = id
    BY <1>1
  <2> QED
    BY <2>2, <2>4, <2>5 DEF StorageInv, StorageEntries
<1>7. StorageTags'
  <2> SUFFICES ASSUME NEW u \in DOMAIN id, NEW s \in Strings, ChecksumAlone(s)
               PROVE  /\ Crc32[s] \in DOMAIN tagged'[u] <=> s \in DOMAIN stored'[u]
                      /\ s \in DOMAIN stored'[u] => tagged'[u][Crc32[s]] = stored'[u][s]
    BY <1>1 DEF StorageTags
  <2>1. /\ Crc32[s] \in DOMAIN tagged[u] <=> s \in DOMAIN stored[u]
        /\ s \in DOMAIN stored[u] => tagged[u][Crc32[s]] = stored[u][s]
    BY DEF StorageInv, StorageTags
  <2>2. CASE u # w
    BY <1>2, <2>1, <2>2
  <2>3. CASE u = w /\ s = str
    BY <1>3, <1>4, <2>3
  <2>4. CASE u = w /\ s # str
    <3>1. Crc32[s] # Crc32[str]
      BY <2>4 DEF ChecksumAlone
    <3> QED
      BY <1>3, <1>4, <2>1, <2>4, <3>1
  <2> QED
    BY <2>2, <2>3, <2>4
<1> QED
  BY <1>5, <1>6, <1>7 DEF StorageInv

(* A new world, with an id of its own or one given by default.             *)
LEMMA ConstructedKeeps ==
  ASSUME StorageInv, NEW w \in Worlds, NEW i, ~Exists(w), Constructed(w, i),
         usedIds' = usedIds,
         \/ nextId' = nextId /\ byDefault' = byDefault
         \/ i = nextId /\ nextId' = nextId + 1 /\ byDefault' = byDefault \cup {w}
  PROVE  StorageInv'
<1>1. /\ w \notin DOMAIN id /\ id' = Put(id, w, i) /\ singletonTypes' = singletonTypes
      /\ singletons' = Put(singletons, w, <<>>)
      /\ tagged' = Put(tagged, w, Nothing) /\ stored' = Put(stored, w, Nothing)
  BY DEF Exists, Constructed
<1>2. /\ DOMAIN singletons = DOMAIN id /\ DOMAIN tagged = DOMAIN id /\ DOMAIN stored = DOMAIN id
      /\ byDefault \subseteq DOMAIN id
  BY DEF StorageInv, StorageShapes
<1>3. /\ DOMAIN id' = DOMAIN id \cup {w} /\ id'[w] = i
      /\ \A u \in DOMAIN id : id'[u] = id[u]
  BY <1>1 DEF Put
<1>4. /\ singletons'[w] = <<>> /\ \A u \in DOMAIN id : singletons'[u] = singletons[u]
      /\ tagged'[w] = Nothing /\ \A u \in DOMAIN id : tagged'[u] = tagged[u]
      /\ stored'[w] = Nothing /\ \A u \in DOMAIN id : stored'[u] = stored[u]
  BY <1>1, <1>2 DEF Put
<1>5. DOMAIN Nothing = {}
  BY DEF Nothing
<1>6. StorageShapes'
  <2>1. /\ id' = [u \in DOMAIN id' |-> id'[u]]
        /\ singletons' = [u \in DOMAIN id' |-> singletons'[u]]
        /\ tagged' = [u \in DOMAIN id' |-> tagged'[u]]
        /\ stored' = [u \in DOMAIN id' |-> stored'[u]]
    BY <1>1, <1>2, <1>3 DEF Put
  <2>2. DOMAIN id' \subseteq Worlds /\ byDefault' \subseteq DOMAIN id'
    BY <1>2, <1>3 DEF StorageInv, StorageShapes
  <2> QED
    BY <1>1, <2>1, <2>2 DEF StorageInv, StorageShapes
<1>7. TypesApart(singletonTypes)'
  BY <1>1 DEF StorageInv, TypesApart
<1>8. StorageTables(singletonTypes)'
  <2>1. Len(singletonTypes) \in Nat
    BY DEF StorageInv, StorageShapes
  <2>2. singletons'[w] \in Seq(Values \cup {Null}) /\ Len(singletons'[w]) <= Len(singletonTypes)
    BY <1>4, <2>1
  <2> QED
    BY <1>1, <1>3, <1>4, <2>2 DEF StorageInv, StorageTables
<1>9. StorageEntries(singletonTypes)'
  <2>1. \A k \in 1..Len(singletonTypes) :
            /\ singletonTypes[k] \notin DOMAIN stored'[w]
            /\ ~(k <= Len(singletons'[w]))
    BY <1>4, <1>5
  <2>2. \A t \in Singletons : t \notin DOMAIN stored'[w]
    BY <1>4, <1>5
  <2> QED
    BY <1>1, <1>3, <1>4, <2>1, <2>2 DEF StorageInv, StorageEntries
<1>10. StorageTags'
  BY <1>3, <1>4, <1>5 DEF StorageInv, StorageTags
<1>11. IdsApart'
  BY <1>2, <1>3 DEF StorageInv, IdsApart, StorageShapes
<1> QED
  BY <1>6, <1>7, <1>8, <1>9, <1>10, <1>11 DEF StorageInv

(* A world goes away with its tables.                                      *)
LEMMA DestructKeeps ==
  ASSUME StorageInv, NEW w \in Worlds, Destruct(w)
  PROVE  StorageInv'
<1>1. /\ id' = Without(id, w) /\ singletons' = Without(singletons, w)
      /\ tagged' = Without(tagged, w) /\ stored' = Without(stored, w)
      /\ byDefault' = byDefault \ {w} /\ usedIds' = usedIds \ {id[w]}
      /\ UNCHANGED <<nextId, singletonTypes>>
  BY DEF Destruct
<1>2. /\ DOMAIN singletons = DOMAIN id /\ DOMAIN tagged = DOMAIN id /\ DOMAIN stored = DOMAIN id
      /\ byDefault \subseteq DOMAIN id
  BY DEF StorageInv, StorageShapes
<1>3. DOMAIN id' = DOMAIN id \ {w}
  BY <1>1 DEF Without, Restrict
<1>4. \A u \in DOMAIN id' : /\ u \in DOMAIN id /\ id'[u] = id[u] /\ singletons'[u] = singletons[u]
                            /\ tagged'[u] = tagged[u] /\ stored'[u] = stored[u]
  BY <1>1, <1>2 DEF Without, Restrict
<1>5. StorageShapes'
  <2>1. /\ id' = [u \in DOMAIN id' |-> id'[u]]
        /\ singletons' = [u \in DOMAIN id' |-> singletons'[u]]
        /\ tagged' = [u \in DOMAIN id' |-> tagged'[u]]
        /\ stored' = [u \in DOMAIN id' |-> stored'[u]]
    BY <1>1, <1>2, <1>3 DEF Without, Restrict
  <2>2. DOMAIN id' \subseteq Worlds /\ byDefault' \subseteq DOMAIN id' /\ usedIds' = {}
    BY <1>1, <1>2, <1>3 DEF StorageInv, StorageShapes
  <2> QED
    BY <1>1, <2>1, <2>2 DEF StorageInv, StorageShapes
<1>6. TypesApart(singletonTypes)' /\ StorageTables(singletonTypes)' /\ StorageTags'
  BY <1>1, <1>4 DEF StorageInv, TypesApart, StorageTables, StorageTags
<1>7. StorageEntries(singletonTypes)'
  BY <1>1, <1>4 DEF StorageInv, StorageEntries
<1>8. IdsApart'
  <2>1. \A u \in byDefault' : u \in byDefault /\ u \in DOMAIN id'
    BY <1>1, <1>2, <1>3
  <2> QED
    BY <1>1, <1>4, <2>1 DEF StorageInv, IdsApart
<1> QED
  BY <1>5, <1>6, <1>7, <1>8 DEF StorageInv

-----------------------------------------------------------------------------
(* Initially there is no world. *)
LEMMA StorageInitInv == StorageInit => StorageInv
<1> SUFFICES ASSUME StorageInit PROVE StorageInv
  OBVIOUS
<1>1. DOMAIN Nothing = {} /\ Nothing = [w \in {} |-> Nothing[w]]
  BY DEF Nothing
<1>2. singletonTypes = <<>> /\ <<>> \in Seq(Singletons)
  BY DEF StorageInit
<1>3. TypesApart(singletonTypes)
  BY <1>2 DEF TypesApart
<1> QED
  BY <1>1, <1>2, <1>3 DEF StorageInit, StorageInv, StorageShapes, StorageTables, StorageEntries, StorageTags, IdsApart

(* Every step keeps the invariant.                                         *)
LEMMA StorageStepInv == StorageInv /\ [StorageNext]_storageVars => StorageInv'
<1> SUFFICES ASSUME StorageInv, [StorageNext]_storageVars PROVE StorageInv'
  OBVIOUS
<1>0. usedIds = {} /\ nextId \in Nat
  BY DEF StorageInv, StorageShapes
<1>1. ASSUME NEW w \in Worlds, Construct(w) PROVE StorageInv'
  <2>1. PICK i \in usedIds \cup {nextId} : NextWorldId(i) /\ Constructed(w, i)
    BY <1>1 DEF Construct
  <2>2. i = nextId /\ nextId' = nextId + 1 /\ usedIds' = usedIds
    BY <1>0, <2>1 DEF NextWorldId
  <2>3. ~Exists(w) /\ byDefault' = byDefault \cup {w}
    BY <1>1 DEF Construct
  <2> QED
    BY <2>1, <2>2, <2>3, ConstructedKeeps
<1>2. ASSUME NEW w \in Worlds, NEW i \in GivenIds, ConstructWith(w, i) PROVE StorageInv'
  <2>1. ~Exists(w) /\ Constructed(w, i) /\ usedIds' = usedIds /\ nextId' = nextId /\ byDefault' = byDefault
    BY <1>2 DEF ConstructWith
  <2> QED
    BY <2>1, ConstructedKeeps
<1>3. ASSUME NEW w \in Worlds, NEW t \in Singletons, GetInstance(w, t) PROVE StorageInv'
  <2>1. StorageShapes /\ TypesApart(singletonTypes)
    BY DEF StorageInv
  <2>2. TypesWith(t, singletonTypes')
    BY <1>3, <2>1, RegisteredIs DEF GetInstance
  <2>3. /\ TypesApart(singletonTypes') /\ StorageTables(singletonTypes') /\ StorageEntries(singletonTypes')
        /\ singletonTypes' \in Seq(Singletons)
    BY <2>2, AskedKeeps DEF TypesWith
  <2> QED
    BY <1>3, <2>3 DEF GetInstance, StorageInv, StorageShapes, TypesApart, StorageTables, StorageEntries, StorageTags, IdsApart
<1>4. ASSUME NEW w \in Worlds, NEW t \in Singletons, NEW v \in Values, Store(w, t, v) PROVE StorageInv'
  <2>1. StorageShapes /\ TypesApart(singletonTypes)
    BY DEF StorageInv
  <2>2. TypesWith(t, singletonTypes')
    BY <1>4, <2>1, RegisteredIs DEF Store
  <2>3. PICK n : n = TypeId(singletonTypes', t)
    OBVIOUS
  <2>4. /\ w \in DOMAIN id
        /\ singletons' = [singletons EXCEPT ![w] = [WithRoom(@, n) EXCEPT ![n] = v]]
        /\ stored' = [stored EXCEPT ![w] = Put(@, t, v)]
        /\ UNCHANGED <<usedIds, nextId, id, tagged, byDefault>>
    BY <1>4, <2>3 DEF Store, Exists
  <2> QED
    BY <2>2, <2>3, <2>4, StoreKeeps
<1>5. CASE UNCHANGED storageVars
  BY <1>5 DEF storageVars, StorageInv, StorageShapes, TypesApart, StorageTables, StorageEntries, StorageTags, IdsApart
<1> QED
  BY <1>1, <1>2, <1>3, <1>4, <1>5, DestructKeeps, StoreTaggedKeeps DEF StorageNext

(* The tables of a world, in every reachable state.                        *)
THEOREM StorageInvariant == StorageSpec => []StorageInv
BY StorageInitInv, StorageStepInv, PTL DEF StorageSpec

(* The types of the variables.                                             *)
THEOREM StorageTyped == StorageSpec => []StorageTypeOK
<1>1. StorageInv => StorageTypeOK
  <2> SUFFICES ASSUME StorageInv PROVE StorageTypeOK
    OBVIOUS
  <2>1. \A w \in DOMAIN id : ToSet(singletons[w]) \subseteq Values \cup {Null}
    BY DEF StorageInv, StorageTables, ToSet
  <2>2. ToSet(singletonTypes) \subseteq Singletons /\ IsInjective(singletonTypes)
    BY DEF StorageInv, StorageShapes, TypesApart, ToSet, IsInjective
  <2> QED
    BY <2>1, <2>2 DEF StorageTypeOK, StorageInv, StorageShapes
<1> QED
  BY <1>1, StorageInvariant, PTL

(* Each world finds what was stored in it, whichever worlds stored types   *)
(* and in what order; worlds with ids given by default differ in them.     *)
THEOREM WorldsFindTheirs == StorageSpec => []StoredIsFound
<1>1. StorageInv => StoredIsFound
  <2> SUFFICES ASSUME StorageInv PROVE StoredIsFound
    OBVIOUS
  <2>1. ASSUME NEW w \in DOMAIN id, NEW t \in Singletons
        PROVE  InstanceOf(w, t) = IF t \in DOMAIN stored[w] THEN stored[w][t] ELSE Null
    <3>1. Len(singletonTypes) \in Nat /\ DOMAIN singletonTypes = 1..Len(singletonTypes)
      BY DEF StorageInv, StorageShapes
    <3>2. Len(singletons[w]) \in Nat /\ DOMAIN singletons[w] = 1..Len(singletons[w])
      BY DEF StorageInv, StorageTables
    <3>3. CASE Contains(singletonTypes, t)
      <4>1. PICK i \in 1..Len(singletonTypes) : singletonTypes[i] = t
        BY <3>3 DEF Contains
      <4>2. \A k \in DOMAIN singletonTypes : singletonTypes[k] = singletonTypes[i] => k = i
        BY <3>1 DEF StorageInv, TypesApart
      <4>3. TypeId(singletonTypes, t) = i
        BY <3>1, <4>1, <4>2, TypeIdIs
      <4>4. IF i <= Len(singletons[w]) /\ t \in DOMAIN stored[w]
            THEN singletons[w][i] = stored[w][t]
            ELSE /\ t \notin DOMAIN stored[w]
                 /\ i <= Len(singletons[w]) => singletons[w][i] = Null
        BY <4>1 DEF StorageInv, StorageEntries
      <4>5. i \in DOMAIN singletons[w] <=> i <= Len(singletons[w])
        BY <3>1, <3>2
      <4>6. InstanceOf(w, t) = IF i \in DOMAIN singletons[w] THEN singletons[w][i] ELSE Null
        BY <3>3, <4>3 DEF InstanceOf
      <4> QED
        BY <4>4, <4>5, <4>6
    <3>4. CASE ~Contains(singletonTypes, t)
      <4>1. t \notin DOMAIN stored[w]
        BY <3>4 DEF Contains, StorageInv, StorageEntries
      <4>2. InstanceOf(w, t) = Null
        BY <3>4 DEF InstanceOf
      <4> QED
        BY <4>1, <4>2
    <3> QED
      BY <3>3, <3>4
  <2>2. ASSUME NEW w \in DOMAIN id, NEW str \in Strings, ChecksumAlone(str)
        PROVE  Load(w, str) = IF str \in DOMAIN stored[w] THEN stored[w][str] ELSE Null
    BY <2>2 DEF Load, StorageInv, StorageTags
  <2>3. \A w, o \in byDefault : id[w] = id[o] => w = o
    BY DEF StorageInv, IdsApart
  <2> QED
    BY <2>1, <2>2, <2>3 DEF StoredIsFound, ChecksumAlone
<1> QED
  BY <1>1, StorageInvariant, PTL

-----------------------------------------------------------------------------
(* The three parts.                                                        *)
(* A step of a world is a step of one part, in which the others stay.      *)
LEMMA PartsStep ==
  MCSpec => Spec /\ EventsSpec /\ StorageSpec
<1>1. MCInit => Init /\ EventsInit /\ StorageInit
  BY DEF MCInit
<1>2. [MCNext]_<<part, vars, eventVars, storageVars>> =>
        [Next]_vars /\ [EventsNext]_eventVars /\ [StorageNext]_storageVars
  BY Zenon DEF MCNext
<1> QED
  BY <1>1, <1>2, PTL DEF MCSpec, Spec, EventsSpec, StorageSpec

(* The types of a world's systems, events and storage (SystemManager,      *)
(* EventManager, WorldStorage), in every reachable state of the three.     *)
THEOREM WorldAlwaysTyped == MCSpec => []WorldTyped
<1>1. TypeOK /\ EventsTypeOK /\ StorageTypeOK => WorldTyped
  BY DEF WorldTyped
<1> QED
  BY <1>1, PartsStep, SystemsTyped, EventsTyped, StorageTyped, PTL
=============================================================================
