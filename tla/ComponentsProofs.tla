------------------------- MODULE ComponentsProofs ---------------------------
(***************************************************************************)
(* Shared components, masks and objects.                                   *)
(*                                                                         *)
(* Entities find the shared components they were given, for any types,     *)
(* values and archetypes, until infos are merged; equal values are one     *)
(* object.  An archetype is found by a key without the types of its        *)
(* objects, so the argument is that an object has one type: two infos with *)
(* the same objects then list the same types in the same order.            *)
(*                                                                         *)
(* A dynamic mask answers as the set of ids it stands for, for blocks of   *)
(* any width.  The argument is that a mask of which everything is known    *)
(* stands for its set, block by block, and that a mask with a wrong size   *)
(* is at least right where its array is.                                   *)
(*                                                                         *)
(* Every cell that should hold an object holds one and hooks are told as   *)
(* often as the components say, for any components and dependencies, but   *)
(* for what is flawed.  The invariant (ObjectsRight) says more of flawed   *)
(* entities too: hooks of a component an entity lacks count nothing even   *)
(* then, since flaws are forgotten when the component goes; an entity has  *)
(* one row; and one that a command is still to create has none.            *)
(***************************************************************************)
EXTENDS MCComponents, TLAPS, FiniteSetTheorems, WellFoundedInduction

-----------------------------------------------------------------------------
(* Infos.                                                                  *)

(* The info knows the positions of its types, each of which has one.       *)
Indexed(info) ==
  /\ info = [mask |-> info.mask, ids |-> info.ids, data |-> info.data]
  /\ info.ids \in Seq(SharedIds) /\ info.data \in Seq(Nat)
  /\ Len(info.data) = Len(info.ids)
  /\ \A i, k \in 1..Len(info.ids) : info.ids[i] = info.ids[k] => i = k
  /\ info.mask = {info.ids[i] : i \in 1..Len(info.ids)}

(* and its objects are those of g.                                         *)
Holds(info, g) ==
  /\ Indexed(info) /\ DOMAIN g = info.mask
  /\ \A i \in 1..Len(info.ids) : info.data[i] = g[info.ids[i]]

(* The position of a type, if each has one.                                *)
LEMMA IndexIs ==
  ASSUME NEW info, info.ids \in Seq(SharedIds), NEW i \in 1..Len(info.ids),
         \A k \in 1..Len(info.ids) : info.ids[k] = info.ids[i] => k = i
  PROVE  IndexOf(info, info.ids[i]) = i
<1> DEFINE I == {k \in 1..Len(info.ids) : info.ids[k] = info.ids[i]}
<1>1. I = {i}
  OBVIOUS
<1>2. Min({i}) = i
  BY DEF Min
<1>3. IndexOf(info, info.ids[i]) = IF I # {} THEN Min(I) ELSE 0
  BY DEF IndexOf, SelectInSeq
<1> QED
  BY <1>1, <1>2, <1>3

(* What a type has no position for.                                        *)
LEMMA IndexNone ==
  ASSUME NEW info, NEW s, \A k \in 1..Len(info.ids) : info.ids[k] # s
  PROVE  IndexOf(info, s) = 0
BY DEF IndexOf, SelectInSeq

LEMMA Found ==
  ASSUME NEW info, Indexed(info), NEW s \in info.mask
  PROVE  \E i \in 1..Len(info.ids) : info.ids[i] = s /\ IndexOf(info, s) = i
<1>1. PICK i \in 1..Len(info.ids) : info.ids[i] = s
  BY DEF Indexed
<1>2. IndexOf(info, info.ids[i]) = i
  BY IndexIs DEF Indexed
<1> QED
  BY <1>1, <1>2

(* An info that holds the objects of g finds them.                         *)
LEMMA HoldsFinds ==
  ASSUME NEW info, NEW g, Holds(info, g), NEW s \in info.mask
  PROVE  GetShared(info, s) = g[s] /\ Locates(info, s)
<1>1. PICK i \in 1..Len(info.ids) : info.ids[i] = s /\ IndexOf(info, s) = i
  BY Found DEF Holds
<1>2. i # 0
  BY DEF Holds, Indexed
<1> QED
  BY <1>1, <1>2 DEF Holds, GetShared, Locates

(* The types of objects.                                                   *)
OfKind(kind, info) ==
  \A i \in 1..Len(info.ids) : info.data[i] \in DOMAIN kind /\ kind[info.data[i]] = info.ids[i]

(* With a type for each object, the objects of an info give its types.     *)
LEMMA SameIds ==
  ASSUME NEW info, NEW oth, NEW kind, Indexed(info), Indexed(oth),
         OfKind(kind, info), OfKind(kind, oth), info.data = oth.data
  PROVE  info.ids = oth.ids
<1>1. Len(info.ids) = Len(oth.ids) /\ info.ids \in Seq(SharedIds) /\ oth.ids \in Seq(SharedIds)
  BY DEF Indexed
<1>2. \A i \in 1..Len(info.ids) : info.ids[i] = oth.ids[i]
  BY <1>1 DEF OfKind
<1> QED
  BY ONLY <1>1, <1>2

(* An object is added, or replaces that of its type.                       *)
LEMMA AddHolds ==
  ASSUME NEW info, Indexed(info), NEW kind, OfKind(kind, info),
         NEW s \in SharedIds, NEW p \in Nat, p \in DOMAIN kind, kind[p] = s
  PROVE  /\ Indexed(AddShared(info, s, p)) /\ OfKind(kind, AddShared(info, s, p))
         /\ \A g : Holds(info, g) => Holds(AddShared(info, s, p), Put(g, s, p))
<1>0. /\ info.ids \in Seq(SharedIds) /\ info.data \in Seq(Nat) /\ Len(info.ids) \in Nat
      /\ Len(info.data) = Len(info.ids)
      /\ \A i, k \in 1..Len(info.ids) : info.ids[i] = info.ids[k] => i = k
      /\ info.mask = {info.ids[i] : i \in 1..Len(info.ids)}
  BY DEF Indexed
<1>1. CASE s \notin info.mask
  <2> DEFINE new == [mask |-> info.mask \cup {s}, ids |-> Append(info.ids, s), data |-> Append(info.data, p)]
             n == Len(info.ids) + 1
  <2>1. AddShared(info, s, p) = new
    BY <1>1 DEF AddShared
  <2>2. /\ new.ids \in Seq(SharedIds) /\ new.data \in Seq(Nat) /\ Len(new.ids) = n /\ Len(new.data) = n
        /\ new.ids[n] = s /\ new.data[n] = p
        /\ \A i \in 1..Len(info.ids) : new.ids[i] = info.ids[i] /\ new.data[i] = info.data[i]
        /\ new.mask = info.mask \cup {s}
    BY <1>0
  <2>3. \A i \in 1..n : i = n \/ i \in 1..Len(info.ids)
    BY <1>0
  <2>4. n \in 1..n /\ \A i \in 1..Len(info.ids) : i \in 1..n
    BY <1>0
  <2>a. \A i \in 1..Len(info.ids) : info.ids[i] # s
    BY <1>0, <1>1
  <2> HIDE DEF new, n
  <2>5. Indexed(new)
    <3>1. \A i, k \in 1..n : new.ids[i] = new.ids[k] => i = k
      BY <1>0, <2>2, <2>3, <2>a
    <3>2. ASSUME NEW x \in info.mask \cup {s} PROVE \E i \in 1..n : x = new.ids[i]
      <4>1. CASE x = s
        BY <2>2, <2>4, <4>1
      <4>2. CASE x \in info.mask
        <5>1. PICK i \in 1..Len(info.ids) : x = info.ids[i]
          BY <1>0, <4>2
        <5> QED
          BY <2>2, <2>4, <5>1
      <4> QED
        BY <4>1, <4>2
    <3>3. ASSUME NEW i \in 1..n PROVE new.ids[i] \in info.mask \cup {s}
      <4>1. CASE i = n
        BY <2>2, <4>1
      <4>2. CASE i \in 1..Len(info.ids)
        <5>1. new.ids[i] = info.ids[i]
          BY <2>2, <4>2
        <5>2. info.ids[i] \in info.mask
          BY <1>0, <4>2
        <5> QED
          BY <5>1, <5>2
      <4> QED
        BY <2>3, <4>1, <4>2
    <3>4. new.mask = {new.ids[i] : i \in 1..n}
      BY <2>2, <3>2, <3>3
    <3>5. new = [mask |-> new.mask, ids |-> new.ids, data |-> new.data]
      BY DEF new
    <3> QED
      BY <2>2, <3>1, <3>4, <3>5 DEF Indexed
  <2>6. OfKind(kind, new)
    BY <2>2, <2>3 DEF OfKind
  <2>7. ASSUME NEW g, Holds(info, g) PROVE Holds(new, Put(g, s, p))
    <3>1. DOMAIN Put(g, s, p) = new.mask
      BY <2>2, <2>7 DEF Put, Holds
    <3>2. \A i \in 1..n : new.data[i] = Put(g, s, p)[new.ids[i]]
      <4>1. \A i \in 1..Len(info.ids) : info.ids[i] \in DOMAIN g /\ info.data[i] = g[info.ids[i]]
        BY <1>0, <2>7 DEF Holds
      <4> QED
        BY <2>2, <2>3, <2>a, <4>1 DEF Put
    <3> QED
      BY <2>2, <2>5, <3>1, <3>2 DEF Holds
  <2> QED
    BY <2>1, <2>5, <2>6, <2>7
<1>2. CASE s \in info.mask
  <2>1. PICK n \in 1..Len(info.ids) : info.ids[n] = s /\ IndexOf(info, s) = n
    BY <1>2, Found
  <2> DEFINE new == [info EXCEPT !.data[n] = p]
  <2>2. AddShared(info, s, p) = [info EXCEPT !.data[IndexOf(info, s)] = p]
    BY <1>2 DEF AddShared
  <2>3. AddShared(info, s, p) = new
    BY <2>1, <2>2
  <2>4. /\ new.ids = info.ids /\ new.mask = info.mask
        /\ new.data \in Seq(Nat) /\ Len(new.data) = Len(info.ids)
        /\ new.data[n] = p /\ \A i \in 1..Len(info.ids) : i # n => new.data[i] = info.data[i]
        /\ new = [mask |-> new.mask, ids |-> new.ids, data |-> new.data]
    <3>1. info = [mask |-> info.mask, ids |-> info.ids, data |-> info.data]
      BY DEF Indexed
    <3>2. new = [mask |-> info.mask, ids |-> info.ids, data |-> [info.data EXCEPT ![n] = p]]
      BY <3>1
    <3>3. new.data = [info.data EXCEPT ![n] = p]
      BY <3>2
    <3>4. DOMAIN info.data = 1..Len(info.ids)
      BY <1>0
    <3>5. new.data = [i \in 1..Len(info.ids) |-> IF i = n THEN p ELSE info.data[i]]
      BY <3>3, <3>4
    <3>6. new.data \in [1..Len(info.ids) -> Nat]
      <4>1. \A i \in 1..Len(info.ids) : (IF i = n THEN p ELSE info.data[i]) \in Nat
        BY <1>0
      <4> QED
        BY ONLY <3>5, <4>1
    <3>7. new.data \in Seq(Nat) /\ Len(new.data) = Len(info.ids)
      BY ONLY <1>0, <3>6
    <3> QED
      BY <3>2, <3>5, <3>7
  <2>5. \A i \in 1..Len(info.ids) : i # n => info.ids[i] # s
    BY <1>0, <2>1
  <2> HIDE DEF new
  <2>6. Indexed(new)
    BY <1>0, <2>4 DEF Indexed
  <2>7. OfKind(kind, new)
    BY <2>1, <2>4 DEF OfKind
  <2>8. ASSUME NEW g, Holds(info, g) PROVE Holds(new, Put(g, s, p))
    <3>1. DOMAIN g = info.mask /\ \A i \in 1..Len(info.ids) : info.data[i] = g[info.ids[i]]
      BY <2>8 DEF Holds
    <3>2. DOMAIN Put(g, s, p) = new.mask
      BY <1>2, <2>4, <3>1 DEF Put
    <3>3. \A i \in 1..Len(info.ids) : Put(g, s, p)[info.ids[i]] = IF i = n THEN p ELSE g[info.ids[i]]
      BY <1>0, <2>1, <2>5, <3>1 DEF Put
    <3> QED
      BY <2>4, <2>6, <3>1, <3>2, <3>3 DEF Holds
  <2> QED
    BY <2>3, <2>6, <2>7, <2>8
<1> QED
  BY <1>1, <1>2

(* A sequence without its i-th element.                                    *)
LEMMA RemoveAtIs ==
  ASSUME NEW S, NEW q \in Seq(S), NEW i \in 1..Len(q)
  PROVE  /\ RemoveAt(q, i) \in Seq(S) /\ Len(RemoveAt(q, i)) = Len(q) - 1
         /\ \A k \in 1..(Len(q) - 1) : RemoveAt(q, i)[k] = IF k < i THEN q[k] ELSE q[k + 1]
<1> DEFINE front == SubSeq(q, 1, i - 1)
           back == SubSeq(q, i + 1, Len(q))
<1>0. Len(q) \in Nat /\ i \in Nat /\ 1 <= i /\ i <= Len(q)
  OBVIOUS
<1>1. /\ front \in Seq(S) /\ Len(front) = i - 1
      /\ \A k \in 1..(i - 1) : front[k] = q[k]
  BY <1>0
<1>2. /\ back \in Seq(S) /\ Len(back) = Len(q) - i
      /\ \A k \in 1..(Len(q) - i) : back[k] = q[k + i]
  BY <1>0
<1>3. RemoveAt(q, i) = front \o back
  BY DEF RemoveAt
<1> HIDE DEF front, back
<1>4. front \o back \in Seq(S) /\ Len(front \o back) = Len(q) - 1
  <2>0. front \in Seq(S) /\ back \in Seq(S)
    BY <1>1, <1>2
  <2>1. front \o back \in Seq(S)
    BY ONLY <2>0
  <2>2. Len(front \o back) = Len(front) + Len(back)
    BY ONLY <2>0
  <2>3. (i - 1) + (Len(q) - i) = Len(q) - 1
    BY <1>0
  <2> QED
    BY <1>1, <1>2, <2>1, <2>2, <2>3
<1>5. ASSUME NEW k \in 1..(Len(q) - 1) PROVE (front \o back)[k] = IF k < i THEN q[k] ELSE q[k + 1]
  <2>1. CASE k < i
    BY <1>0, <1>1, <1>2, <2>1
  <2>2. CASE ~(k < i)
    <3>1. (front \o back)[k] = back[k - (i - 1)]
      BY <1>0, <1>1, <1>2, <2>2
    <3>2. k - (i - 1) \in 1..(Len(q) - i) /\ (k - (i - 1)) + i = k + 1
      BY <1>0, <2>2
    <3>3. back[k - (i - 1)] = q[(k - (i - 1)) + i]
      BY <1>2, <3>2
    <3> QED
      BY <2>2, <3>1, <3>2, <3>3
  <2> QED
    BY <2>1, <2>2
<1> QED
  BY <1>3, <1>4, <1>5

(* An object is taken out.                                                 *)
LEMMA RemoveHolds ==
  ASSUME NEW info, Indexed(info), NEW kind, OfKind(kind, info), NEW s \in info.mask
  PROVE  /\ Indexed(RemoveShared(info, s)) /\ OfKind(kind, RemoveShared(info, s))
         /\ \A g : Holds(info, g) => Holds(RemoveShared(info, s), Restrict(g, DOMAIN g \ {s}))
<1> DEFINE n == Len(info.ids)
           old(k, i) == IF k < i THEN k ELSE k + 1
<1>0. /\ info.ids \in Seq(SharedIds) /\ info.data \in Seq(Nat) /\ n \in Nat
      /\ Len(info.data) = n /\ Len(info.ids) = n
      /\ \A i, k \in 1..n : info.ids[i] = info.ids[k] => i = k
      /\ info.mask = {info.ids[i] : i \in 1..n}
  BY DEF Indexed
<1>1. PICK j \in 1..n : info.ids[j] = s /\ IndexOf(info, s) = j
  BY Found
<1>2. PICK new : new = [mask |-> info.mask \ {s}, ids |-> RemoveAt(info.ids, j), data |-> RemoveAt(info.data, j)]
  OBVIOUS
<1>3. RemoveShared(info, s) = new
  BY <1>1, <1>2 DEF RemoveShared
<1>4. /\ new.ids \in Seq(SharedIds) /\ Len(new.ids) = n - 1
      /\ \A k \in 1..(n - 1) : new.ids[k] = IF k < j THEN info.ids[k] ELSE info.ids[k + 1]
  <2>1. new.ids = RemoveAt(info.ids, j)
    BY <1>2
  <2>2. info.ids \in Seq(SharedIds) /\ j \in 1..Len(info.ids)
    BY <1>0, <1>1
  <2>3. /\ new.ids \in Seq(SharedIds) /\ Len(new.ids) = Len(info.ids) - 1
        /\ \A k \in 1..(Len(info.ids) - 1) : new.ids[k] = IF k < j THEN info.ids[k] ELSE info.ids[k + 1]
    BY <2>1, <2>2, RemoveAtIs
  <2> QED
    BY <1>0, <2>3
<1>5. /\ new.data \in Seq(Nat) /\ Len(new.data) = n - 1
      /\ \A k \in 1..(n - 1) : new.data[k] = IF k < j THEN info.data[k] ELSE info.data[k + 1]
  <2>1. j \in 1..Len(info.data) /\ Len(info.data) = n
    BY <1>0, <1>1
  <2>2. new.data = RemoveAt(info.data, j)
    BY <1>2
  <2>3. info.data \in Seq(Nat)
    BY <1>0
  <2>4. /\ new.data \in Seq(Nat) /\ Len(new.data) = Len(info.data) - 1
        /\ \A k \in 1..(Len(info.data) - 1) : new.data[k] = IF k < j THEN info.data[k] ELSE info.data[k + 1]
    BY <2>1, <2>2, <2>3, RemoveAtIs
  <2> QED
    BY <2>1, <2>4
<1>6. \A k \in 1..(n - 1) : /\ old(k, j) \in 1..n /\ old(k, j) # j
                            /\ new.ids[k] = info.ids[old(k, j)] /\ new.data[k] = info.data[old(k, j)]
  <2> TAKE k \in 1..(n - 1)
  <2>0. n \in Nat /\ j \in Nat /\ 1 <= j /\ j <= n /\ k \in Nat /\ 1 <= k /\ k <= n - 1
    BY <1>0, <1>1
  <2>1. old(k, j) \in 1..n /\ old(k, j) # j
    <3>1. CASE k < j
      <4>1. old(k, j) = k /\ k \in 1..n /\ k # j
        BY <2>0, <3>1
      <4> QED
        BY <4>1
    <3>2. CASE ~(k < j)
      <4>1. old(k, j) = k + 1 /\ k + 1 \in 1..n /\ k + 1 # j
        BY <2>0, <3>2
      <4> QED
        BY <4>1
    <3> QED
      BY <3>1, <3>2
  <2>2. new.ids[k] = info.ids[old(k, j)]
    BY <1>4
  <2>3. new.data[k] = info.data[old(k, j)]
    BY <1>5
  <2> QED
    BY <2>1, <2>2, <2>3
<1>7. \A i \in 1..n : i # j => \E k \in 1..(n - 1) : old(k, j) = i
  <2> TAKE i \in 1..n
  <2>1. CASE i < j
    <3>1. i \in 1..(n - 1) /\ old(i, j) = i
      BY <1>0, <1>1, <2>1
    <3> QED
      BY <3>1
  <2>2. CASE i > j
    <3>1. i - 1 \in 1..(n - 1) /\ old(i - 1, j) = i
      BY <1>0, <1>1, <2>2
    <3> QED
      BY <3>1
  <2> QED
    BY <1>0, <2>1, <2>2
<1>8. \A k, l \in 1..(n - 1) : old(k, j) = old(l, j) => k = l
  BY <1>0, <1>1
<1> HIDE DEF old, n
<1>9. Indexed(new)
  <2>1. ASSUME NEW k \in 1..(n - 1), NEW l \in 1..(n - 1), new.ids[k] = new.ids[l] PROVE k = l
    <3>1. info.ids[old(k, j)] = info.ids[old(l, j)] /\ old(k, j) \in 1..n /\ old(l, j) \in 1..n
      BY <1>6, <2>1
    <3>2. old(k, j) = old(l, j)
      BY <1>0, <3>1
    <3> QED
      BY <1>8, <3>2
  <2>2. ASSUME NEW x \in info.mask \ {s} PROVE \E k \in 1..(n - 1) : x = new.ids[k]
    <3>1. PICK i \in 1..n : x = info.ids[i]
      BY <1>0
    <3>2. i # j
      BY <1>1, <3>1
    <3> QED
      BY <1>6, <1>7, <3>1, <3>2
  <2>3. ASSUME NEW k \in 1..(n - 1) PROVE new.ids[k] \in info.mask \ {s}
    <3>1. old(k, j) \in 1..n /\ old(k, j) # j /\ new.ids[k] = info.ids[old(k, j)]
      BY <1>6
    <3>2. info.ids[old(k, j)] \in info.mask
      BY <1>0, <3>1
    <3>3. info.ids[old(k, j)] # s
      BY <1>0, <1>1, <3>1
    <3> QED
      BY <3>1, <3>2, <3>3
  <2>4. new.mask = info.mask \ {s} /\ new = [mask |-> new.mask, ids |-> new.ids, data |-> new.data]
    BY <1>2
  <2>5. new.mask = {new.ids[k] : k \in 1..(n - 1)}
    BY <2>2, <2>3, <2>4
  <2> QED
    BY <1>4, <1>5, <2>1, <2>4, <2>5 DEF Indexed
<1>10. OfKind(kind, new)
  <2>1. \A i \in 1..n : info.data[i] \in DOMAIN kind /\ kind[info.data[i]] = info.ids[i]
    BY <1>0 DEF OfKind
  <2>2. \A k \in 1..(n - 1) : new.data[k] \in DOMAIN kind /\ kind[new.data[k]] = new.ids[k]
    BY <1>6, <2>1
  <2> QED
    BY <1>4, <2>2 DEF OfKind
<1>11. ASSUME NEW g, Holds(info, g) PROVE Holds(new, Restrict(g, DOMAIN g \ {s}))
  <2>1. DOMAIN g = info.mask /\ \A i \in 1..n : info.data[i] = g[info.ids[i]]
    BY <1>0, <1>11 DEF Holds
  <2>2. DOMAIN Restrict(g, DOMAIN g \ {s}) = new.mask
    BY <1>2, <2>1 DEF Restrict
  <2>3. \A k \in 1..(n - 1) : new.ids[k] \in DOMAIN g \ {s}
    <3>1. new.mask = {new.ids[k] : k \in 1..(n - 1)}
      BY <1>4, <1>9 DEF Indexed
    <3>2. new.mask = DOMAIN g \ {s}
      BY <1>2, <2>1
    <3> QED
      BY <3>1, <3>2
  <2>4. \A k \in 1..(n - 1) : new.data[k] = Restrict(g, DOMAIN g \ {s})[new.ids[k]]
    BY <1>6, <2>1, <2>3 DEF Restrict
  <2> QED
    BY <1>4, <1>9, <2>2, <2>4 DEF Holds
<1> QED
  BY <1>3, <1>9, <1>10, <1>11

-----------------------------------------------------------------------------
(* The invariant.                                                          *)
InfoOf(k) == [mask |-> k.mask, ids |-> archetypes[k], data |-> k.data]

Shapes ==
  /\ pointers \in Seq(Values)
  /\ interned \in [SharedIds -> Seq(Nat)]
  /\ \A s \in SharedIds : \A i \in 1..Len(interned[s]) : interned[s][i] \in 1..Len(pointers)
  /\ DOMAIN of = DOMAIN given /\ given = [e \in DOMAIN of |-> given[e]]
  /\ \A e \in DOMAIN of : of[e] \in DOMAIN archetypes

(* Objects kept for others to find have different values.                  *)
InternedApart ==
  \A s \in SharedIds : \A i, k \in 1..Len(interned[s]) :
    pointers[interned[s][i]] = pointers[interned[s][k]] => interned[s][i] = interned[s][k]

MasksGiven ==
  ~broken => \A e \in DOMAIN of : of[e].mask = DOMAIN given[e] /\ of[e].mask \subseteq SharedIds

(* Each object has one type, in the lists of kept objects,                 *)
KeptBy(kind) ==
  /\ kind \in [1..Len(pointers) -> SharedIds]
  /\ \A s \in SharedIds : \A i \in 1..Len(interned[s]) : kind[interned[s][i]] = s

(* and in the infos of all archetypes.                                     *)
ListedBy(kind) ==
  ~merged => \A k \in DOMAIN archetypes : Indexed(InfoOf(k)) /\ OfKind(kind, InfoOf(k))

GivenHeld ==
  ~broken /\ ~merged => \A e \in DOMAIN of : Holds(InfoOf(of[e]), given[e])

Inv ==
  /\ Shapes /\ InternedApart /\ MasksGiven /\ GivenHeld
  /\ \E kind : KeptBy(kind) /\ ListedBy(kind)

(* The objects made for another info do not change the types of others.    *)
Extends(kind, before) ==
  /\ kind \in [1..Len(pointers') -> SharedIds] /\ before \in [1..Len(pointers) -> SharedIds]
  /\ Len(pointers) <= Len(pointers')
  /\ \A p \in 1..Len(pointers) : kind[p] = before[p]

LEMMA KindKept ==
  ASSUME NEW kind, NEW before, Extends(kind, before), NEW info, OfKind(before, info),
         Len(pointers) \in Nat, Len(pointers') \in Nat
  PROVE  OfKind(kind, info)
<1>1. DOMAIN before = 1..Len(pointers) /\ DOMAIN kind = 1..Len(pointers')
  BY DEF Extends
<1>2. \A p \in DOMAIN before : p \in DOMAIN kind /\ kind[p] = before[p]
  BY <1>1 DEF Extends
<1> QED
  BY <1>2 DEF OfKind

(* An entity that enters the archetype of an info: whether it was there    *)
(* already or not, it has the types the info has.                          *)
LEMMA EnterKeeps ==
  ASSUME Inv, NEW e \in Entities, NEW u, NEW info, Enter(e, u, info),
         NEW before, ListedBy(before), NEW kind, Extends(kind, before),
         Len(pointers) \in Nat, Len(pointers') \in Nat,
         ~merged' => ~merged /\ Indexed(info) /\ OfKind(kind, info)
  PROVE  /\ DOMAIN of' = DOMAIN of \cup {e}
         /\ of'[e].mask = info.mask
         /\ \A f \in DOMAIN of' : of'[f] \in DOMAIN archetypes'
         /\ \A f \in DOMAIN of : f # e => of'[f] = of[f] /\ InfoOf(of[f])' = InfoOf(of[f])
         /\ ListedBy(kind)'
         /\ ~merged' => InfoOf(of[e])' = info
<1> DEFINE key == Key(u, info)
<1>1. /\ archetypes' = IF key \in DOMAIN archetypes THEN archetypes ELSE Put(archetypes, key, info.ids)
      /\ of' = Put(of, e, key)
  BY DEF Enter
<1>2. key.mask = info.mask /\ key.data = info.data
  BY DEF Key
<1> HIDE DEF key
<1>3. /\ DOMAIN of' = DOMAIN of \cup {e} /\ of'[e] = key
      /\ \A f \in DOMAIN of : f # e => of'[f] = of[f]
  BY <1>1 DEF Put
<1>4. /\ key \in DOMAIN archetypes' /\ DOMAIN archetypes' = DOMAIN archetypes \cup {key}
      /\ \A k \in DOMAIN archetypes : archetypes'[k] = archetypes[k]
      /\ key \notin DOMAIN archetypes => archetypes'[key] = info.ids
  BY <1>1 DEF Put
<1>5. \A f \in DOMAIN of : of[f] \in DOMAIN archetypes
  BY DEF Inv, Shapes
<1>6. \A f \in DOMAIN of : f # e => InfoOf(of[f])' = InfoOf(of[f])
  BY <1>3, <1>4, <1>5 DEF InfoOf
<1>7. ASSUME ~merged' PROVE archetypes'[key] = info.ids
  <2>1. CASE key \in DOMAIN archetypes
    <3>1. Indexed(InfoOf(key)) /\ OfKind(before, InfoOf(key))
      BY <1>7, <2>1 DEF ListedBy
    <3>2. OfKind(kind, InfoOf(key))
      BY <3>1, KindKept
    <3>3. InfoOf(key).data = info.data /\ InfoOf(key).ids = archetypes[key]
      BY <1>2 DEF InfoOf
    <3>4. InfoOf(key).ids = info.ids
      BY <1>7, <3>1, <3>2, <3>3, SameIds
    <3> QED
      BY <1>4, <2>1, <3>3, <3>4
  <2> QED
    BY <1>4, <2>1
<1>8. ASSUME ~merged' PROVE InfoOf(key)' = info
  <2>1. InfoOf(key)' = [mask |-> key.mask, ids |-> archetypes'[key], data |-> key.data]
    BY DEF InfoOf, key
  <2>2. info = [mask |-> info.mask, ids |-> info.ids, data |-> info.data]
    BY <1>8 DEF Indexed
  <2> QED
    BY <1>2, <1>7, <1>8, <2>1, <2>2
<1>9. ~merged' => InfoOf(of[e])' = info
  BY <1>3, <1>8 DEF InfoOf, key
<1>10. ListedBy(kind)'
  <2> SUFFICES ASSUME ~merged', NEW k \in DOMAIN archetypes'
               PROVE Indexed(InfoOf(k))' /\ OfKind(kind, InfoOf(k))'
    BY DEF ListedBy
  <2>1. CASE k \in DOMAIN archetypes
    <3>1. Indexed(InfoOf(k)) /\ OfKind(before, InfoOf(k))
      BY <2>1 DEF ListedBy
    <3>2. OfKind(kind, InfoOf(k))
      BY <3>1, KindKept
    <3>3. InfoOf(k)' = InfoOf(k)
      BY <1>4, <2>1 DEF InfoOf
    <3> QED
      BY <3>1, <3>2, <3>3 DEF Indexed, OfKind
  <2>2. CASE k = key
    <3>1. [mask |-> k.mask, ids |-> archetypes'[k], data |-> k.data] = info
      BY <1>8, <2>2 DEF InfoOf, key
    <3>2. InfoOf(k)' = info
      BY <3>1 DEF InfoOf
    <3> QED
      BY <3>2 DEF Indexed, OfKind
  <2> QED
    BY <1>4, <2>1, <2>2
<1> QED
  BY <1>2, <1>3, <1>4, <1>5, <1>6, <1>9, <1>10

(* What a call that takes e to the archetype of an info has to show.       *)
LEMMA EntersInv ==
  ASSUME Inv, NEW e \in Entities, NEW u, NEW info, Enter(e, u, info),
         NEW before, ListedBy(before), NEW kind, Extends(kind, before), KeptBy(kind)',
         pointers' \in Seq(Values), interned' \in [SharedIds -> Seq(Nat)],
         \A s \in SharedIds : \A i \in 1..Len(interned'[s]) : interned'[s][i] \in 1..Len(pointers'),
         InternedApart',
         NEW g, given' = Put(given, e, g) \/ (e \in DOMAIN given /\ given' = [given EXCEPT ![e] = g]),
         ~broken' => ~broken /\ info.mask = DOMAIN g /\ info.mask \subseteq SharedIds,
         ~merged' => ~merged /\ Indexed(info) /\ OfKind(kind, info),
         ~broken' /\ ~merged' => Holds(info, g)
  PROVE  Inv'
<1>0. /\ Len(pointers) \in Nat /\ Len(pointers') \in Nat
      /\ DOMAIN of = DOMAIN given /\ given = [f \in DOMAIN of |-> given[f]]
  BY DEF Inv, Shapes
<1>1. /\ DOMAIN of' = DOMAIN of \cup {e}
      /\ of'[e].mask = info.mask
      /\ \A f \in DOMAIN of' : of'[f] \in DOMAIN archetypes'
      /\ \A f \in DOMAIN of : f # e => of'[f] = of[f] /\ InfoOf(of[f])' = InfoOf(of[f])
      /\ ListedBy(kind)'
      /\ ~merged' => InfoOf(of[e])' = info
  BY <1>0, EnterKeeps
<1>2. /\ DOMAIN given' = DOMAIN of' /\ given' = [f \in DOMAIN of' |-> given'[f]]
      /\ given'[e] = g /\ \A f \in DOMAIN of : f # e => given'[f] = given[f]
  <2>1. CASE given' = Put(given, e, g)
    BY <1>0, <1>1, <2>1 DEF Put
  <2>2. CASE e \in DOMAIN given /\ given' = [given EXCEPT ![e] = g]
    BY <1>0, <1>1, <2>2
  <2> QED
    BY <2>1, <2>2
<1>3. Shapes'
  BY <1>1, <1>2 DEF Shapes
<1>4. \A f \in DOMAIN of' : f = e \/ (f # e /\ f \in DOMAIN of)
  BY <1>1
<1>5. MasksGiven'
  <2> SUFFICES ASSUME ~broken', NEW f \in DOMAIN of'
               PROVE of'[f].mask = DOMAIN given'[f] /\ of'[f].mask \subseteq SharedIds
    BY DEF MasksGiven
  <2>1. CASE f = e
    BY <1>1, <1>2, <2>1
  <2>2. CASE f # e /\ f \in DOMAIN of
    BY <1>1, <1>2, <2>2 DEF Inv, MasksGiven
  <2> QED
    BY <1>4, <2>1, <2>2
<1>6. GivenHeld'
  <2> SUFFICES ASSUME ~broken', ~merged', NEW f \in DOMAIN of'
               PROVE Holds(InfoOf(of[f])', given'[f])
    BY DEF GivenHeld, Holds, Indexed
  <2>1. CASE f = e
    BY <1>1, <1>2, <2>1
  <2>2. CASE f # e /\ f \in DOMAIN of
    BY <1>1, <1>2, <2>2 DEF Inv, GivenHeld
  <2> QED
    BY <1>4, <2>1, <2>2
<1> QED
  BY <1>1, <1>3, <1>5, <1>6 DEF Inv

(* Nobody makes objects.                                                   *)
LEMMA SameKinds ==
  ASSUME Inv, UNCHANGED <<pointers, interned>>
  PROVE  /\ pointers' \in Seq(Values) /\ interned' \in [SharedIds -> Seq(Nat)]
         /\ \A s \in SharedIds : \A i \in 1..Len(interned'[s]) : interned'[s][i] \in 1..Len(pointers')
         /\ InternedApart'
         /\ \E kind : ListedBy(kind) /\ KeptBy(kind) /\ Extends(kind, kind) /\ KeptBy(kind)'
<1>1. PICK kind : KeptBy(kind) /\ ListedBy(kind)
  BY DEF Inv
<1>2. Len(pointers) \in Nat
  BY DEF Inv, Shapes
<1>3. Extends(kind, kind) /\ KeptBy(kind)'
  BY <1>1, <1>2 DEF KeptBy, Extends
<1> QED
  BY <1>1, <1>3 DEF Inv, Shapes, InternedApart

(* An entity's info, before anything was merged.                           *)
LEMMA InfoFacts ==
  ASSUME Inv, NEW e \in DOMAIN of, NEW kind, ListedBy(kind)
  PROVE  /\ Info(e) = InfoOf(of[e])
         /\ ~broken => Info(e).mask = DOMAIN given[e] /\ Info(e).mask \subseteq SharedIds
         /\ ~merged => Indexed(Info(e)) /\ OfKind(kind, Info(e))
         /\ ~broken /\ ~merged => Holds(Info(e), given[e])
<1>1. Info(e) = InfoOf(of[e]) /\ Info(e).mask = of[e].mask
  BY DEF Info, InfoOf
<1>2. of[e] \in DOMAIN archetypes
  BY DEF Inv, Shapes
<1> QED
  BY <1>1, <1>2 DEF Inv, MasksGiven, GivenHeld, ListedBy

LEMMA ChangeUniqueKeeps ==
  ASSUME Inv, NEW e \in Entities, NEW unique, ChangeUnique(e, unique)
  PROVE  Inv'
<1>1. /\ ~broken /\ e \in DOMAIN of /\ Enter(e, unique, Info(e))
      /\ UNCHANGED <<pointers, interned, given, merged, broken>>
  BY DEF ChangeUnique
<1>2. PICK kind : ListedBy(kind) /\ KeptBy(kind) /\ Extends(kind, kind) /\ KeptBy(kind)'
  BY <1>1, SameKinds
<1>3. e \in DOMAIN given /\ given' = [given EXCEPT ![e] = given[e]]
  BY <1>1 DEF Inv, Shapes
<1> QED
  BY <1>1, <1>2, <1>3, InfoFacts, SameKinds, EntersInv

(* A builder merges the info of the archetype into an empty one; that      *)
(* changes nothing if it has no types.                                     *)
LEMMA BuildOnKeeps ==
  ASSUME Inv, NEW e \in Entities, NEW unique, BuildOn(e, unique)
  PROVE  Inv'
<1> DEFINE info == Merge(NoShared, Info(e))
<1>1. /\ ~broken /\ e \in DOMAIN of /\ Enter(e, unique, info)
      /\ merged' = (merged \/ of[e].mask # {})
      /\ UNCHANGED <<pointers, interned, given, broken>>
  BY DEF BuildOn
<1>2. PICK kind : ListedBy(kind) /\ KeptBy(kind) /\ Extends(kind, kind) /\ KeptBy(kind)'
  BY <1>1, SameKinds
<1>3. e \in DOMAIN given /\ given' = [given EXCEPT ![e] = given[e]]
  BY <1>1 DEF Inv, Shapes
<1>4. /\ ~broken => Info(e).mask = DOMAIN given[e] /\ Info(e).mask \subseteq SharedIds
      /\ ~merged => Indexed(Info(e)) /\ OfKind(kind, Info(e))
      /\ ~broken /\ ~merged => Holds(Info(e), given[e])
  BY <1>1, <1>2, InfoFacts
<1>5. Info(e).mask = of[e].mask
  BY DEF Info
<1>6. info.mask = Info(e).mask
  BY DEF Merge, NoShared
<1>7. ASSUME ~merged' PROVE ~merged /\ info = Info(e)
  <2>1. ~merged /\ Info(e).mask = {}
    BY <1>1, <1>5, <1>7
  <2>2. /\ Info(e).ids \in Seq(SharedIds) /\ Info(e).data \in Seq(Nat)
        /\ Len(Info(e).data) = Len(Info(e).ids)
        /\ Info(e).mask = {Info(e).ids[i] : i \in 1..Len(Info(e).ids)}
        /\ Info(e) = [mask |-> Info(e).mask, ids |-> Info(e).ids, data |-> Info(e).data]
    BY <1>4, <2>1 DEF Indexed
  <2>3. Len(Info(e).ids) = 0
    <3>1. 1..Len(Info(e).ids) = {}
      BY <2>1, <2>2
    <3>2. Len(Info(e).ids) \in Nat
      BY <2>2
    <3> QED
      BY <3>1, <3>2
  <2>4. Info(e).ids = <<>> /\ Info(e).data = <<>>
    BY <2>2, <2>3
  <2>5. info = [mask |-> {}, ids |-> <<>>, data |-> <<>>]
    <3>1. <<>> \o <<>> = <<>>
      OBVIOUS
    <3> QED
      BY <2>1, <2>4, <3>1 DEF Merge, NoShared
  <2> QED
    BY <2>1, <2>2, <2>4, <2>5
<1> HIDE DEF info
<1>8. ~broken' => ~broken /\ info.mask = DOMAIN given[e] /\ info.mask \subseteq SharedIds
  BY <1>1, <1>4, <1>6
<1>9. ~merged' => ~merged /\ Indexed(info) /\ OfKind(kind, info)
  BY <1>4, <1>7
<1>10. ~broken' /\ ~merged' => Holds(info, given[e])
  BY <1>1, <1>4, <1>7
<1> QED
  BY <1>1, <1>2, <1>3, <1>8, <1>9, <1>10, SameKinds, EntersInv

(* Nothing but an entity comes or goes.                                    *)
LEMMA CloneKeeps ==
  ASSUME Inv, NEW e \in Entities, NEW dest \in Entities, Clone(e, dest)
  PROVE  Inv'
<1>1. /\ ~broken /\ e \in DOMAIN of /\ dest \notin DOMAIN of
      /\ of' = Put(of, dest, of[e]) /\ given' = Put(given, dest, given[e])
      /\ UNCHANGED <<pointers, interned, archetypes, merged, broken>>
  BY DEF Clone
<1>2. DOMAIN of = DOMAIN given /\ given = [f \in DOMAIN of |-> given[f]]
  BY DEF Inv, Shapes
<1>3. /\ DOMAIN of' = DOMAIN of \cup {dest} /\ DOMAIN given' = DOMAIN of'
      /\ given' = [f \in DOMAIN of' |-> given'[f]]
      /\ of'[dest] = of[e] /\ given'[dest] = given[e]
      /\ \A f \in DOMAIN of : of'[f] = of[f] /\ given'[f] = given[f]
  BY <1>1, <1>2 DEF Put
<1>4. Shapes'
  BY <1>1, <1>3 DEF Inv, Shapes
<1>5. MasksGiven'
  BY <1>1, <1>3 DEF Inv, MasksGiven
<1>6. GivenHeld'
  <2> SUFFICES ASSUME ~broken', ~merged', NEW f \in DOMAIN of'
               PROVE Holds(InfoOf(of[f])', given'[f])
    BY DEF GivenHeld, Holds, Indexed
  <2>1. PICK b \in DOMAIN of : of'[f] = of[b] /\ given'[f] = given[b]
    BY <1>1, <1>3
  <2>2. InfoOf(of[f])' = InfoOf(of[b])
    BY <1>1, <2>1 DEF InfoOf
  <2> QED
    BY <1>1, <2>1, <2>2 DEF Inv, GivenHeld
<1>7. \A kind : KeptBy(kind) /\ ListedBy(kind) => KeptBy(kind)' /\ ListedBy(kind)'
  BY <1>1 DEF KeptBy, ListedBy, InfoOf, Indexed, OfKind
<1> QED
  BY <1>1, <1>4, <1>5, <1>6, <1>7 DEF Inv, InternedApart

LEMMA DestroyKeeps ==
  ASSUME Inv, NEW e \in Entities, Destroy(e)
  PROVE  Inv'
<1>1. /\ ~broken /\ e \in DOMAIN of
      /\ of' = Restrict(of, DOMAIN of \ {e}) /\ given' = Restrict(given, DOMAIN given \ {e})
      /\ UNCHANGED <<pointers, interned, archetypes, merged, broken>>
  BY DEF Destroy
<1>2. DOMAIN of = DOMAIN given /\ given = [f \in DOMAIN of |-> given[f]]
  BY DEF Inv, Shapes
<1>3. /\ DOMAIN of' = DOMAIN of \ {e} /\ DOMAIN given' = DOMAIN of'
      /\ given' = [f \in DOMAIN of' |-> given'[f]]
      /\ \A f \in DOMAIN of' : f \in DOMAIN of /\ of'[f] = of[f] /\ given'[f] = given[f]
  BY <1>1, <1>2 DEF Restrict
<1>4. Shapes'
  BY <1>1, <1>3 DEF Inv, Shapes
<1>5. MasksGiven'
  BY <1>1, <1>3 DEF Inv, MasksGiven
<1>6. GivenHeld'
  <2> SUFFICES ASSUME ~broken', ~merged', NEW f \in DOMAIN of'
               PROVE Holds(InfoOf(of[f])', given'[f])
    BY DEF GivenHeld, Holds, Indexed
  <2>1. PICK b \in DOMAIN of : of'[f] = of[b] /\ given'[f] = given[b]
    BY <1>1, <1>3
  <2>2. InfoOf(of[f])' = InfoOf(of[b])
    BY <1>1, <2>1 DEF InfoOf
  <2> QED
    BY <1>1, <2>1, <2>2 DEF Inv, GivenHeld
<1>7. \A kind : KeptBy(kind) /\ ListedBy(kind) => KeptBy(kind)' /\ ListedBy(kind)'
  BY <1>1 DEF KeptBy, ListedBy, InfoOf, Indexed, OfKind
<1> QED
  BY <1>1, <1>4, <1>5, <1>6, <1>7 DEF Inv, InternedApart

(* The objects create makes, one of each type in turn.                     *)
LEMMA CreateKeeps ==
  ASSUME Inv, NEW e \in Entities, NEW unique, NEW shared \in SharedLists, Create(e, unique, shared)
  PROVE  Inv'
<1>0. PICK n : n = Len(pointers)
  OBVIOUS
<1> DEFINE info == [mask |-> ToSet(shared), ids |-> shared, data |-> [i \in DOMAIN shared |-> n + i]]
           g == [s \in ToSet(shared) |-> GetShared(info, s)]
           more == [i \in DOMAIN shared |-> DefaultValue]
<1>1. /\ ~broken /\ e \notin DOMAIN of /\ Enter(e, unique, info)
      /\ pointers' = pointers \o more /\ given' = Put(given, e, g)
      /\ UNCHANGED <<interned, merged, broken>>
  BY <1>0 DEF Create
<1>2. /\ shared \in Seq(SharedIds) /\ Len(shared) \in Nat
      /\ \A i, k \in 1..Len(shared) : shared[i] = shared[k] => i = k
  <2>1. shared \in BoundedSeq(SharedIds, Cardinality(SharedIds)) /\ IsInjective(shared)
    BY DEF SharedLists
  <2>2. PICK m \in 0..Cardinality(SharedIds) : shared \in [1..m -> SharedIds]
    BY <2>1 DEF BoundedSeq, SeqOf
  <2>3. m \in Nat
    BY <2>2
  <2> QED
    BY <2>1, <2>2, <2>3 DEF IsInjective
<1>3. /\ pointers \in Seq(Values) /\ n \in Nat
      /\ interned \in [SharedIds -> Seq(Nat)]
      /\ \A s \in SharedIds : \A i \in 1..Len(interned[s]) : interned[s][i] \in 1..n
  BY <1>0 DEF Inv, Shapes
<1>4. more \in Seq(Values) /\ Len(more) = Len(shared)
  BY <1>2, SharedAssumption DEF SharedAssumption
<1> HIDE DEF more
<1>5. /\ pointers' \in Seq(Values) /\ Len(pointers') = n + Len(shared)
      /\ \A p \in 1..n : pointers'[p] = pointers[p]
  <2>1. pointers' = pointers \o more /\ pointers \in Seq(Values) /\ more \in Seq(Values)
    BY <1>1, <1>3, <1>4
  <2>2. /\ pointers' \in Seq(Values) /\ Len(pointers') = Len(pointers) + Len(more)
        /\ \A p \in 1..Len(pointers) : pointers'[p] = pointers[p]
    BY ONLY <2>1
  <2> QED
    BY <1>0, <1>4, <2>2
<1>6. PICK before : KeptBy(before) /\ ListedBy(before)
  BY DEF Inv
<1>7. before \in [1..n -> SharedIds]
  BY <1>0, <1>6 DEF KeptBy
<1>a. PICK kind : kind = [p \in 1..(n + Len(shared)) |-> IF p <= n THEN before[p] ELSE shared[p - n]]
  OBVIOUS
<1>8. kind \in [1..(n + Len(shared)) -> SharedIds]
  <2> SUFFICES ASSUME NEW p \in 1..(n + Len(shared))
               PROVE  (IF p <= n THEN before[p] ELSE shared[p - n]) \in SharedIds
    BY <1>a
  <2>1. CASE p <= n
    BY <1>3, <1>7, <2>1
  <2>2. CASE ~(p <= n)
    <3>1. p - n \in 1..Len(shared)
      BY <1>2, <1>3, <2>2
    <3>2. shared[p - n] \in SharedIds
      BY <1>2, <3>1
    <3> QED
      BY <2>2, <3>2
  <2> QED
    BY <2>1, <2>2
<1>9. Extends(kind, before)
  <2>1. \A p \in 1..n : kind[p] = before[p]
    BY <1>2, <1>3, <1>a
  <2>2. n <= n + Len(shared)
    BY <1>2, <1>3
  <2> QED
    BY <1>0, <1>5, <1>7, <1>8, <2>1, <2>2 DEF Extends
<1>10. \A i \in 1..Len(shared) : n + i \in DOMAIN kind /\ kind[n + i] = shared[i]
  <2> TAKE i \in 1..Len(shared)
  <2>1. n + i \in 1..(n + Len(shared)) /\ ~(n + i <= n) /\ (n + i) - n = i
    BY <1>2, <1>3
  <2> QED
    BY <1>a, <2>1
<1>11. \A p \in 1..n : kind[p] = before[p]
  BY <1>2, <1>3, <1>a
<1>12. KeptBy(kind)'
  <2>1. \A s \in SharedIds : \A i \in 1..Len(interned[s]) : before[interned[s][i]] = s
    BY <1>6 DEF KeptBy
  <2>2. \A s \in SharedIds : \A i \in 1..Len(interned[s]) : kind[interned[s][i]] = s
    BY <1>3, <1>11, <2>1
  <2>3. interned' = interned
    BY <1>1
  <2> QED
    BY <1>5, <1>8, <2>2, <2>3 DEF KeptBy
<1>13. InternedApart'
  <2>1. \A s \in SharedIds : \A i \in 1..Len(interned[s]) :
          pointers'[interned[s][i]] = pointers[interned[s][i]]
    BY <1>3, <1>5
  <2>2. InternedApart /\ interned' = interned
    BY <1>1 DEF Inv
  <2> QED
    BY <2>1, <2>2 DEF InternedApart
<1>14. \A s \in SharedIds : \A i \in 1..Len(interned'[s]) : interned'[s][i] \in 1..Len(pointers')
  BY <1>1, <1>2, <1>3, <1>5
<1>15. /\ info.ids = shared /\ info.mask = ToSet(shared) /\ Len(info.data) = Len(shared)
       /\ info.data \in Seq(Nat) /\ \A i \in 1..Len(shared) : info.data[i] = n + i
  <2>1. DOMAIN shared = 1..Len(shared)
    BY <1>2
  <2>2. info.data = [i \in 1..Len(shared) |-> n + i]
    BY <2>1
  <2>3. info.data \in [1..Len(shared) -> Nat]
    <3>1. \A i \in 1..Len(shared) : n + i \in Nat
      BY <1>3
    <3> QED
      BY ONLY <2>2, <3>1
  <2>4. info.data \in Seq(Nat) /\ Len(info.data) = Len(shared)
    BY ONLY <1>2, <2>3
  <2> QED
    BY <2>2, <2>4
<1>16. Indexed(info)
  <2>1. ToSet(shared) = {shared[i] : i \in 1..Len(shared)}
    BY <1>2 DEF ToSet
  <2>2. info = [mask |-> info.mask, ids |-> info.ids, data |-> info.data]
    OBVIOUS
  <2> HIDE DEF info
  <2> QED
    BY <1>2, <1>15, <2>1, <2>2 DEF Indexed
<1>17. \A i \in 1..Len(shared) : shared[i] \in ToSet(shared) /\ ToSet(shared) \subseteq SharedIds
  BY <1>2 DEF ToSet
<1>18. OfKind(kind, info) /\ info.mask \subseteq SharedIds
  <2>1. ToSet(shared) \subseteq SharedIds
    BY <1>2 DEF ToSet
  <2> HIDE DEF info
  <2> QED
    BY <1>10, <1>15, <2>1 DEF OfKind
<1>19. Holds(info, g)
  <2> HIDE DEF info
  <2>1. ASSUME NEW i \in 1..Len(shared) PROVE info.data[i] = g[shared[i]]
    <3>1. IndexOf(info, info.ids[i]) = i
      BY <1>2, <1>15, IndexIs
    <3>2. i # 0
      BY <1>2
    <3>3. GetShared(info, shared[i]) = info.data[i]
      BY <1>15, <3>1, <3>2 DEF GetShared
    <3> QED
      BY <1>17, <3>3
  <2> QED
    BY <1>15, <1>16, <2>1 DEF Holds
<1>20. info.mask = DOMAIN g
  BY <1>15
<1> HIDE DEF info, g
<1> QED
  BY <1>1, <1>5, <1>3, <1>6, <1>9, <1>12, <1>13, <1>14, <1>16, <1>18, <1>19, <1>20, EntersInv

(* The object of a value: one that is kept, or one more.                   *)
LEMMA InternedMakes ==
  ASSUME Inv, NEW s \in SharedIds, NEW value \in Values,
         interned' = [interned EXCEPT ![s] = Interned(s, value)],
         IF interned' = interned THEN UNCHANGED pointers ELSE pointers' = Append(pointers, value),
         NEW p,
         (\E q \in ToSet(interned'[s]) : pointers'[q] = value /\ (interned' # interned => q = Len(pointers')))
         => p \in ToSet(interned'[s]) /\ (interned' # interned => p = Len(pointers'))
  PROVE  /\ pointers' \in Seq(Values) /\ interned' \in [SharedIds -> Seq(Nat)]
         /\ \A t \in SharedIds : \A i \in 1..Len(interned'[t]) : interned'[t][i] \in 1..Len(pointers')
         /\ InternedApart'
         /\ \E kind, before : /\ ListedBy(before) /\ Extends(kind, before) /\ KeptBy(kind)'
                              /\ p \in Nat /\ p \in DOMAIN kind /\ kind[p] = s
<1>1. /\ pointers \in Seq(Values) /\ Len(pointers) \in Nat
      /\ interned \in [SharedIds -> Seq(Nat)] /\ interned[s] \in Seq(Nat) /\ Len(interned[s]) \in Nat
      /\ \A t \in SharedIds : \A i \in 1..Len(interned[t]) : interned[t][i] \in 1..Len(pointers)
  BY DEF Inv, Shapes
<1>2. PICK before : KeptBy(before) /\ ListedBy(before)
  BY DEF Inv
<1>3. /\ before \in [1..Len(pointers) -> SharedIds]
      /\ \A t \in SharedIds : \A i \in 1..Len(interned[t]) : before[interned[t][i]] = t
  BY <1>2 DEF KeptBy
<1>4. CASE \E i \in DOMAIN interned[s] : pointers[interned[s][i]] = value
  <2>1. interned' = interned
    BY <1>1, <1>4 DEF Interned
  <2>2. UNCHANGED <<pointers, interned>>
    BY <2>1
  <2>3. \E q \in ToSet(interned'[s]) : pointers'[q] = value /\ (interned' # interned => q = Len(pointers'))
    BY <1>4, <2>2 DEF ToSet
  <2>4. p \in ToSet(interned[s])
    BY <2>2, <2>3
  <2>5. PICK i \in 1..Len(interned[s]) : p = interned[s][i]
    <3>1. DOMAIN interned[s] = 1..Len(interned[s])
      BY <1>1
    <3> QED
      BY <2>4, <3>1 DEF ToSet
  <2>6. p \in Nat /\ p \in DOMAIN before /\ before[p] = s
    BY <1>1, <1>3, <2>5
  <2>7. Extends(before, before) /\ KeptBy(before)'
    BY <1>1, <1>2, <1>3, <2>2 DEF Extends, KeptBy
  <2>8. InternedApart'
    BY <2>2 DEF Inv, InternedApart
  <2> QED
    BY <1>1, <1>2, <2>2, <2>6, <2>7, <2>8
<1>5. CASE ~(\E i \in DOMAIN interned[s] : pointers[interned[s][i]] = value)
  <2>0. PICK n, m : n = Len(pointers) + 1 /\ m = Len(interned[s]) + 1
    OBVIOUS
  <2>a. PICK kind : kind = [q \in 1..n |-> IF q = n THEN s ELSE before[q]]
    OBVIOUS
  <2>1. interned' = [interned EXCEPT ![s] = Append(interned[s], n)]
    BY <1>5, <2>0 DEF Interned
  <2>2. /\ interned'[s] = Append(interned[s], n)
        /\ \A t \in SharedIds : t # s => interned'[t] = interned[t]
        /\ interned' \in [SharedIds -> Seq(Nat)]
    <3>1. n \in Nat
      BY <1>1, <2>0
    <3>2. Append(interned[s], n) \in Seq(Nat)
      BY <1>1, <3>1
    <3> QED
      BY <1>1, <2>1, <3>2
  <2>3. /\ Len(interned'[s]) = m /\ interned'[s][m] = n
        /\ \A i \in 1..Len(interned[s]) : interned'[s][i] = interned[s][i]
        /\ \A i \in 1..m : i = m \/ i \in 1..Len(interned[s])
        /\ m \in 1..m
    <3>1. interned[s] \in Seq(Nat) /\ n \in Nat /\ Len(interned[s]) \in Nat
      BY <1>1, <2>0
    <3>2. /\ Len(Append(interned[s], n)) = Len(interned[s]) + 1
          /\ Append(interned[s], n)[Len(interned[s]) + 1] = n
          /\ \A i \in 1..Len(interned[s]) : Append(interned[s], n)[i] = interned[s][i]
      BY ONLY <3>1
    <3>3. \A i \in 1..m : i = m \/ i \in 1..Len(interned[s])
      BY <2>0, <3>1
    <3>4. m \in 1..m
      BY <2>0, <3>1
    <3> QED
      BY <2>0, <2>2, <3>2, <3>3, <3>4
  <2>4. interned' # interned
    <3>1. Len(interned'[s]) # Len(interned[s])
      BY <1>1, <2>0, <2>3
    <3> QED
      BY <3>1
  <2>5. pointers' = Append(pointers, value)
    BY <2>4
  <2>6. /\ pointers' \in Seq(Values) /\ Len(pointers') = n /\ pointers'[n] = value
        /\ \A q \in 1..Len(pointers) : pointers'[q] = pointers[q] /\ q # n /\ q \in 1..n
        /\ \A q \in 1..n : q = n \/ q \in 1..Len(pointers)
        /\ n \in Nat /\ n \in 1..n /\ Len(pointers) <= n
    BY <1>1, <2>0, <2>5
  <2>7. n \in ToSet(interned'[s])
    <3>1. m \in DOMAIN interned'[s]
      BY <1>1, <2>2, <2>3
    <3> QED
      BY <2>3, <3>1 DEF ToSet
  <2>8. p = n
    <3>1. \E q \in ToSet(interned'[s]) : pointers'[q] = value /\ (interned' # interned => q = Len(pointers'))
      BY <2>6, <2>7
    <3> QED
      BY <2>4, <2>6, <3>1
  <2>9. \A t \in SharedIds : \A i \in 1..Len(interned'[t]) :
          \/ t = s /\ interned'[t][i] = n
          \/ i \in 1..Len(interned[t]) /\ interned'[t][i] = interned[t][i] /\ interned[t][i] \in 1..Len(pointers)
    BY <1>1, <2>2, <2>3
  <2>10. \A t \in SharedIds : \A i \in 1..Len(interned'[t]) : interned'[t][i] \in 1..Len(pointers')
    BY <2>6, <2>9
  <2>11. InternedApart'
    <3> SUFFICES ASSUME NEW t \in SharedIds, NEW i \in 1..Len(interned'[t]), NEW k \in 1..Len(interned'[t]),
                        pointers'[interned'[t][i]] = pointers'[interned'[t][k]]
                 PROVE  interned'[t][i] = interned'[t][k]
      BY DEF InternedApart
    <3>1. \A j \in 1..Len(interned[s]) : pointers[interned[s][j]] # value
      BY <1>1, <1>5
    <3>2. \A j \in 1..Len(interned[s]) : pointers'[interned[s][j]] # value
      BY <1>1, <2>6, <3>1
    <3>3. CASE t = s /\ (interned'[t][i] = n \/ interned'[t][k] = n)
      BY <2>6, <2>9, <3>2, <3>3
    <3>4. CASE ~(t = s /\ (interned'[t][i] = n \/ interned'[t][k] = n))
      <4>1. /\ i \in 1..Len(interned[t]) /\ interned'[t][i] = interned[t][i] /\ interned[t][i] \in 1..Len(pointers)
            /\ k \in 1..Len(interned[t]) /\ interned'[t][k] = interned[t][k] /\ interned[t][k] \in 1..Len(pointers)
        BY <2>9, <3>4
      <4>2. pointers[interned[t][i]] = pointers[interned[t][k]]
        BY <2>6, <4>1
      <4> QED
        BY <4>1, <4>2 DEF Inv, InternedApart
    <3> QED
      BY <3>3, <3>4
  <2>12. kind \in [1..n -> SharedIds] /\ kind[n] = s /\ \A q \in 1..Len(pointers) : kind[q] = before[q]
    BY <1>3, <2>6, <2>a
  <2>13. KeptBy(kind)'
    <3>1. \A t \in SharedIds : \A i \in 1..Len(interned'[t]) : kind[interned'[t][i]] = t
      BY <1>3, <2>9, <2>12
    <3> QED
      BY <2>6, <2>12, <3>1 DEF KeptBy
  <2>14. Extends(kind, before)
    BY <1>3, <2>6, <2>12 DEF Extends
  <2>15. p \in Nat /\ p \in DOMAIN kind /\ kind[p] = s
    BY <2>6, <2>8, <2>12
  <2> QED
    BY <1>2, <2>2, <2>6, <2>10, <2>11, <2>13, <2>14, <2>15
<1> QED
  BY <1>4, <1>5

(* Where the code may do anything from here on.                            *)
LEMMA BrokenInv ==
  ASSUME Inv, NEW e \in DOMAIN of, broken', UNCHANGED <<archetypes, of, merged>>,
         NEW g, given' = [given EXCEPT ![e] = g],
         pointers' \in Seq(Values), interned' \in [SharedIds -> Seq(Nat)],
         \A s \in SharedIds : \A i \in 1..Len(interned'[s]) : interned'[s][i] \in 1..Len(pointers'),
         InternedApart',
         NEW before, ListedBy(before), NEW kind, Extends(kind, before), KeptBy(kind)'
  PROVE  Inv'
<1>1. /\ Len(pointers) \in Nat /\ Len(pointers') \in Nat
      /\ DOMAIN of = DOMAIN given /\ given = [f \in DOMAIN of |-> given[f]]
  BY DEF Inv, Shapes
<1>2. DOMAIN given' = DOMAIN of' /\ given' = [f \in DOMAIN of' |-> given'[f]]
  BY <1>1
<1>3. Shapes'
  BY <1>2 DEF Inv, Shapes
<1>4. MasksGiven' /\ GivenHeld'
  BY DEF MasksGiven, GivenHeld
<1>5. ListedBy(kind)'
  <2> SUFFICES ASSUME ~merged', NEW k \in DOMAIN archetypes'
               PROVE Indexed(InfoOf(k))' /\ OfKind(kind, InfoOf(k))'
    BY DEF ListedBy
  <2>1. Indexed(InfoOf(k)) /\ OfKind(before, InfoOf(k))
    BY DEF ListedBy
  <2>2. OfKind(kind, InfoOf(k))
    BY <1>1, <2>1, KindKept
  <2>3. InfoOf(k)' = InfoOf(k)
    BY DEF InfoOf
  <2> QED
    BY <2>1, <2>2, <2>3 DEF Indexed, OfKind
<1> QED
  BY <1>3, <1>4, <1>5 DEF Inv

LEMMA AssignSharedKeeps ==
  ASSUME Inv, NEW e \in Entities, NEW s \in SharedIds, NEW value \in Values, AssignShared(e, s, value)
  PROVE  Inv'
<1>1. PICK p : p = CHOOSE q \in ToSet(interned'[s]) :
                     pointers'[q] = value /\ (interned' # interned => q = Len(pointers'))
  OBVIOUS
<1>2. /\ ~broken /\ e \in DOMAIN of
      /\ interned' = [interned EXCEPT ![s] = Interned(s, value)]
      /\ IF interned' = interned THEN UNCHANGED pointers ELSE pointers' = Append(pointers, value)
      /\ IF Locates(Info(e), s)
         THEN Enter(e, of[e].unique, AddShared(Info(e), s, p)) /\ UNCHANGED broken
         ELSE broken' = TRUE /\ UNCHANGED <<archetypes, of>>
      /\ given' = [given EXCEPT ![e] = Put(given[e], s, p)]
      /\ UNCHANGED merged
  BY <1>1 DEF AssignShared
<1>3. /\ pointers' \in Seq(Values) /\ interned' \in [SharedIds -> Seq(Nat)]
      /\ \A t \in SharedIds : \A i \in 1..Len(interned'[t]) : interned'[t][i] \in 1..Len(pointers')
      /\ InternedApart'
      /\ \E kind, before : /\ ListedBy(before) /\ Extends(kind, before) /\ KeptBy(kind)'
                           /\ p \in Nat /\ p \in DOMAIN kind /\ kind[p] = s
  <2>1. (\E q \in ToSet(interned'[s]) : pointers'[q] = value /\ (interned' # interned => q = Len(pointers')))
        => p \in ToSet(interned'[s]) /\ (interned' # interned => p = Len(pointers'))
    BY <1>1
  <2> QED
    BY <1>2, <2>1, InternedMakes
<1>4. PICK kind, before : /\ ListedBy(before) /\ Extends(kind, before) /\ KeptBy(kind)'
                          /\ p \in Nat /\ p \in DOMAIN kind /\ kind[p] = s
  BY <1>3
<1>5. CASE ~Locates(Info(e), s)
  BY <1>2, <1>3, <1>4, <1>5, BrokenInv
<1>6. CASE Locates(Info(e), s)
  <2> DEFINE info == AddShared(Info(e), s, p)
             g == Put(given[e], s, p)
  <2>1. /\ ~broken => Info(e).mask = DOMAIN given[e] /\ Info(e).mask \subseteq SharedIds
        /\ ~merged => Indexed(Info(e)) /\ OfKind(before, Info(e))
        /\ ~broken /\ ~merged => Holds(Info(e), given[e])
    BY <1>2, <1>4, InfoFacts
  <2>2. info.mask = Info(e).mask \cup {s} /\ DOMAIN g = DOMAIN given[e] \cup {s}
    BY DEF AddShared, Info, Put
  <2>3. ASSUME ~merged PROVE Indexed(info) /\ OfKind(kind, info) /\ (~broken => Holds(info, g))
    <3>1. Indexed(Info(e)) /\ OfKind(kind, Info(e))
      <4>1. Len(pointers) \in Nat /\ Len(pointers') \in Nat
        BY <1>3 DEF Inv, Shapes
      <4> QED
        BY <1>4, <2>1, <2>3, <4>1, KindKept
    <3> QED
      BY <1>4, <2>1, <2>3, <3>1, AddHolds
  <2> HIDE DEF info, g
  <2>4. e \in DOMAIN given /\ given' = [given EXCEPT ![e] = g]
    BY <1>2 DEF Inv, Shapes, g
  <2>5. Enter(e, of[e].unique, info)
    BY <1>2, <1>6 DEF info
  <2>6. ~broken' => ~broken /\ info.mask = DOMAIN g /\ info.mask \subseteq SharedIds
    BY <1>2, <2>1, <2>2
  <2>7. ~merged' => ~merged /\ Indexed(info) /\ OfKind(kind, info)
    BY <1>2, <2>3
  <2>8. ~broken' /\ ~merged' => Holds(info, g)
    BY <1>2, <2>3
  <2> QED
    BY <1>3, <1>4, <2>4, <2>5, <2>6, <2>7, <2>8, EntersInv
<1> QED
  BY <1>5, <1>6

LEMMA RemoveSharedComponentKeeps ==
  ASSUME Inv, NEW e \in Entities, NEW s \in SharedIds, RemoveSharedComponent(e, s)
  PROVE  Inv'
<1> DEFINE info == RemoveShared(Info(e), s)
           g == Restrict(given[e], DOMAIN given[e] \ {s})
<1>1. /\ ~broken /\ e \in DOMAIN of /\ s \in of[e].mask
      /\ IF Locates(Info(e), s)
         THEN Enter(e, of[e].unique, info) /\ UNCHANGED broken
         ELSE broken' = TRUE /\ UNCHANGED <<archetypes, of>>
      /\ given' = [given EXCEPT ![e] = g]
      /\ UNCHANGED <<pointers, interned, merged>>
  BY DEF RemoveSharedComponent
<1>2. PICK kind : ListedBy(kind) /\ KeptBy(kind) /\ Extends(kind, kind) /\ KeptBy(kind)'
  BY <1>1, SameKinds
<1>3. /\ ~broken => Info(e).mask = DOMAIN given[e] /\ Info(e).mask \subseteq SharedIds
      /\ ~merged => Indexed(Info(e)) /\ OfKind(kind, Info(e))
      /\ ~broken /\ ~merged => Holds(Info(e), given[e])
  BY <1>1, <1>2, InfoFacts
<1>4. s \in Info(e).mask
  BY <1>1 DEF Info
<1>5. info.mask = Info(e).mask \ {s} /\ DOMAIN g = DOMAIN given[e] \ {s}
  BY <1>4 DEF RemoveShared, Restrict
<1>6. ASSUME ~merged PROVE Indexed(info) /\ OfKind(kind, info) /\ (~broken => Holds(info, g))
  BY <1>3, <1>4, <1>6, RemoveHolds
<1> HIDE DEF info, g
<1>7. e \in DOMAIN given /\ given' = [given EXCEPT ![e] = g]
  BY <1>1 DEF Inv, Shapes
<1>8. CASE ~Locates(Info(e), s)
  BY <1>1, <1>2, <1>8, SameKinds, BrokenInv
<1>9. CASE Locates(Info(e), s)
  <2>1. Enter(e, of[e].unique, info)
    BY <1>1, <1>9
  <2>2. ~broken' => ~broken /\ info.mask = DOMAIN g /\ info.mask \subseteq SharedIds
    BY <1>1, <1>3, <1>5
  <2>3. ~merged' => ~merged /\ Indexed(info) /\ OfKind(kind, info)
    BY <1>1, <1>6
  <2>4. ~broken' /\ ~merged' => Holds(info, g)
    BY <1>1, <1>6
  <2> QED
    BY <1>1, <1>2, <1>7, <2>1, <2>2, <2>3, <2>4, SameKinds, EntersInv
<1> QED
  BY <1>8, <1>9

-----------------------------------------------------------------------------
LEMMA InitInv == Init => Inv
<1> SUFFICES ASSUME Init PROVE Inv
  OBVIOUS
<1>1. /\ pointers = <<>> /\ interned = [s \in SharedIds |-> <<>>]
      /\ archetypes = Nothing /\ of = Nothing /\ given = Nothing
      /\ DOMAIN Nothing = {} /\ Nothing = [k \in {} |-> Nothing[k]]
  BY DEF Init, Nothing
<1>2. /\ pointers \in Seq(Values) /\ Len(pointers) = 0
      /\ interned \in [SharedIds -> Seq(Nat)]
      /\ \A s \in SharedIds : interned[s] = <<>> /\ Len(interned[s]) = 0
  BY <1>1
<1>3. Shapes
  BY <1>1, <1>2 DEF Shapes
<1>4. InternedApart /\ MasksGiven /\ GivenHeld
  BY <1>1, <1>2 DEF InternedApart, MasksGiven, GivenHeld
<1>5. KeptBy([p \in {} |-> p]) /\ ListedBy([p \in {} |-> p])
  <2>1. 1..Len(pointers) = {}
    BY <1>2
  <2> QED
    BY <1>1, <1>2, <2>1 DEF KeptBy, ListedBy
<1> QED
  BY <1>3, <1>4, <1>5 DEF Inv

LEMMA StepInv == Inv /\ [Next]_vars => Inv'
<1> SUFFICES ASSUME Inv, [Next]_vars PROVE Inv'
  OBVIOUS
<1>1. CASE Next
  BY <1>1, CreateKeeps, AssignSharedKeeps, RemoveSharedComponentKeeps, ChangeUniqueKeeps,
     BuildOnKeeps, CloneKeeps, DestroyKeeps DEF Next
<1>2. CASE UNCHANGED vars
  <2>1. \A kind : KeptBy(kind) /\ ListedBy(kind) => KeptBy(kind)' /\ ListedBy(kind)'
    BY <1>2 DEF vars, KeptBy, ListedBy, InfoOf, Indexed, OfKind
  <2>2. GivenHeld'
    <3> SUFFICES ASSUME ~broken', ~merged', NEW f \in DOMAIN of'
                 PROVE Holds(InfoOf(of[f])', given'[f])
      BY DEF GivenHeld, Holds, Indexed
    <3>1. InfoOf(of[f])' = InfoOf(of[f])
      BY <1>2 DEF vars, InfoOf
    <3> QED
      BY <1>2, <3>1 DEF vars, Inv, GivenHeld
  <2> QED
    BY <1>2, <2>1, <2>2 DEF vars, Inv, Shapes, InternedApart, MasksGiven
<1> QED
  BY <1>1, <1>2

(* In every reachable state each shared object has one type, the objects   *)
(* kept for others to find have different values, an archetype lists its   *)
(* types in the order of its objects and entities have the types they were *)
(* given (SharedComponentsInfo, getCreatedSharedComponent, getArchetype).  *)
THEOREM SharedInvariant == Spec => []Inv
<1> QED
  BY InitInv, StepInv, PTL DEF Spec

(* For any types, values and archetypes: entities have the shared          *)
(* components they were given, find the very objects until infos are       *)
(* merged, and objects kept of equal values are one (getSharedComponent,   *)
(* getCreatedSharedComponent, getArchetype).                               *)
THEOREM SharedAlwaysFound == Spec => []SharedFound
<1>1. Inv => SharedFound
  <2> SUFFICES ASSUME Inv, ~broken
               PROVE  /\ \A e \in DOMAIN of :
                           /\ of[e].mask = DOMAIN given[e]
                           /\ ~merged => \A s \in of[e].mask : GetShared(Info(e), s) = given[e][s]
                      /\ \A e, f \in DOMAIN of : \A s \in of[e].mask \cap of[f].mask :
                           (/\ pointers[given[e][s]] = pointers[given[f][s]]
                            /\ {given[e][s], given[f][s]} \subseteq ToSet(interned[s]))
                           => given[e][s] = given[f][s]
    BY DEF SharedFound
  <2>1. ASSUME NEW e \in DOMAIN of
        PROVE  of[e].mask = DOMAIN given[e] /\ of[e].mask \subseteq SharedIds
    BY DEF Inv, MasksGiven
  <2>2. ASSUME NEW e \in DOMAIN of, ~merged, NEW s \in of[e].mask
        PROVE  GetShared(Info(e), s) = given[e][s]
    <3>1. Holds(Info(e), given[e]) /\ Info(e).mask = of[e].mask
      BY <2>2 DEF Inv, GivenHeld, Info, InfoOf
    <3> QED
      BY <3>1, HoldsFinds
  <2>3. ASSUME NEW s \in SharedIds, NEW p \in ToSet(interned[s]), NEW q \in ToSet(interned[s]),
               pointers[p] = pointers[q]
        PROVE  p = q
    <3>1. interned[s] \in Seq(Nat)
      BY DEF Inv, Shapes
    <3>2. PICK i \in 1..Len(interned[s]), k \in 1..Len(interned[s]) : p = interned[s][i] /\ q = interned[s][k]
      BY <3>1 DEF ToSet
    <3> QED
      BY <2>3, <3>2 DEF Inv, InternedApart
  <2> QED
    BY <2>1, <2>2, <2>3
<1> QED
  BY <1>1, SharedInvariant, PTL

-----------------------------------------------------------------------------
(* Masks.                                                                  *)

(* The id at a place of a block.                                           *)
LEMMA IdOfPlace ==
  ASSUME NEW w \in Nat \ {0}, NEW b \in Nat, NEW j \in 0..(w - 1)
  PROVE  /\ b * w + j \in Nat
         /\ (b * w + j) \div w = b
         /\ (b * w + j) % w = j
OBVIOUS

(* The block of an id and its place there.                                 *)
Placed(i, w, q, r) ==
  /\ q = i \div w /\ r = i % w
  /\ i = q * w + r /\ i - q * w = r
  /\ i < w <=> q = 0
  /\ i < w => r = i

LEMMA PlaceOfId ==
  ASSUME NEW w \in Nat \ {0}, NEW i \in Nat
  PROVE  \E q \in Nat : \E r \in 0..(w - 1) : Placed(i, w, q, r)
<1>1. i \div w \in Nat /\ (i \div w) * w <= i /\ i < (i \div w) * w + w
  OBVIOUS
<1>2. PICK q \in Nat : q = i \div w
  BY <1>1
<1>3. PICK r \in 0..(w - 1) : i = q * w + r /\ i - q * w = r
  BY <1>1, <1>2
<1>4. i % w = r
  BY <1>3, IdOfPlace
<1>5. i < w => i \div w = 0 /\ i % w = i
  OBVIOUS
<1>6. q = 0 => i < w
  BY <1>3
<1> QED
  BY <1>2, <1>3, <1>4, <1>5, <1>6, Zenon DEF Placed

LEMMA BlockOfId ==
  ASSUME NEW w \in Nat \ {0}, NEW i \in Nat
  PROVE  \E q \in Nat : q = i \div w
OBVIOUS

(* An id is before the n-th block if its block is.                         *)
LEMMA BlockBefore ==
  ASSUME NEW w \in Nat \ {0}, NEW i \in Nat, NEW n \in Nat
  PROVE  i < n * w <=> i \div w < n
OBVIOUS

(* The blocks an array gets for an id reach it.                            *)
LEMMA Reached ==
  ASSUME NEW p \in Nat \ {0}, NEW q \in Nat
  PROVE  ((q + p) \div p) * p \in Nat /\ q < ((q + p) \div p) * p
OBVIOUS

(* The parts of a mask: an array of blocks, which a static mask has one of.*)
Shape(m) ==
  /\ m \in [dynamic : BOOLEAN, tail : BOOLEAN, size : Nat, blocks : Seq(SUBSET Ms!Bits)]
  /\ Len(m.blocks) > 0 /\ Len(m.blocks) <= m.size
  /\ ~m.dynamic => m.size = 1 /\ ~m.tail /\ m.blocks[1] \subseteq Ms!StaticBits

(* The id is in the blocks.                                                *)
In(m, i) == i \div Width < Len(m.blocks) /\ i % Width \in m.blocks[i \div Width + 1]

(* The mask stands for the set S.                                          *)
Means(m, S) ==
  /\ Shape(m) /\ Ms!Whole(m) /\ ~m.tail
  /\ S \subseteq ItemIds
  /\ \A i \in Nat : i \in S <=> In(m, i)

(* What has() knows of a mask is right, and a mask known in full stands    *)
(* for its set.                                                            *)
Good(m, S, ids) ==
  /\ Shape(m) /\ S \subseteq ItemIds /\ ids \subseteq ItemIds
  /\ \A i \in ids : Ms!Has(m, i) <=> i \in S
  /\ Ms!Whole(m) /\ ids = ItemIds => Means(m, S)

MaskInv ==
  /\ masks = [o \in Masks |-> masks[o]]
  /\ items = [o \in Masks |-> items[o]]
  /\ known = [o \in Masks |-> known[o]]
  /\ \A o \in Masks : Good(masks[o], items[o], known[o])

LEMMA WidthIs ==
  /\ Width \in Nat \ {0} /\ Width > 2 /\ PerLine \in Nat \ {0} /\ ItemIds \subseteq Nat
  /\ Ms!Bits = 0..(Width - 1) /\ Ms!StaticBits = 0..(Width - 3)
  /\ Ms!StaticBits \subseteq ItemIds /\ Ms!StaticBits \subseteq Ms!Bits
BY ComponentsAssumption DEF Ms!MasksAssumption, Ms!Bits, Ms!StaticBits

(* has() of a mask whose size is right.                                    *)
LEMMA HasIs ==
  ASSUME NEW m, Shape(m), Ms!Whole(m), ~m.tail, NEW i \in Nat
  PROVE  Ms!Has(m, i) <=> In(m, i)
<1>1. PICK q \in Nat : \E r \in 0..(Width - 1) : Placed(i, Width, q, r)
  BY PlaceOfId, WidthIs
<1>0. PICK r \in 0..(Width - 1) : Placed(i, Width, q, r)
  BY <1>1
<1>a. /\ q = i \div Width /\ r = i % Width /\ i - q * Width = r
      /\ i < Width <=> q = 0
      /\ i < Width => r = i
  BY <1>0 DEF Placed
<1>b. In(m, i) <=> q < Len(m.blocks) /\ r \in m.blocks[q + 1]
  BY <1>a DEF In
<1>2. m.size = Len(m.blocks) /\ m.size \in Nat
  BY DEF Shape, Ms!Whole
<1>3. CASE m.dynamic
  <2>1. Ms!Has(m, i) <=> q < m.size /\ r \in m.blocks[q + 1]
    BY <1>3, <1>a DEF Ms!Has
  <2> QED
    BY <1>2, <1>b, <2>1
<1>4. CASE ~m.dynamic
  <2>1. m.size = 1 /\ m.blocks[1] \subseteq 0..(Width - 3)
    BY <1>4, WidthIs DEF Shape
  <2>2. Ms!Has(m, i) <=> i \in 0..(Width - 3) /\ i \in m.blocks[1]
    <3>1. 0 < m.size /\ i - 0 * Width = i /\ 0 + 1 = 1
      BY <2>1, WidthIs
    <3> QED
      BY <1>4, <3>1, WidthIs DEF Ms!Has
  <2>3. In(m, i) <=> q = 0 /\ r \in m.blocks[1]
    BY <1>2, <1>b, <2>1
  <2>4. q = 0 => r = i
    BY <1>a
  <2>5. i \in 0..(Width - 3) => q = 0
    BY <1>a, WidthIs
  <2> QED
    BY <2>1, <2>2, <2>3, <2>4, <2>5
<1> QED
  BY <1>3, <1>4

(* The members of a block are ids of the set.                              *)
LEMMA CellIs ==
  ASSUME NEW m, NEW S, Means(m, S), NEW b \in 1..Len(m.blocks), NEW j \in Ms!Bits
  PROVE  (b - 1) * Width + j \in Nat /\ ((b - 1) * Width + j \in S <=> j \in m.blocks[b])
<1>1. b - 1 \in Nat /\ (b - 1) + 1 = b /\ b - 1 < Len(m.blocks)
  BY DEF Means, Shape
<1>2. PICK a \in Nat : a = b - 1
  BY <1>1
<1>3. PICK i \in Nat : i = a * Width + j /\ i \div Width = a /\ i % Width = j
  BY IdOfPlace, WidthIs
<1>4. i \in S <=> In(m, i)
  BY DEF Means
<1>5. In(m, i) <=> j \in m.blocks[b]
  BY <1>1, <1>2, <1>3 DEF In
<1> QED
  BY <1>2, <1>3, <1>4, <1>5

(* A block past the array of a mask whose tail is not set is empty.        *)
LEMMA BlockIs ==
  ASSUME NEW m, NEW S, Means(m, S), NEW i \in Nat
  PROVE  i \in S <=> i % Width \in Ms!Block(m, i \div Width + 1)
<1>0. PICK q \in Nat : q = i \div Width
  BY BlockOfId, WidthIs
<1>1. i \div Width \in Nat /\ m.size = Len(m.blocks) /\ m.size \in Nat /\ ~m.tail
  BY <1>0 DEF Means, Shape, Ms!Whole
<1>2. i \div Width + 1 <= m.size <=> i \div Width < Len(m.blocks)
  BY <1>1
<1> QED
  BY <1>1, <1>2 DEF Means, In, Ms!Block

(* So a mask that stands for a set is good, whatever is known of it.       *)
LEMMA MeansGood ==
  ASSUME NEW m, NEW S, Means(m, S), NEW ids, ids \subseteq ItemIds
  PROVE  Good(m, S, ids)
<1>1. \A i \in ids : Ms!Has(m, i) <=> i \in S
  BY HasIs, WidthIs DEF Means
<1> QED
  BY <1>1 DEF Means, Good

LEMMA NullMeans ==
  Means(Ms!NullMask, {})
<1> DEFINE m == Ms!NullMask
<1>1. /\ m \in [dynamic : BOOLEAN, tail : BOOLEAN, size : Nat, blocks : Seq(SUBSET Ms!Bits)]
      /\ Len(m.blocks) = 1 /\ m.blocks[1] = {} /\ m.size = 1 /\ ~m.tail /\ ~m.dynamic
  BY DEF Ms!NullMask
<1> HIDE DEF m
<1>2. ASSUME NEW i \in Nat PROVE ~In(m, i)
  <2>1. PICK q \in Nat : q = i \div Width
    BY BlockOfId, WidthIs
  <2> QED
    BY <1>1, <2>1 DEF In
<1>3. Shape(m)
  BY <1>1 DEF Shape
<1> QED
  BY <1>1, <1>2, <1>3 DEF Means, Ms!Whole, m

(* A bit that is set or cleared.                                           *)
LEMMA WithBitMeans ==
  ASSUME NEW m, NEW S, Means(m, S), NEW i \in ItemIds, NEW v \in BOOLEAN,
         i \div Width < Len(m.blocks), ~m.dynamic => i \in Ms!StaticBits
  PROVE  Means(Ms!WithBit(m, i, v), Ms!SetItem(S, i, v))
<1>1. PICK q \in Nat : \E r \in 0..(Width - 1) : Placed(i, Width, q, r)
  BY PlaceOfId, WidthIs
<1>0. PICK r \in 0..(Width - 1) : Placed(i, Width, q, r)
  BY <1>1
<1>2. /\ q = i \div Width /\ r = i % Width
      /\ i < Width <=> q = 0
      /\ i < Width => r = i
  BY <1>0 DEF Placed
<1>3. PICK M : M = Ms!WithBit(m, i, v)
  OBVIOUS
<1>4. /\ m \in [dynamic : BOOLEAN, tail : BOOLEAN, size : Nat, blocks : Seq(SUBSET Ms!Bits)]
      /\ Len(m.blocks) \in Nat /\ Len(m.blocks) > 0 /\ m.size = Len(m.blocks) /\ ~m.tail
      /\ ~m.dynamic => m.size = 1 /\ m.blocks[1] \subseteq Ms!StaticBits
      /\ S \subseteq ItemIds
  BY DEF Means, Shape, Ms!Whole
<1>5. q + 1 \in 1..Len(m.blocks)
  BY <1>2, <1>4
<1>6. PICK x : x = Ms!SetItem(m.blocks[q + 1], r, v)
  OBVIOUS
<1>7. x \in SUBSET Ms!Bits
  BY <1>4, <1>5, <1>6, WidthIs DEF Ms!SetItem
<1>a. PICK l : l = [m.blocks EXCEPT ![q + 1] = x]
  OBVIOUS
<1>b. M = [m EXCEPT !.blocks = l]
  BY <1>2, <1>3, <1>4, <1>5, <1>6, <1>a DEF Ms!WithBit
<1>c. /\ l \in Seq(SUBSET Ms!Bits) /\ Len(l) = Len(m.blocks)
      /\ \A b \in 1..Len(m.blocks) : l[b] = IF b = q + 1 THEN x ELSE m.blocks[b]
  BY <1>4, <1>5, <1>7, <1>a
<1>8. /\ M \in [dynamic : BOOLEAN, tail : BOOLEAN, size : Nat, blocks : Seq(SUBSET Ms!Bits)]
      /\ Len(M.blocks) = Len(m.blocks) /\ M.size = m.size /\ M.tail = m.tail /\ M.dynamic = m.dynamic
      /\ \A b \in 1..Len(m.blocks) :
           M.blocks[b] = IF b = q + 1 THEN Ms!SetItem(m.blocks[q + 1], r, v) ELSE m.blocks[b]
  BY <1>4, <1>6, <1>b, <1>c
<1>9. ~M.dynamic => M.size = 1 /\ ~M.tail /\ M.blocks[1] \subseteq Ms!StaticBits
  <2> SUFFICES ASSUME ~M.dynamic PROVE M.blocks[1] \subseteq Ms!StaticBits
    BY <1>4, <1>8
  <2>1. i \in Ms!StaticBits /\ m.blocks[1] \subseteq Ms!StaticBits
    BY <1>4, <1>8
  <2>a. i < Width
    BY <2>1, WidthIs
  <2>2. q = 0 /\ r = i
    BY <1>2, <2>a
  <2>3. M.blocks[1] = Ms!SetItem(m.blocks[1], i, v)
    BY <1>4, <1>8, <2>2
  <2> QED
    BY <2>1, <2>3 DEF Ms!SetItem
<1>10. ASSUME NEW k \in Nat PROVE k \in Ms!SetItem(S, i, v) <=> In(M, k)
  <2>1. PICK p \in Nat : \E s \in 0..(Width - 1) : Placed(k, Width, p, s)
    BY PlaceOfId, WidthIs
  <2>0. PICK s \in 0..(Width - 1) : Placed(k, Width, p, s)
    BY <2>1
  <2>2. p = k \div Width /\ s = k % Width
    BY <2>0 DEF Placed
  <2>3. k = i <=> p = q /\ s = r
    <3>1. k = p * Width + s /\ i = q * Width + r
      BY <1>0, <2>0 DEF Placed
    <3> QED
      BY <1>2, <2>2, <3>1, Zenon
  <2>4. k \in S <=> p < Len(m.blocks) /\ s \in m.blocks[p + 1]
    BY <2>2 DEF Means, In
  <2>5. In(M, k) <=> p < Len(M.blocks) /\ s \in M.blocks[p + 1]
    BY <2>2 DEF In
  <2>6. p < Len(m.blocks) => p + 1 \in 1..Len(m.blocks) /\ (p + 1 = q + 1 <=> p = q)
    BY <1>4
  <2> QED
    BY <1>4, <1>5, <1>8, <2>3, <2>4, <2>5, <2>6 DEF Ms!SetItem
<1>11. Ms!SetItem(S, i, v) \subseteq ItemIds
  BY <1>4 DEF Ms!SetItem
<1> QED
  BY <1>3, <1>4, <1>8, <1>9, <1>10, <1>11 DEF Means, Shape, Ms!Whole

(* A longer array, of a mask whose tail is not set.                        *)
LEMMA ReallocMeans ==
  ASSUME NEW m, NEW S, Means(m, S), NEW new \in Nat, NEW old \in Nat,
         Ms!Greatest(old, 1) = Len(m.blocks), Len(m.blocks) <= new
  PROVE  /\ Means(Ms!Realloc(m, new, old), S)
         /\ Len(Ms!Realloc(m, new, old).blocks) = new
         /\ Ms!Realloc(m, new, old).dynamic
<1>1. PICK M : M = Ms!Realloc(m, new, old)
  OBVIOUS
<1>2. /\ m.blocks \in Seq(SUBSET Ms!Bits) /\ Len(m.blocks) \in Nat /\ Len(m.blocks) > 0
      /\ m.tail = FALSE /\ S \subseteq ItemIds
  BY DEF Means, Shape
<1>3. M = [dynamic |-> TRUE, tail |-> FALSE, size |-> new,
           blocks |-> [b \in 1..new |-> IF b <= Len(m.blocks) THEN m.blocks[b] ELSE {}]]
  BY <1>1, <1>2 DEF Ms!Realloc
<1>4. [b \in 1..new |-> IF b <= Len(m.blocks) THEN m.blocks[b] ELSE {}] \in Seq(SUBSET Ms!Bits)
  BY <1>2
<1>5. /\ M \in [dynamic : BOOLEAN, tail : BOOLEAN, size : Nat, blocks : Seq(SUBSET Ms!Bits)]
      /\ Len(M.blocks) = new /\ M.size = new /\ M.tail = FALSE /\ M.dynamic = TRUE
      /\ \A b \in 1..new : M.blocks[b] = IF b <= Len(m.blocks) THEN m.blocks[b] ELSE {}
  BY <1>3, <1>4
<1>6. ASSUME NEW k \in Nat PROVE k \in S <=> In(M, k)
  <2>1. PICK p \in Nat : p = k \div Width
    BY BlockOfId, WidthIs
  <2>2. k \in S <=> p < Len(m.blocks) /\ k % Width \in m.blocks[p + 1]
    BY <2>1 DEF Means, In
  <2>3. In(M, k) <=> p < new /\ k % Width \in M.blocks[p + 1]
    BY <1>5, <2>1 DEF In
  <2>4. p < new => M.blocks[p + 1] = IF p + 1 <= Len(m.blocks) THEN m.blocks[p + 1] ELSE {}
    BY <1>5
  <2> QED
    BY <1>2, <2>2, <2>3, <2>4
<1> QED
  BY <1>1, <1>2, <1>5, <1>6 DEF Means, Shape, Ms!Whole

(* set() and add(), whether the mask changes its representation or not.    *)
LEMMA SetMeans ==
  ASSUME NEW m, NEW S, Means(m, S), NEW i \in ItemIds, NEW v \in BOOLEAN
  PROVE  Means(Ms!Set(m, i, v), Ms!SetItem(S, i, v))
<1>1. PICK q \in Nat : \E r \in 0..(Width - 1) : Placed(i, Width, q, r)
  BY PlaceOfId, WidthIs
<1>2. PICK r \in 0..(Width - 1) : Placed(i, Width, q, r)
  BY <1>1
<1>3. /\ q = i \div Width /\ r = i % Width
      /\ i < Width <=> q = 0
      /\ i < Width => r = i
  BY <1>2 DEF Placed
<1>4. /\ Len(m.blocks) \in Nat /\ Len(m.blocks) > 0 /\ m.size = Len(m.blocks) /\ ~m.tail
      /\ m.dynamic \in BOOLEAN
      /\ ~m.dynamic => m.size = 1 /\ m.blocks[1] \subseteq Ms!StaticBits
  BY DEF Means, Shape, Ms!Whole
<1>5. i \in Ms!StaticBits => q = 0
  <2>1. i \in Ms!StaticBits => i < Width
    BY WidthIs
  <2> QED
    BY <1>3, <2>1
<1>6. PICK n \in Nat : n = Ms!BlocksFor(i) /\ q < n
  BY <1>3, Reached, WidthIs DEF Ms!BlocksFor
<1>7. CASE q < Len(m.blocks) /\ (~m.dynamic => i \in Ms!StaticBits)
  <2>1. Ms!Set(m, i, v) = Ms!WithBit(m, i, v)
    BY <1>3, <1>4, <1>7 DEF Ms!Set
  <2> QED
    BY <1>3, <1>7, <2>1, WithBitMeans
<1>8. CASE ~m.dynamic /\ i \notin Ms!StaticBits /\ ~v
  <2>1. Ms!Set(m, i, v) = m
    BY <1>8 DEF Ms!Set
  <2>2. i \notin S
    <3>1. In(m, i) => q = 0 /\ r \in m.blocks[1]
      BY <1>3, <1>4, <1>8 DEF In
    <3>2. q = 0 => r = i
      BY <1>3
    <3>3. ~In(m, i)
      BY <1>4, <1>8, <3>1, <3>2
    <3> QED
      BY <3>3, WidthIs DEF Means
  <2>3. Ms!SetItem(S, i, v) = S
    BY <1>8, <2>2 DEF Ms!SetItem
  <2> QED
    BY <2>1, <2>3
<1>9. CASE \/ ~m.dynamic /\ i \notin Ms!StaticBits /\ v
           \/ m.dynamic /\ ~(q < Len(m.blocks))
  <2>1. PICK old \in Nat : /\ old = IF m.dynamic THEN m.size ELSE 0
                           /\ Ms!Greatest(old, 1) = Len(m.blocks) /\ Len(m.blocks) <= n
    <3>1. CASE m.dynamic
      <4>1. ~(q < Len(m.blocks)) /\ Len(m.blocks) <= n
        BY <1>4, <1>6, <1>9, <3>1
      <4>2. Ms!Greatest(m.size, 1) = m.size
        BY <1>4 DEF Ms!Greatest
      <4> QED
        BY <1>4, <3>1, <4>1, <4>2
    <3>2. CASE ~m.dynamic
      <4>1. Ms!Greatest(0, 1) = 1 /\ Len(m.blocks) = 1 /\ 1 <= n
        BY <1>4, <1>6, <3>2 DEF Ms!Greatest
      <4> QED
        BY <3>2, <4>1
    <3> QED
      BY <3>1, <3>2
  <2>2. PICK M : M = Ms!Realloc(m, n, old)
    OBVIOUS
  <2>3. Means(M, S) /\ Len(M.blocks) = n /\ M.dynamic
    BY <2>1, <2>2, ReallocMeans
  <2>4. Ms!Set(m, i, v) = Ms!WithBit(M, i, v)
    BY <1>3, <1>4, <1>6, <1>9, <2>1, <2>2 DEF Ms!Set
  <2> QED
    BY <1>3, <1>6, <2>3, <2>4, WithBitMeans
<1> QED
  BY <1>4, <1>5, <1>7, <1>8, <1>9

(* A mask whose size is not that of its array, of which has() is right     *)
(* where the array is.                                                     *)
LEMMA PartGood ==
  ASSUME NEW m, NEW S, Shape(m), ~Ms!Whole(m), m.dynamic, S \subseteq ItemIds,
         NEW ids, ids \subseteq ItemIds,
         \A i \in ids : i \div Width < Len(m.blocks) /\ (In(m, i) <=> i \in S)
  PROVE  Good(m, S, ids)
<1>1. ASSUME NEW i \in ids PROVE Ms!Has(m, i) <=> i \in S
  <2>1. PICK q \in Nat : \E r \in 0..(Width - 1) : Placed(i, Width, q, r)
    BY PlaceOfId, WidthIs
  <2>2. PICK r \in 0..(Width - 1) : Placed(i, Width, q, r)
    BY <2>1
  <2>3. q = i \div Width /\ r = i % Width /\ i - q * Width = r
    BY <2>2 DEF Placed
  <2>4. q < m.size
    BY <2>3 DEF Shape
  <2>5. Ms!Has(m, i) <=> r \in m.blocks[q + 1]
    BY <2>3, <2>4 DEF Ms!Has
  <2> QED
    BY <2>3, <2>5 DEF In
<1> QED
  BY <1>1 DEF Good

(* copyFrom().                                                             *)
LEMMA CopyGood ==
  ASSUME NEW m, NEW S, Means(m, S)
  PROVE  Good(Ms!Copy(m), S, Ms!KnownCopy(m))
<1>1. CASE ~m.dynamic
  BY <1>1, MeansGood DEF Ms!Copy, Ms!KnownCopy
<1>2. CASE m.dynamic
  <2>1. PICK M : M = Ms!Copy(m)
    OBVIOUS
  <2>2. /\ m \in [dynamic : BOOLEAN, tail : BOOLEAN, size : Nat, blocks : Seq(SUBSET Ms!Bits)]
        /\ Len(m.blocks) \in Nat /\ Len(m.blocks) > 0 /\ m.size = Len(m.blocks)
        /\ S \subseteq ItemIds
    BY DEF Means, Shape, Ms!Whole
  <2>3. /\ M \in [dynamic : BOOLEAN, tail : BOOLEAN, size : Nat, blocks : Seq(SUBSET Ms!Bits)]
        /\ M.blocks = m.blocks /\ M.size = 2 * m.size + 1 /\ M.dynamic
    <3>1. PICK s \in Nat : s = 2 * m.size + 1
      BY <2>2
    <3>2. M = [m EXCEPT !.tail = FALSE, !.size = s]
      BY <1>2, <2>1, <3>1 DEF Ms!Copy
    <3>3. /\ M \in [dynamic : BOOLEAN, tail : BOOLEAN, size : Nat, blocks : Seq(SUBSET Ms!Bits)]
          /\ M.blocks = m.blocks /\ M.size = s /\ M.dynamic = m.dynamic
      BY <2>2, <3>2
    <3> QED
      BY <1>2, <3>1, <3>3
  <2>4. Shape(M) /\ ~Ms!Whole(M)
    BY <2>2, <2>3 DEF Shape, Ms!Whole
  <2>5. Ms!KnownCopy(m) \subseteq ItemIds
    BY <1>2 DEF Ms!KnownCopy, Ms!InBlocks
  <2>6. ASSUME NEW i \in Ms!KnownCopy(m)
        PROVE  i \div Width < Len(M.blocks) /\ (In(M, i) <=> i \in S)
    <3>1. i \in Nat /\ i < m.size * Width
      BY <1>2, WidthIs DEF Ms!KnownCopy, Ms!InBlocks
    <3>2. i \div Width < m.size
      BY <2>2, <3>1, BlockBefore, WidthIs
    <3>3. In(M, i) <=> In(m, i)
      BY <2>3 DEF In
    <3> QED
      BY <2>2, <2>3, <3>1, <3>2, <3>3 DEF Means
  <2> QED
    BY <2>1, <2>2, <2>3, <2>4, <2>5, <2>6, PartGood
<1> QED
  BY <1>1, <1>2 DEF Means, Shape

(* operator=.                                                              *)
LEMMA AssignedGood ==
  ASSUME NEW m, NEW n, NEW S, Means(n, S)
  PROVE  Good(Ms!Assigned(m, n), S, Ms!KnownAssigned(m, n))
<1>1. CASE m.dynamic /\ n.dynamic /\ n.size <= m.size
  <2>1. Ms!Assigned(m, n) = Ms!NullMask /\ Ms!KnownAssigned(m, n) = {}
    BY <1>1 DEF Ms!Assigned, Ms!KnownAssigned
  <2>2. 0 \in ItemIds
    BY WidthIs
  <2>3. Shape(Ms!NullMask) /\ S \subseteq ItemIds
    BY NullMeans DEF Means
  <2> QED
    BY <2>1, <2>2, <2>3 DEF Good
<1>2. CASE ~(m.dynamic /\ n.dynamic /\ n.size <= m.size)
  BY <1>2, CopyGood DEF Ms!Assigned, Ms!KnownAssigned
<1> QED
  BY <1>1, <1>2

(* inverse().                                                              *)
LEMMA InverseGood ==
  ASSUME NEW m, NEW S, Means(m, S)
  PROVE  Good(Ms!Inverse(m), ItemIds \ S, Ms!KnownInverse(m))
<1>1. PICK M : M = Ms!Inverse(m)
  OBVIOUS
<1>2. /\ m \in [dynamic : BOOLEAN, tail : BOOLEAN, size : Nat, blocks : Seq(SUBSET Ms!Bits)]
      /\ Len(m.blocks) \in Nat /\ Len(m.blocks) > 0 /\ m.size = Len(m.blocks) /\ m.tail = FALSE
      /\ ~m.dynamic => m.size = 1 /\ m.blocks[1] \subseteq Ms!StaticBits
      /\ S \subseteq ItemIds
  BY DEF Means, Shape, Ms!Whole
<1>3. CASE m.dynamic
  <2>1. PICK l : l = [b \in 1..m.size |-> Ms!Bits \ m.blocks[b]]
    OBVIOUS
  <2>2. /\ l \in Seq(SUBSET Ms!Bits) /\ Len(l) = m.size
        /\ \A b \in 1..m.size : l[b] = Ms!Bits \ m.blocks[b]
    BY <1>2, <2>1
  <2>3. M = [m EXCEPT !.tail = ~@, !.size = 2 * m.size + 1, !.blocks = l]
    BY <1>1, <1>3, <2>1 DEF Ms!Inverse
  <2>4. /\ M \in [dynamic : BOOLEAN, tail : BOOLEAN, size : Nat, blocks : Seq(SUBSET Ms!Bits)]
        /\ M.blocks = l /\ M.size = 2 * m.size + 1 /\ M.dynamic
    <3>1. PICK s \in Nat : s = 2 * m.size + 1
      BY <1>2
    <3>2. M = [m EXCEPT !.tail = TRUE, !.size = s, !.blocks = l]
      BY <1>2, <2>3, <3>1
    <3>3. /\ M \in [dynamic : BOOLEAN, tail : BOOLEAN, size : Nat, blocks : Seq(SUBSET Ms!Bits)]
          /\ M.blocks = l /\ M.size = s /\ M.dynamic = m.dynamic
      BY <1>2, <2>2, <3>2
    <3> QED
      BY <1>3, <3>1, <3>3
  <2>5. Shape(M) /\ ~Ms!Whole(M)
    BY <1>2, <2>2, <2>4 DEF Shape, Ms!Whole
  <2>6. Ms!KnownInverse(m) = {i \in ItemIds : i < m.size * Width}
    BY <1>3 DEF Ms!KnownInverse, Ms!InBlocks
  <2>7. ASSUME NEW i \in Ms!KnownInverse(m)
        PROVE  i \div Width < Len(M.blocks) /\ (In(M, i) <=> i \in ItemIds \ S)
    <3>1. i \in ItemIds /\ i \in Nat /\ i < m.size * Width
      BY <2>6, WidthIs
    <3>2. i \div Width < m.size
      BY <1>2, <3>1, BlockBefore, WidthIs
    <3>3. PICK q \in Nat : \E r \in 0..(Width - 1) : Placed(i, Width, q, r)
      BY <3>1, PlaceOfId, WidthIs
    <3>4. PICK r \in 0..(Width - 1) : q = i \div Width /\ r = i % Width
      BY <3>3 DEF Placed
    <3>5. q + 1 \in 1..m.size
      BY <1>2, <3>2, <3>4
    <3>6. In(M, i) <=> r \in Ms!Bits \ m.blocks[q + 1]
      BY <2>2, <2>4, <3>2, <3>4, <3>5 DEF In
    <3>7. i \in S <=> r \in m.blocks[q + 1]
      BY <1>2, <3>1, <3>2, <3>4 DEF Means, In
    <3> QED
      BY <2>2, <2>4, <3>1, <3>2, <3>6, <3>7, WidthIs
  <2>8. Ms!KnownInverse(m) \subseteq ItemIds
    BY <2>6
  <2> QED
    BY <1>1, <2>4, <2>5, <2>7, <2>8, PartGood
<1>4. CASE ~m.dynamic
  <2>1. M = [m EXCEPT !.blocks = <<Ms!StaticBits \ m.blocks[1]>>]
    BY <1>1, <1>4 DEF Ms!Inverse
  <2>2. /\ M \in [dynamic : BOOLEAN, tail : BOOLEAN, size : Nat, blocks : Seq(SUBSET Ms!Bits)]
        /\ Len(M.blocks) = 1 /\ M.blocks[1] = Ms!StaticBits \ m.blocks[1]
        /\ M.size = 1 /\ M.tail = FALSE /\ M.dynamic = FALSE
    <3>1. Ms!StaticBits \ m.blocks[1] \in SUBSET Ms!Bits
      BY WidthIs
    <3>2. <<Ms!StaticBits \ m.blocks[1]>> \in Seq(SUBSET Ms!Bits)
      BY <3>1
    <3> QED
      BY <1>2, <1>4, <2>1, <3>2
  <2>3. Shape(M) /\ Ms!Whole(M)
    BY <2>2 DEF Shape, Ms!Whole
  <2>4. Ms!KnownInverse(m) = Ms!StaticBits
    BY <1>4, WidthIs DEF Ms!KnownInverse
  <2>5. ASSUME NEW i \in Nat PROVE In(M, i) <=> i \in Ms!StaticBits /\ i \notin S
    <3>1. PICK q \in Nat : \E r \in 0..(Width - 1) : Placed(i, Width, q, r)
      BY PlaceOfId, WidthIs
    <3>2. PICK r \in 0..(Width - 1) : /\ q = i \div Width /\ r = i % Width
                                      /\ i < Width <=> q = 0
                                      /\ i < Width => r = i
      BY <3>1 DEF Placed
    <3>a. In(M, i) <=> q < 1 /\ r \in M.blocks[q + 1]
      BY <2>2, <3>2 DEF In
    <3>3. In(M, i) <=> q = 0 /\ r \in Ms!StaticBits \ m.blocks[1]
      BY <2>2, <3>a
    <3>4. i \in S <=> q = 0 /\ r \in m.blocks[1]
      BY <1>2, <1>4, <3>2 DEF Means, In
    <3>5. i \in Ms!StaticBits => i < Width
      BY WidthIs
    <3> QED
      BY <3>2, <3>3, <3>4, <3>5
  <2>6. ASSUME NEW i \in Ms!StaticBits PROVE Ms!Has(M, i) <=> i \in ItemIds \ S
    <3>1. i \in Nat /\ i \in ItemIds
      BY WidthIs
    <3> QED
      BY <2>2, <2>3, <2>5, <3>1, HasIs
  <2>7. Ms!StaticBits = ItemIds => Means(M, ItemIds \ S)
    BY <2>2, <2>3, <2>5 DEF Means
  <2> QED
    BY <1>1, <2>3, <2>4, <2>6, <2>7, WidthIs DEF Good
<1> QED
  BY <1>2, <1>3, <1>4

(* Blocks are combined as the sets are.                                    *)
LEMMA CombinedIs ==
  ASSUME NEW op \in Ms!Operations, NEW A, NEW B, NEW S, NEW T, NEW r, NEW i,
         r \in A <=> i \in S, r \in B <=> i \in T
  PROVE  r \in Ms!CombineSets(op, A, B) <=> i \in Ms!CombineSets(op, S, T)
BY DEF Ms!Operations, Ms!CombineSets

LEMMA CombinedIn ==
  ASSUME NEW op \in Ms!Operations, NEW S, NEW T, NEW U, S \subseteq U, T \subseteq U
  PROVE  Ms!CombineSets(op, S, T) \subseteq U
BY DEF Ms!Operations, Ms!CombineSets

(* combineWith().  A difference has only the blocks of the shorter mask.   *)
LEMMA CombineGood ==
  ASSUME NEW m, NEW S, Means(m, S), NEW n, NEW T, Means(n, T), NEW op \in Ms!Operations
  PROVE  Good(Ms!Combine(op, m, n), Ms!CombineSets(op, S, T), Ms!KnownCombined(op, m, n))
<1>1. PICK M : M = Ms!Combine(op, m, n)
  OBVIOUS
<1>2. /\ m \in [dynamic : BOOLEAN, tail : BOOLEAN, size : Nat, blocks : Seq(SUBSET Ms!Bits)]
      /\ Len(m.blocks) > 0 /\ m.size = Len(m.blocks) /\ m.tail = FALSE
      /\ ~m.dynamic => m.size = 1 /\ m.blocks[1] \subseteq Ms!StaticBits
      /\ S \subseteq ItemIds
  BY DEF Means, Shape, Ms!Whole
<1>3. /\ n \in [dynamic : BOOLEAN, tail : BOOLEAN, size : Nat, blocks : Seq(SUBSET Ms!Bits)]
      /\ Len(n.blocks) > 0 /\ n.size = Len(n.blocks) /\ n.tail = FALSE
      /\ ~n.dynamic => n.size = 1 /\ n.blocks[1] \subseteq Ms!StaticBits
      /\ T \subseteq ItemIds
  BY DEF Means, Shape, Ms!Whole
<1>4. PICK L \in Nat : L = IF op = "merge" THEN Ms!Greatest(m.size, n.size) ELSE Ms!Least(m.size, n.size)
  BY <1>2, <1>3 DEF Ms!Greatest, Ms!Least
<1>5. /\ L > 0
      /\ ~m.dynamic /\ ~n.dynamic => L = 1
      /\ op = "merge" => m.size <= L /\ n.size <= L
      /\ op # "merge" => L <= m.size /\ L <= n.size /\ (L = m.size \/ L = n.size)
      /\ op # "merge" /\ n.size < m.size => L = n.size
      /\ op # "merge" /\ ~(n.size < m.size) => L = m.size
  BY <1>2, <1>3, <1>4 DEF Ms!Greatest, Ms!Least
<1>6. PICK l : l = [b \in 1..L |-> Ms!CombineSets(op, Ms!Block(m, b), Ms!Block(n, b))]
  OBVIOUS
<1>7. /\ l \in Seq(SUBSET Ms!Bits) /\ Len(l) = L
      /\ \A b \in 1..L : l[b] = Ms!CombineSets(op, Ms!Block(m, b), Ms!Block(n, b))
  <2>1. ASSUME NEW b \in 1..L
        PROVE  Ms!CombineSets(op, Ms!Block(m, b), Ms!Block(n, b)) \in SUBSET Ms!Bits
    <3>1. Ms!Block(m, b) \subseteq Ms!Bits
      BY <1>2 DEF Ms!Block
    <3>2. Ms!Block(n, b) \subseteq Ms!Bits
      BY <1>3 DEF Ms!Block
    <3> QED
      BY <3>1, <3>2, CombinedIn
  <2> QED
    BY <1>6, <2>1
<1>8. M = [dynamic |-> m.dynamic \/ n.dynamic, tail |-> FALSE, size |-> L, blocks |-> l]
  <2>1. Ms!CombineSets(op, {}, {}) = {}
    BY DEF Ms!Operations, Ms!CombineSets
  <2> QED
    BY <1>1, <1>2, <1>3, <1>4, <1>6, <2>1 DEF Ms!Combine
<1>9. /\ M \in [dynamic : BOOLEAN, tail : BOOLEAN, size : Nat, blocks : Seq(SUBSET Ms!Bits)]
      /\ M.blocks = l /\ M.size = L /\ M.tail = FALSE /\ (M.dynamic <=> m.dynamic \/ n.dynamic)
  BY <1>2, <1>3, <1>7, <1>8
<1>10. Shape(M) /\ Ms!Whole(M)
  <2>1. ASSUME ~M.dynamic PROVE L = 1 /\ l[1] \subseteq Ms!StaticBits
    <3>1. ~m.dynamic /\ ~n.dynamic /\ L = 1 /\ m.size = 1 /\ n.size = 1
      BY <1>2, <1>3, <1>5, <1>9, <2>1
    <3>2. Ms!Block(m, 1) \subseteq Ms!StaticBits /\ Ms!Block(n, 1) \subseteq Ms!StaticBits
      BY <1>2, <1>3, <3>1 DEF Ms!Block
    <3> QED
      BY <1>7, <3>1, <3>2, CombinedIn
  <2> QED
    BY <1>5, <1>7, <1>9, <2>1 DEF Shape, Ms!Whole
<1>11. PICK C : C = Ms!CombineSets(op, S, T)
  OBVIOUS
<1>12. C \subseteq ItemIds
  BY <1>2, <1>3, <1>11, CombinedIn
<1>13. ASSUME NEW i \in Nat
       PROVE  /\ i \div Width < L => (In(M, i) <=> i \in C)
              /\ In(M, i) => i \div Width < L
              /\ i \in S => i \div Width < m.size
              /\ i \in T => i \div Width < n.size
              /\ i \div Width \in Nat
  <2>1. PICK q \in Nat : q = i \div Width
    BY BlockOfId, WidthIs
  <2>2. In(M, i) <=> q < L /\ i % Width \in l[q + 1]
    BY <1>7, <1>9, <2>1 DEF In
  <2>3. q < L => l[q + 1] = Ms!CombineSets(op, Ms!Block(m, q + 1), Ms!Block(n, q + 1))
    BY <1>7
  <2>4. i % Width \in Ms!CombineSets(op, Ms!Block(m, q + 1), Ms!Block(n, q + 1)) <=> i \in C
    <3>1. i \in S <=> i % Width \in Ms!Block(m, q + 1)
      BY <2>1, BlockIs
    <3>2. i \in T <=> i % Width \in Ms!Block(n, q + 1)
      BY <2>1, BlockIs
    <3> QED
      BY <1>11, <3>1, <3>2, CombinedIs
  <2>5. (i \in S => q < m.size) /\ (i \in T => q < n.size)
    BY <1>2, <1>3, <2>1 DEF Means, In
  <2> QED
    BY <2>1, <2>2, <2>3, <2>4, <2>5
<1>14. ASSUME \A i \in C : i \div Width < L PROVE Means(M, C)
  BY <1>9, <1>10, <1>12, <1>13, <1>14, WidthIs DEF Means
<1>15. CASE op = "subtract" /\ n.size < m.size
  <2>1. Ms!KnownCombined(op, m, n) = {i \in ItemIds : i < n.size * Width}
    BY <1>15 DEF Ms!KnownCombined, Ms!InBlocks
  <2>2. L = n.size
    BY <1>5, <1>15
  <2>3. \A i \in ItemIds : i < n.size * Width <=> i \div Width < L
    BY <1>3, <2>2, BlockBefore, WidthIs
  <2>4. ASSUME NEW i \in Ms!KnownCombined(op, m, n) PROVE Ms!Has(M, i) <=> i \in C
    <3>1. i \in Nat /\ i \div Width < L
      BY <2>1, <2>3, WidthIs
    <3> QED
      BY <1>9, <1>10, <1>13, <3>1, HasIs
  <2>5. Ms!KnownCombined(op, m, n) = ItemIds => Means(M, C)
    BY <1>12, <1>14, <2>1, <2>3
  <2> QED
    BY <1>1, <1>10, <1>11, <1>12, <2>1, <2>4, <2>5 DEF Good
<1>16. CASE ~(op = "subtract" /\ n.size < m.size)
  <2>1. ASSUME NEW i \in C PROVE i \div Width < L
    <3>1. i \in Nat
      BY <1>12, WidthIs
    <3>2. PICK q \in Nat : q = i \div Width
      BY <3>1, BlockOfId, WidthIs
    <3>3. (i \in S => q < m.size) /\ (i \in T => q < n.size)
      BY <1>13, <3>1, <3>2
    <3>4. CASE op = "merge"
      <4>1. i \in S \/ i \in T
        BY <1>11, <3>4 DEF Ms!CombineSets
      <4> QED
        BY <1>2, <1>3, <1>5, <3>2, <3>3, <3>4, <4>1
    <3>5. CASE op = "intersection"
      <4>1. i \in S /\ i \in T
        BY <1>11, <3>5 DEF Ms!CombineSets
      <4> QED
        BY <1>2, <1>3, <1>5, <3>2, <3>3, <3>5, <4>1
    <3>6. CASE op = "subtract"
      <4>1. i \in S
        BY <1>11, <3>6 DEF Ms!CombineSets
      <4> QED
        BY <1>2, <1>3, <1>5, <1>16, <3>2, <3>3, <3>6, <4>1
    <3> QED
      BY <3>4, <3>5, <3>6 DEF Ms!Operations
  <2>2. Means(M, C)
    BY <1>14, <2>1
  <2>3. Ms!KnownCombined(op, m, n) = ItemIds
    BY <1>16 DEF Ms!KnownCombined
  <2> QED
    BY <1>1, <1>11, <2>2, <2>3, MeansGood
<1> QED
  BY <1>15, <1>16

-----------------------------------------------------------------------------
(* Each call leaves good masks.                                            *)
LEMMA BecomeKeeps ==
  ASSUME MaskInv, NEW o \in Masks, NEW m, NEW S, NEW ids, Good(m, S, ids), Ms!Become(o, m, S, ids)
  PROVE  MaskInv'
<1>1. \A p \in Masks : /\ masks'[p] = IF p = o THEN m ELSE masks[p]
                       /\ items'[p] = IF p = o THEN S ELSE items[p]
                       /\ known'[p] = IF p = o THEN ids ELSE known[p]
  BY DEF MaskInv, Ms!Become
<1>2. \A p \in Masks : Good(masks'[p], items'[p], known'[p])
  BY <1>1 DEF MaskInv
<1>3. /\ masks' = [p \in Masks |-> masks'[p]]
      /\ items' = [p \in Masks |-> items'[p]]
      /\ known' = [p \in Masks |-> known'[p]]
  BY DEF MaskInv, Ms!Become
<1> QED
  BY <1>2, <1>3 DEF MaskInv, Good, Shape, Means, In, Ms!Has, Ms!Whole

LEMMA UsableMeans ==
  ASSUME MaskInv, NEW o \in Masks, Ms!Usable(o)
  PROVE  Means(masks[o], items[o])
BY DEF MaskInv, Good, Ms!Usable

LEMMA MaskInit ==
  Ms!Init => MaskInv
<1>1. Good(Ms!NullMask, {}, ItemIds)
  BY NullMeans, MeansGood
<1> QED
  BY <1>1 DEF Ms!Init, MaskInv

LEMMA MaskStep ==
  ASSUME MaskInv, Ms!Next
  PROVE  MaskInv'
<1>1. CASE \E o \in Masks : Ms!Fresh(o)
  <2>1. Good(Ms!NullMask, {}, ItemIds)
    BY NullMeans, MeansGood
  <2> QED
    BY <1>1, <2>1, BecomeKeeps DEF Ms!Fresh
<1>2. CASE \E o \in Masks : Ms!Invert(o)
  BY <1>2, UsableMeans, InverseGood, BecomeKeeps DEF Ms!Invert
<1>3. CASE \E o \in Masks, i \in ItemIds, value \in BOOLEAN : Ms!SetOne(o, i, value)
  <2>1. PICK o \in Masks, i \in ItemIds, value \in BOOLEAN : Ms!SetOne(o, i, value)
    BY <1>3
  <2>2. Means(Ms!Set(masks[o], i, value), Ms!SetItem(items[o], i, value))
    BY <2>1, UsableMeans, SetMeans DEF Ms!SetOne
  <2>3. Good(Ms!Set(masks[o], i, value), Ms!SetItem(items[o], i, value), ItemIds)
    BY <2>2, MeansGood
  <2> QED
    BY <2>1, <2>3, BecomeKeeps DEF Ms!SetOne
<1>4. CASE \E o, p \in Masks : Ms!CopyTo(o, p)
  BY <1>4, UsableMeans, CopyGood, BecomeKeeps DEF Ms!CopyTo
<1>5. CASE \E o, p \in Masks : Ms!AssignTo(o, p)
  BY <1>5, UsableMeans, AssignedGood, BecomeKeeps DEF Ms!AssignTo
<1>6. CASE \E o, p \in Masks : Ms!MoveTo(o, p)
  <2>1. PICK o \in Masks, p \in Masks : Ms!MoveTo(o, p)
    BY <1>6
  <2>2. o # p /\ Means(masks[p], items[p])
    BY <2>1, UsableMeans DEF Ms!MoveTo
  <2>3. CASE masks[p].dynamic
    <3>1. /\ masks' = [masks EXCEPT ![o] = masks[p], ![p] = Ms!NullMask]
          /\ items' = [items EXCEPT ![o] = items[p], ![p] = {}]
          /\ known' = [known EXCEPT ![o] = ItemIds]
          /\ known[p] = ItemIds
      BY <2>1, <2>3 DEF Ms!MoveTo, Ms!Usable
    <3>2. Good(masks[p], items[p], ItemIds) /\ Good(Ms!NullMask, {}, ItemIds)
      BY <2>2, NullMeans, MeansGood
    <3>3. \A x \in Masks : /\ masks'[x] = IF x = p THEN Ms!NullMask ELSE IF x = o THEN masks[p] ELSE masks[x]
                           /\ items'[x] = IF x = p THEN {} ELSE IF x = o THEN items[p] ELSE items[x]
                           /\ known'[x] = IF x = o THEN ItemIds ELSE known[x]
      BY <3>1 DEF MaskInv
    <3>4. \A x \in Masks : Good(masks'[x], items'[x], known'[x])
      BY <2>2, <3>1, <3>2, <3>3 DEF MaskInv
    <3>5. /\ masks' = [x \in Masks |-> masks'[x]]
          /\ items' = [x \in Masks |-> items'[x]]
          /\ known' = [x \in Masks |-> known'[x]]
      BY <3>1 DEF MaskInv
    <3> QED
      BY <3>4, <3>5 DEF MaskInv, Good, Shape, Means, In, Ms!Has, Ms!Whole
  <2>4. CASE ~masks[p].dynamic
    <3>1. Ms!Become(o, masks[p], items[p], ItemIds)
      BY <2>1, <2>4 DEF Ms!MoveTo
    <3> QED
      BY <2>2, <3>1, MeansGood, BecomeKeeps
  <2> QED
    BY <2>3, <2>4
<1>7. CASE \E o, p \in Masks, op \in Ms!Operations : Ms!CombineTo(o, op, p)
  <2>1. PICK o \in Masks, p \in Masks, op \in Ms!Operations : Ms!CombineTo(o, op, p)
    BY <1>7
  <2>2. Means(masks[o], items[o]) /\ Means(masks[p], items[p])
    BY <2>1, UsableMeans DEF Ms!CombineTo
  <2> QED
    BY <2>1, <2>2, CombineGood, BecomeKeeps DEF Ms!CombineTo
<1> QED
  BY <1>1, <1>2, <1>3, <1>4, <1>5, <1>6, <1>7 DEF Ms!Next

-----------------------------------------------------------------------------
(* The questions about masks that stand for sets.                          *)

(* Every block of such a mask, also past its array, holds the places of the*)
(* set's ids.                                                              *)
LEMMA PlacesAre ==
  ASSUME NEW m, NEW S, Means(m, S), NEW b \in Nat \ {0}
  PROVE  /\ Ms!Block(m, b) \subseteq Ms!Bits
         /\ \A j \in Ms!Bits : /\ (b - 1) * Width + j \in Nat
                               /\ (b - 1) * Width + j \in S <=> j \in Ms!Block(m, b)
<1>1. /\ m.blocks \in Seq(SUBSET Ms!Bits) /\ Len(m.blocks) \in Nat /\ m.size = Len(m.blocks) /\ ~m.tail
  BY DEF Means, Shape, Ms!Whole
<1>2. Ms!Block(m, b) \subseteq Ms!Bits
  BY <1>1 DEF Ms!Block
<1>3. ASSUME NEW j \in Ms!Bits
      PROVE  /\ (b - 1) * Width + j \in Nat
             /\ (b - 1) * Width + j \in S <=> j \in Ms!Block(m, b)
  <2>1. PICK a \in Nat : a = b - 1 /\ a + 1 = b
    OBVIOUS
  <2>2. PICK i \in Nat : i = a * Width + j /\ i \div Width = a /\ i % Width = j
    BY IdOfPlace, WidthIs
  <2>3. i \in S <=> i % Width \in Ms!Block(m, i \div Width + 1)
    BY BlockIs
  <2> QED
    BY <2>1, <2>2, <2>3
<1> QED
  BY <1>2, <1>3

(* An id of the set is at a place of a block the array has.                *)
LEMMA PlaceIn ==
  ASSUME NEW m, NEW S, Means(m, S), NEW i \in S
  PROVE  \E b \in 1..m.size, j \in Ms!Bits : i = (b - 1) * Width + j /\ j \in m.blocks[b]
<1>0. i \in Nat
  BY WidthIs DEF Means
<1>1. PICK q \in Nat : \E r \in 0..(Width - 1) : Placed(i, Width, q, r)
  BY <1>0, PlaceOfId, WidthIs
<1>2. PICK r \in 0..(Width - 1) : Placed(i, Width, q, r)
  BY <1>1
<1>3. q = i \div Width /\ r = i % Width /\ i = q * Width + r
  BY <1>2 DEF Placed
<1>4. Len(m.blocks) \in Nat /\ m.size = Len(m.blocks)
  BY DEF Means, Shape, Ms!Whole
<1>5. q < Len(m.blocks) /\ r \in m.blocks[q + 1]
  BY <1>0, <1>3 DEF Means, In
<1>6. PICK b \in 1..m.size : b = q + 1 /\ b - 1 = q
  BY <1>4, <1>5
<1>7. i = (b - 1) * Width + r /\ r \in m.blocks[b] /\ r \in Ms!Bits
  BY <1>3, <1>5, <1>6, WidthIs
<1> QED
  BY <1>7

LEMMA ItemsAre ==
  ASSUME NEW m, NEW S, Means(m, S)
  PROVE  Ms!Items(m) = S
<1>1. m.blocks \in Seq(SUBSET Ms!Bits) /\ Len(m.blocks) \in Nat /\ m.size = Len(m.blocks)
  BY DEF Means, Shape, Ms!Whole
<1>2. ASSUME NEW i \in Ms!Items(m) PROVE i \in S
  <2>1. PICK b \in 1..m.size : i \in {(b - 1) * Width + k : k \in m.blocks[b]}
    BY <1>2 DEF Ms!Items
  <2>2. PICK j \in m.blocks[b] : i = (b - 1) * Width + j
    BY <2>1
  <2>3. j \in Ms!Bits /\ b \in 1..Len(m.blocks)
    BY <1>1, <2>2
  <2> QED
    BY <2>2, <2>3, CellIs
<1>3. ASSUME NEW i \in S PROVE i \in Ms!Items(m)
  <2>1. PICK b \in 1..m.size, j \in Ms!Bits : i = (b - 1) * Width + j /\ j \in m.blocks[b]
    BY PlaceIn
  <2>2. i \in {(b - 1) * Width + k : k \in m.blocks[b]}
    BY <2>1
  <2> QED
    BY <2>2 DEF Ms!Items
<1> QED
  BY <1>2, <1>3

(* The cardinality of the masks' instance is that of finite sets.          *)
LEMMA CardinalityIs ==
  ASSUME NEW S
  PROVE  Ms!Cardinality(S) = Cardinality(S)
BY DEF Ms!Cardinality, Cardinality

(* The bits are as many as the ids: an id has one place.                   *)
LEMMA CountIs ==
  ASSUME NEW m, NEW S, Means(m, S)
  PROVE  Ms!ComponentsCount(m) = Cardinality(S)
<1> DEFINE P == {p \in (1..m.size) \X Ms!Bits : p[2] \in m.blocks[p[1]]}
           f == [p \in P |-> (p[1] - 1) * Width + p[2]]
<1>1. m.blocks \in Seq(SUBSET Ms!Bits) /\ Len(m.blocks) \in Nat /\ m.size = Len(m.blocks)
  BY DEF Means, Shape, Ms!Whole
<1>2. IsFiniteSet(P)
  <2>1. IsFiniteSet(1..m.size) /\ IsFiniteSet(Ms!Bits)
    BY <1>1, FS_Interval, WidthIs
  <2>2. IsFiniteSet((1..m.size) \X Ms!Bits)
    BY <2>1, FS_Product
  <2> QED
    BY <2>2, FS_Subset
<1>3. ASSUME NEW p \in P
      PROVE  /\ p[1] \in 1..m.size /\ p[2] \in Ms!Bits /\ p = <<p[1], p[2]>> /\ f[p] \in S
             /\ f[p] \div Width = p[1] - 1 /\ f[p] % Width = p[2]
  <2>1. p[1] \in 1..m.size /\ p[2] \in Ms!Bits /\ p = <<p[1], p[2]>> /\ p[2] \in m.blocks[p[1]]
    OBVIOUS
  <2>2. f[p] = (p[1] - 1) * Width + p[2]
    OBVIOUS
  <2>3. PICK a \in Nat : a = p[1] - 1
    BY <1>1, <2>1
  <2>4. PICK j \in 0..(Width - 1) : j = p[2]
    BY <2>1, WidthIs
  <2>5. (a * Width + j) \div Width = a /\ (a * Width + j) % Width = j
    BY IdOfPlace, WidthIs
  <2>6. f[p] \in S
    BY <1>1, <2>1, <2>2, CellIs
  <2> HIDE DEF f
  <2> QED
    BY <2>1, <2>2, <2>3, <2>4, <2>5, <2>6
<1>a. f \in [P -> S]
  BY <1>3
<1>b. ASSUME NEW i \in S PROVE \E p \in P : f[p] = i
  <2>1. PICK b \in 1..m.size, j \in Ms!Bits : i = (b - 1) * Width + j /\ j \in m.blocks[b]
    BY PlaceIn
  <2>2. <<b, j>> \in P /\ f[<<b, j>>] = i
    BY <2>1
  <2> QED
    BY <2>2
<1>c. Ms!ComponentsCount(m) = Cardinality(P)
  BY CardinalityIs DEF Ms!ComponentsCount
<1> HIDE DEF f, P
<1>4. ASSUME NEW p \in P, NEW r \in P, f[p] = f[r] PROVE p = r
  <2>1. p[1] - 1 = r[1] - 1 /\ p[2] = r[2]
    BY <1>3, <1>4
  <2>2. p[1] \in Int /\ r[1] \in Int
    BY <1>1, <1>3
  <2>3. p[1] = r[1]
    BY <2>1, <2>2
  <2> QED
    BY <1>3, <2>1, <2>3
<1>5. f \in Bijection(P, S)
  <2>1. f \in Injection(P, S)
    BY <1>a, <1>4, Zenon DEF Injection, IsInjective
  <2>2. f \in Surjection(P, S)
    BY <1>a, <1>b, Zenon DEF Surjection
  <2> QED
    BY <2>1, <2>2, Zenon DEF Bijection
<1>6. ExistsBijection(P, S)
  BY <1>5, Zenon DEF ExistsBijection
<1> QED
  BY <1>2, <1>6, <1>c, FS_Bijection, Zenon

LEMMA EmptyIs ==
  ASSUME NEW m, NEW S, Means(m, S)
  PROVE  Ms!IsEmpty(m) <=> S = {}
<1>1. /\ m.blocks \in Seq(SUBSET Ms!Bits) /\ Len(m.blocks) \in Nat /\ m.size = Len(m.blocks) /\ ~m.tail
  BY DEF Means, Shape, Ms!Whole
<1>2. Ms!IsEmpty(m) <=> \A b \in 1..m.size : m.blocks[b] = {}
  BY <1>1 DEF Ms!IsEmpty
<1>3. ASSUME NEW i \in S PROVE \E b \in 1..m.size : m.blocks[b] # {}
  BY PlaceIn
<1>4. ASSUME NEW b \in 1..m.size, m.blocks[b] # {} PROVE S # {}
  <2>1. PICK j \in Ms!Bits : j \in m.blocks[b]
    BY <1>1, <1>4
  <2> QED
    BY <1>1, <2>1, CellIs
<1> QED
  BY <1>2, <1>3, <1>4

(* Block by block, the places of one mask are among those of another iff   *)
(* the ids are.                                                            *)
LEMMA BlocksWithin ==
  ASSUME NEW m, NEW S, Means(m, S), NEW n, NEW T, Means(n, T), NEW k \in Nat, n.size <= k
  PROVE  T \subseteq S <=> \A b \in 1..k : Ms!Block(n, b) \subseteq Ms!Block(m, b)
<1>1. ASSUME T \subseteq S, NEW b \in 1..k PROVE Ms!Block(n, b) \subseteq Ms!Block(m, b)
  BY <1>1, PlacesAre
<1>2. ASSUME \A b \in 1..k : Ms!Block(n, b) \subseteq Ms!Block(m, b), NEW i \in T PROVE i \in S
  <2>0. n.size \in Nat
    BY DEF Means, Shape
  <2>1. PICK b \in 1..n.size, j \in Ms!Bits : i = (b - 1) * Width + j /\ j \in n.blocks[b]
    BY PlaceIn
  <2>2. b \in Nat \ {0} /\ b \in 1..k /\ b <= n.size
    BY <2>0, <2>1
  <2>3. j \in Ms!Block(n, b)
    BY <2>1, <2>2 DEF Ms!Block
  <2>4. j \in Ms!Block(m, b)
    BY <1>2, <2>2, <2>3
  <2> QED
    BY <2>1, <2>2, <2>4, PlacesAre
<1> QED
  BY <1>1, <1>2

LEMMA EqualsIs ==
  ASSUME NEW m, NEW S, Means(m, S), NEW n, NEW T, Means(n, T)
  PROVE  Ms!Equals(m, n) <=> S = T
<1>1. m.size \in Nat /\ n.size \in Nat
  BY DEF Means, Shape
<1>2. PICK k \in Nat : k = Ms!Greatest(m.size, n.size) /\ m.size <= k /\ n.size <= k
  BY <1>1 DEF Ms!Greatest
<1>3. T \subseteq S <=> \A b \in 1..k : Ms!Block(n, b) \subseteq Ms!Block(m, b)
  BY <1>2, BlocksWithin
<1>4. S \subseteq T <=> \A b \in 1..k : Ms!Block(m, b) \subseteq Ms!Block(n, b)
  BY <1>2, BlocksWithin
<1>5. Ms!Equals(m, n) <=> \A b \in 1..k : Ms!Block(m, b) = Ms!Block(n, b)
  BY <1>2 DEF Ms!Equals
<1> QED
  BY <1>3, <1>4, <1>5

LEMMA MatchIs ==
  ASSUME NEW m, NEW S, Means(m, S), NEW n, NEW T, Means(n, T)
  PROVE  Ms!IsMatch(m, n) <=> T \subseteq S
<1>1. m.size \in Nat /\ n.size \in Nat /\ ~m.tail /\ ~n.tail
  BY DEF Means, Shape
<1>2. T \subseteq S <=> \A b \in 1..n.size : Ms!Block(n, b) \subseteq Ms!Block(m, b)
  BY <1>1, BlocksWithin
<1>3. PICK k \in Nat : /\ k = Ms!Least(m.size, n.size)
                       /\ \A b \in Nat : b <= k <=> b <= m.size /\ b <= n.size
  BY <1>1 DEF Ms!Least
<1>4. \A b \in Nat : Ms!RawBlock(m, b) = m.blocks[b] /\ Ms!RawBlock(n, b) = n.blocks[b]
  BY <1>1 DEF Ms!RawBlock
<1>5. Ms!IsMatch(m, n) <=> /\ \A b \in 1..k : n.blocks[b] \subseteq m.blocks[b]
                           /\ \A b \in (m.size + 1)..n.size : n.blocks[b] = {}
  BY <1>1, <1>3, <1>4 DEF Ms!IsMatch
<1>6. \A b \in 1..n.size : Ms!Block(n, b) = n.blocks[b]
  BY <1>1 DEF Ms!Block
<1>7. \A b \in Nat \ {0} : Ms!Block(m, b) = IF b <= m.size THEN m.blocks[b] ELSE {}
  BY <1>1 DEF Ms!Block
<1>8. ASSUME NEW b \in 1..n.size
      PROVE  \/ b \in 1..k /\ b <= m.size
             \/ b \in (m.size + 1)..n.size /\ ~(b <= m.size)
  BY <1>1, <1>3
<1>9. /\ \A b \in 1..k : b \in 1..n.size /\ b <= m.size
      /\ \A b \in (m.size + 1)..n.size : b \in 1..n.size /\ ~(b <= m.size)
  BY <1>1, <1>3
<1>10. \A b \in 1..n.size : b \in Nat \ {0}
  BY <1>1
<1> QED
  BY <1>2, <1>5, <1>6, <1>7, <1>8, <1>9, <1>10

(* So what the dynamic masks answer is what the sets do.                   *)
LEMMA MasksAnswer ==
  MaskInv => Ms!MasksAreSets
<1> SUFFICES ASSUME MaskInv PROVE Ms!MasksAreSets
  OBVIOUS
<1>1. \A o \in Masks : \A i \in known[o] : Ms!Has(masks[o], i) <=> i \in items[o]
  BY DEF MaskInv, Good
<1>2. ASSUME NEW o \in Masks, NEW p \in Masks, Ms!Usable(o), Ms!Usable(p)
      PROVE  /\ Ms!Items(masks[o]) = items[o]
             /\ Ms!ComponentsCount(masks[o]) = Ms!Cardinality(items[o])
             /\ Ms!IsEmpty(masks[o]) <=> items[o] = {}
             /\ Ms!Equals(masks[o], masks[p]) <=> items[o] = items[p]
             /\ Ms!IsMatch(masks[o], masks[p]) <=> Ms!IsMatchSet(items[o], items[p])
  <2>1. Means(masks[o], items[o]) /\ Means(masks[p], items[p])
    BY <1>2, UsableMeans
  <2>2. Ms!Items(masks[o]) = items[o]
    BY <2>1, ItemsAre
  <2>3. Ms!ComponentsCount(masks[o]) = Ms!Cardinality(items[o])
    BY <2>1, CountIs, CardinalityIs
  <2>4. Ms!IsEmpty(masks[o]) <=> items[o] = {}
    BY <2>1, EmptyIs
  <2>5. Ms!Equals(masks[o], masks[p]) <=> items[o] = items[p]
    BY <2>1, EqualsIs
  <2>6. Ms!IsMatch(masks[o], masks[p]) <=> Ms!IsMatchSet(items[o], items[p])
    BY <2>1, MatchIs DEF Ms!IsMatchSet
  <2> QED
    BY ONLY <2>2, <2>3, <2>4, <2>5, <2>6
<1> QED
  BY <1>1, <1>2, Zenon DEF Ms!MasksAreSets

(* What a component sees of a step of another one, or of a stuttering step.*)
LEMMA MaskKept ==
  ASSUME MaskInv, UNCHANGED masking
  PROVE  MaskInv'
BY DEF masking, MaskInv, Good, Shape, Means, In, Ms!Has, Ms!Whole

(* A dynamic mask answers as the set it stands for, for blocks of any      *)
(* width, any number of masks and ids, and through every change of its     *)
(* representation (DynamicComponentMask).                                  *)
THEOREM MasksAreAlwaysSets == ComponentsSpec => []MasksAreSets
<1>1. ComponentsInit => MaskInv
  BY MaskInit DEF ComponentsInit
<1>2. MaskInv /\ [ComponentsNext]_<<part, masking, living, vars>> => MaskInv'
  BY MaskStep, MaskKept DEF ComponentsNext
<1>3. MaskInv => MasksAreSets
  BY MasksAnswer DEF MasksAreSets
<1> QED
  BY <1>1, <1>2, <1>3, PTL DEF ComponentsSpec

-----------------------------------------------------------------------------
(* Objects: archetypes and their rows.                                     *)

(* The components every cell of which holds an object.                     *)
Valued == Creates \cup Defaults

RowsOf(m, n) == [entity : 1..n, objects : [m -> Nat]]

RowsTyped(r, n) ==
  /\ r = [m \in Ob!Archetypes |-> r[m]]
  /\ \A m \in Ob!Archetypes : r[m] \in Seq(RowsOf(m, n))

(* The entity has a row of the archetype.                                  *)
HasRow(r, x, m) == \E k \in DOMAIN r[m] : r[m][k].entity = x

(* An entity has one row.                                                  *)
OneRow(r) ==
  \A m, n \in Ob!Archetypes : \A i \in DOMAIN r[m], k \in DOMAIN r[n] :
    r[m][i].entity = r[n][k].entity => m = n /\ i = k

(* The cells of a row that nothing is wrong with hold one object.          *)
RowRight(row, m, flaws) ==
  \A c \in m \cap Valued : <<row.entity, c>> \notin flaws => row.objects[c] = 1

CellsRight(r, flaws) ==
  \A m \in Ob!Archetypes : \A k \in DOMAIN r[m] : RowRight(r[m][k], m, flaws)

(* The rows of the other entities stay in their archetypes.                *)
OthersStay(r, s, e) ==
  \A m \in Ob!Archetypes, x \in Ob!Numbers : x # e => (HasRow(s, x, m) <=> HasRow(r, x, m))

LEMMA ObjectsAre ==
  /\ Destroys \subseteq Creates /\ Creates \cup Defaults \cup Hooked \subseteq ObjectComponents
  /\ MaxEntities \in Nat /\ MaxCommands \in Nat /\ Ob!Numbers = 1..MaxEntities
  /\ \A c \in ObjectComponents : Needs[c] \subseteq ObjectComponents
  /\ \A c \in ObjectComponents : \A d \in Needs[c] : Needs[d] \subseteq Needs[c]
BY ComponentsAssumption DEF Ob!ObjectsAssumption, Ob!Numbers

(* Closing a mask under dependencies once is enough.                       *)
LEMMA ClosedIs ==
  ASSUME NEW S, S \subseteq ObjectComponents
  PROVE  /\ Ob!Closed(S) \in Ob!Archetypes /\ Ob!Closed(S) \subseteq ObjectComponents
         /\ S \subseteq Ob!Closed(S)
         /\ Ob!Closed(Ob!Closed(S)) = Ob!Closed(S)
<1>1. \A c : c \in Ob!Closed(S) <=> c \in S \/ \E d \in S : c \in Needs[d]
  BY DEF Ob!Closed
<1>2. S \subseteq Ob!Closed(S) /\ Ob!Closed(S) \subseteq ObjectComponents
  BY <1>1, ObjectsAre
<1>3. ASSUME NEW c \in Ob!Closed(Ob!Closed(S)) PROVE c \in Ob!Closed(S)
  <2>1. CASE c \in Ob!Closed(S)
    BY <2>1
  <2>2. CASE \E d \in Ob!Closed(S) : c \in Needs[d]
    <3>1. PICK d \in Ob!Closed(S) : c \in Needs[d]
      BY <2>2
    <3>2. CASE d \in S
      BY <1>1, <3>1, <3>2
    <3>3. CASE \E b \in S : d \in Needs[b]
      <4>1. PICK b \in S : d \in Needs[b]
        BY <3>3
      <4>2. c \in Needs[b]
        BY <3>1, <4>1, ObjectsAre
      <4> QED
        BY <1>1, <4>2
    <3> QED
      BY <1>1, <3>2, <3>3
  <2> QED
    BY <1>3, <2>1, <2>2 DEF Ob!Closed
<1>4. Ob!Closed(S) \subseteq Ob!Closed(Ob!Closed(S))
  BY DEF Ob!Closed
<1>5. Ob!Closed(S) \in Ob!Archetypes
  BY DEF Ob!Archetypes
<1> QED
  BY <1>2, <1>3, <1>4, <1>5

LEMMA ArchetypesAre ==
  ASSUME NEW m \in Ob!Archetypes
  PROVE  m \subseteq ObjectComponents /\ Ob!Closed(m) = m
<1>1. PICK S \in SUBSET ObjectComponents : m = Ob!Closed(S)
  BY DEF Ob!Archetypes
<1> QED
  BY <1>1, ClosedIs

(* A row more, of an entity that had none.                                 *)
WithRow(r, m, row) == [r EXCEPT ![m] = Append(@, row)]

LEMMA RowAdded ==
  ASSUME NEW r, NEW n \in Nat, RowsTyped(r, n), OneRow(r), NEW N \in Nat, n <= N,
         NEW m \in Ob!Archetypes, NEW row \in RowsOf(m, N),
         NEW e, row.entity = e, \A q \in Ob!Archetypes : ~HasRow(r, e, q),
         NEW flaws, CellsRight(r, flaws), RowRight(row, m, flaws),
         NEW s, s = WithRow(r, m, row)
  PROVE  /\ RowsTyped(s, N) /\ OneRow(s) /\ CellsRight(s, flaws)
         /\ OthersStay(r, s, e)
         /\ \A q \in Ob!Archetypes : HasRow(s, e, q) <=> q = m
<1>1. /\ r = [q \in Ob!Archetypes |-> r[q]]
      /\ \A q \in Ob!Archetypes : r[q] \in Seq(RowsOf(q, n)) /\ r[q] \in Seq(RowsOf(q, N))
  <2>1. \A q \in Ob!Archetypes : RowsOf(q, n) \subseteq RowsOf(q, N)
    BY DEF RowsOf
  <2> QED
    BY <2>1 DEF RowsTyped
<1>2. PICK l : l = Append(r[m], row)
  OBVIOUS
<1>3. PICK new \in Nat : new = Len(r[m]) + 1
  BY <1>1
<1>4. /\ l \in Seq(RowsOf(m, N)) /\ DOMAIN l = DOMAIN r[m] \cup {new} /\ new \notin DOMAIN r[m]
      /\ l[new] = row /\ \A k \in DOMAIN r[m] : l[k] = r[m][k]
  BY <1>1, <1>2, <1>3
<1>5. s = [q \in Ob!Archetypes |-> IF q = m THEN l ELSE r[q]]
  BY <1>1, <1>2 DEF WithRow
<1>6. RowsTyped(s, N)
  BY <1>1, <1>4, <1>5 DEF RowsTyped
<1>7. OneRow(s)
  <2> SUFFICES ASSUME NEW p \in Ob!Archetypes, NEW q \in Ob!Archetypes, NEW i \in DOMAIN s[p], NEW k \in DOMAIN s[q],
                      s[p][i].entity = s[q][k].entity
               PROVE  p = q /\ i = k
    BY DEF OneRow
  <2>1. CASE p = m /\ i = new
    BY <1>4, <1>5, <2>1 DEF HasRow
  <2>2. CASE q = m /\ k = new
    BY <1>4, <1>5, <2>2 DEF HasRow
  <2>3. CASE ~(p = m /\ i = new) /\ ~(q = m /\ k = new)
    <3>1. i \in DOMAIN r[p] /\ s[p][i] = r[p][i] /\ k \in DOMAIN r[q] /\ s[q][k] = r[q][k]
      BY <1>4, <1>5, <2>3
    <3> QED
      BY <3>1 DEF OneRow
  <2> QED
    BY <2>1, <2>2, <2>3
<1>8. CellsRight(s, flaws)
  BY <1>4, <1>5 DEF CellsRight
<1>9. \A q \in Ob!Archetypes : \A x : HasRow(s, x, q) <=> HasRow(r, x, q) \/ (q = m /\ x = e)
  BY <1>4, <1>5 DEF HasRow
<1>10. OthersStay(r, s, e)
  BY <1>9 DEF OthersStay
<1> QED
  BY <1>6, <1>7, <1>8, <1>9, <1>10

(* What remove() makes of the rows of an archetype.                        *)
Moved(into, last, m) ==
  [entity |-> last.entity,
   objects |-> [c \in m |-> IF c \in Destroys THEN into.objects[c] ELSE last.objects[c]]]

TakenFrom(list, k, l, m) ==
  /\ DOMAIN l = 1..(Len(list) - 1)
  /\ \A i \in 1..(Len(list) - 1) : l[i] = IF i = k THEN Moved(list[k], list[Len(list)], m) ELSE list[i]

LEMMA RemovedIs ==
  ASSUME NEW m, NEW n, NEW list \in Seq(RowsOf(m, n)), NEW k \in 1..Len(list)
  PROVE  Ob!Removed(list, k) \in Seq(RowsOf(m, n)) /\ TakenFrom(list, k, Ob!Removed(list, k), m)
<1>1. PICK last \in Nat \ {0} : last = Len(list)
  OBVIOUS
<1>2. list[k] \in RowsOf(m, n) /\ list[last] \in RowsOf(m, n)
  BY <1>1
<1>3. PICK row : row = [entity |-> list[last].entity, objects |-> Ob!MoveAssigned(list[k].objects, list[last].objects)]
  OBVIOUS
<1>4. row = Moved(list[k], list[last], m) /\ row \in RowsOf(m, n)
  BY <1>2, <1>3 DEF Ob!MoveAssigned, RowsOf, Moved
<1>5. PICK l : l = IF k = last THEN list ELSE [list EXCEPT ![k] = row]
  OBVIOUS
<1>6. l \in Seq(RowsOf(m, n)) /\ Len(l) = last /\ \A i \in 1..last : l[i] = IF i = k /\ k # last THEN row ELSE list[i]
  BY <1>1, <1>4, <1>5
<1>7. Ob!Removed(list, k) = SubSeq(l, 1, last - 1)
  BY <1>1, <1>3, <1>5, <1>6 DEF Ob!Removed, Ob!Front
<1>8. /\ SubSeq(l, 1, last - 1) \in Seq(RowsOf(m, n))
      /\ DOMAIN SubSeq(l, 1, last - 1) = 1..(last - 1)
      /\ \A i \in 1..(last - 1) : SubSeq(l, 1, last - 1)[i] = l[i]
  BY <1>1, <1>6
<1>9. \A i \in 1..(last - 1) : /\ i \in 1..last
                                /\ i = k => k # last
  OBVIOUS
<1> PICK x : x = SubSeq(l, 1, last - 1)
  OBVIOUS
<1>10. \A i \in 1..(last - 1) : x[i] = IF i = k THEN Moved(list[k], list[last], m) ELSE list[i]
  BY <1>4, <1>6, <1>8, <1>9
<1>11. TakenFrom(list, k, x, m)
  BY <1>1, <1>8, <1>10 DEF TakenFrom
<1> QED
  BY <1>7, <1>8, <1>11

(* A row less: the last one takes its place, and what is wrong with the    *)
(* cells there.                                                            *)
LEMMA RowTaken ==
  ASSUME NEW r, NEW n \in Nat, RowsTyped(r, n), OneRow(r), n <= MaxEntities,
         NEW m \in Ob!Archetypes, NEW k \in DOMAIN r[m],
         NEW e, e = r[m][k].entity,
         NEW flaws, CellsRight(r, flaws),
         \A c \in Destroys : <<e, c>> \in flaws => <<r[m][Len(r[m])].entity, c>> \in flaws,
         NEW s, s = [r EXCEPT ![m] = Ob!Removed(@, k)]
  PROVE  /\ RowsTyped(s, n) /\ OneRow(s) /\ CellsRight(s, flaws)
         /\ OthersStay(r, s, e)
         /\ \A q \in Ob!Archetypes : ~HasRow(s, e, q)
<1>1. /\ r = [q \in Ob!Archetypes |-> r[q]]
      /\ \A q \in Ob!Archetypes : r[q] \in Seq(RowsOf(q, n))
  BY DEF RowsTyped
<1>2. PICK last \in Nat \ {0} : last = Len(r[m]) /\ DOMAIN r[m] = 1..last /\ k \in 1..last /\ last \in 1..last
  BY <1>1
<1>3. PICK l : l = Ob!Removed(r[m], k)
  OBVIOUS
<1>4. /\ l \in Seq(RowsOf(m, n)) /\ DOMAIN l = 1..(last - 1)
      /\ \A i \in 1..(last - 1) :
           l[i] = IF i = k THEN Moved(r[m][k], r[m][last], m) ELSE r[m][i]
  BY <1>1, <1>2, <1>3, RemovedIs DEF TakenFrom
<1>5. s = [q \in Ob!Archetypes |-> IF q = m THEN l ELSE r[q]]
  BY <1>1, <1>3
<1>6. RowsTyped(s, n)
  BY <1>1, <1>4, <1>5 DEF RowsTyped
<1> DEFINE Was(i) == IF i = k THEN last ELSE i
<1>7. /\ \A i \in 1..(last - 1) : Was(i) \in 1..last /\ Was(i) # k /\ l[i].entity = r[m][Was(i)].entity
      /\ \A i, j \in 1..(last - 1) : Was(i) = Was(j) => i = j
      /\ \A j \in 1..last : j # k => \E i \in 1..(last - 1) : Was(i) = j
  <2>1. \A i \in 1..(last - 1) : Was(i) \in 1..last /\ Was(i) # k
    BY <1>2
  <2>2. \A i \in 1..(last - 1) : l[i].entity = r[m][Was(i)].entity
    BY <1>4 DEF Moved
  <2>3. \A i, j \in 1..(last - 1) : Was(i) = Was(j) => i = j
    BY <1>2
  <2>4. ASSUME NEW j \in 1..last, j # k PROVE \E i \in 1..(last - 1) : Was(i) = j
    <3>1. CASE j = last
      <4>1. k \in 1..(last - 1) /\ Was(k) = j
        BY <1>2, <2>4, <3>1
      <4> QED
        BY <4>1
    <3>2. CASE j # last
      <4>1. j \in 1..(last - 1) /\ Was(j) = j
        BY <2>4, <3>2
      <4> QED
        BY <4>1
    <3> QED
      BY <3>1, <3>2
  <2> HIDE DEF Was
  <2> QED
    BY <2>1, <2>2, <2>3, <2>4
<1>a. \A i \in 1..(last - 1) : i = k => Was(i) = last
  OBVIOUS
<1>b. \A i \in 1..(last - 1) : i # k => Was(i) = i
  OBVIOUS
<1> HIDE DEF Was
<1>8. OneRow(s)
  <2> SUFFICES ASSUME NEW p \in Ob!Archetypes, NEW q \in Ob!Archetypes, NEW i \in DOMAIN s[p], NEW j \in DOMAIN s[q],
                      s[p][i].entity = s[q][j].entity
               PROVE  p = q /\ i = j
    BY DEF OneRow
  <2>1. PICK a \in DOMAIN r[p] : s[p][i].entity = r[p][a].entity /\ (p = m => a = Was(i)) /\ (p # m => a = i)
    BY <1>2, <1>4, <1>5, <1>7
  <2>2. PICK b \in DOMAIN r[q] : s[q][j].entity = r[q][b].entity /\ (q = m => b = Was(j)) /\ (q # m => b = j)
    BY <1>2, <1>4, <1>5, <1>7
  <2>3. p = q /\ a = b
    BY <2>1, <2>2 DEF OneRow
  <2> QED
    BY <1>4, <1>5, <1>7, <2>1, <2>2, <2>3
<1>9. CellsRight(s, flaws)
  <2> SUFFICES ASSUME NEW q \in Ob!Archetypes, NEW i \in DOMAIN s[q] PROVE RowRight(s[q][i], q, flaws)
    BY DEF CellsRight
  <2>1. CASE q # m
    BY <1>5, <2>1 DEF CellsRight
  <2>2. CASE q = m /\ i # k
    <3>1. i \in DOMAIN r[m] /\ s[q][i] = r[m][i]
      BY <1>2, <1>4, <1>5, <2>2
    <3> QED
      BY <2>2, <3>1 DEF CellsRight
  <2>3. CASE q = m /\ i = k
    <3>1. s[q][i] = [entity |-> r[m][last].entity,
                     objects |-> [c \in m |-> IF c \in Destroys THEN r[m][k].objects[c]
                                              ELSE r[m][last].objects[c]]]
      BY <1>4, <1>5, <2>3 DEF Moved
    <3>2. RowRight(r[m][k], m, flaws) /\ RowRight(r[m][last], m, flaws)
      BY <1>2 DEF CellsRight
    <3>3. ASSUME NEW c \in m \cap Valued, <<r[m][last].entity, c>> \notin flaws
          PROVE  s[q][i].objects[c] = 1
      <4>1. CASE c \in Destroys
        <5>1. <<e, c>> \notin flaws
          BY <1>2, <3>3, <4>1
        <5>2. r[m][k].objects[c] = 1
          BY <3>2, <5>1 DEF RowRight
        <5> QED
          BY <3>1, <4>1, <5>2
      <4>2. CASE c \notin Destroys
        <5>1. r[m][last].objects[c] = 1
          BY <3>2, <3>3 DEF RowRight
        <5> QED
          BY <3>1, <4>2, <5>1
      <4> QED
        BY <4>1, <4>2
    <3> QED
      BY <2>3, <3>1, <3>3 DEF RowRight
  <2> QED
    BY <2>1, <2>2, <2>3
<1>10. ASSUME NEW q \in Ob!Archetypes, NEW x
       PROVE  HasRow(s, x, q) <=> HasRow(r, x, q) /\ x # e
  <2>1. CASE q # m
    <3>1. s[q] = r[q]
      BY <1>5, <2>1
    <3>2. ~HasRow(r, e, q)
      BY <2>1 DEF HasRow, OneRow
    <3> QED
      BY <3>1, <3>2 DEF HasRow
  <2>2. CASE q = m
    <3>1. s[m] = l
      BY <1>5
    <3>2. ASSUME NEW i \in 1..(last - 1), l[i].entity = x PROVE HasRow(r, x, m) /\ x # e
      <4>1. Was(i) \in DOMAIN r[m] /\ Was(i) # k /\ r[m][Was(i)].entity = x
        BY <1>2, <1>7, <3>2
      <4>2. x # e
        BY <4>1 DEF OneRow
      <4> QED
        BY <4>1, <4>2 DEF HasRow
    <3>3. ASSUME NEW j \in DOMAIN r[m], r[m][j].entity = x, x # e PROVE HasRow(s, x, m)
      <4>1. PICK i \in 1..(last - 1) : Was(i) = j
        BY <1>2, <1>7, <3>3
      <4> QED
        BY <1>4, <1>7, <3>1, <3>3, <4>1 DEF HasRow
    <3> QED
      BY <1>4, <2>2, <3>1, <3>2, <3>3 DEF HasRow
  <2> QED
    BY <2>1, <2>2
<1>11. OthersStay(r, s, e)
  BY <1>10 DEF OthersStay
<1> QED
  BY <1>6, <1>8, <1>9, <1>10, <1>11

-----------------------------------------------------------------------------
(* Objects: the invariant and what keeps it.                               *)

(* The hook calls of an entity are those of the components it has.         *)
Told(r, flaws, x, calls) ==
  \A c \in Hooked :
    /\ (\A m \in Ob!Archetypes : HasRow(r, x, m) => c \notin m) => calls[c] = 0
    /\ \A m \in Ob!Archetypes : HasRow(r, x, m) /\ c \in m /\ <<x, c>> \notin flaws => calls[c] = 1

CommandsOf(n) ==
  [entity : 1..n, action : {"create", "assign", "remove", "destroyNow"},
   component : ObjectComponents \cup {Ob!NoComponent}, mask : SUBSET ObjectComponents]

Pending(cs, x) == \E i \in DOMAIN cs : cs[i].action = "create" /\ cs[i].entity = x

(* An entity is created once.                                              *)
CommandsRight(cs, n) ==
  /\ cs \in Seq(CommandsOf(n))
  /\ \A i, k \in DOMAIN cs :
       cs[i].action = "create" /\ cs[k].action = "create" /\ cs[i].entity = cs[k].entity => i = k

(* All of it, of the rows r, n entities, flaws, hook calls h and commands. *)
ObjectsRight(r, n, flaws, h, cs) ==
  /\ n \in 0..MaxEntities
  /\ RowsTyped(r, n) /\ OneRow(r) /\ CellsRight(r, flaws)
  /\ h \in [Ob!Numbers -> [ObjectComponents -> Int]]
  /\ \A x \in Ob!Numbers : Told(r, flaws, x, h[x])
  /\ CommandsRight(cs, n)
  /\ \A x \in Ob!Numbers, m \in Ob!Archetypes : Pending(cs, x) => ~HasRow(r, x, m)

ObjectsInv == ObjectsRight(rows, made, flawed, hooks, commands)

(* Of the flaws, those of components that entities have are kept.          *)
Lasts(s, all, left) ==
  /\ left \subseteq all
  /\ \A m \in Ob!Archetypes : \A x, c : HasRow(s, x, m) /\ c \in m /\ <<x, c>> \in all => <<x, c>> \in left

(* A step of one entity, e.                                                *)
LEMMA StepHolds ==
  ASSUME NEW r, NEW n, NEW flaws, NEW h, NEW cs, ObjectsRight(r, n, flaws, h, cs),
         NEW s, NEW N, NEW left, NEW g, NEW ds,
         NEW e \in Ob!Numbers, NEW all, flaws \subseteq all, Lasts(s, all, left),
         N \in 0..MaxEntities, RowsTyped(s, N), OneRow(s), CellsRight(s, all), OthersStay(r, s, e),
         g \in [Ob!Numbers -> [ObjectComponents -> Int]],
         \A x \in Ob!Numbers : x # e => g[x] = h[x],
         Told(s, all, e, g[e]),
         CommandsRight(ds, N),
         \A x \in Ob!Numbers, m \in Ob!Archetypes : Pending(ds, x) => ~HasRow(s, x, m)
  PROVE  ObjectsRight(s, N, left, g, ds)
<1>1. CellsRight(s, left)
  <2> SUFFICES ASSUME NEW m \in Ob!Archetypes, NEW k \in DOMAIN s[m], NEW c \in m \cap Valued,
                      <<s[m][k].entity, c>> \notin left
               PROVE  s[m][k].objects[c] = 1
    BY DEF CellsRight, RowRight
  <2>1. HasRow(s, s[m][k].entity, m)
    BY DEF HasRow
  <2>2. <<s[m][k].entity, c>> \notin all
    BY <2>1 DEF Lasts
  <2> QED
    BY <2>2 DEF CellsRight, RowRight
<1>2. ASSUME NEW x \in Ob!Numbers PROVE Told(s, left, x, g[x])
  <2>1. CASE x = e
    BY <2>1 DEF Told, Lasts
  <2>2. CASE x # e
    <3>1. g[x] = h[x] /\ Told(r, flaws, x, h[x])
      BY <2>2 DEF ObjectsRight
    <3>2. \A m \in Ob!Archetypes : HasRow(s, x, m) <=> HasRow(r, x, m)
      BY <2>2 DEF OthersStay
    <3>3. \A m \in Ob!Archetypes : \A c : HasRow(s, x, m) /\ c \in m /\ <<x, c>> \notin left => <<x, c>> \notin flaws
      BY DEF Lasts
    <3> QED
      BY <3>1, <3>2, <3>3 DEF Told
  <2> QED
    BY <2>1, <2>2
<1> QED
  BY <1>1, <1>2 DEF ObjectsRight

(* A step of an entity that is not waiting to be created.                  *)
LEMMA StepRight ==
  ASSUME NEW r, NEW n, NEW flaws, NEW h, NEW cs, ObjectsRight(r, n, flaws, h, cs),
         NEW s, NEW N, NEW left, NEW g, NEW ds,
         NEW e \in Ob!Numbers, NEW all, flaws \subseteq all, Lasts(s, all, left),
         N \in 0..MaxEntities, RowsTyped(s, N), OneRow(s), CellsRight(s, all), OthersStay(r, s, e),
         g \in [Ob!Numbers -> [ObjectComponents -> Int]],
         \A x \in Ob!Numbers : x # e => g[x] = h[x],
         Told(s, all, e, g[e]),
         CommandsRight(ds, N),
         \A x \in Ob!Numbers, m \in Ob!Archetypes : Pending(ds, x) => x # e /\ ~HasRow(r, x, m)
  PROVE  ObjectsRight(s, N, left, g, ds)
<1>1. ASSUME NEW x \in Ob!Numbers, NEW m \in Ob!Archetypes, Pending(ds, x) PROVE ~HasRow(s, x, m)
  BY <1>1 DEF OthersStay
<1> QED
  BY <1>1, StepHolds

(* What an action leaves of the flaws.                                     *)
LEMMA LastingIs ==
  ASSUME NEW all, flawed' = Ob!Lasting(all)
  PROVE  Lasts(rows', all, flawed')
<1>1. flawed' \subseteq all
  BY DEF Ob!Lasting
<1>2. ASSUME NEW m \in Ob!Archetypes, NEW x, NEW c, HasRow(rows', x, m), c \in m, <<x, c>> \in all
      PROVE  <<x, c>> \in flawed'
  <2>0. \A f : f = <<x, c>> => f[1] = x /\ f[2] = c
    OBVIOUS
  <2>1. PICK f : f = <<x, c>> /\ f[1] = x /\ f[2] = c
    BY <2>0
  <2>2. \E k \in DOMAIN rows'[m] : rows'[m][k].entity = f[1] /\ f[2] \in m
    BY <1>2, <2>1 DEF HasRow
  <2>3. f \in all
    BY <1>2, <2>1
  <2>4. f \in Ob!Lasting(all)
    BY <2>2, <2>3 DEF Ob!Lasting
  <2> QED
    BY <2>1, <2>4
<1> QED
  BY <1>1, <1>2 DEF Lasts

(* The hook calls an action counts.                                        *)
Counted(e, assigned, removed, all, g) ==
  /\ g \in [Ob!Numbers -> [ObjectComponents -> Int]]
  /\ \A x \in Ob!Numbers : x # e => g[x] = hooks[x]
  /\ \A c \in Hooked :
       g[e][c] = IF <<e, c>> \in all THEN 0
                 ELSE hooks[e][c] + assigned[c] - (IF c \in removed THEN 1 ELSE 0)

LEMMA AccountIs ==
  ASSUME ObjectsInv, NEW e \in Ob!Numbers, NEW assigned \in [ObjectComponents -> Int], NEW removed,
         NEW flaws, Ob!Account(e, assigned, removed, flaws)
  PROVE  /\ Lasts(rows', flawed \cup flaws, flawed')
         /\ Counted(e, assigned, removed, flawed \cup flaws, hooks')
<1>1. PICK all : all = flawed \cup flaws
  OBVIOUS
<1>2. Lasts(rows', all, flawed')
  <2>1. flawed' = Ob!Lasting(all)
    BY <1>1 DEF Ob!Account
  <2> QED
    BY <2>1, LastingIs
<1>3. hooks \in [Ob!Numbers -> [ObjectComponents -> Int]]
  BY DEF ObjectsInv, ObjectsRight
<1>4. PICK old : old = hooks[e] /\ old \in [ObjectComponents -> Int]
  BY <1>3
<1>5. PICK calls : calls = [c \in ObjectComponents |->
                    IF <<e, c>> \in all \/ c \notin Hooked THEN 0
                    ELSE old[c] + assigned[c] - (IF c \in removed THEN 1 ELSE 0)]
  OBVIOUS
<1>6. calls \in [ObjectComponents -> Int]
  BY <1>4, <1>5
<1>7. hooks' = [hooks EXCEPT ![e] = calls]
  BY <1>1, <1>3, <1>4, <1>5 DEF Ob!Account
<1>8. \A c \in Hooked : calls[c] = IF <<e, c>> \in all THEN 0
                                   ELSE hooks[e][c] + assigned[c] - (IF c \in removed THEN 1 ELSE 0)
  BY <1>4, <1>5, ObjectsAre
<1>9. hooks' \in [Ob!Numbers -> [ObjectComponents -> Int]] /\ hooks'[e] = calls
      /\ \A x \in Ob!Numbers : x # e => hooks'[x] = hooks[x]
  BY <1>3, <1>6, <1>7
<1>10. Counted(e, assigned, removed, all, hooks')
  BY <1>8, <1>9 DEF Counted
<1> QED
  BY <1>1, <1>2, <1>10

(* Where an entity is.                                                     *)
LEMMA ExistsIs ==
  ASSUME NEW e
  PROVE  Ob!Exists(e) <=> \E q \in Ob!Archetypes : HasRow(rows, e, q)
BY DEF Ob!Exists, HasRow

LEMMA Located ==
  ASSUME ObjectsInv, NEW e, Ob!Exists(e)
  PROVE  /\ Ob!MaskOf(e) \in Ob!Archetypes /\ Ob!RowOf(e) \in DOMAIN rows[Ob!MaskOf(e)]
         /\ rows[Ob!MaskOf(e)][Ob!RowOf(e)].entity = e
         /\ \A q \in Ob!Archetypes : HasRow(rows, e, q) <=> q = Ob!MaskOf(e)
         /\ e \in 1..made /\ e \in Ob!Numbers
<1>1. PICK m : m = Ob!MaskOf(e)
  OBVIOUS
<1>2. m \in Ob!Archetypes /\ HasRow(rows, e, m)
  BY <1>1, ExistsIs DEF Ob!MaskOf, HasRow
<1>3. PICK k : k = Ob!RowOf(e)
  OBVIOUS
<1>4. k \in DOMAIN rows[m] /\ rows[m][k].entity = e
  BY <1>1, <1>2, <1>3 DEF Ob!RowOf, HasRow
<1>5. \A q \in Ob!Archetypes : HasRow(rows, e, q) <=> q = m
  BY <1>2, <1>4 DEF ObjectsInv, ObjectsRight, OneRow, HasRow
<1>6. e \in 1..made /\ made \in 0..MaxEntities
  <2>1. rows[m] \in Seq(RowsOf(m, made))
    BY <1>2 DEF ObjectsInv, ObjectsRight, RowsTyped
  <2>2. rows[m][k] \in RowsOf(m, made)
    BY <1>4, <2>1
  <2> QED
    BY <1>4, <2>2 DEF RowsOf, ObjectsInv, ObjectsRight
<1> QED
  BY <1>1, <1>2, <1>3, <1>4, <1>5, <1>6, ObjectsAre

-----------------------------------------------------------------------------
(* Objects: the parts of actions.                                          *)

(* The commands after a step of e create neither e nor an entity that      *)
(* exists.                                                                 *)
CommandsAfter(e) ==
  /\ made' \in 0..MaxEntities /\ made <= made'
  /\ CommandsRight(commands', made')
  /\ \A x \in Ob!Numbers, m \in Ob!Archetypes : Pending(commands', x) => x # e /\ ~HasRow(rows, x, m)

(* What is constructed in place is what was skipped, but for the flaws and *)
(* what neither counts nor tells of its objects.                           *)
Fits(e, m, skip, built, flaws) ==
  /\ built \in [ObjectComponents -> Nat]
  /\ \A c \in ObjectComponents :
       /\ c \notin m => built[c] = 0
       /\ c \in m => \/ <<e, c>> \in flaws
                     \/ built[c] = IF c \in skip THEN 1 ELSE 0
                     \/ c \notin Destroys \cup Hooked /\ built[c] > 0

(* Cells that hold an object unless they were skipped.                     *)
Ready(objects, e, m, skip, flaws) ==
  /\ objects \in [m -> Nat]
  /\ \A c \in m \cap Valued : <<e, c>> \notin flaws => objects[c] = IF c \in skip THEN 0 ELSE 1

(* Construction in place on such cells.                                    *)
LEMMA BuiltRight ==
  ASSUME NEW e, NEW m, m \subseteq ObjectComponents, NEW skip, NEW built, NEW flaws,
         Fits(e, m, skip, built, flaws),
         NEW objects, Ready(objects, e, m, skip, flaws)
  PROVE  Ready(Ob!WithBuilt(objects, built), e, m, {}, flaws)
<1>0. /\ objects \in [m -> Nat]
      /\ \A c \in m \cap Valued : <<e, c>> \notin flaws => objects[c] = IF c \in skip THEN 0 ELSE 1
  BY DEF Ready
<1>1. PICK w : w = Ob!WithBuilt(objects, built)
  OBVIOUS
<1>2. w = [c \in m |-> IF built[c] = 0 THEN objects[c] ELSE Ob!Built(c, objects[c] + built[c])]
  BY <1>0, <1>1 DEF Ob!WithBuilt
<1>3. \A c \in m : built[c] \in Nat /\ objects[c] \in Nat
  BY <1>0 DEF Fits
<1>4. w \in [m -> Nat]
  BY <1>2, <1>3 DEF Ob!Built
<1>5. ASSUME NEW c \in m \cap Valued, <<e, c>> \notin flaws PROVE w[c] = 1
  <2>1. \/ built[c] = IF c \in skip THEN 1 ELSE 0
        \/ c \notin Destroys /\ built[c] > 0
    BY <1>5 DEF Fits
  <2>2. objects[c] = IF c \in skip THEN 0 ELSE 1
    BY <1>0, <1>5
  <2>3. w[c] = IF built[c] = 0 THEN objects[c] ELSE Ob!Built(c, objects[c] + built[c])
    BY <1>2
  <2>4. CASE c \notin Destroys /\ built[c] > 0
    BY <2>3, <2>4 DEF Ob!Built
  <2>5. CASE built[c] = 1 /\ c \in skip
    <3>1. objects[c] + built[c] = 1
      BY <2>2, <2>5
    <3> QED
      BY <2>3, <2>5, <3>1 DEF Ob!Built
  <2>6. CASE built[c] = 0 /\ c \notin skip
    BY <2>2, <2>3, <2>6
  <2> QED
    BY <2>1, <2>4, <2>5, <2>6
<1> QED
  BY <1>1, <1>4, <1>5 DEF Ready

(* A row more, of an entity that had none, whose hooks are called.         *)
LEMMA AddedKeeps ==
  ASSUME ObjectsInv, NEW e \in Ob!Numbers, e <= made', CommandsAfter(e),
         \A q \in Ob!Archetypes : ~HasRow(rows, e, q),
         NEW m \in Ob!Archetypes, NEW row \in RowsOf(m, made'), row.entity = e,
         NEW assigned \in [ObjectComponents -> Int], NEW new,
         rows' = WithRow(rows, m, row), Ob!Account(e, assigned, {}, new),
         RowRight(row, m, flawed \cup new),
         \A c \in Hooked : /\ c \notin m => assigned[c] = 0
                           /\ c \in m /\ <<e, c>> \notin flawed \cup new => assigned[c] = 1
  PROVE  ObjectsInv'
<1>1. PICK all : all = flawed \cup new
  OBVIOUS
<1>2. /\ made \in 0..MaxEntities /\ made' \in 0..MaxEntities /\ made <= made' /\ made \in Nat /\ made' \in Nat
      /\ RowsTyped(rows, made) /\ OneRow(rows) /\ CellsRight(rows, flawed)
  BY ObjectsAre DEF ObjectsInv, ObjectsRight, CommandsAfter
<1>3. Lasts(rows', all, flawed') /\ Counted(e, assigned, {}, all, hooks')
  BY <1>1, AccountIs
<1>4. CellsRight(rows, all)
  BY <1>1, <1>2 DEF CellsRight, RowRight
<1>5. /\ RowsTyped(rows', made') /\ OneRow(rows') /\ CellsRight(rows', all) /\ OthersStay(rows, rows', e)
      /\ \A q \in Ob!Archetypes : HasRow(rows', e, q) <=> q = m
  <2> PICK s : s = rows'
    OBVIOUS
  <2>1. PICK N \in Nat : N = made' /\ s = rows'
    BY <1>2
  <2>2. s = WithRow(rows, m, row) /\ row \in RowsOf(m, N) /\ made <= N
    BY <1>2, <2>1
  <2>3. RowRight(row, m, all)
    BY <1>1
  <2>4. /\ RowsTyped(s, N) /\ OneRow(s) /\ CellsRight(s, all) /\ OthersStay(rows, s, e)
        /\ \A q \in Ob!Archetypes : HasRow(s, e, q) <=> q = m
    BY <1>2, <1>4, <2>2, <2>3, RowAdded
  <2> QED
    BY <2>1, <2>4
<1>6. Told(rows', all, e, hooks'[e])
  <2> SUFFICES ASSUME NEW c \in Hooked
               PROVE  /\ c \notin m => hooks'[e][c] = 0
                      /\ c \in m /\ <<e, c>> \notin all => hooks'[e][c] = 1
    BY <1>5 DEF Told
  <2>1. hooks[e][c] = 0 /\ c \in ObjectComponents
    BY ObjectsAre DEF ObjectsInv, ObjectsRight, Told
  <2>2. hooks'[e][c] = IF <<e, c>> \in all THEN 0 ELSE assigned[c]
    <3>1. assigned[c] \in Int
      BY <2>1
    <3>2. hooks'[e][c] = IF <<e, c>> \in all THEN 0 ELSE hooks[e][c] + assigned[c] - 0
      BY <1>3 DEF Counted
    <3> QED
      BY <2>1, <3>1, <3>2
  <2> QED
    BY <1>1, <2>2
<1>7. ObjectsRight(rows', made', flawed', hooks', commands')
  <2>1. flawed \subseteq all
    BY <1>1
  <2>2. /\ hooks' \in [Ob!Numbers -> [ObjectComponents -> Int]]
        /\ \A x \in Ob!Numbers : x # e => hooks'[x] = hooks[x]
    BY <1>3 DEF Counted
  <2>3. /\ CommandsRight(commands', made')
        /\ \A x \in Ob!Numbers, q \in Ob!Archetypes : Pending(commands', x) => x # e /\ ~HasRow(rows, x, q)
    BY DEF CommandsAfter
  <2>4. ObjectsRight(rows, made, flawed, hooks, commands)
    BY DEF ObjectsInv
  <2> QED
    BY <1>2, <1>3, <1>5, <1>6, <2>1, <2>2, <2>3, <2>4, StepRight
<1> QED
  BY <1>7 DEF ObjectsInv

LEMMA InsertKeeps ==
  ASSUME ObjectsInv, NEW e \in Ob!Numbers, e <= made', CommandsAfter(e),
         \A q \in Ob!Archetypes : ~HasRow(rows, e, q),
         NEW mask, mask \subseteq ObjectComponents, NEW skip, NEW built, NEW flaws,
         Fits(e, Ob!Closed(mask), skip, built, flaws), Ob!Insert(e, mask, skip, built, flaws)
  PROVE  ObjectsInv'
<1>1. PICK m \in Ob!Archetypes : m = Ob!Closed(mask) /\ m \subseteq ObjectComponents
  BY ClosedIs
<1>2. PICK new : new = {<<e, c>> : c \in ((m \ skip) \cap Hooked \cap Defaults) \ Creates} \cup flaws
  OBVIOUS
<1>3. PICK assigned : assigned = [c \in ObjectComponents |-> built[c] + (IF c \in m \ skip THEN 1 ELSE 0)]
  OBVIOUS
<1>4. PICK objects : objects = Ob!Inserted(m, skip)
  OBVIOUS
<1>5. PICK row : row = [entity |-> e, objects |-> Ob!WithBuilt(objects, built)]
  OBVIOUS
<1>6. rows' = WithRow(rows, m, row) /\ Ob!Account(e, assigned, {}, new)
  BY <1>1, <1>2, <1>3, <1>4, <1>5 DEF Ob!Insert, WithRow
<1>7. e \in 1..made' /\ \A c \in ObjectComponents : built[c] \in Nat
  BY ObjectsAre DEF CommandsAfter, Fits
<1>8. /\ assigned \in [ObjectComponents -> Int]
      /\ \A c \in ObjectComponents : assigned[c] = built[c] + (IF c \in m \ skip THEN 1 ELSE 0)
  BY <1>3, <1>7
<1>9. PICK all : all = flawed \cup new
  OBVIOUS
<1>10. Fits(e, m, skip, built, all)
  BY <1>1, <1>2, <1>9 DEF Fits
<1>11. Ready(objects, e, m, skip, all)
  <2>1. objects = [c \in m |-> IF c \notin skip /\ c \in Creates \cup (Defaults \ Hooked) THEN 1 ELSE 0]
    BY <1>4 DEF Ob!Inserted
  <2>2. ASSUME NEW c \in m \cap Valued, c \notin skip, c \notin Creates \cup (Defaults \ Hooked) PROVE <<e, c>> \in all
    BY <1>2, <1>9, <2>2 DEF Valued
  <2> QED
    BY <2>1, <2>2 DEF Ready
<1>12. row \in RowsOf(m, made') /\ row.entity = e /\ RowRight(row, m, all)
  <2>1. Ready(Ob!WithBuilt(objects, built), e, m, {}, all)
    BY <1>1, <1>10, <1>11, BuiltRight
  <2> QED
    BY <1>5, <1>7, <2>1 DEF RowsOf, RowRight, Ready
<1>13. ASSUME NEW c \in Hooked
       PROVE  /\ c \notin m => assigned[c] = 0
              /\ c \in m /\ <<e, c>> \notin all => assigned[c] = 1
  <2>1. c \in ObjectComponents
    BY ObjectsAre
  <2>2. assigned[c] = built[c] + (IF c \in m \ skip THEN 1 ELSE 0) /\ built[c] \in Nat
    BY <1>7, <1>8, <2>1
  <2>3. c \notin m => built[c] = 0
    BY <1>10, <2>1 DEF Fits
  <2>4. c \in m /\ <<e, c>> \notin all => built[c] = IF c \in skip THEN 1 ELSE 0
    BY <1>10, <2>1 DEF Fits
  <2> QED
    BY <2>2, <2>3, <2>4
<1> QED
  BY <1>6, <1>8, <1>9, <1>12, <1>13, AddedKeeps

(* With more flaws, no less is right.                                      *)
LEMMA CellsMore ==
  ASSUME NEW r, NEW few, NEW many, few \subseteq many, CellsRight(r, few)
  PROVE  CellsRight(r, many)
BY DEF CellsRight, RowRight

(* An entity's row leaves its archetype.                                   *)
LEMMA TakenOut ==
  ASSUME ObjectsInv, NEW e, Ob!Exists(e), NEW m, m = Ob!MaskOf(e), NEW k, k = Ob!RowOf(e),
         NEW all, flawed \cup Ob!Passed(rows[m], k) \subseteq all,
         NEW s, s = [rows EXCEPT ![m] = Ob!Removed(@, k)]
  PROVE  /\ RowsTyped(s, made) /\ OneRow(s) /\ CellsRight(s, all)
         /\ OthersStay(rows, s, e)
         /\ \A q \in Ob!Archetypes : ~HasRow(s, e, q)
<1>1. m \in Ob!Archetypes /\ k \in DOMAIN rows[m] /\ rows[m][k].entity = e
  BY Located
<1>2. PICK some : some = flawed \cup Ob!Passed(rows[m], k)
  OBVIOUS
<1>3. PICK x : x = rows[m][Len(rows[m])].entity
  OBVIOUS
<1>4. Ob!Passed(rows[m], k) = {<<x, c>> : c \in {c \in Destroys : <<e, c>> \in flawed}}
  BY <1>1, <1>3 DEF Ob!Passed, Ob!Last
<1>5. ASSUME NEW c \in Destroys, <<e, c>> \in some PROVE <<x, c>> \in some
  <2>1. CASE <<e, c>> \in flawed
    BY <1>2, <1>4, <2>1
  <2>2. CASE <<e, c>> \in Ob!Passed(rows[m], k)
    <3>1. \E d \in Destroys : <<e, c>> = <<x, d>>
      BY <1>4, <2>2
    <3>2. e = x
      BY <3>1
    <3> QED
      BY <1>5, <3>2
  <2> QED
    BY <1>2, <1>5, <2>1, <2>2
<1>6. /\ made \in Nat /\ made <= MaxEntities /\ RowsTyped(rows, made) /\ OneRow(rows)
      /\ CellsRight(rows, flawed)
  BY ObjectsAre DEF ObjectsInv, ObjectsRight
<1>7. CellsRight(rows, some)
  BY <1>2, <1>6, CellsMore
<1>8. /\ RowsTyped(s, made) /\ OneRow(s) /\ CellsRight(s, some) /\ OthersStay(rows, s, e)
      /\ \A q \in Ob!Archetypes : ~HasRow(s, e, q)
  BY <1>1, <1>3, <1>5, <1>6, <1>7, RowTaken
<1> QED
  BY <1>2, <1>8, CellsMore

LEMMA ExternalMoveKeeps ==
  ASSUME ObjectsInv, NEW e, Ob!Exists(e), CommandsAfter(e),
         NEW mask, mask \subseteq ObjectComponents, NEW skip, NEW built, NEW flaws,
         Fits(e, Ob!Closed(mask), skip \ Ob!MaskOf(e), built, flaws),
         Ob!ExternalMove(e, mask, skip, built, flaws)
  PROVE  ObjectsInv'
<1>1. PICK to \in Ob!Archetypes : to = Ob!Closed(mask) /\ to \subseteq ObjectComponents
  BY ClosedIs
<1>2. PICK from \in Ob!Archetypes : from = Ob!MaskOf(e)
  BY Located
<1>3. PICK k : k = Ob!RowOf(e)
  OBVIOUS
<1>4. /\ k \in DOMAIN rows[from] /\ rows[from][k].entity = e /\ e \in 1..made /\ e \in Ob!Numbers
      /\ \A q \in Ob!Archetypes : HasRow(rows, e, q) <=> q = from
      /\ from \subseteq ObjectComponents
  BY <1>2, <1>3, Located, ArchetypesAre
<1>5. PICK old : old = rows[from][k].objects
  OBVIOUS
<1>6. PICK new : new = Ob!Passed(rows[from], k) \cup flaws
  OBVIOUS
<1>7. PICK assigned : assigned = [c \in ObjectComponents |-> built[c] + (IF c \in (to \ from) \ skip THEN 1 ELSE 0)]
  OBVIOUS
<1>8. PICK objects : objects = Ob!MovedObjects(old, to, skip)
  OBVIOUS
<1>9. PICK row : row = [entity |-> e, objects |-> Ob!WithBuilt(objects, built)]
  OBVIOUS
<1>10. /\ to # from
       /\ rows' = [rows EXCEPT ![to] = Append(@, row), ![from] = Ob!Removed(@, k)]
       /\ Ob!Account(e, assigned, from \ to, new)
  BY <1>1, <1>2, <1>3, <1>5, <1>6, <1>7, <1>8, <1>9 DEF Ob!ExternalMove, Ob!Objects
<1>11. /\ made \in 0..MaxEntities /\ made' \in 0..MaxEntities /\ made <= made' /\ e \in 1..made'
       /\ RowsTyped(rows, made) /\ OneRow(rows) /\ CellsRight(rows, flawed)
       /\ \A c \in ObjectComponents : built[c] \in Nat
       /\ made \in Nat /\ made' \in Nat
  BY <1>4, ObjectsAre DEF ObjectsInv, ObjectsRight, CommandsAfter, Fits
<1>12. /\ assigned \in [ObjectComponents -> Int]
       /\ \A c \in ObjectComponents : assigned[c] = built[c] + (IF c \in (to \ from) \ skip THEN 1 ELSE 0)
  BY <1>7, <1>11
<1>13. PICK all : all = flawed \cup new
  OBVIOUS
<1>14. Lasts(rows', all, flawed') /\ Counted(e, assigned, from \ to, all, hooks')
  BY <1>4, <1>10, <1>12, <1>13, AccountIs
<1> PICK over : over = skip \ from
  OBVIOUS
<1>15. Fits(e, to, over, built, all)
  BY <1>1, <1>2, <1>6, <1>13 DEF Fits
<1>16. Ready(objects, e, to, over, all)
  <2>1. old \in [from -> Nat] /\ RowRight(rows[from][k], from, flawed)
    <3>1. rows[from] \in Seq(RowsOf(from, made))
      BY <1>11 DEF RowsTyped
    <3>2. rows[from][k] \in RowsOf(from, made)
      BY <1>4, <3>1
    <3> QED
      BY <1>4, <1>5, <1>11, <3>2 DEF RowsOf, CellsRight
  <2>2. objects = [c \in to |-> IF c \in from THEN Ob!MadeOf(old[c])
                                ELSE IF c \notin skip /\ c \in Creates \cup Defaults THEN 1 ELSE 0]
    BY <1>8, <2>1 DEF Ob!MovedObjects
  <2>3. \A c \in from : Ob!MadeOf(old[c]) \in Nat
    BY DEF Ob!MadeOf
  <2>4. objects \in [to -> Nat]
    BY <2>2, <2>3
  <2>5. ASSUME NEW c \in to \cap Valued, <<e, c>> \notin all
        PROVE  objects[c] = IF c \in over THEN 0 ELSE 1
    <3>1. CASE c \in from
      <4>1. old[c] = 1
        BY <1>4, <1>5, <1>13, <2>1, <2>5, <3>1 DEF RowRight
      <4>2. objects[c] = Ob!MadeOf(1)
        BY <2>2, <3>1, <4>1
      <4> QED
        BY <3>1, <4>2 DEF Ob!MadeOf
    <3>2. CASE c \notin from
      BY <2>2, <2>5, <3>2 DEF Valued
    <3> QED
      BY <3>1, <3>2
  <2> QED
    BY <2>4, <2>5 DEF Ready
<1>17. row \in RowsOf(to, made') /\ row.entity = e /\ RowRight(row, to, all)
  <2>1. Ready(Ob!WithBuilt(objects, built), e, to, {}, all)
    BY <1>1, <1>15, <1>16, BuiltRight
  <2> QED
    BY <1>9, <1>11, <2>1 DEF RowsOf, RowRight, Ready
<1>18. PICK s : s = [rows EXCEPT ![from] = Ob!Removed(@, k)]
  OBVIOUS
<1>19. /\ RowsTyped(s, made) /\ OneRow(s) /\ CellsRight(s, all) /\ OthersStay(rows, s, e)
       /\ \A q \in Ob!Archetypes : ~HasRow(s, e, q)
  <2>1. flawed \cup Ob!Passed(rows[from], k) \subseteq all
    BY <1>6, <1>13
  <2> QED
    BY <1>2, <1>3, <1>18, <2>1, TakenOut
<1>20. rows' = [s EXCEPT ![to] = Append(@, row)]
  <2>1. rows = [q \in Ob!Archetypes |-> rows[q]]
    BY <1>11 DEF RowsTyped
  <2> QED
    BY <1>10, <1>18, <2>1
<1>21. /\ RowsTyped(rows', made') /\ OneRow(rows') /\ CellsRight(rows', all) /\ OthersStay(s, rows', e)
       /\ \A q \in Ob!Archetypes : HasRow(rows', e, q) <=> q = to
  <2> PICK t : t = rows'
    OBVIOUS
  <2>1. PICK N \in Nat : N = made' /\ t = rows'
    BY <1>11
  <2>2. t = WithRow(s, to, row) /\ row \in RowsOf(to, N) /\ made <= N
    BY <1>11, <1>17, <1>20, <2>1 DEF WithRow
  <2>3. /\ RowsTyped(t, N) /\ OneRow(t) /\ CellsRight(t, all) /\ OthersStay(s, t, e)
        /\ \A q \in Ob!Archetypes : HasRow(t, e, q) <=> q = to
    BY <1>11, <1>17, <1>19, <2>2, RowAdded
  <2> QED
    BY <2>1, <2>3
<1>22. OthersStay(rows, rows', e)
  BY <1>19, <1>21 DEF OthersStay
<1>23. Told(rows', all, e, hooks'[e])
  <2> SUFFICES ASSUME NEW c \in Hooked
               PROVE  /\ c \notin to => hooks'[e][c] = 0
                      /\ c \in to /\ <<e, c>> \notin all => hooks'[e][c] = 1
    BY <1>21 DEF Told
  <2>1. c \in ObjectComponents /\ built[c] \in Nat /\ assigned[c] \in Int
    BY <1>11, <1>12, ObjectsAre
  <2>2. /\ c \notin from => hooks[e][c] = 0
        /\ c \in from /\ <<e, c>> \notin flawed => hooks[e][c] = 1
    <3>1. Told(rows, flawed, e, hooks[e])
      BY <1>4 DEF ObjectsInv, ObjectsRight
    <3> QED
      BY <1>4, <3>1 DEF Told
  <2>3. hooks'[e][c] = IF <<e, c>> \in all THEN 0
                       ELSE hooks[e][c] + assigned[c] - (IF c \in from \ to THEN 1 ELSE 0)
    BY <1>14 DEF Counted
  <2>4. assigned[c] = built[c] + (IF c \in (to \ from) \ skip THEN 1 ELSE 0)
    BY <1>12, <2>1
  <2>5. /\ c \notin to => built[c] = 0
        /\ c \in to /\ <<e, c>> \notin all => built[c] = IF c \in over THEN 1 ELSE 0
    BY <1>15, <2>1 DEF Fits
  <2>6. <<e, c>> \notin all => <<e, c>> \notin flawed
    BY <1>13
  <2>7. CASE <<e, c>> \in all
    BY <2>3, <2>7
  <2>8. CASE <<e, c>> \notin all /\ c \in from /\ c \in to
    <3>1. built[c] = 0
      BY <2>5, <2>8
    <3>2. assigned[c] = 0
      BY <2>4, <2>8, <3>1
    <3>3. hooks[e][c] = 1
      BY <2>2, <2>6, <2>8
    <3> QED
      BY <2>3, <2>8, <3>2, <3>3
  <2>9. CASE <<e, c>> \notin all /\ c \in from /\ c \notin to
    BY <2>1, <2>2, <2>3, <2>4, <2>5, <2>6, <2>9
  <2>10. CASE <<e, c>> \notin all /\ c \notin from /\ c \in to
    <3>1. assigned[c] = 1
      BY <2>1, <2>4, <2>5, <2>10
    <3> QED
      BY <2>2, <2>3, <2>10, <3>1
  <2>11. CASE <<e, c>> \notin all /\ c \notin from /\ c \notin to
    <3>1. assigned[c] = 0
      BY <2>4, <2>5, <2>11
    <3> QED
      BY <2>2, <2>3, <2>11, <3>1
  <2> QED
    BY <2>7, <2>8, <2>9, <2>10, <2>11
<1>24. ObjectsRight(rows', made', flawed', hooks', commands')
  <2>1. flawed \subseteq all
    BY <1>13
  <2>2. /\ hooks' \in [Ob!Numbers -> [ObjectComponents -> Int]]
        /\ \A x \in Ob!Numbers : x # e => hooks'[x] = hooks[x]
    BY <1>14 DEF Counted
  <2>3. /\ CommandsRight(commands', made')
        /\ \A x \in Ob!Numbers, q \in Ob!Archetypes : Pending(commands', x) => x # e /\ ~HasRow(rows, x, q)
    BY DEF CommandsAfter
  <2>4. ObjectsRight(rows, made, flawed, hooks, commands)
    BY DEF ObjectsInv
  <2> QED
    BY <1>4, <1>11, <1>14, <1>21, <1>22, <1>23, <2>1, <2>2, <2>3, <2>4, StepRight
<1> QED
  BY <1>24 DEF ObjectsInv

LEMMA EraseKeeps ==
  ASSUME ObjectsInv, NEW e, Ob!Exists(e), CommandsAfter(e), made' = made, Ob!Erase(e)
  PROVE  ObjectsInv'
<1>1. PICK m \in Ob!Archetypes : m = Ob!MaskOf(e)
  BY Located
<1>2. PICK k : k = Ob!RowOf(e)
  OBVIOUS
<1>3. e \in Ob!Numbers /\ \A q \in Ob!Archetypes : HasRow(rows, e, q) <=> q = m
  BY <1>1, Located
<1>4. PICK new : new = Ob!Passed(rows[m], k)
  OBVIOUS
<1>5. PICK assigned : assigned = Ob!Once({})
  OBVIOUS
<1>6. rows' = [rows EXCEPT ![m] = Ob!Removed(@, k)] /\ Ob!Account(e, assigned, m, new)
  BY <1>1, <1>2, <1>4, <1>5 DEF Ob!Erase
<1>7. assigned \in [ObjectComponents -> Int] /\ \A c \in ObjectComponents : assigned[c] = 0
  BY <1>5 DEF Ob!Once
<1>8. PICK all : all = flawed \cup new
  OBVIOUS
<1>9. Lasts(rows', all, flawed') /\ Counted(e, assigned, m, all, hooks')
  BY <1>3, <1>6, <1>7, <1>8, AccountIs
<1>10. /\ RowsTyped(rows', made) /\ OneRow(rows') /\ CellsRight(rows', all) /\ OthersStay(rows, rows', e)
       /\ \A q \in Ob!Archetypes : ~HasRow(rows', e, q)
  <2>1. flawed \cup Ob!Passed(rows[m], k) \subseteq all
    BY <1>4, <1>8
  <2> QED
    BY <1>1, <1>2, <1>6, <2>1, TakenOut
<1>11. Told(rows', all, e, hooks'[e])
  <2> SUFFICES ASSUME NEW c \in Hooked PROVE hooks'[e][c] = 0
    BY <1>10 DEF Told
  <2>1. c \in ObjectComponents /\ assigned[c] = 0
    BY <1>7, ObjectsAre
  <2>2. /\ c \notin m => hooks[e][c] = 0
        /\ c \in m /\ <<e, c>> \notin flawed => hooks[e][c] = 1
    <3>1. Told(rows, flawed, e, hooks[e])
      BY <1>3 DEF ObjectsInv, ObjectsRight
    <3> QED
      BY <1>3, <3>1 DEF Told
  <2>3. hooks'[e][c] = IF <<e, c>> \in all THEN 0
                       ELSE hooks[e][c] + assigned[c] - (IF c \in m THEN 1 ELSE 0)
    BY <1>9 DEF Counted
  <2> QED
    BY <1>8, <2>1, <2>2, <2>3
<1>12. ObjectsRight(rows', made', flawed', hooks', commands')
  <2>1. flawed \subseteq all
    BY <1>8
  <2>2. /\ hooks' \in [Ob!Numbers -> [ObjectComponents -> Int]]
        /\ \A x \in Ob!Numbers : x # e => hooks'[x] = hooks[x]
    BY <1>9 DEF Counted
  <2>3. /\ CommandsRight(commands', made') /\ made' \in 0..MaxEntities
        /\ \A x \in Ob!Numbers, q \in Ob!Archetypes : Pending(commands', x) => x # e /\ ~HasRow(rows, x, q)
    BY DEF CommandsAfter
  <2>4. ObjectsRight(rows, made, flawed, hooks, commands)
    BY DEF ObjectsInv
  <2> QED
    BY <1>3, <1>9, <1>10, <1>11, <2>1, <2>2, <2>3, <2>4, StepRight
<1> QED
  BY <1>12 DEF ObjectsInv

(* Construction in place in the row an entity has.                         *)
LEMMA RebuiltKeeps ==
  ASSUME ObjectsInv, NEW e, Ob!Exists(e), CommandsAfter(e), made' = made,
         NEW m, m = Ob!MaskOf(e), NEW built, NEW flaws, Fits(e, m, {}, built, flaws),
         rows' = [rows EXCEPT ![m][Ob!RowOf(e)].objects = Ob!WithBuilt(@, built)],
         Ob!Account(e, built, {}, flaws)
  PROVE  ObjectsInv'
<1>1. PICK k : k = Ob!RowOf(e)
  OBVIOUS
<1>2. /\ m \in Ob!Archetypes /\ k \in DOMAIN rows[m] /\ rows[m][k].entity = e /\ e \in 1..made /\ e \in Ob!Numbers
      /\ \A q \in Ob!Archetypes : HasRow(rows, e, q) <=> q = m
      /\ m \subseteq ObjectComponents
  BY <1>1, Located, ArchetypesAre
<1>3. /\ made \in 0..MaxEntities /\ RowsTyped(rows, made) /\ OneRow(rows) /\ CellsRight(rows, flawed)
      /\ hooks[e] \in [ObjectComponents -> Int]
  BY <1>2 DEF ObjectsInv, ObjectsRight
<1>4. PICK all : all = flawed \cup flaws
  OBVIOUS
<1>5. rows[m] \in Seq(RowsOf(m, made)) /\ rows[m][k] \in RowsOf(m, made)
  BY <1>2, <1>3 DEF RowsTyped
<1>6. PICK w : w = Ob!WithBuilt(rows[m][k].objects, built)
  OBVIOUS
<1>7. w \in [m -> Nat] /\ \A c \in m \cap Valued : <<e, c>> \notin all => w[c] = 1
  <2>1. Ready(rows[m][k].objects, e, m, {}, all)
    <3>1. RowRight(rows[m][k], m, flawed) /\ rows[m][k].objects \in [m -> Nat]
      BY <1>2, <1>3, <1>5 DEF CellsRight, RowsOf
    <3> QED
      BY <1>2, <1>4, <3>1 DEF Ready, RowRight
  <2>2. Fits(e, m, {}, built, all)
    BY <1>4 DEF Fits
  <2>3. Ready(w, e, m, {}, all)
    BY <1>2, <1>6, <2>1, <2>2, BuiltRight
  <2> QED
    BY <2>3 DEF Ready
<1>8. PICK row : row = [rows[m][k] EXCEPT !.objects = w]
  OBVIOUS
<1>9. row \in RowsOf(m, made) /\ row.entity = e /\ RowRight(row, m, all)
  BY <1>2, <1>5, <1>7, <1>8 DEF RowsOf, RowRight
<1>10. PICK l : l = [rows[m] EXCEPT ![k] = row]
  OBVIOUS
<1>11. /\ l \in Seq(RowsOf(m, made)) /\ DOMAIN l = DOMAIN rows[m]
       /\ \A i \in DOMAIN rows[m] : l[i] = IF i = k THEN row ELSE rows[m][i]
  BY <1>2, <1>5, <1>9, <1>10
<1>12. rows' = [rows EXCEPT ![m] = l]
  BY <1>1, <1>6, <1>8, <1>10
<1>13. rows' = [q \in Ob!Archetypes |-> IF q = m THEN l ELSE rows[q]]
  BY <1>2, <1>3, <1>12 DEF RowsTyped
<1>14. /\ \A q \in Ob!Archetypes : DOMAIN rows'[q] = DOMAIN rows[q]
       /\ \A q \in Ob!Archetypes : \A i \in DOMAIN rows[q] :
            /\ rows'[q][i].entity = rows[q][i].entity
            /\ rows'[q][i] = IF q = m /\ i = k THEN row ELSE rows[q][i]
  BY <1>2, <1>9, <1>11, <1>13
<1>15. RowsTyped(rows', made)
  BY <1>3, <1>11, <1>13 DEF RowsTyped
<1>16. OneRow(rows')
  BY <1>3, <1>14 DEF OneRow
<1>17. CellsRight(rows', all)
  <2> SUFFICES ASSUME NEW q \in Ob!Archetypes, NEW i \in DOMAIN rows'[q] PROVE RowRight(rows'[q][i], q, all)
    BY DEF CellsRight
  <2>1. CASE q = m /\ i = k
    BY <1>9, <1>14, <2>1
  <2>2. CASE ~(q = m /\ i = k)
    <3>1. i \in DOMAIN rows[q] /\ rows'[q][i] = rows[q][i]
      BY <1>14, <2>2
    <3>2. CellsRight(rows, all)
      BY <1>3, <1>4, CellsMore
    <3> QED
      BY <3>1, <3>2 DEF CellsRight
  <2> QED
    BY <2>1, <2>2
<1>18. \A x, q : q \in Ob!Archetypes => (HasRow(rows', x, q) <=> HasRow(rows, x, q))
  BY <1>14 DEF HasRow
<1>19. OthersStay(rows, rows', e)
  BY <1>18 DEF OthersStay
<1>20. Lasts(rows', all, flawed') /\ Counted(e, built, {}, all, hooks')
  <2>1. built \in [ObjectComponents -> Int]
    BY DEF Fits
  <2> QED
    BY <1>2, <1>4, <2>1, AccountIs
<1>21. Told(rows', all, e, hooks'[e])
  <2> SUFFICES ASSUME NEW c \in Hooked
               PROVE  /\ c \notin m => hooks'[e][c] = 0
                      /\ c \in m /\ <<e, c>> \notin all => hooks'[e][c] = 1
    BY <1>2, <1>18 DEF Told
  <2>1. c \in ObjectComponents
    BY ObjectsAre
  <2>2. /\ c \notin m => hooks[e][c] = 0
        /\ c \in m /\ <<e, c>> \notin flawed => hooks[e][c] = 1
    <3>1. Told(rows, flawed, e, hooks[e])
      BY <1>2 DEF ObjectsInv, ObjectsRight
    <3> QED
      BY <1>2, <3>1 DEF Told
  <2>3. <<e, c>> \notin all => built[c] = 0
    BY <1>4, <2>1 DEF Fits
  <2>4. hooks'[e][c] = IF <<e, c>> \in all THEN 0 ELSE hooks[e][c] + built[c] - 0
    BY <1>20 DEF Counted
  <2>5. <<e, c>> \notin all => <<e, c>> \notin flawed
    BY <1>4
  <2>6. hooks[e][c] \in Int
    BY <1>3, <2>1
  <2>7. hooks'[e][c] = IF <<e, c>> \in all THEN 0 ELSE hooks[e][c]
    BY <2>3, <2>4, <2>6
  <2> QED
    BY <2>2, <2>5, <2>7
<1>22. ObjectsRight(rows', made', flawed', hooks', commands')
  <2>1. flawed \subseteq all
    BY <1>4
  <2>2. /\ hooks' \in [Ob!Numbers -> [ObjectComponents -> Int]]
        /\ \A x \in Ob!Numbers : x # e => hooks'[x] = hooks[x]
    BY <1>20 DEF Counted
  <2>3. /\ CommandsRight(commands', made') /\ made' \in 0..MaxEntities
        /\ \A x \in Ob!Numbers, q \in Ob!Archetypes : Pending(commands', x) => x # e /\ ~HasRow(rows, x, q)
    BY DEF CommandsAfter
  <2>4. ObjectsRight(rows, made, flawed, hooks, commands)
    BY DEF ObjectsInv
  <2> QED
    BY <1>2, <1>15, <1>16, <1>17, <1>19, <1>20, <1>21, <2>1, <2>2, <2>3, <2>4, StepRight
<1> QED
  BY <1>22 DEF ObjectsInv

-----------------------------------------------------------------------------
(* Objects: the actions.                                                   *)

LEMMA ObjectsInit ==
  Ob!Init => ObjectsInv
<1> SUFFICES ASSUME Ob!Init PROVE ObjectsInv
  OBVIOUS
<1>1. rows = [m \in Ob!Archetypes |-> <<>>] /\ made = 0 /\ commands = <<>>
      /\ hooks = [x \in Ob!Numbers |-> Ob!NoCalls]
  BY DEF Ob!Init
<1>2. /\ \A m \in Ob!Archetypes : rows[m] = <<>> /\ rows[m] \in Seq(RowsOf(m, made))
      /\ \A x, m : m \in Ob!Archetypes => ~HasRow(rows, x, m)
  BY <1>1 DEF HasRow
<1>3. RowsTyped(rows, made) /\ OneRow(rows) /\ CellsRight(rows, flawed)
  BY <1>1, <1>2 DEF RowsTyped, OneRow, CellsRight
<1>4. /\ hooks \in [Ob!Numbers -> [ObjectComponents -> Int]]
      /\ \A x \in Ob!Numbers, c \in ObjectComponents : hooks[x][c] = 0
  BY <1>1 DEF Ob!NoCalls
<1>5. \A x \in Ob!Numbers : Told(rows, flawed, x, hooks[x])
  BY <1>2, <1>4, ObjectsAre DEF Told
<1>6. CommandsRight(commands, made) /\ \A x : ~Pending(commands, x)
  BY <1>1 DEF CommandsRight, Pending
<1>7. made \in 0..MaxEntities
  BY <1>1, ObjectsAre
<1> QED
  BY <1>3, <1>4, <1>5, <1>6, <1>7 DEF ObjectsInv, ObjectsRight

(* The commands after a step create no entity that exists.                 *)
CommandsLeft ==
  /\ made' \in 0..MaxEntities /\ made <= made'
  /\ CommandsRight(commands', made')
  /\ \A x \in Ob!Numbers, m \in Ob!Archetypes : Pending(commands', x) => ~HasRow(rows, x, m)

(* An entity that was not made has no row.                                 *)
LEMMA NoRowYet ==
  ASSUME ObjectsInv, NEW e, e > made, NEW q \in Ob!Archetypes
  PROVE  ~HasRow(rows, e, q)
<1> SUFFICES ASSUME HasRow(rows, e, q) PROVE FALSE
  OBVIOUS
<1>1. Ob!Exists(e)
  BY ExistsIs
<1>2. e \in 1..made /\ made \in 0..MaxEntities
  BY <1>1, Located DEF ObjectsInv, ObjectsRight
<1> QED
  BY <1>2, ObjectsAre

LEMMA CommandsStay ==
  ASSUME ObjectsInv, commands' = commands, made' \in 0..MaxEntities, made <= made'
  PROVE  /\ CommandsLeft
         /\ \A e : Ob!Exists(e) => CommandsAfter(e)
         /\ \A e : e > made => CommandsAfter(e)
<1>1. /\ made \in 0..MaxEntities /\ MaxEntities \in Nat /\ CommandsRight(commands, made)
      /\ \A x \in Ob!Numbers, m \in Ob!Archetypes : Pending(commands, x) => ~HasRow(rows, x, m)
  BY ObjectsAre DEF ObjectsInv, ObjectsRight
<1>2. CommandsRight(commands', made')
  <2>1. CommandsOf(made) \subseteq CommandsOf(made')
    BY <1>1 DEF CommandsOf
  <2> QED
    BY <1>1, <2>1 DEF CommandsRight
<1>3. CommandsLeft
  BY <1>1, <1>2 DEF CommandsLeft
<1>4. ASSUME NEW x, Pending(commands, x) PROVE x \in 1..made
  <2>1. PICK i \in DOMAIN commands : commands[i].entity = x
    BY <1>4 DEF Pending
  <2>2. commands[i] \in CommandsOf(made)
    BY <1>1, <2>1 DEF CommandsRight
  <2> QED
    BY <2>1, <2>2 DEF CommandsOf
<1>5. ASSUME NEW e, Ob!Exists(e) PROVE CommandsAfter(e)
  <2>1. \E q \in Ob!Archetypes : HasRow(rows, e, q)
    BY <1>5, ExistsIs
  <2>2. ASSUME NEW x \in Ob!Numbers, Pending(commands', x) PROVE x # e
    BY <1>1, <2>1, <2>2
  <2> QED
    BY <1>3, <2>2 DEF CommandsLeft, CommandsAfter
<1>6. ASSUME NEW e, e > made PROVE CommandsAfter(e)
  <2>1. ASSUME NEW x \in Ob!Numbers, Pending(commands', x) PROVE x # e
    <3>1. x \in 1..made
      BY <1>4, <2>1
    <3> QED
      BY <1>1, <1>6, <3>1
  <2> QED
    BY <1>3, <2>1 DEF CommandsLeft, CommandsAfter
<1> QED
  BY <1>3, <1>5, <1>6

(* Rows and hooks as they were.                                            *)
LEMMA RowsStay ==
  ASSUME ObjectsInv, CommandsLeft, rows' = rows, hooks' = hooks, Lasts(rows', flawed, flawed')
  PROVE  ObjectsInv'
<1>1. /\ made \in 0..MaxEntities /\ made' \in 0..MaxEntities /\ made <= made' /\ MaxEntities \in Nat
      /\ RowsTyped(rows, made) /\ OneRow(rows) /\ CellsRight(rows, flawed)
      /\ hooks \in [Ob!Numbers -> [ObjectComponents -> Int]]
      /\ \A x \in Ob!Numbers : Told(rows, flawed, x, hooks[x])
  BY ObjectsAre DEF ObjectsInv, ObjectsRight, CommandsLeft
<1>2. RowsTyped(rows, made')
  <2>1. \A q : RowsOf(q, made) \subseteq RowsOf(q, made')
    BY <1>1 DEF RowsOf
  <2> QED
    BY <1>1, <2>1 DEF RowsTyped
<1>3. CellsRight(rows, flawed')
  <2> SUFFICES ASSUME NEW m \in Ob!Archetypes, NEW k \in DOMAIN rows[m], NEW c \in m \cap Valued,
                      <<rows[m][k].entity, c>> \notin flawed'
               PROVE  rows[m][k].objects[c] = 1
    BY DEF CellsRight, RowRight
  <2>1. HasRow(rows, rows[m][k].entity, m)
    BY DEF HasRow
  <2>2. <<rows[m][k].entity, c>> \notin flawed
    BY <2>1 DEF Lasts
  <2> QED
    BY <1>1, <2>2 DEF CellsRight, RowRight
<1>4. \A x \in Ob!Numbers : Told(rows, flawed', x, hooks[x])
  BY <1>1 DEF Told, Lasts
<1>5. ObjectsRight(rows, made', flawed', hooks, commands')
  BY <1>1, <1>2, <1>3, <1>4 DEF ObjectsRight, CommandsLeft
<1> QED
  BY <1>5 DEF ObjectsInv

LEMMA FlawsStay ==
  ASSUME flawed' = flawed
  PROVE  Lasts(rows', flawed, flawed')
BY DEF Lasts

LEMMA LockKeeps ==
  ASSUME ObjectsInv, Ob!Lock \/ Ob!Unlock \/ Ob!EndUnlock
  PROVE  ObjectsInv'
<1>1. rows' = rows /\ made' = made /\ commands' = commands /\ hooks' = hooks /\ flawed' = flawed
  BY DEF Ob!Lock, Ob!Unlock, Ob!EndUnlock
<1> QED
  BY <1>1 DEF ObjectsInv

LEMMA NewIs ==
  ASSUME ObjectsInv, Ob!New \in Ob!Numbers, made' = Ob!New, commands' = commands
  PROVE  /\ Ob!New \in Ob!Numbers /\ Ob!New <= made' /\ CommandsAfter(Ob!New)
         /\ \A q \in Ob!Archetypes : ~HasRow(rows, Ob!New, q)
<1>1. PICK e \in Ob!Numbers : e = Ob!New
  OBVIOUS
<1>2. made \in 0..MaxEntities /\ MaxEntities \in Nat /\ e = made + 1 /\ made' = e /\ e \in 1..MaxEntities
  BY <1>1, ObjectsAre DEF ObjectsInv, ObjectsRight, Ob!New
<1>3. made' \in 0..MaxEntities /\ made <= made' /\ e > made /\ e <= made'
  BY <1>2
<1>4. CommandsAfter(e) /\ \A q \in Ob!Archetypes : ~HasRow(rows, e, q)
  BY <1>3, CommandsStay, NoRowYet
<1> QED
  BY <1>1, <1>3, <1>4

LEMMA CreationKeeps ==
  ASSUME ObjectsInv, NEW S \in SUBSET ObjectComponents, Ob!Create(S) \/ Ob!Build(S)
  PROVE  ObjectsInv'
<1>1. PICK e : e = Ob!New
  OBVIOUS
<1>2. /\ e \in Ob!Numbers /\ e <= made' /\ CommandsAfter(e)
      /\ \A q \in Ob!Archetypes : ~HasRow(rows, e, q)
  BY <1>1, NewIs DEF Ob!Create, Ob!Build
<1>3. PICK T : /\ T = {} \/ T = S
               /\ Ob!Insert(e, S, T, Ob!Once(T), {})
  BY <1>1 DEF Ob!Create, Ob!Build
<1>4. PICK built : built = Ob!Once(T)
  OBVIOUS
<1>5. Fits(e, Ob!Closed(S), T, built, {})
  <2>1. T \subseteq Ob!Closed(S)
    BY <1>3, ClosedIs
  <2> QED
    BY <1>4, <2>1 DEF Fits, Ob!Once
<1>6. Ob!Insert(e, S, T, built, {})
  BY <1>3, <1>4
<1> QED
  BY <1>2, <1>5, <1>6, InsertKeeps

(* An entity that is there, and no command added.                          *)
LEMMA ThereIs ==
  ASSUME ObjectsInv, NEW e, Ob!Exists(e), made' = made, commands' = commands
  PROVE  CommandsAfter(e) /\ Ob!MaskOf(e) \in Ob!Archetypes /\ Ob!MaskOf(e) \subseteq ObjectComponents
         /\ Ob!Closed(Ob!MaskOf(e)) = Ob!MaskOf(e)
<1>1. made \in 0..MaxEntities /\ MaxEntities \in Nat
  BY ObjectsAre DEF ObjectsInv, ObjectsRight
<1>2. made' \in 0..MaxEntities /\ made <= made'
  BY <1>1
<1>3. CommandsAfter(e)
  BY <1>2, CommandsStay
<1> QED
  BY <1>3, Located, ArchetypesAre

LEMMA BuildingKeeps ==
  ASSUME ObjectsInv, NEW e, NEW S \in SUBSET ObjectComponents, NEW R \in SUBSET ObjectComponents,
         Ob!BuildOn(e, S, R)
  PROVE  ObjectsInv'
<1>1. Ob!Exists(e) /\ made' = made /\ commands' = commands /\ S \cap R = {}
  BY DEF Ob!BuildOn
<1>2. PICK from : from = Ob!MaskOf(e)
  OBVIOUS
<1>3. CommandsAfter(e) /\ from \subseteq ObjectComponents
  BY <1>1, <1>2, ThereIs
<1>4. PICK mask : mask = (from \cup S) \ R
  OBVIOUS
<1>5. PICK built : built = Ob!Once(S)
  OBVIOUS
<1>6. PICK flaws : flaws = {<<e, c>> : c \in S \cap (Destroys \cup Hooked)}
  OBVIOUS
<1>7. Ob!ExternalMove(e, mask, {}, built, flaws)
  BY <1>2, <1>4, <1>5, <1>6 DEF Ob!BuildOn
<1>8. mask \subseteq ObjectComponents /\ S \subseteq Ob!Closed(mask)
  <2>1. mask \subseteq ObjectComponents /\ S \subseteq mask
    BY <1>1, <1>3, <1>4
  <2> QED
    BY <2>1, ClosedIs
<1>9. Fits(e, Ob!Closed(mask), {} \ Ob!MaskOf(e), built, flaws)
  <2>1. built \in [ObjectComponents -> Nat] /\ \A c \in ObjectComponents : built[c] = IF c \in S THEN 1 ELSE 0
    BY <1>5 DEF Ob!Once
  <2>2. \A c \in S \cap (Destroys \cup Hooked) : <<e, c>> \in flaws
    BY <1>6
  <2> QED
    BY <1>8, <2>1, <2>2 DEF Fits
<1> QED
  BY <1>1, <1>3, <1>7, <1>8, <1>9, ExternalMoveKeeps

LEMMA AssignKeeps ==
  ASSUME ObjectsInv, NEW e, NEW c \in ObjectComponents, Ob!Assign(e, c) \/ Ob!RemoveComponent(e, c)
  PROVE  ObjectsInv'
<1>1. Ob!Exists(e) /\ made' = made /\ commands' = commands
  BY DEF Ob!Assign, Ob!RemoveComponent
<1>2. CommandsAfter(e) /\ Ob!MaskOf(e) \subseteq ObjectComponents
  BY <1>1, ThereIs
<1>3. PICK mask : /\ mask = Ob!MaskOf(e) \cup {c} \/ mask = Ob!MaskOf(e) \ {c}
                  /\ Ob!ExternalMove(e, mask, {}, Ob!Once({}), {})
  BY DEF Ob!Assign, Ob!RemoveComponent
<1>4. PICK built : built = Ob!Once({})
  OBVIOUS
<1>5. Fits(e, Ob!Closed(mask), {} \ Ob!MaskOf(e), built, {})
  BY <1>4 DEF Fits, Ob!Once
<1>6. mask \subseteq ObjectComponents /\ Ob!ExternalMove(e, mask, {}, built, {})
  BY <1>2, <1>3, <1>4
<1> QED
  BY <1>1, <1>2, <1>5, <1>6, ExternalMoveKeeps

LEMMA AssignWithKeeps ==
  ASSUME ObjectsInv, NEW e, NEW c \in ObjectComponents, Ob!AssignWith(e, c)
  PROVE  ObjectsInv'
<1>1. Ob!Exists(e) /\ made' = made /\ commands' = commands
  BY DEF Ob!AssignWith
<1>2. PICK from : from = Ob!MaskOf(e)
  OBVIOUS
<1>3. CommandsAfter(e) /\ from \subseteq ObjectComponents /\ Ob!Closed(from) = from
  BY <1>1, <1>2, ThereIs
<1>4. PICK mask : mask = from \cup {c}
  OBVIOUS
<1>5. PICK built : built = Ob!Once({c})
  OBVIOUS
<1>6. Ob!ExternalMove(e, mask, mask, built, {})
  BY <1>2, <1>4, <1>5 DEF Ob!AssignWith
<1>7. c \notin from
  <2>1. Ob!Closed(mask) # from
    BY <1>2, <1>6 DEF Ob!ExternalMove
  <2>2. c \in from => mask = from
    BY <1>4
  <2> QED
    BY <1>3, <2>1, <2>2
<1>8. mask \subseteq ObjectComponents /\ c \in Ob!Closed(mask)
  <2>1. mask \subseteq ObjectComponents /\ c \in mask
    BY <1>3, <1>4
  <2> QED
    BY <2>1, ClosedIs
<1>9. mask \ from = {c}
  BY <1>4, <1>7
<1>10. Fits(e, Ob!Closed(mask), mask \ Ob!MaskOf(e), built, {})
  <2>1. built \in [ObjectComponents -> Nat] /\ \A d \in ObjectComponents : built[d] = IF d = c THEN 1 ELSE 0
    BY <1>5 DEF Ob!Once
  <2> QED
    BY <1>2, <1>8, <1>9, <2>1 DEF Fits
<1> QED
  BY <1>1, <1>3, <1>6, <1>8, <1>10, ExternalMoveKeeps

LEMMA DestroyNowKeeps ==
  ASSUME ObjectsInv, NEW e, Ob!DestroyNow(e)
  PROVE  ObjectsInv'
<1>1. Ob!Exists(e) /\ made' = made /\ commands' = commands /\ Ob!Erase(e)
  BY DEF Ob!DestroyNow
<1>2. CommandsAfter(e)
  BY <1>1, ThereIs
<1> QED
  BY <1>1, <1>2, EraseKeeps

LEMMA CloningKeeps ==
  ASSUME ObjectsInv, NEW e, Ob!Clone(e)
  PROVE  ObjectsInv'
<1>1. PICK new : new = Ob!New
  OBVIOUS
<1>2. /\ new \in Ob!Numbers /\ new <= made' /\ CommandsAfter(new)
      /\ \A q \in Ob!Archetypes : ~HasRow(rows, new, q)
  BY <1>1, NewIs DEF Ob!Clone
<1>3. Ob!Exists(e)
  BY DEF Ob!Clone
<1>4. PICK m \in Ob!Archetypes : m = Ob!MaskOf(e)
  BY <1>3, Located
<1>5. PICK k : k = Ob!RowOf(e)
  OBVIOUS
<1>6. k \in DOMAIN rows[m] /\ rows[m][k].entity = e /\ m \subseteq ObjectComponents
  BY <1>3, <1>4, <1>5, Located, ArchetypesAre
<1>7. PICK old : old = rows[m][k].objects
  OBVIOUS
<1>8. old \in [m -> Nat] /\ RowRight(rows[m][k], m, flawed)
  <2>1. rows[m] \in Seq(RowsOf(m, made)) /\ CellsRight(rows, flawed)
    BY DEF ObjectsInv, ObjectsRight, RowsTyped
  <2>2. rows[m][k] \in RowsOf(m, made)
    BY <1>6, <2>1
  <2> QED
    BY <1>6, <1>7, <2>1, <2>2 DEF RowsOf, CellsRight
<1>9. PICK objects : objects = [c \in m |-> Ob!MadeOf(old[c])]
  OBVIOUS
<1>10. PICK row : row = [entity |-> new, objects |-> objects]
  OBVIOUS
<1>11. PICK assigned : assigned = Ob!Once(m)
  OBVIOUS
<1>12. PICK flaws : flaws = {<<new, c>> : c \in {c \in m : <<e, c>> \in flawed}}
  OBVIOUS
<1>13. rows' = WithRow(rows, m, row) /\ Ob!Account(new, assigned, {}, flaws)
  BY <1>1, <1>4, <1>5, <1>7, <1>9, <1>10, <1>11, <1>12 DEF Ob!Clone, Ob!Objects, WithRow
<1>14. objects \in [m -> Nat]
  BY <1>9 DEF Ob!MadeOf
<1>15. row \in RowsOf(m, made') /\ row.entity = new
  <2>1. new \in 1..made'
    BY <1>2, ObjectsAre DEF CommandsAfter
  <2> QED
    BY <1>10, <1>14, <2>1 DEF RowsOf
<1>16. ASSUME NEW c \in m, <<new, c>> \notin flawed \cup flaws PROVE <<e, c>> \notin flawed
  BY <1>12, <1>16
<1>17. RowRight(row, m, flawed \cup flaws)
  <2> SUFFICES ASSUME NEW c \in m \cap Valued, <<new, c>> \notin flawed \cup flaws PROVE objects[c] = 1
    BY <1>10 DEF RowRight
  <2>1. old[c] = 1
    BY <1>6, <1>7, <1>8, <1>16 DEF RowRight
  <2> QED
    BY <1>9, <2>1 DEF Ob!MadeOf
<1>18. assigned \in [ObjectComponents -> Int] /\ \A c \in ObjectComponents : assigned[c] = IF c \in m THEN 1 ELSE 0
  BY <1>11 DEF Ob!Once
<1>19. \A c \in Hooked : /\ c \notin m => assigned[c] = 0
                         /\ c \in m /\ <<new, c>> \notin flawed \cup flaws => assigned[c] = 1
  BY <1>18, ObjectsAre
<1> QED
  BY <1>2, <1>13, <1>15, <1>17, <1>18, <1>19, AddedKeeps

LEMMA ClearKeeps ==
  ASSUME ObjectsInv, NEW ms, ms \subseteq Ob!Archetypes, Ob!Clear(ms)
  PROVE  ObjectsInv'
<1>1. /\ made' = made /\ commands' = commands /\ flawed' = Ob!Lasting(flawed)
      /\ rows' = [m \in Ob!Archetypes |-> IF m \in ms THEN <<>> ELSE rows[m]]
  BY DEF Ob!Clear
<1>2. PICK gone : /\ gone = {x \in Ob!Numbers : Ob!Exists(x) /\ Ob!MaskOf(x) \in ms}
                  /\ hooks' = [x \in Ob!Numbers |-> IF x \in gone THEN Ob!NoCalls ELSE hooks[x]]
  BY DEF Ob!Clear
<1>3. /\ made \in 0..MaxEntities /\ RowsTyped(rows, made) /\ OneRow(rows) /\ CellsRight(rows, flawed)
      /\ hooks \in [Ob!Numbers -> [ObjectComponents -> Int]]
      /\ \A x \in Ob!Numbers : Told(rows, flawed, x, hooks[x])
      /\ CommandsRight(commands, made)
      /\ \A x \in Ob!Numbers, m \in Ob!Archetypes : Pending(commands, x) => ~HasRow(rows, x, m)
  BY DEF ObjectsInv, ObjectsRight
<1>4. \A m \in Ob!Archetypes : rows'[m] = IF m \in ms THEN <<>> ELSE rows[m]
  BY <1>1
<1>5. \A m \in Ob!Archetypes : \A k \in DOMAIN rows'[m] :
         m \notin ms /\ k \in DOMAIN rows[m] /\ rows'[m][k] = rows[m][k]
  BY <1>4
<1>6. \A m \in Ob!Archetypes : \A x : HasRow(rows', x, m) <=> m \notin ms /\ HasRow(rows, x, m)
  BY <1>4 DEF HasRow
<1>7. RowsTyped(rows', made')
  BY <1>1, <1>3, <1>4 DEF RowsTyped
<1>8. OneRow(rows')
  BY <1>3, <1>5 DEF OneRow
<1>9. Lasts(rows', flawed, flawed')
  BY <1>1, LastingIs
<1>10. CellsRight(rows', flawed')
  <2> SUFFICES ASSUME NEW m \in Ob!Archetypes, NEW k \in DOMAIN rows'[m], NEW c \in m \cap Valued,
                      <<rows'[m][k].entity, c>> \notin flawed'
               PROVE  rows'[m][k].objects[c] = 1
    BY DEF CellsRight, RowRight
  <2>1. HasRow(rows', rows'[m][k].entity, m)
    BY DEF HasRow
  <2>2. <<rows'[m][k].entity, c>> \notin flawed
    BY <1>9, <2>1 DEF Lasts
  <2> QED
    BY <1>3, <1>5, <2>2 DEF CellsRight, RowRight
<1>11. hooks' \in [Ob!Numbers -> [ObjectComponents -> Int]]
  BY <1>2, <1>3 DEF Ob!NoCalls
<1>12. ASSUME NEW x \in Ob!Numbers PROVE Told(rows', flawed', x, hooks'[x])
  <2>1. CASE x \in gone
    <3>1. hooks'[x] = Ob!NoCalls
      BY <1>2, <2>1
    <3>2. \A c \in Hooked : hooks'[x][c] = 0
      BY <3>1, ObjectsAre DEF Ob!NoCalls
    <3>3. \A q \in Ob!Archetypes : ~HasRow(rows', x, q)
      BY <1>2, <1>6, <2>1, Located
    <3> QED
      BY <3>2, <3>3 DEF Told
  <2>2. CASE x \notin gone
    <3>1. hooks'[x] = hooks[x] /\ Told(rows, flawed, x, hooks[x])
      BY <1>2, <1>3, <2>2
    <3>2. ASSUME NEW q \in Ob!Archetypes PROVE HasRow(rows', x, q) <=> HasRow(rows, x, q)
      <4> SUFFICES ASSUME HasRow(rows, x, q), q \in ms PROVE FALSE
        BY <1>6
      <4>1. Ob!Exists(x)
        BY ExistsIs
      <4>2. Ob!MaskOf(x) = q
        BY <4>1, Located
      <4> QED
        BY <1>2, <2>2, <4>1, <4>2
    <3>3. \A q \in Ob!Archetypes : \A c : HasRow(rows', x, q) /\ c \in q /\ <<x, c>> \notin flawed' => <<x, c>> \notin flawed
      BY <1>9 DEF Lasts
    <3> QED
      BY <3>1, <3>2, <3>3 DEF Told
  <2> QED
    BY <2>1, <2>2
<1>13. ObjectsRight(rows', made', flawed', hooks', commands')
  <2>1. \A x \in Ob!Numbers, m \in Ob!Archetypes : Pending(commands', x) => ~HasRow(rows', x, m)
    BY <1>1, <1>3, <1>6
  <2> QED
    BY <1>1, <1>3, <1>7, <1>8, <1>10, <1>11, <1>12, <2>1 DEF ObjectsRight
<1> QED
  BY <1>13 DEF ObjectsInv

(* A command recorded; a new entity is one that was not made.              *)
LEMMA RecordKeeps ==
  ASSUME ObjectsInv, made' \in 0..MaxEntities, made <= made',
         NEW command \in CommandsOf(made'), command.action = "create" => command.entity > made,
         NEW flaws, Ob!Record(command, flaws)
  PROVE  ObjectsInv'
<1>1. PICK e : e = command.entity
  OBVIOUS
<1>2. PICK assigned : assigned = Ob!Once({})
  OBVIOUS
<1>3. commands' = Append(commands, command) /\ rows' = rows /\ Ob!Account(e, assigned, {}, flaws)
  BY <1>1, <1>2 DEF Ob!Record
<1>4. /\ made \in 0..MaxEntities /\ made' \in Nat /\ MaxEntities \in Nat
      /\ RowsTyped(rows, made) /\ OneRow(rows) /\ CellsRight(rows, flawed)
      /\ hooks \in [Ob!Numbers -> [ObjectComponents -> Int]]
      /\ \A x \in Ob!Numbers : Told(rows, flawed, x, hooks[x])
      /\ CommandsRight(commands, made)
      /\ \A x \in Ob!Numbers, m \in Ob!Archetypes : Pending(commands, x) => ~HasRow(rows, x, m)
      /\ Ob!Numbers = 1..MaxEntities
  BY ObjectsAre DEF ObjectsInv, ObjectsRight
<1>5. e \in Ob!Numbers
  <2>1. e \in 1..made'
    BY <1>1 DEF CommandsOf
  <2> QED
    BY <1>4, <2>1
<1>6. assigned \in [ObjectComponents -> Int] /\ \A c \in ObjectComponents : assigned[c] = 0
  BY <1>2 DEF Ob!Once
<1>7. PICK all : all = flawed \cup flaws
  OBVIOUS
<1>8. Lasts(rows', all, flawed') /\ Counted(e, assigned, {}, all, hooks')
  BY <1>3, <1>5, <1>6, <1>7, AccountIs
<1>9. RowsTyped(rows', made') /\ OneRow(rows') /\ CellsRight(rows', all) /\ OthersStay(rows, rows', e)
  <2>1. \A q : RowsOf(q, made) \subseteq RowsOf(q, made')
    BY <1>4 DEF RowsOf
  <2>2. RowsTyped(rows, made')
    BY <1>4, <2>1 DEF RowsTyped
  <2>3. CellsRight(rows, all)
    BY <1>4, <1>7, CellsMore
  <2> QED
    BY <1>3, <1>4, <2>2, <2>3 DEF OthersStay
<1>10. Told(rows', all, e, hooks'[e])
  <2> SUFFICES ASSUME NEW c \in Hooked
               PROVE  hooks'[e][c] = IF <<e, c>> \in all THEN 0 ELSE hooks[e][c]
    BY <1>3, <1>4, <1>5, <1>7 DEF Told
  <2>1. c \in ObjectComponents
    BY ObjectsAre
  <2>2. hooks[e][c] \in Int /\ assigned[c] = 0
    BY <1>4, <1>5, <1>6, <2>1
  <2>3. hooks'[e][c] = IF <<e, c>> \in all THEN 0 ELSE hooks[e][c] + assigned[c] - 0
    BY <1>8 DEF Counted
  <2> QED
    BY <2>2, <2>3
<1>11. CommandsOf(made) \subseteq CommandsOf(made')
  BY <1>4 DEF CommandsOf
<1>12. PICK new \in Nat : /\ new = Len(commands) + 1 /\ commands \in Seq(CommandsOf(made'))
                          /\ DOMAIN commands = 1..Len(commands)
  BY <1>4, <1>11 DEF CommandsRight
<1>13. PICK cs : cs = commands'
  OBVIOUS
<1>14. /\ cs \in Seq(CommandsOf(made')) /\ DOMAIN cs = DOMAIN commands \cup {new} /\ new \notin DOMAIN commands
       /\ cs[new] = command /\ \A i \in DOMAIN commands : cs[i] = commands[i]
  BY <1>3, <1>12, <1>13
<1>15. \A i \in DOMAIN commands : commands[i].entity \in 1..made
  <2>1. \A i \in DOMAIN commands : commands[i] \in CommandsOf(made)
    BY <1>4 DEF CommandsRight
  <2> QED
    BY <2>1 DEF CommandsOf
<1>16. command.action = "create" => \A i \in DOMAIN commands : commands[i].entity # command.entity
  <2>1. e \in Nat /\ (command.action = "create" => e > made)
    BY <1>1, <1>4, <1>5
  <2> QED
    BY <1>1, <1>4, <1>15, <2>1
<1>17. CommandsRight(cs, made')
  <2> SUFFICES ASSUME NEW i \in DOMAIN cs, NEW k \in DOMAIN cs,
                      cs[i].action = "create", cs[k].action = "create", cs[i].entity = cs[k].entity
               PROVE  i = k
    BY <1>14 DEF CommandsRight
  <2>1. CASE i \in DOMAIN commands /\ k \in DOMAIN commands
    BY <1>4, <1>14, <2>1 DEF CommandsRight
  <2>2. CASE i = new \/ k = new
    BY <1>14, <1>16, <2>2
  <2> QED
    BY <1>14, <2>1, <2>2
<1>18. ASSUME NEW x \in Ob!Numbers, NEW m \in Ob!Archetypes, Pending(cs, x) PROVE ~HasRow(rows', x, m)
  <2>1. PICK i \in DOMAIN cs : cs[i].action = "create" /\ cs[i].entity = x
    BY <1>18 DEF Pending
  <2>2. CASE i \in DOMAIN commands
    BY <1>3, <1>4, <1>14, <2>1, <2>2 DEF Pending
  <2>3. CASE i = new
    <3>1. x > made
      BY <1>14, <2>1, <2>3
    <3> QED
      BY <1>3, <3>1, NoRowYet
  <2> QED
    BY <1>14, <2>1, <2>2, <2>3
<1>19. ObjectsRight(rows', made', flawed', hooks', commands')
  <2>1. flawed \subseteq all
    BY <1>7
  <2>2. /\ hooks' \in [Ob!Numbers -> [ObjectComponents -> Int]]
        /\ \A x \in Ob!Numbers : x # e => hooks'[x] = hooks[x]
    BY <1>8 DEF Counted
  <2>3. ObjectsRight(rows, made, flawed, hooks, commands)
    BY DEF ObjectsInv
  <2> QED
    BY <1>5, <1>8, <1>9, <1>10, <1>13, <1>17, <1>18, <2>1, <2>2, <2>3, StepHolds
<1> QED
  BY <1>19 DEF ObjectsInv

LEMMA RecordsKeep ==
  ASSUME ObjectsInv,
         \/ \E S \in SUBSET ObjectComponents : Ob!RecordCreate(S)
         \/ \E e \in Ob!Numbers : Ob!RecordDestroyNow(e)
         \/ \E e \in Ob!Numbers, c \in ObjectComponents, how \in {"default", "given", "built"} : Ob!RecordAssign(e, c, how)
         \/ \E e \in Ob!Numbers, c \in ObjectComponents : Ob!RecordRemove(e, c)
  PROVE  ObjectsInv'
<1>1. made \in 0..MaxEntities /\ MaxEntities \in Nat /\ Ob!Numbers = 1..MaxEntities
  BY ObjectsAre DEF ObjectsInv, ObjectsRight
<1>2. \E command \in CommandsOf(made') :
        /\ made' \in 0..MaxEntities /\ made <= made'
        /\ command.action = "create" => command.entity > made
        /\ \E flaws : Ob!Record(command, flaws)
  <2>1. CASE \E S \in SUBSET ObjectComponents : Ob!RecordCreate(S)
    <3>1. PICK S \in SUBSET ObjectComponents : Ob!RecordCreate(S)
      BY <2>1
    <3>2. PICK new \in 1..MaxEntities : new = made + 1 /\ made' = new
      BY <1>1, <3>1 DEF Ob!RecordCreate, Ob!New
    <3>3. PICK command : command = Ob!Command(new, "create", Ob!NoComponent, S) /\ Ob!Record(command, {})
      BY <3>1, <3>2 DEF Ob!RecordCreate, Ob!New
    <3>4. made' \in 0..MaxEntities /\ made <= made' /\ new > made /\ new \in 1..made'
      BY <1>1, <3>2
    <3>5. command \in CommandsOf(made') /\ command.entity = new
      BY <3>3, <3>4 DEF CommandsOf, Ob!Command
    <3> QED
      BY <3>3, <3>4, <3>5
  <2>2. ASSUME NEW e \in Ob!Numbers, e <= made, made' = made, NEW action \in {"assign", "remove", "destroyNow"},
               NEW c \in ObjectComponents \cup {Ob!NoComponent}, NEW flaws,
               Ob!Record(Ob!Command(e, action, c, {}), flaws)
        PROVE  \E command \in CommandsOf(made') :
                 /\ made' \in 0..MaxEntities /\ made <= made'
                 /\ command.action = "create" => command.entity > made
                 /\ \E some : Ob!Record(command, some)
    <3>1. PICK command : command = Ob!Command(e, action, c, {})
      OBVIOUS
    <3>2. e \in 1..made' /\ made' \in 0..MaxEntities /\ made <= made'
      BY <1>1, <2>2
    <3>3. command \in CommandsOf(made') /\ command.action # "create"
      BY <3>1, <3>2 DEF CommandsOf, Ob!Command
    <3> QED
      BY <2>2, <3>1, <3>2, <3>3
  <2>3. CASE \E e \in Ob!Numbers : Ob!RecordDestroyNow(e)
    <3>1. PICK e \in Ob!Numbers : Ob!RecordDestroyNow(e)
      BY <2>3
    <3> QED
      BY <3>1, <2>2 DEF Ob!RecordDestroyNow
  <2>4. CASE \E e \in Ob!Numbers, c \in ObjectComponents, how \in {"default", "given", "built"} : Ob!RecordAssign(e, c, how)
    <3>1. PICK e \in Ob!Numbers, c \in ObjectComponents, how \in {"default", "given", "built"} : Ob!RecordAssign(e, c, how)
      BY <2>4
    <3>2. PICK flaws : Ob!Record(Ob!Command(e, "assign", c, {}), flaws)
      BY <3>1 DEF Ob!RecordAssign
    <3> QED
      BY <3>1, <3>2, <2>2 DEF Ob!RecordAssign
  <2>5. CASE \E e \in Ob!Numbers, c \in ObjectComponents : Ob!RecordRemove(e, c)
    <3>1. PICK e \in Ob!Numbers, c \in ObjectComponents : Ob!RecordRemove(e, c)
      BY <2>5
    <3> QED
      BY <3>1, <2>2 DEF Ob!RecordRemove
  <2> QED
    BY <2>1, <2>3, <2>4, <2>5
<1> QED
  BY <1>2, RecordKeeps

-----------------------------------------------------------------------------
(* Objects: the commands recorded, pack by pack.                           *)

(* Pairs of numbers in order.                                              *)
LessPairs == {p \in Nat \X Nat : p[1] < p[2]}

(* A nonempty set of numbers has a least element.                          *)
LEMMA LeastNat ==
  ASSUME NEW T, T \subseteq Nat, T # {}
  PROVE  \E x \in T : \A y \in T : x <= y
<1>1. IsWellFoundedOn(LessPairs, Nat)
  BY ONLY NatLessThanWellFounded, Zenon DEF OpToRel, LessPairs
<1>2. PICK x \in T : \A y \in T : ~ (<<y, x>> \in LessPairs)
  BY <1>1, WFMin, Zenon
<1>3. ASSUME NEW y \in T PROVE x <= y
  <2>1. ~(<<y, x>> \in LessPairs)
    BY <1>2
  <2>2. x \in Nat /\ y \in Nat
    OBVIOUS
  <2> QED
    BY <2>1, <2>2 DEF LessPairs
<1> QED
  BY <1>3

LEMMA MaxIs ==
  ASSUME NEW n \in Nat, NEW T, T \subseteq 1..n, T # {}
  PROVE  Ob!Max(T) \in T
<1>1. PICK U : U = {n - y : y \in T}
  OBVIOUS
<1>2. U \subseteq Nat /\ U # {}
  <2>1. \A y \in T : n - y \in Nat
    <3> SUFFICES ASSUME NEW y \in T PROVE n - y \in Nat
      OBVIOUS
    <3>1. y \in 1..n
      OBVIOUS
    <3> QED
      BY <3>1
  <2> QED
    BY <1>1, <2>1
<1>3. PICK u \in U : \A v \in U : u <= v
  BY <1>2, LeastNat
<1>4. PICK x \in T : u = n - x
  BY <1>1
<1>5. ASSUME NEW y \in T PROVE x >= y
  <2>1. n - y \in U
    BY <1>1
  <2>2. n - x <= n - y
    BY <1>3, <1>4, <2>1
  <2>3. x \in 1..n /\ y \in 1..n
    OBVIOUS
  <2> QED
    BY <2>2, <2>3
<1>6. \E z \in T : \A y \in T : z >= y
  BY <1>5
<1>7. Ob!Max(T) = CHOOSE z \in T : \A y \in T : z >= y
  BY DEF Ob!Max
<1> QED
  BY <1>6, <1>7

(* applyStorage takes commands away.                                       *)
LEMMA PackLengthIs ==
  ASSUME NEW S, commands \in Seq(S), commands # <<>>
  PROVE  Ob!PackLength \in 1..Len(commands)
<1>1. PICK len \in Nat : len = Len(commands) /\ DOMAIN commands = 1..len
  OBVIOUS
<1>2. len > 0
  BY <1>1
<1>3. PICK T : T = {n \in 1..len : n < len => commands[n + 1].entity # commands[1].entity}
  OBVIOUS
<1>4. len \in T /\ T \subseteq Nat
  BY <1>1, <1>2, <1>3
<1>5. PICK n \in T : \A k \in T : n <= k
  BY <1>4, LeastNat
<1>6. n \in 1..len
  BY <1>3
<1>7. ASSUME NEW i \in 1..n PROVE commands[i].entity = commands[1].entity
  <2>1. CASE i = 1
    BY <2>1
  <2>2. CASE i # 1
    <3>1. PICK k \in 1..len : k = i - 1 /\ k < n /\ k + 1 = i /\ k < len
      BY <1>6, <2>2
    <3>2. k \notin T
      BY <1>5, <1>6, <3>1
    <3> QED
      BY <1>3, <3>1, <3>2
  <2> QED
    BY <2>1, <2>2
<1>8. n < len => commands[n + 1].entity # commands[1].entity
  BY <1>3
<1> QED
  BY <1>1, <1>6, <1>7, <1>8 DEF Ob!PackLength

LEMMA ObCardinalityIs ==
  ASSUME NEW S
  PROVE  Ob!Cardinality(S) = Cardinality(S)
BY DEF Ob!Cardinality, Cardinality

(* How many commands assign a component, and whether there is one.         *)
LEMMA CountedIs ==
  ASSUME NEW n \in Nat, NEW T, T \subseteq 1..n
  PROVE  Ob!Cardinality(T) \in Nat /\ (Ob!Cardinality(T) > 0 <=> T # {})
<1>1. IsFiniteSet(T)
  <2>1. IsFiniteSet(1..n)
    BY FS_Interval
  <2> QED
    BY <2>1, FS_Subset
<1>2. Cardinality(T) \in Nat
  BY <1>1, FS_CardinalityType
<1>3. Cardinality(T) = 0 <=> T = {}
  BY <1>1, FS_EmptySet
<1>4. PICK m \in Nat : m = Cardinality(T)
  BY <1>2
<1>5. Ob!Cardinality(T) = m
  BY <1>4, ObCardinalityIs
<1>6. m > 0 <=> T # {}
  <2>1. m = 0 <=> T = {}
    BY <1>3, <1>4
  <2>2. m > 0 <=> m # 0
    OBVIOUS
  <2> QED
    BY <2>1, <2>2
<1> QED
  BY <1>5, <1>6

(* A component of the final mask was in the first one, or it is assigned.  *)
LEMMA FinalMaskIs ==
  ASSUME NEW n \in Nat, NEW pack, DOMAIN pack = 1..n, NEW initial
  PROVE  /\ Ob!FinalMask(pack, initial) \subseteq ObjectComponents
         /\ \A c \in Ob!FinalMask(pack, initial) \ initial :
              \E i \in DOMAIN pack : pack[i].action = "assign" /\ pack[i].component = c
<1> DEFINE touching(c) == {i \in DOMAIN pack : /\ pack[i].action \in {"assign", "remove"}
                                               /\ pack[i].component = c}
<1>1. Ob!FinalMask(pack, initial) =
        {c \in ObjectComponents : IF touching(c) = {} THEN c \in initial
                                  ELSE pack[Ob!Max(touching(c))].action = "assign"}
  BY DEF Ob!FinalMask
<1>2. ASSUME NEW c \in ObjectComponents, touching(c) # {} PROVE Ob!Max(touching(c)) \in touching(c)
  <2>1. PICK T : T = touching(c)
    OBVIOUS
  <2>2. T \subseteq 1..n
    BY <2>1
  <2>3. Ob!Max(T) \in T
    BY <1>2, <2>1, <2>2, MaxIs
  <2> QED
    BY <2>1, <2>3
<1>3. \A c : \A i \in touching(c) : i \in DOMAIN pack /\ pack[i].component = c
  OBVIOUS
<1> HIDE DEF touching
<1> QED
  BY <1>1, <1>2, <1>3

(* The commands that are left when a pack is taken.                        *)
LEMMA PackTaken ==
  ASSUME ObjectsInv, made' = made, commands # <<>>,
         NEW n, n = Ob!PackLength, NEW pack, pack = SubSeq(commands, 1, n),
         commands' = SubSeq(commands, n + 1, Len(commands))
  PROVE  /\ n \in Nat /\ 1 \in 1..n /\ DOMAIN pack = 1..n
         /\ \A i \in 1..n : pack[i] \in CommandsOf(made)
         /\ CommandsLeft
         /\ Ob!Exists(pack[1].entity) => CommandsAfter(pack[1].entity)
         /\ pack[1].action = "create" =>
              /\ CommandsAfter(pack[1].entity)
              /\ \A q \in Ob!Archetypes : ~HasRow(rows, pack[1].entity, q)
<1>1. /\ commands \in Seq(CommandsOf(made)) /\ CommandsRight(commands, made) /\ made \in 0..MaxEntities
      /\ \A x \in Ob!Numbers, m \in Ob!Archetypes : Pending(commands, x) => ~HasRow(rows, x, m)
      /\ MaxEntities \in Nat /\ Ob!Numbers = 1..MaxEntities
  BY ObjectsAre DEF ObjectsInv, ObjectsRight, CommandsRight
<1>2. PICK len \in Nat : len = Len(commands) /\ DOMAIN commands = 1..len
  BY <1>1
<1>3. n \in 1..len /\ n \in Nat /\ 1 \in 1..n /\ 1 \in 1..len
  BY <1>1, <1>2, PackLengthIs
<1>4. DOMAIN pack = 1..n /\ \A i \in 1..n : pack[i] = commands[i] /\ i \in 1..len
  BY <1>1, <1>2, <1>3
<1>5. PICK left : left = SubSeq(commands, n + 1, len)
  OBVIOUS
<1>6. /\ left \in Seq(CommandsOf(made)) /\ Len(left) = len - n /\ DOMAIN left = 1..(len - n)
      /\ \A i \in 1..(len - n) : left[i] = commands[n + i] /\ n + i \in 1..len
  BY <1>1, <1>2, <1>3, <1>5
<1>7. CommandsRight(left, made)
  <2> SUFFICES ASSUME NEW i \in 1..(len - n), NEW k \in 1..(len - n),
                      left[i].action = "create", left[k].action = "create", left[i].entity = left[k].entity
               PROVE  i = k
    BY <1>6 DEF CommandsRight
  <2>1. n + i = n + k
    BY <1>1, <1>2, <1>6 DEF CommandsRight
  <2> QED
    BY <1>3, <2>1
<1>8. \A x : Pending(left, x) => Pending(commands, x)
  BY <1>2, <1>6 DEF Pending
<1>9. made' = made /\ commands' = left /\ made' \in 0..MaxEntities /\ made <= made'
  BY <1>1, <1>2, <1>5
<1>10. CommandsLeft
  BY <1>1, <1>7, <1>8, <1>9 DEF CommandsLeft
<1>11. commands[1] = pack[1] /\ pack[1] \in CommandsOf(made)
  <2>1. commands[1] \in CommandsOf(made)
    BY <1>1, <1>2, <1>3
  <2> QED
    BY <1>3, <1>4, <2>1
<1>12. PICK e : e = pack[1].entity
  OBVIOUS
<1>13. e \in Ob!Numbers
  <2>1. e \in 1..made
    BY <1>11, <1>12 DEF CommandsOf
  <2> QED
    BY <1>1, <2>1
<1>14. ASSUME Ob!Exists(e) PROVE CommandsAfter(e)
  <2>1. \E q \in Ob!Archetypes : HasRow(rows, e, q)
    BY <1>14, ExistsIs
  <2>2. ~Pending(commands', e)
    BY <1>1, <1>8, <1>9, <1>13, <2>1
  <2> QED
    BY <1>10, <2>2 DEF CommandsLeft, CommandsAfter
<1>15. ASSUME pack[1].action = "create"
       PROVE  CommandsAfter(e) /\ \A q \in Ob!Archetypes : ~HasRow(rows, e, q)
  <2>1. Pending(commands, e)
    BY <1>2, <1>3, <1>11, <1>12, <1>15 DEF Pending
  <2>2. ~Pending(left, e)
    <3> SUFFICES ASSUME Pending(left, e) PROVE FALSE
      OBVIOUS
    <3>1. PICK i \in 1..(len - n) : left[i].action = "create" /\ left[i].entity = e
      BY <1>6 DEF Pending
    <3>2. n + i \in DOMAIN commands /\ commands[n + i].action = "create" /\ commands[n + i].entity = e
      BY <1>2, <1>6, <3>1
    <3>3. n + i = 1
      BY <1>1, <1>2, <1>3, <1>11, <1>12, <1>15, <3>2 DEF CommandsRight
    <3> QED
      BY <1>3, <3>3
  <2>3. \A x \in Ob!Numbers : Pending(commands', x) => x # e
    BY <1>9, <2>2
  <2>4. CommandsAfter(e)
    BY <1>10, <2>3 DEF CommandsLeft, CommandsAfter
  <2>5. \A q \in Ob!Archetypes : ~HasRow(rows, e, q)
    BY <1>1, <1>13, <2>1
  <2> QED
    BY <2>4, <2>5
<1>16. ASSUME NEW i \in 1..n PROVE pack[i] \in CommandsOf(made)
  <2>1. i \in 1..len /\ pack[i] = commands[i]
    BY <1>4
  <2>2. commands[i] \in CommandsOf(made)
    BY <1>1, <1>2, <2>1
  <2> QED
    BY <2>1, <2>2
<1> QED
  BY <1>3, <1>4, <1>10, <1>12, <1>14, <1>15, <1>16

(* The parts of ApplyPack: how often components are assigned, which are,   *)
(* and what is flawed by it.                                               *)
TimesOf(pack) ==
  [c \in ObjectComponents |->
     Ob!Cardinality({i \in DOMAIN pack : pack[i].action = "assign" /\ pack[i].component = c})]

AssignedBy(times) == {c \in ObjectComponents : times[c] > 0}

OverBy(times, new, initial, final) ==
  {c \in AssignedBy(times) : times[c] > 1 \/ c \in initial \/ (~new /\ c \notin final)}

LeftBy(times, new, initial, final) ==
  IF new THEN (Ob!Closed(final) \ initial) \ AssignedBy(times) ELSE {}

FlawsBy(e, times, new, initial, final) ==
  {<<e, c>> : c \in OverBy(times, new, initial, final) \cup LeftBy(times, new, initial, final)}

(* What applyCommandPack constructs, at once or not, is what it skipped,   *)
(* or flawed: in a row of its own, or in the one the entity has.           *)
LEMMA PackFits ==
  ASSUME NEW e, NEW n \in Nat, NEW pack, DOMAIN pack = 1..n, NEW initial, initial \subseteq ObjectComponents,
         NEW new \in BOOLEAN, NEW final, final = Ob!FinalMask(pack, initial),
         NEW times, times = TimesOf(pack),
         NEW flaws, flaws = FlawsBy(e, times, new, initial, final),
         AssignedBy(times) \subseteq Ob!Closed(final)
  PROVE  /\ final \subseteq ObjectComponents
         /\ new => Fits(e, Ob!Closed(final), ObjectComponents \ initial, times, flaws)
         /\ ~new => Fits(e, Ob!Closed(final), final \ initial, times, flaws)
         /\ ~new /\ final = initial /\ Ob!Closed(initial) = initial => Fits(e, initial, {}, times, flaws)
<1>a. PICK assigned : assigned = AssignedBy(times)
  OBVIOUS
<1>b. PICK over : over = OverBy(times, new, initial, final)
  OBVIOUS
<1>c. PICK left : left = LeftBy(times, new, initial, final)
  OBVIOUS
<1>d. /\ assigned = {c \in ObjectComponents : times[c] > 0}
      /\ over = {c \in assigned : times[c] > 1 \/ c \in initial \/ (~new /\ c \notin final)}
      /\ left = IF new THEN (Ob!Closed(final) \ initial) \ assigned ELSE {}
      /\ flaws = {<<e, c>> : c \in over \cup left}
      /\ assigned \subseteq Ob!Closed(final)
  BY <1>a, <1>b, <1>c DEF AssignedBy, OverBy, LeftBy, FlawsBy
<1>1. ASSUME NEW c \in ObjectComponents
      PROVE  /\ times[c] \in Nat
             /\ times[c] > 0 <=> \E i \in DOMAIN pack : pack[i].action = "assign" /\ pack[i].component = c
  <2>1. PICK T : T = {i \in DOMAIN pack : pack[i].action = "assign" /\ pack[i].component = c}
    OBVIOUS
  <2>2. times[c] = Ob!Cardinality(T)
    BY <2>1 DEF TimesOf
  <2>3. T \subseteq 1..n
    BY <2>1
  <2>4. Ob!Cardinality(T) \in Nat /\ (Ob!Cardinality(T) > 0 <=> T # {})
    BY <2>3, CountedIs
  <2> QED
    BY <2>1, <2>2, <2>4
<1>2. /\ final \subseteq ObjectComponents
      /\ \A c \in final \ initial : c \in assigned
  <2>1. \A c \in final \ initial : \E i \in DOMAIN pack : pack[i].action = "assign" /\ pack[i].component = c
    BY FinalMaskIs
  <2> QED
    BY <1>1, <1>d, <2>1, FinalMaskIs
<1>3. times \in [ObjectComponents -> Nat]
  <2>1. times = [c \in ObjectComponents |-> times[c]]
    BY DEF TimesOf
  <2> QED
    BY ONLY <1>1, <2>1
<1>4. \A c \in over \cup left : <<e, c>> \in flaws
  BY <1>d
<1>5. ASSUME NEW c \in ObjectComponents, c \notin assigned PROVE times[c] = 0
  <2>1. ~(times[c] > 0) /\ times[c] \in Nat
    BY <1>1, <1>5, <1>d
  <2> QED
    BY ONLY <2>1
<1>6. ASSUME NEW c \in assigned, c \notin over
      PROVE  times[c] = 1 /\ c \notin initial /\ (new \/ c \in final)
  <2>1. times[c] \in Nat /\ times[c] > 0 /\ c \in ObjectComponents
    BY <1>1, <1>d
  <2>2. ~(times[c] > 1) /\ c \notin initial /\ (new \/ c \in final)
    BY <1>6, <1>d
  <2>3. \A k \in Nat : k > 0 /\ ~(k > 1) => k = 1
    OBVIOUS
  <2> QED
    BY ONLY <2>1, <2>2, <2>3
<1>7. ASSUME NEW c \in ObjectComponents, c \notin Ob!Closed(final) PROVE times[c] = 0
  BY <1>5, <1>7, <1>d
<1>8. ASSUME new PROVE Fits(e, Ob!Closed(final), ObjectComponents \ initial, times, flaws)
  <2>1. ASSUME NEW c \in ObjectComponents, c \in Ob!Closed(final), <<e, c>> \notin flaws
        PROVE  times[c] = IF c \in ObjectComponents \ initial THEN 1 ELSE 0
    <3>1. CASE c \in assigned
      BY <1>4, <1>6, <2>1, <3>1
    <3>2. CASE c \notin assigned
      <4>1. c \in initial
        BY <1>4, <1>8, <1>d, <2>1, <3>2
      <4> QED
        BY <1>5, <3>2, <4>1
    <3> QED
      BY <3>1, <3>2
  <2> QED
    BY <1>3, <1>7, <2>1 DEF Fits
<1>9. ASSUME ~new PROVE Fits(e, Ob!Closed(final), final \ initial, times, flaws)
  <2>1. ASSUME NEW c \in ObjectComponents, c \in Ob!Closed(final), <<e, c>> \notin flaws
        PROVE  times[c] = IF c \in final \ initial THEN 1 ELSE 0
    <3>1. CASE c \in assigned
      BY <1>4, <1>6, <1>9, <2>1, <3>1
    <3>2. CASE c \notin assigned
      BY <1>2, <1>5, <3>2
    <3> QED
      BY <3>1, <3>2
  <2> QED
    BY <1>3, <1>7, <2>1 DEF Fits
<1>10. ASSUME ~new, final = initial, Ob!Closed(initial) = initial PROVE Fits(e, initial, {}, times, flaws)
  <2>1. final \ initial = {} /\ Ob!Closed(final) = initial
    BY <1>10
  <2> QED
    BY <1>9, <1>10, <2>1
<1> QED
  BY <1>2, <1>8, <1>9, <1>10

LEMMA ApplyPackKeeps ==
  ASSUME ObjectsInv, Ob!ApplyPack
  PROVE  ObjectsInv'
<1> DEFINE n == Ob!PackLength
           pack == SubSeq(commands, 1, n)
           e == pack[1].entity
           new == pack[1].action = "create"
           initial == IF new THEN pack[1].mask ELSE Ob!MaskOf(e)
           final == Ob!FinalMask(pack, initial)
           skip == Ob!Skipped(pack, initial, final)
           times == TimesOf(pack)
           flaws == FlawsBy(e, times, new, initial, final)
<1>1. /\ made' = made /\ commands # <<>> /\ commands' = SubSeq(commands, n + 1, Len(commands))
      /\ \/ rows' = rows /\ hooks' = hooks /\ flawed' = flawed
         \/ rows' = rows /\ hooks' = hooks /\ flawed' = Ob!Lasting(flawed)
         \/ Ob!Exists(e) /\ Ob!Erase(e)
         \/ /\ AssignedBy(times) \subseteq Ob!Closed(final)
            /\ \/ new /\ Ob!Insert(e, final, skip, times, flaws)
               \/ ~new /\ Ob!Exists(e) /\ Ob!ExternalMove(e, final, skip, times, flaws)
               \/ /\ ~new /\ Ob!Exists(e) /\ final = initial
                  /\ rows' = [rows EXCEPT ![initial][Ob!RowOf(e)].objects = Ob!WithBuilt(@, times)]
                  /\ Ob!Account(e, times, {}, flaws)
  BY DEF Ob!ApplyPack, TimesOf, AssignedBy, OverBy, LeftBy, FlawsBy
<1>n. PICK n1 : n1 = n
  OBVIOUS
<1>2. PICK p : p = pack
  OBVIOUS
<1>3. /\ n1 \in Nat /\ 1 \in 1..n1 /\ DOMAIN p = 1..n1
      /\ \A i \in 1..n1 : p[i] \in CommandsOf(made)
      /\ CommandsLeft
      /\ Ob!Exists(p[1].entity) => CommandsAfter(p[1].entity)
      /\ p[1].action = "create" =>
           /\ CommandsAfter(p[1].entity)
           /\ \A q \in Ob!Archetypes : ~HasRow(rows, p[1].entity, q)
  BY <1>1, <1>n, <1>2, PackTaken
<1>4. PICK x : x = e
  OBVIOUS
<1>5. PICK isnew \in BOOLEAN : isnew <=> new
  OBVIOUS
<1>6. PICK first : first = initial
  OBVIOUS
<1>7. PICK last : last = final
  OBVIOUS
<1>8. PICK skipped : skipped = skip
  OBVIOUS
<1>9. PICK built : built = times
  OBVIOUS
<1>13. PICK wrong : wrong = flaws
  OBVIOUS
<1>14. /\ x = p[1].entity /\ (isnew <=> p[1].action = "create")
       /\ first = IF isnew THEN p[1].mask ELSE Ob!MaskOf(x)
       /\ last = Ob!FinalMask(p, first)
       /\ skipped = IF isnew THEN ObjectComponents \ first ELSE last
  BY <1>2, <1>4, <1>5, <1>6, <1>7, <1>8 DEF Ob!Skipped
<1>15. built = TimesOf(p) /\ wrong = FlawsBy(x, built, isnew, first, last)
  BY <1>2, <1>4, <1>5, <1>6, <1>7, <1>9, <1>13
<1>17. /\ made' = made
       /\ \/ rows' = rows /\ hooks' = hooks /\ flawed' = flawed
          \/ rows' = rows /\ hooks' = hooks /\ flawed' = Ob!Lasting(flawed)
          \/ Ob!Exists(x) /\ Ob!Erase(x)
          \/ /\ AssignedBy(built) \subseteq Ob!Closed(last)
             /\ \/ isnew /\ Ob!Insert(x, last, skipped, built, wrong)
                \/ ~isnew /\ Ob!Exists(x) /\ Ob!ExternalMove(x, last, skipped, built, wrong)
                \/ /\ ~isnew /\ Ob!Exists(x) /\ last = first
                   /\ rows' = [rows EXCEPT ![first][Ob!RowOf(x)].objects = Ob!WithBuilt(@, built)]
                   /\ Ob!Account(x, built, {}, wrong)
  BY <1>1, <1>4, <1>5, <1>6, <1>7, <1>8, <1>9, <1>13
<1> HIDE DEF n, pack, e, new, initial, final, skip, times, flaws
<1>18. x \in 1..made /\ p[1].mask \subseteq ObjectComponents
  <2>1. p[1] \in CommandsOf(made)
    BY <1>3
  <2> QED
    BY <1>14, <2>1 DEF CommandsOf
<1>19. made \in 0..MaxEntities /\ MaxEntities \in Nat /\ x \in Ob!Numbers /\ x <= made'
  <2>1. made \in 0..MaxEntities /\ MaxEntities \in Nat /\ Ob!Numbers = 1..MaxEntities
    BY ObjectsAre DEF ObjectsInv, ObjectsRight
  <2> QED
    BY <1>17, <1>18, <2>1
<1>20. CASE rows' = rows /\ hooks' = hooks /\ (flawed' = flawed \/ flawed' = Ob!Lasting(flawed))
  <2>1. Lasts(rows', flawed, flawed')
    BY <1>20, FlawsStay, LastingIs
  <2> QED
    BY <1>3, <1>20, <2>1, RowsStay
<1>21. CASE Ob!Exists(x) /\ Ob!Erase(x)
  BY <1>3, <1>14, <1>17, <1>21, EraseKeeps
<1>22. ASSUME AssignedBy(built) \subseteq Ob!Closed(last), isnew \/ Ob!Exists(x)
       PROVE  /\ last \subseteq ObjectComponents
              /\ isnew => Fits(x, Ob!Closed(last), ObjectComponents \ first, built, wrong)
              /\ ~isnew => Fits(x, Ob!Closed(last), last \ first, built, wrong)
              /\ ~isnew /\ last = first => Fits(x, first, {}, built, wrong)
  <2>1. first \subseteq ObjectComponents /\ (~isnew => Ob!Closed(first) = first)
    <3>1. CASE isnew
      BY <1>14, <1>18, <3>1
    <3>2. CASE ~isnew
      <4>1. first = Ob!MaskOf(x) /\ Ob!MaskOf(x) \in Ob!Archetypes
        BY <1>14, <1>22, <3>2, Located
      <4> QED
        BY <4>1, ArchetypesAre
    <3> QED
      BY <3>1, <3>2
  <2>2. /\ last \subseteq ObjectComponents
        /\ isnew => Fits(x, Ob!Closed(last), ObjectComponents \ first, built, wrong)
        /\ ~isnew => Fits(x, Ob!Closed(last), last \ first, built, wrong)
        /\ ~isnew /\ last = first /\ Ob!Closed(first) = first => Fits(x, first, {}, built, wrong)
    <3>1. n1 \in Nat /\ DOMAIN p = 1..n1
      BY <1>3
    <3>2. last = Ob!FinalMask(p, first)
      BY <1>14
    <3>3. built = TimesOf(p) /\ wrong = FlawsBy(x, built, isnew, first, last)
      BY <1>15
    <3>4. AssignedBy(built) \subseteq Ob!Closed(last)
      BY <1>22
    <3>5. first \subseteq ObjectComponents /\ isnew \in BOOLEAN
      BY <2>1
    <3> QED
      BY ONLY <3>1, <3>2, <3>3, <3>4, <3>5, PackFits
  <2> QED
    BY <2>1, <2>2
<1>23. CASE AssignedBy(built) \subseteq Ob!Closed(last) /\ isnew /\ Ob!Insert(x, last, skipped, built, wrong)
  <2>1. CommandsAfter(x) /\ \A q \in Ob!Archetypes : ~HasRow(rows, x, q)
    BY <1>3, <1>14, <1>23
  <2>2. last \subseteq ObjectComponents /\ Fits(x, Ob!Closed(last), skipped, built, wrong)
    BY <1>14, <1>22, <1>23
  <2> QED
    BY <1>19, <1>23, <2>1, <2>2, InsertKeeps
<1>24. CASE /\ AssignedBy(built) \subseteq Ob!Closed(last) /\ ~isnew /\ Ob!Exists(x)
            /\ Ob!ExternalMove(x, last, skipped, built, wrong)
  <2>1. CommandsAfter(x)
    BY <1>3, <1>14, <1>24
  <2>2. skipped = last /\ first = Ob!MaskOf(x)
    BY <1>14, <1>24
  <2>3. last \subseteq ObjectComponents /\ Fits(x, Ob!Closed(last), skipped \ Ob!MaskOf(x), built, wrong)
    BY <1>22, <1>24, <2>2
  <2> QED
    BY <1>24, <2>1, <2>3, ExternalMoveKeeps
<1>25. CASE /\ AssignedBy(built) \subseteq Ob!Closed(last) /\ ~isnew /\ Ob!Exists(x) /\ last = first
            /\ rows' = [rows EXCEPT ![first][Ob!RowOf(x)].objects = Ob!WithBuilt(@, built)]
            /\ Ob!Account(x, built, {}, wrong)
  <2>1. CommandsAfter(x)
    BY <1>3, <1>14, <1>25
  <2>2. first = Ob!MaskOf(x)
    BY <1>14, <1>25
  <2>3. Fits(x, first, {}, built, wrong)
    BY <1>22, <1>25
  <2> QED
    BY <1>17, <1>25, <2>1, <2>2, <2>3, RebuiltKeeps
<1> QED
  BY <1>17, <1>20, <1>21, <1>23, <1>24, <1>25

-----------------------------------------------------------------------------
(* Objects: the theorem.                                                   *)

LEMMA ObjectsStep ==
  ASSUME ObjectsInv, Ob!Next
  PROVE  ObjectsInv'
<1>1. CASE \E S \in SUBSET ObjectComponents : Ob!Create(S) \/ Ob!Build(S)
  BY <1>1, CreationKeeps
<1>2. CASE \E e \in Ob!Numbers, S, R \in SUBSET ObjectComponents : Ob!BuildOn(e, S, R)
  BY <1>2, BuildingKeeps
<1>3. CASE \E e \in Ob!Numbers, c \in ObjectComponents : Ob!Assign(e, c) \/ Ob!AssignWith(e, c) \/ Ob!RemoveComponent(e, c)
  BY <1>3, AssignKeeps, AssignWithKeeps
<1>4. CASE \E e \in Ob!Numbers : Ob!Clone(e) \/ Ob!DestroyNow(e)
  BY <1>4, CloningKeeps, DestroyNowKeeps
<1>5. CASE \E ms \in {{m} : m \in Ob!Archetypes} \cup {Ob!Archetypes} : Ob!Clear(ms)
  <2>1. PICK ms : ms \subseteq Ob!Archetypes /\ Ob!Clear(ms)
    BY <1>5
  <2> QED
    BY <2>1, ClearKeeps
<1>6. CASE \/ \E S \in SUBSET ObjectComponents : Ob!RecordCreate(S)
           \/ \E e \in Ob!Numbers : Ob!RecordDestroyNow(e)
           \/ \E e \in Ob!Numbers, c \in ObjectComponents, how \in {"default", "given", "built"} : Ob!RecordAssign(e, c, how)
           \/ \E e \in Ob!Numbers, c \in ObjectComponents : Ob!RecordRemove(e, c)
  BY <1>6, RecordsKeep
<1>7. CASE Ob!Lock \/ Ob!Unlock \/ Ob!EndUnlock
  BY <1>7, LockKeeps
<1>8. CASE Ob!ApplyPack
  BY <1>8, ApplyPackKeeps
<1> QED
  BY <1>1, <1>2, <1>3, <1>4, <1>5, <1>6, <1>7, <1>8 DEF Ob!Next

(* What a component sees of a step of another one, or of a stuttering step.*)
LEMMA ObjectsKept ==
  ASSUME ObjectsInv, UNCHANGED living
  PROVE  ObjectsInv'
<1>1. rows' = rows /\ made' = made /\ commands' = commands /\ hooks' = hooks /\ flawed' = flawed
  BY DEF living
<1> QED
  BY <1>1 DEF ObjectsInv

(* So objects and hook calls match the components.                         *)
LEMMA ObjectsMatch ==
  ObjectsInv => Ob!LifetimesBalanced
<1> SUFFICES ASSUME ObjectsInv PROVE Ob!LifetimesBalanced
  OBVIOUS
<1>1. \A m \in Ob!Archetypes : \A k \in DOMAIN rows[m] : \A c \in m \cap (Creates \cup Defaults) :
         <<rows[m][k].entity, c>> \notin flawed => rows[m][k].objects[c] = 1
  BY DEF ObjectsInv, ObjectsRight, CellsRight, RowRight, Valued
<1>2. ASSUME NEW x \in Ob!Numbers, NEW c \in Hooked, <<x, c>> \notin flawed
      PROVE  hooks[x][c] = IF Ob!Exists(x) /\ c \in Ob!MaskOf(x) THEN 1 ELSE 0
  <2>1. Told(rows, flawed, x, hooks[x])
    BY DEF ObjectsInv, ObjectsRight
  <2>2. CASE Ob!Exists(x) /\ c \in Ob!MaskOf(x)
    <3>1. Ob!MaskOf(x) \in Ob!Archetypes /\ HasRow(rows, x, Ob!MaskOf(x))
      BY <2>2, Located
    <3> QED
      BY <1>2, <2>1, <2>2, <3>1 DEF Told
  <2>3. CASE ~(Ob!Exists(x) /\ c \in Ob!MaskOf(x))
    <3>1. \A m \in Ob!Archetypes : HasRow(rows, x, m) => c \notin m
      BY <2>3, Located, ExistsIs
    <3> QED
      BY <2>1, <2>3, <3>1 DEF Told
  <2> QED
    BY <2>2, <2>3
<1> QED
  BY <1>1, <1>2 DEF Ob!LifetimesBalanced

(* For any components, dependencies and hooks, any number of entities and  *)
(* of commands: but for the flaws the code has, which the model names,     *)
(* every cell that should hold an object holds one, and no more, and hooks *)
(* were called as often as the entity's components say (Archetype,         *)
(* applyCommandPack, the hooks).                                           *)
THEOREM ObjectsAlwaysBalanced == ComponentsSpec => []LifetimesBalanced
<1>1. ComponentsInit => ObjectsInv
  BY ObjectsInit DEF ComponentsInit
<1>2. ObjectsInv /\ [ComponentsNext]_<<part, masking, living, vars>> => ObjectsInv'
  BY ObjectsStep, ObjectsKept DEF ComponentsNext
<1>3. ObjectsInv => LifetimesBalanced
  BY ObjectsMatch DEF LifetimesBalanced
<1> QED
  BY <1>1, <1>2, <1>3, PTL DEF ComponentsSpec

=============================================================================
