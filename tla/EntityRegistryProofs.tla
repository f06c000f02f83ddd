------------------------- MODULE EntityRegistryProofs -------------------------
(***************************************************************************)
(* EntityManager implements EntityRegistry: every step of the manager is a *)
(* step of the registry its state stands for, or leaves it as it is.  The  *)
(* immediate operations are read off what they do to one entity.  A pack   *)
(* is applied at once by the manager and command by command by the         *)
(* registry: the first part shows by induction over the commands that both *)
(* arrive at the same entity.                                              *)
(***************************************************************************)
EXTENDS EntityManagerProofs

(* Induction over the numbers up to n.                                     *)
LEMMA Upto ==
  ASSUME NEW n \in Nat, NEW T, 0 \in T, \A i \in 1..n : i - 1 \in T => i \in T
  PROVE  0..n \subseteq T
<1> SUFFICES ASSUME NEW j \in 0..n, j \notin T PROVE FALSE
  OBVIOUS
<1> DEFINE U == {i \in 0..n : i \notin T}
<1>1. PICK x \in U : \A y \in U : x <= y
  <2>1. U \subseteq Nat /\ U # {}
    OBVIOUS
  <2> QED
    BY <2>1, LeastNat
<1>2. x \in 1..n
  OBVIOUS
<1>3. x - 1 \in 0..n /\ x - 1 \notin U
  BY <1>1, <1>2
<1> QED
  BY <1>2, <1>3

-----------------------------------------------------------------------------
(* The states of an entity while a sequence of commands is carried out.    *)
States(g, st, cmds) ==
    g = [i \in 0..Len(cmds) |-> IF i = 0 THEN st ELSE Registry!Effect(g[i - 1], cmds[i])]

(* The recursion of After has such states, and ends in their last.         *)
LEMMA AfterFacts ==
  ASSUME NEW st, NEW S, NEW cmds \in Seq(S)
  PROVE  \E g : States(g, st, cmds) /\ Registry!After(st, cmds) = g[Len(cmds)]
<1> DEFINE n == Len(cmds)
           T == {k \in 0..n : \E g : g = [i \in 0..k |->
                    IF i = 0 THEN st ELSE Registry!Effect(g[i - 1], cmds[i])]}
<1>0. n \in Nat
  OBVIOUS
<1>1. 0 \in T
  <2>1. PICK g : g = [i \in 0..0 |-> st]
    OBVIOUS
  <2>2. g = [i \in 0..0 |-> IF i = 0 THEN st ELSE Registry!Effect(g[i - 1], cmds[i])]
    BY <2>1
  <2> QED
    BY <1>0, <2>2
<1>2. ASSUME NEW k \in 1..n, k - 1 \in T PROVE k \in T
  <2>1. PICK g : g = [i \in 0..(k - 1) |->
                        IF i = 0 THEN st ELSE Registry!Effect(g[i - 1], cmds[i])]
    BY <1>2
  <2>2. PICK h : h = [i \in 0..k |-> IF i = 0 THEN st ELSE Registry!Effect(g[i - 1], cmds[i])]
    OBVIOUS
  <2>3. \A i \in 0..(k - 1) : h[i] = g[i]
    BY <1>0, <2>1, <2>2
  <2>4. \A i \in 1..k : i - 1 \in 0..(k - 1)
    BY <1>0
  <2>5. \A i \in 1..k : h[i - 1] = g[i - 1]
    BY <2>3, <2>4
  <2>6. h = [i \in 0..k |-> IF i = 0 THEN st ELSE Registry!Effect(h[i - 1], cmds[i])]
    <3>1. \A i \in 0..k : (IF i = 0 THEN st ELSE Registry!Effect(g[i - 1], cmds[i]))
                        = (IF i = 0 THEN st ELSE Registry!Effect(h[i - 1], cmds[i]))
      BY <1>0, <2>5
    <3> QED
      BY <2>2, <3>1, Zenon
  <2> QED
    BY <2>6
<1>3. n \in T
  <2>1. 0..n \subseteq T
    <3> HIDE DEF T
    <3> QED
      BY <1>0, <1>1, <1>2, Upto
  <2> QED
    BY <1>0, <2>1
<1>4. \E g : States(g, st, cmds)
  BY <1>3 DEF States
<1> DEFINE after[i \in 0..Len(cmds)] ==
              IF i = 0 THEN st ELSE Registry!Effect(after[i - 1], cmds[i])
<1>5. States(after, st, cmds)
  <2>1. \E g : g = [i \in 0..Len(cmds) |->
                      IF i = 0 THEN st ELSE Registry!Effect(g[i - 1], cmds[i])]
    BY <1>4, Zenon DEF States
  <2> QED
    BY <2>1, Zenon DEF States
<1>6. Registry!After(st, cmds) = after[Len(cmds)]
  BY Zenon DEF Registry!After
<1> QED
  BY <1>5, <1>6

IsState(s) == \E l, m \in BOOLEAN : \E d : s = [live |-> l, mark |-> m, data |-> d]

(* What each command but a create does to the state of its entity.         *)
LEMMA EffectIs ==
  ASSUME NEW s, IsState(s), NEW cmd \in Commands, cmd.op # "create",
         NEW r, r = Registry!Effect(s, cmd)
  PROVE  /\ IsState(r)
         /\ ~s.live => r = s
         /\ s.live => /\ r.live <=> cmd.op # "destroyNow"
                      /\ r.mark <=> s.mark \/ cmd.op = "destroy"
                      /\ cmd.op = "assign" => r.data = Registry!Set(s.data, cmd.comp, cmd.val)
                      /\ cmd.op = "remove" => r.data = Registry!Drop(s.data, cmd.comp)
                      /\ cmd.op \notin {"assign", "remove"} => r.data = s.data
<1>b. PICK l, m \in BOOLEAN : \E d : s = [live |-> l, mark |-> m, data |-> d]
  BY DEF IsState
<1>1. PICK d : s = [live |-> l, mark |-> m, data |-> d]
  BY <1>b
<1>2. s.live = l /\ s.mark = m /\ s.data = d
  BY <1>1
<1>3. cmd.op \in {"assign", "remove", "destroy", "destroyNow"}
  BY DEF Commands
<1>4. CASE ~l
  <2>1. r = s
    BY <1>2, <1>4 DEF Registry!Effect
  <2> QED
    BY <1>2, <1>4, <2>1
<1>5. CASE l /\ cmd.op = "assign"
  <2>1. r = [s EXCEPT !.data = Registry!Set(s.data, cmd.comp, cmd.val)]
    BY <1>2, <1>5 DEF Registry!Effect
  <2>2. r = [live |-> l, mark |-> m, data |-> Registry!Set(s.data, cmd.comp, cmd.val)]
    BY <1>1, <2>1
  <2>3. IsState(r)
    BY <2>2, Zenon DEF IsState
  <2>4. r.live = l /\ r.mark = m /\ r.data = Registry!Set(s.data, cmd.comp, cmd.val)
    BY <2>2
  <2> QED
    BY <1>2, <1>5, <2>3, <2>4
<1>6. CASE l /\ cmd.op = "remove"
  <2>1. r = [s EXCEPT !.data = Registry!Drop(s.data, cmd.comp)]
    BY <1>2, <1>6 DEF Registry!Effect
  <2>2. r = [live |-> l, mark |-> m, data |-> Registry!Drop(s.data, cmd.comp)]
    BY <1>1, <2>1
  <2>3. IsState(r)
    BY <2>2, Zenon DEF IsState
  <2>4. r.live = l /\ r.mark = m /\ r.data = Registry!Drop(s.data, cmd.comp)
    BY <2>2
  <2> QED
    BY <1>2, <1>6, <2>3, <2>4
<1>7. CASE l /\ cmd.op = "destroy"
  <2>1. r = [s EXCEPT !.mark = TRUE]
    BY <1>2, <1>7 DEF Registry!Effect
  <2>2. r = [live |-> l, mark |-> TRUE, data |-> d]
    BY <1>1, <2>1
  <2>3. IsState(r)
    BY <2>2, Zenon DEF IsState
  <2>4. r.live = l /\ r.mark = TRUE /\ r.data = d
    BY <2>2
  <2> QED
    BY <1>2, <1>7, <2>3, <2>4
<1>8. CASE l /\ cmd.op = "destroyNow"
  <2>1. r = [s EXCEPT !.live = FALSE]
    BY <1>2, <1>8 DEF Registry!Effect
  <2>2. r = [live |-> FALSE, mark |-> m, data |-> d]
    BY <1>1, <2>1
  <2>3. IsState(r)
    BY <2>2, Zenon DEF IsState
  <2>4. r.live = FALSE /\ r.mark = m /\ r.data = d
    BY <2>2
  <2> QED
    BY <1>2, <1>8, <2>3, <2>4
<1> QED
  BY <1>3, <1>4, <1>5, <1>6, <1>7, <1>8

(* The commands of a pack but a create, and the states they lead through.  *)
Run(g, st, cmds) ==
    /\ cmds \in Seq(Commands) /\ States(g, st, cmds) /\ IsState(st)
    /\ \A i \in 1..Len(cmds) : cmds[i].op # "create"

(* The parts of Run, command by command.                                   *)
LEMMA RunFacts ==
  ASSUME NEW g, NEW st, NEW cmds, Run(g, st, cmds)
  PROVE  /\ Len(cmds) \in Nat /\ DOMAIN cmds = 1..Len(cmds) /\ g[0] = st
         /\ \A i \in 1..Len(cmds) : /\ i - 1 \in 0..Len(cmds) /\ cmds[i] \in Commands
                                    /\ cmds[i].op # "create"
                                    /\ g[i] = Registry!Effect(g[i - 1], cmds[i])
<1>1. cmds \in Seq(Commands) /\ Len(cmds) \in Nat /\ DOMAIN cmds = 1..Len(cmds)
  BY DEF Run
<1>2. 0 \in 0..Len(cmds) /\ \A i \in 1..Len(cmds) : i \in 0..Len(cmds) /\ i - 1 \in 0..Len(cmds) /\ i # 0
  BY <1>1
<1>3. g[0] = st /\ \A i \in 1..Len(cmds) : g[i] = Registry!Effect(g[i - 1], cmds[i])
  BY <1>2 DEF Run, States
<1> QED
  BY <1>1, <1>2, <1>3 DEF Run

(* Nothing happens to a dead entity.                                       *)
LEMMA DeadStays ==
  ASSUME NEW g, NEW st, NEW cmds, Run(g, st, cmds),
         NEW k \in 0..Len(cmds), IsState(g[k]), ~g[k].live
  PROVE  g[Len(cmds)] = g[k]
<1> PICK n : n = Len(cmds)
  OBVIOUS
<1> DEFINE T == {i \in 0..n : i >= k => g[i] = g[k]}
<1>1. n \in Nat /\ k \in 0..n
  BY RunFacts
<1>2. 0 \in T
  BY <1>1
<1>3. ASSUME NEW i \in 1..n, i - 1 \in T PROVE i \in T
  <2>1. CASE i > k
    <3>1. g[i - 1] = g[k]
      BY <1>1, <1>3, <2>1
    <3>2. g[i] = Registry!Effect(g[k], cmds[i]) /\ cmds[i] \in Commands /\ cmds[i].op # "create"
      BY <3>1, RunFacts
    <3>3. g[i] = g[k]
      BY <3>2, EffectIs
    <3> QED
      BY <3>3
  <2>2. CASE ~(i > k)
    BY <1>1, <2>2
  <2> QED
    BY <2>1, <2>2
<1>4. 0..n \subseteq T
  <2> HIDE DEF T
  <2> QED
    BY <1>1, <1>2, <1>3, Upto
<1> QED
  BY <1>1, <1>4

IsMap(d) == d = [c \in DOMAIN d |-> d[c]]
Same(c, d1, d2) == (c \in DOMAIN d1 <=> c \in DOMAIN d2) /\ (c \in DOMAIN d1 => d1[c] = d2[c])

(* Setting a component of a map changes that one.                          *)
LEMMA SetMap ==
  ASSUME NEW d, NEW c, NEW v, NEW r, r = Registry!Set(d, c, v)
  PROVE  /\ IsMap(r) /\ c \in DOMAIN r /\ r[c] = v
         /\ \A x : x # c => Same(x, d, r)
<1>1. r = [x \in DOMAIN d \cup {c} |-> IF x = c THEN v ELSE d[x]]
  BY DEF Registry!Set
<1>2. DOMAIN r = DOMAIN d \cup {c} /\ r[c] = v /\ \A x \in DOMAIN d : x # c => r[x] = d[x]
  BY <1>1
<1>3. IsMap(r)
  BY <1>1 DEF IsMap
<1> QED
  BY <1>2, <1>3 DEF Same

(* Dropping a component of a map takes that one out.                       *)
LEMMA DropMap ==
  ASSUME NEW d, NEW c, NEW r, r = Registry!Drop(d, c)
  PROVE  /\ IsMap(r) /\ c \notin DOMAIN r /\ \A x : x # c => Same(x, d, r)
BY DEF IsMap, Same, Registry!Drop

(* An entity not killed yet is live, and marked by a destroy.              *)
LEMMA LiveRun ==
  ASSUME NEW g, NEW st, NEW cmds, Run(g, st, cmds), st.live, IsMap(st.data),
         NEW k \in 0..Len(cmds), \A i \in 1..k : cmds[i].op # "destroyNow"
  PROVE  \A i \in 0..k :
            /\ IsState(g[i]) /\ g[i].live /\ IsMap(g[i].data)
            /\ g[i].mark <=> st.mark \/ \E j \in 1..i : cmds[j].op = "destroy"
<1> DEFINE T == {i \in 0..k :
            /\ IsState(g[i]) /\ g[i].live /\ IsMap(g[i].data)
            /\ g[i].mark <=> st.mark \/ \E j \in 1..i : cmds[j].op = "destroy"}
<1>1. k \in Nat /\ Len(cmds) \in Nat
  BY RunFacts
<1>2. 0 \in T
  <2>1. g[0] = st /\ IsState(st)
    BY RunFacts DEF Run
  <2> QED
    BY <1>1, <2>1
<1>3. ASSUME NEW i \in 1..k, i - 1 \in T PROVE i \in T
  <2>1. /\ cmds[i] \in Commands /\ cmds[i].op # "create" /\ cmds[i].op # "destroyNow"
        /\ g[i] = Registry!Effect(g[i - 1], cmds[i])
    BY <1>1, RunFacts
  <2>2. /\ IsState(g[i - 1]) /\ g[i - 1].live /\ IsMap(g[i - 1].data)
        /\ g[i - 1].mark <=> st.mark \/ \E j \in 1..(i - 1) : cmds[j].op = "destroy"
    BY <1>3
  <2>3. /\ IsState(g[i]) /\ g[i].live
        /\ g[i].mark <=> g[i - 1].mark \/ cmds[i].op = "destroy"
        /\ cmds[i].op = "assign" => g[i].data = Registry!Set(g[i - 1].data, cmds[i].comp, cmds[i].val)
        /\ cmds[i].op = "remove" => g[i].data = Registry!Drop(g[i - 1].data, cmds[i].comp)
        /\ cmds[i].op \notin {"assign", "remove"} => g[i].data = g[i - 1].data
    BY <2>1, <2>2, EffectIs
  <2>4. IsMap(g[i].data)
    <3>1. CASE cmds[i].op = "assign"
      <4>1. PICK x, c, v, y : /\ y = g[i].data /\ y = Registry!Set(x, c, v)
        BY <2>3, <3>1, Zenon
      <4>2. IsMap(y)
        BY <4>1, SetMap
      <4> QED
        BY <4>1, <4>2
    <3>2. CASE cmds[i].op = "remove"
      <4>1. PICK x, c, y : /\ y = g[i].data /\ y = Registry!Drop(x, c)
        BY <2>3, <3>2, Zenon
      <4>2. IsMap(y)
        BY <4>1, DropMap
      <4> QED
        BY <4>1, <4>2
    <3>3. CASE cmds[i].op \notin {"assign", "remove"}
      BY <2>2, <2>3, <3>3
    <3> QED
      BY <3>1, <3>2, <3>3
  <2>5. \A j : j \in 1..i <=> j \in 1..(i - 1) \/ j = i
    BY <1>1
  <2>6. g[i].mark <=> st.mark \/ \E j \in 1..i : cmds[j].op = "destroy"
    BY <2>2, <2>3, <2>5, Zenon
  <2> QED
    BY <1>1, <2>3, <2>4, <2>6
<1>4. 0..k \subseteq T
  <2> HIDE DEF T
  <2> QED
    BY <1>1, <1>2, <1>3, Upto
<1> QED
  BY <1>4

Touches(cmd, c) == cmd.op \in {"assign", "remove"} /\ cmd.comp = c

(* A component no command names stays as it is.                            *)
LEMMA UntouchedSame ==
  ASSUME NEW g, NEW st, NEW cmds, Run(g, st, cmds), st.live, IsMap(st.data),
         \A i \in 1..Len(cmds) : cmds[i].op # "destroyNow",
         NEW c, NEW k \in 0..Len(cmds), \A i \in (k + 1)..Len(cmds) : ~Touches(cmds[i], c)
  PROVE  Same(c, g[k].data, g[Len(cmds)].data)
<1> PICK n : n = Len(cmds)
  OBVIOUS
<1> DEFINE T == {i \in 0..n : i >= k => Same(c, g[k].data, g[i].data)}
<1>1. n \in Nat /\ k \in 0..n
  BY RunFacts
<1>2. 0 \in T
  BY <1>1 DEF Same
<1>3. ASSUME NEW i \in 1..n, i - 1 \in T PROVE i \in T
  <2>1. CASE i > k
    <3>1. Same(c, g[k].data, g[i - 1].data)
      BY <1>1, <1>3, <2>1
    <3>2. g[i] = Registry!Effect(g[i - 1], cmds[i]) /\ cmds[i] \in Commands /\ cmds[i].op # "create"
      BY RunFacts
    <3>3. IsState(g[i - 1]) /\ g[i - 1].live
      <4>1. n \in 0..Len(cmds) /\ i - 1 \in 0..n
        BY <1>1
      <4> QED
        BY <4>1, LiveRun
    <3>4. ~Touches(cmds[i], c)
      BY <1>1, <2>1
    <3>5. PICK x, y, op, b : /\ x = g[i - 1].data /\ y = g[i].data
                             /\ op = cmds[i].op /\ b = cmds[i].comp
      OBVIOUS
    <3>6. /\ op = "assign" => y = Registry!Set(x, b, cmds[i].val)
          /\ op = "remove" => y = Registry!Drop(x, b)
          /\ op \notin {"assign", "remove"} => y = x
          /\ op \in {"assign", "remove"} => b # c
      BY <3>2, <3>3, <3>4, <3>5, EffectIs DEF Touches
    <3>7. Same(c, x, y)
      <4>1. CASE op = "assign"
        BY <3>6, <4>1, SetMap
      <4>2. CASE op = "remove"
        BY <3>6, <4>2, DropMap
      <4> QED
        BY <3>6, <4>1, <4>2 DEF Same
    <3>8. Same(c, g[i - 1].data, g[i].data)
      BY <3>5, <3>7
    <3> QED
      BY <3>1, <3>8 DEF Same
  <2>2. CASE ~(i > k)
    BY <1>1, <2>2 DEF Same
  <2> QED
    BY <2>1, <2>2
<1>4. 0..n \subseteq T
  <2> HIDE DEF T
  <2> QED
    BY <1>1, <1>2, <1>3, Upto
<1> QED
  BY <1>1, <1>4

(* The components after all commands are those applyCommandPack computes   *)
(* from the last assign and the last command for each.                     *)
LEMMA RunData ==
  ASSUME NEW g, NEW st, NEW cmds, Run(g, st, cmds), st.live, IsMap(st.data),
         DOMAIN st.data \subseteq Components, Kills(cmds) = {}, NEW created
  PROVE  g[Len(cmds)].data = FinalData(created, DOMAIN st.data, st.data,
                                       FinalMask(DOMAIN st.data, cmds), cmds)
<1> PICK n, d, m, f : /\ n = Len(cmds) /\ d = g[n].data /\ m = FinalMask(DOMAIN st.data, cmds)
                      /\ f = FinalData(created, DOMAIN st.data, st.data, m, cmds)
  OBVIOUS
<1>1. /\ n \in Nat /\ DOMAIN cmds = 1..n /\ g[0] = st
      /\ \A i \in 1..n : /\ i - 1 \in 0..n /\ cmds[i] \in Commands
                         /\ cmds[i].op # "create" /\ cmds[i].op # "destroyNow"
                         /\ g[i] = Registry!Effect(g[i - 1], cmds[i])
  BY RunFacts DEF Kills
<1>2. \A i \in 0..n : IsState(g[i]) /\ g[i].live /\ IsMap(g[i].data)
  BY <1>1, LiveRun
<1>3. \A c : Touching(cmds, c) = {i \in 1..n : Touches(cmds[i], c)}
  BY <1>1 DEF Touching, Touches
<1>4. ASSUME NEW c, Touching(cmds, c) = {}
      PROVE  Same(c, st.data, d)
  <2>1. 0 \in 0..Len(cmds) /\ \A i \in (0 + 1)..Len(cmds) : ~Touches(cmds[i], c)
    <3>1. \A i \in 1..n : ~Touches(cmds[i], c)
      BY <1>3, <1>4
    <3> QED
      BY <1>1, <3>1
  <2>2. \A i \in 1..Len(cmds) : cmds[i].op # "destroyNow"
    BY <1>1
  <2>3. Same(c, g[0].data, g[Len(cmds)].data)
    BY <2>1, <2>2, UntouchedSame
  <2> QED
    BY <1>1, <2>3
<1>5. ASSUME NEW c, NEW i \in Touching(cmds, c), i = Latest(Touching(cmds, c))
      PROVE  /\ cmds[i].op = "assign" => c \in DOMAIN d /\ d[c] = cmds[i].val
             /\ cmds[i].op = "remove" => c \notin DOMAIN d
             /\ cmds[i].op \in {"assign", "remove"} /\ cmds[i].comp = c
  <2>1. i \in 1..n /\ Touches(cmds[i], c)
    BY <1>3, <1>5
  <2>2. \A j \in Touching(cmds, c) : j <= i
    <3>1. PICK T : T = Touching(cmds, c)
      OBVIOUS
    <3>2. T \subseteq 1..n /\ T # {} /\ i = Latest(T)
      BY <1>3, <1>5, <3>1
    <3>3. \A j \in T : j <= i
      BY <1>1, <3>2, LatestFacts
    <3> QED
      BY <3>1, <3>3
  <2>3. \A j \in (i + 1)..n : ~Touches(cmds[j], c)
    BY <1>1, <1>3, <2>1, <2>2
  <2>4. Same(c, g[i].data, d)
    <3>1. i \in 0..Len(cmds) /\ \A j \in (i + 1)..Len(cmds) : ~Touches(cmds[j], c)
      BY <1>1, <2>1, <2>3
    <3>2. \A j \in 1..Len(cmds) : cmds[j].op # "destroyNow"
      BY <1>1
    <3>3. Same(c, g[i].data, g[Len(cmds)].data)
      BY <3>1, <3>2, UntouchedSame
    <3> QED
      BY <3>3
  <2>5. IsState(g[i - 1]) /\ g[i - 1].live
    BY <1>1, <1>2, <2>1
  <2>6. /\ cmds[i].op = "assign" => g[i].data = Registry!Set(g[i - 1].data, c, cmds[i].val)
        /\ cmds[i].op = "remove" => g[i].data = Registry!Drop(g[i - 1].data, c)
    BY <1>1, <2>1, <2>5, EffectIs DEF Touches
  <2>7. PICK x, y : x = g[i - 1].data /\ y = g[i].data
    OBVIOUS
  <2>8. CASE cmds[i].op = "assign"
    <3>1. y = Registry!Set(x, c, cmds[i].val)
      BY <2>6, <2>7, <2>8
    <3>2. c \in DOMAIN y /\ y[c] = cmds[i].val
      BY <3>1, SetMap
    <3> QED
      BY <2>1, <2>4, <2>7, <2>8, <3>2 DEF Same, Touches
  <2>9. CASE cmds[i].op = "remove"
    <3>1. y = Registry!Drop(x, c)
      BY <2>6, <2>7, <2>9
    <3>2. c \notin DOMAIN y
      BY <3>1, DropMap
    <3> QED
      BY <2>1, <2>4, <2>7, <2>9, <3>2 DEF Same, Touches
  <2> QED
    BY <2>1, <2>8, <2>9 DEF Touches
<1>6. ASSUME NEW c, Touching(cmds, c) # {}
      PROVE  Latest(Touching(cmds, c)) \in Touching(cmds, c)
  <2>1. PICK T : T = Touching(cmds, c)
    OBVIOUS
  <2>2. T \subseteq 1..n /\ T # {}
    BY <1>3, <1>6, <2>1
  <2> QED
    BY <1>1, <2>1, <2>2, LatestFacts
<1>7. ASSUME NEW c PROVE c \in DOMAIN d => c \in Components
  <2>1. CASE Touching(cmds, c) = {}
    BY <1>4, <2>1 DEF Same
  <2>2. CASE Touching(cmds, c) # {}
    <3>1. PICK i : i \in Touching(cmds, c)
      BY <2>2
    <3>2. i \in 1..n /\ Touches(cmds[i], c) /\ cmds[i] \in Commands
      BY <1>1, <1>3, <3>1
    <3> QED
      BY <3>2 DEF Touches, Commands
  <2> QED
    BY <2>1, <2>2
<1>8. DOMAIN d = m
  <2>1. ASSUME NEW c \in Components PROVE c \in DOMAIN d <=> c \in m
    <3>1. CASE Touching(cmds, c) = {}
      BY <1>4, <3>1 DEF Same, FinalMask
    <3>2. CASE Touching(cmds, c) # {}
      BY <1>5, <1>6, <3>2 DEF FinalMask
    <3> QED
      BY <3>1, <3>2
  <2>2. m \subseteq Components
    BY DEF FinalMask
  <2> QED
    BY <1>7, <2>1, <2>2
<1>9. ASSUME NEW c \in m PROVE d[c] = f[c]
  <2>1. f[c] = IF Assigning(cmds, c) # {} THEN cmds[Latest(Assigning(cmds, c))].val
               ELSE IF c \in DOMAIN st.data THEN st.data[c]
               ELSE IF created THEN Raw ELSE Default
    BY DEF FinalData
  <2>2. CASE Touching(cmds, c) = {}
    <3>1. Assigning(cmds, c) = {} /\ c \in DOMAIN st.data
      BY <1>4, <1>8, <2>2 DEF Same, Assigning
    <3> QED
      BY <1>4, <2>1, <2>2, <3>1 DEF Same
  <2>3. CASE Touching(cmds, c) # {}
    <3>1. PICK i : i = Latest(Touching(cmds, c))
      OBVIOUS
    <3>2. i \in Touching(cmds, c) /\ cmds[i].op = "assign" /\ d[c] = cmds[i].val
      BY <1>5, <1>6, <1>8, <2>3, <3>1
    <3>3. i \in Assigning(cmds, c) /\ \A j \in Assigning(cmds, c) : j \in Touching(cmds, c)
      BY <3>2 DEF Assigning
    <3>4. PICK T, U : T = Touching(cmds, c) /\ U = Assigning(cmds, c)
      OBVIOUS
    <3>5. T \subseteq 1..n /\ U \subseteq 1..n /\ T # {} /\ U # {}
      BY <1>3, <3>2, <3>3, <3>4
    <3>6. Latest(U) = i
      <4>1. \A j \in T : j <= i
        BY <1>1, <3>1, <3>4, <3>5, LatestFacts
      <4>2. Latest(U) \in U /\ \A j \in U : j <= Latest(U)
        BY <1>1, <3>5, LatestFacts
      <4>3. Latest(U) \in 1..n /\ i \in 1..n /\ Latest(U) <= i /\ i <= Latest(U)
        BY <3>3, <3>4, <3>5, <4>1, <4>2
      <4> QED
        BY <1>1, <4>3
    <3> QED
      BY <2>1, <3>2, <3>3, <3>4, <3>6
  <2> QED
    BY <2>2, <2>3
<1>10. IsMap(d) /\ IsMap(f) /\ DOMAIN f = m
  BY <1>1, <1>2 DEF IsMap, FinalData
<1>11. d = f
  BY <1>8, <1>9, <1>10 DEF IsMap
<1> QED
  BY <1>11

-----------------------------------------------------------------------------
(* The registry's variables, of the manager's state.                       *)
AliveMap == [e \in {e \in Handles : Alive(e)} |-> DataOf(e)]
IssuedSet == {e \in Handles : Issued(e)}

(* A step that gives one entity the components d.                          *)
LEMMA WithIs ==
  ASSUME NEW e \in Handles, NEW d, Alive(e)', DataOf(e)' = d,
         \A o \in Handles : o # e =>
             (Alive(o)' <=> Alive(o)) /\ (Alive(o) => DataOf(o)' = DataOf(o))
  PROVE  AliveMap' = Registry!With(e, d)
<1>1. AliveMap' = [x \in {x \in Handles : Alive(x)'} |-> DataOf(x)']
  BY DEF AliveMap
<1>2. {x \in Handles : Alive(x)'} = {x \in Handles : Alive(x)} \cup {e}
  OBVIOUS
<1>3. \A x \in {x \in Handles : Alive(x)'} :
         DataOf(x)' = IF x = e THEN d ELSE [y \in {y \in Handles : Alive(y)} |-> DataOf(y)][x]
  OBVIOUS
<1>4. Registry!With(e, d) = [x \in {x \in Handles : Alive(x)} \cup {e} |->
         IF x = e THEN d ELSE [y \in {y \in Handles : Alive(y)} |-> DataOf(y)][x]]
  BY DEF Registry!With
<1> QED
  BY <1>1, <1>2, <1>3, <1>4

(* A step after which one entity is not alive.                             *)
LEMMA WithoutIs ==
  ASSUME NEW e \in Handles, ~Alive(e)',
         \A o \in Handles : o # e =>
             (Alive(o)' <=> Alive(o)) /\ (Alive(o) => DataOf(o)' = DataOf(o))
  PROVE  AliveMap' = Registry!Without(e)
<1>1. AliveMap' = [x \in {x \in Handles : Alive(x)'} |-> DataOf(x)']
  BY DEF AliveMap
<1>2. {x \in Handles : Alive(x)'} = {x \in Handles : Alive(x)} \ {e}
  OBVIOUS
<1>3. \A x \in {x \in Handles : Alive(x)'} :
         DataOf(x)' = [y \in {y \in Handles : Alive(y)} |-> DataOf(y)][x]
  OBVIOUS
<1>4. Registry!Without(e) = [x \in {x \in Handles : Alive(x)} \ {e} |->
         [y \in {y \in Handles : Alive(y)} |-> DataOf(y)][x]]
  BY DEF Registry!Without
<1> QED
  BY <1>1, <1>2, <1>3, <1>4

(* Where the entities are in order, a placed one has a row.                *)
LEMMA RowNext ==
  ASSUME Entities', NEW e \in Handles, Placed(e.id)'
  PROVE  \E n \in Masks : \E k \in DOMAIN rows'[n] :
            /\ place'[e.id] = [arch |-> n, index |-> k] /\ rows'[n][k].ent.id = e.id
            /\ RowOf(e.id)' = rows'[n][k]
<1>1. rows' \in Tables(Data) /\ place' \in Places /\ PlacesAgree'
  BY DEF Entities, Table
<1>2. e.id \in Ids
  BY DEF Handles
<1>3. place'[e.id] \in [arch : Masks, index : Nat]
  BY <1>1, <1>2 DEF Places
<1>4. /\ place'[e.id].index \in DOMAIN rows'[place'[e.id].arch]
      /\ RowOf(e.id)'.ent.id = e.id
  BY <1>1, <1>2 DEF PlacesAgree
<1> QED
  BY <1>3, <1>4 DEF RowOf

(* An entity other than the one a step concerns keeps its components.      *)
LEMMA OthersKept ==
  ASSUME Entities, Entities', NEW e \in Handles, RowsFrom(e), size' \in Nat, size' >= size,
         \A id \in Ids : id # e.id => slots'[id] = slots[id] /\ (Placed(id)' <=> Placed(id)),
         NEW o \in Handles, o.id # e.id
  PROVE  /\ Alive(o)' <=> Alive(o)
         /\ Alive(o) => DataOf(o)' = DataOf(o)
         /\ Issued(o)' <=> Issued(o)
<1>1. /\ o.id \in Ids /\ o.id \in Nat /\ o.ver \in Nat /\ size \in Nat
      /\ slots \in [Ids -> [id : 0..MaxEntities, ver : Versions] \cup {NullHandle}]
      /\ o # NullHandle
      /\ slots'[o.id] = slots[o.id] /\ (Placed(o.id)' <=> Placed(o.id))
  BY EntitiesFacts DEF Handles, Ids, Versions, NullHandle
<1>2. o.id >= size => slots[o.id] = NullHandle
  BY <1>1 DEF Entities, SlotsInv, TailIsNull
<1>3. o.ver >= 0 /\ NullHandle.ver = -1
  BY <1>1 DEF NullHandle
<1>4. (Valid(o)' <=> Valid(o)) /\ (Issued(o)' <=> Issued(o))
  <2>1. CASE o.id >= size
    BY <1>1, <1>2, <1>3, <2>1 DEF Valid, Issued
  <2>2. CASE ~(o.id >= size)
    BY <1>1, <2>2 DEF Valid, Issued
  <2> QED
    BY <2>1, <2>2
<1>5. ASSUME Alive(o) PROVE DataOf(o)' = DataOf(o)
  <2>1. Placed(o.id)'
    BY <1>1, <1>5 DEF Alive
  <2>n. PICK n \in Masks : \E k \in DOMAIN rows'[n] :
           rows'[n][k].ent.id = o.id /\ RowOf(o.id)' = rows'[n][k]
    BY <2>1, RowNext
  <2>2. PICK k \in DOMAIN rows'[n] :
           rows'[n][k].ent.id = o.id /\ RowOf(o.id)' = rows'[n][k]
    BY <2>n
  <2>3. PICK j \in DOMAIN rows[n] : rows'[n][k] = rows[n][j]
    BY <2>2 DEF RowsFrom
  <2>4. place[o.id] = [arch |-> n, index |-> j]
    BY <2>2, <2>3 DEF Entities, Table, PlacesAgree
  <2> QED
    BY <2>2, <2>3, <2>4 DEF DataOf, RowOf
<1> QED
  BY <1>1, <1>4, <1>5 DEF Alive

(* Rows of other entities are old rows; those of e hold d.                 *)
NewRows(e, d) ==
    \A n \in Masks : \A k \in DOMAIN rows'[n] :
        \/ rows'[n][k].data = d
        \/ \E j \in DOMAIN rows[n] : rows'[n][k] = rows[n][j] /\ rows[n][j].ent.id # e.id

(* The row a step makes for an entity is the one its place names.          *)
LEMMA NewRowData ==
  ASSUME Entities', NEW e \in Handles, NEW d, Placed(e.id)', NewRows(e, d)
  PROVE  DataOf(e)' = d
<1>1. PICK n \in Masks : \E k \in DOMAIN rows'[n] :
         rows'[n][k].ent.id = e.id /\ RowOf(e.id)' = rows'[n][k]
  BY RowNext
<1>2. PICK k \in DOMAIN rows'[n] : rows'[n][k].ent.id = e.id /\ RowOf(e.id)' = rows'[n][k]
  BY <1>1
<1>3. rows'[n][k].data = d
  BY <1>2 DEF NewRows
<1> QED
  BY <1>2, <1>3 DEF DataOf

(* Handles with an id are told apart by their slot.                        *)
LEMMA OneOwner ==
  ASSUME NEW e \in Handles, NEW o \in Handles, o.id = e.id, o # e
  PROVE  Valid(e) => ~Valid(o)
BY DEF Valid

(* A move gives one entity new components, in the registry as well.        *)
LEMMA MovedMaps ==
  ASSUME Entities, NEW e \in Handles, NEW m \in Masks, NEW d \in Data, Moved(e, m, d)
  PROVE  AliveMap' = Registry!With(e, d) /\ IssuedSet' = IssuedSet /\ e \in DOMAIN AliveMap
<1>1. Entities' /\ RowsFrom(e) /\ \A id \in Ids : Placed(id)' <=> Placed(id)
  BY MovedOK
<1>2. /\ Table(Data) /\ Valid(e) /\ Placed(e.id) /\ MoveRow(e, m, d)
      /\ size' = size /\ slots' = slots /\ size \in Nat /\ e.id \in Ids
  BY EntitiesFacts DEF Entities, Moved, Alive, slotVars, Handles
<1>3. /\ Placed(e.id)'
      /\ \A n \in Masks : \A k \in DOMAIN rows'[n] :
            \/ n = m /\ rows'[n][k] = [ent |-> e, data |-> d]
            \/ \E j \in DOMAIN rows[n] :
                  rows'[n][k] = rows[n][j] /\ rows[n][j].ent.id # e.id
  BY <1>2, MoveRowOK
<1>4. DataOf(e)' = d
  <2>1. ASSUME NEW n \in Masks, NEW k \in DOMAIN rows'[n], rows'[n][k] = [ent |-> e, data |-> d]
        PROVE  rows'[n][k].data = d
    BY <2>1
  <2>2. NewRows(e, d)
    BY <1>3, <2>1 DEF NewRows
  <2> QED
    BY <1>1, <1>3, <2>2, NewRowData
<1>5. \A o \in Handles : (Valid(o)' <=> Valid(o)) /\ (Issued(o)' <=> Issued(o))
  BY <1>2 DEF Valid, Issued
<1>6. Alive(e)' /\ Alive(e)
  BY <1>2, <1>3, <1>5 DEF Alive
<1>7. ASSUME NEW o \in Handles, o # e
      PROVE  (Alive(o)' <=> Alive(o)) /\ (Alive(o) => DataOf(o)' = DataOf(o))
  <2>1. CASE o.id = e.id
    BY <1>2, <1>5, <1>7, <2>1, OneOwner DEF Alive
  <2>2. CASE o.id # e.id
    BY <1>1, <1>2, <2>2, OthersKept
  <2> QED
    BY <2>1, <2>2
<1>8. AliveMap' = Registry!With(e, d)
  BY <1>4, <1>6, <1>7, WithIs
<1>9. IssuedSet' = IssuedSet
  BY <1>5 DEF IssuedSet
<1> QED
  BY <1>6, <1>8, <1>9 DEF AliveMap

(* So does writing over the components where they are.                     *)
LEMMA WrittenMaps ==
  ASSUME Entities, NEW e \in Handles, NEW d \in Data, Written(e, d)
  PROVE  AliveMap' = Registry!With(e, d) /\ IssuedSet' = IssuedSet
<1>1. /\ Table(Data) /\ Valid(e) /\ Placed(e.id) /\ WriteRow(e, d)
      /\ size' = size /\ slots' = slots /\ e.id \in Ids
  BY DEF Entities, Written, Alive, slotVars, Handles
<1>2. /\ place' = place
      /\ rows' = [rows EXCEPT ![place[e.id].arch][place[e.id].index].data = d]
      /\ place[e.id].arch \in Masks /\ place[e.id].index \in 1..Len(rows[place[e.id].arch])
      /\ rows \in Tables(Data) /\ RowOf(e.id) \in Rows(Data)
  BY <1>1, PlacedRow DEF WriteRow, Table
<1>3. PICK m, k : m = place[e.id].arch /\ k = place[e.id].index
  OBVIOUS
<1>4. /\ m \in Masks /\ k \in DOMAIN rows[m] /\ rows[m] \in Seq(Rows(Data))
      /\ DOMAIN rows = Masks
  BY <1>2, <1>3 DEF Tables
<1>5. \A n \in Masks : \A j \in DOMAIN rows[n] :
         rows'[n][j] = IF n = m /\ j = k THEN [rows[m][k] EXCEPT !.data = d] ELSE rows[n][j]
  BY <1>2, <1>3, <1>4
<1>6. rows'[m][k].data = d
  <2>1. rows'[m][k] = [rows[m][k] EXCEPT !.data = d] /\ rows[m][k] \in Rows(Data)
    BY <1>4, <1>5
  <2> QED
    BY <2>1 DEF Rows
<1>7. \A o \in Handles : /\ Valid(o)' <=> Valid(o)
                         /\ Alive(o)' <=> Alive(o)
                         /\ Issued(o)' <=> Issued(o)
  BY <1>1, <1>2 DEF Valid, Issued, Alive, Placed
<1>8. Alive(e)' /\ DataOf(e)' = d
  <2>1. Alive(e)
    BY <1>1 DEF Alive
  <2> QED
    BY <1>2, <1>3, <1>6, <1>7, <2>1 DEF DataOf, RowOf
<1>9. ASSUME NEW o \in Handles, o # e
      PROVE  (Alive(o)' <=> Alive(o)) /\ (Alive(o) => DataOf(o)' = DataOf(o))
  <2>1. ASSUME Alive(o) PROVE DataOf(o)' = DataOf(o)
    <3>1. o.id # e.id /\ Placed(o.id) /\ o.id \in Ids
      BY <1>1, <1>9, <2>1, OneOwner DEF Alive, Handles
    <3>2. /\ place[o.id].arch \in Masks /\ place[o.id].index \in DOMAIN rows[place[o.id].arch]
          /\ RowOf(o.id).ent.id = o.id
      <4>1. /\ place[o.id].arch \in Masks
            /\ place[o.id].index \in 1..Len(rows[place[o.id].arch])
            /\ RowOf(o.id).ent.id = o.id
        BY <1>1, <3>1, PlacedRow
      <4> QED
        BY <1>1, <3>1, <4>1 DEF Table, PlacesAgree
    <3>3. RowOf(e.id).ent.id = e.id
      BY <1>1, PlacedRow
    <3>4. ~(place[o.id].arch = m /\ place[o.id].index = k)
      BY <1>3, <3>1, <3>2, <3>3 DEF RowOf
    <3>5. rows'[place[o.id].arch][place[o.id].index] = rows[place[o.id].arch][place[o.id].index]
      BY <1>5, <3>2, <3>4
    <3> QED
      BY <1>2, <3>5 DEF DataOf, RowOf
  <2> QED
    BY <1>7, <2>1
<1>10. AliveMap' = Registry!With(e, d)
  BY <1>8, <1>9, WithIs
<1>11. IssuedSet' = IssuedSet
  BY <1>7 DEF IssuedSet
<1> QED
  BY <1>10, <1>11

(* A destroyed entity is gone from the registry; its handle stays issued.  *)
LEMMA DestroyedMaps ==
  ASSUME Entities, NEW e \in Handles, Destroyed(e)
  PROVE  AliveMap' = Registry!Without(e) /\ IssuedSet' = IssuedSet /\ e \in DOMAIN AliveMap
<1>1. Entities' /\ RowsFrom(e) /\ \A id \in Ids : Placed(id)' <=> Placed(id) /\ id # e.id
  BY DestroyedOK
<1>2. /\ SlotsInv /\ Valid(e) /\ Alive(e) /\ Release(e) /\ e \in Releasable
      /\ e.id \in Ids /\ e.id < size /\ slots[e.id] = e /\ e.ver \in Nat
  BY DEF Entities, Destroyed, Alive, Valid, Releasable, Handles, Versions
<1>3. /\ size \in Nat /\ size' \in Nat /\ size' = Max2(size, e.id + 1)
      /\ \A id \in Ids : id # e.id => slots'[id] = slots[id]
      /\ slots'[e.id].id # e.id
  BY <1>2, ReleaseFacts
<1>4. size' = size
  BY <1>2, <1>3 DEF Max2, Ids
<1>5. slots'[e.id].ver = e.ver + 1
  BY <1>2 DEF Release, SlotsInv, SlotsTypeOK
<1>6. ASSUME NEW o \in Handles, o.id = e.id
      PROVE  ~Alive(o)' /\ (Issued(o)' <=> Issued(o)) /\ (o # e => ~Alive(o))
  <2>1. o.ver \in Nat
    BY DEF Handles, Versions
  <2>2. ~Valid(o)'
    BY <1>3, <1>6 DEF Valid
  <2>3. Issued(o)' <=> o.ver <= e.ver
    BY <1>2, <1>4, <1>5, <1>6, <2>1, <2>2 DEF Issued
  <2>4. Valid(o) <=> o = e
    BY <1>2, <1>6 DEF Valid
  <2>5. o.ver = e.ver => o = e
    BY <1>6 DEF Handles
  <2>6. Issued(o) <=> o.ver <= e.ver
    BY <1>2, <1>6, <2>1, <2>4, <2>5 DEF Issued
  <2> QED
    BY <2>2, <2>3, <2>4, <2>6 DEF Alive
<1>7. ASSUME NEW o \in Handles, o.id # e.id
      PROVE  /\ Alive(o)' <=> Alive(o)
             /\ Alive(o) => DataOf(o)' = DataOf(o)
             /\ Issued(o)' <=> Issued(o)
  BY <1>1, <1>3, <1>4, <1>7, OthersKept
<1>8. AliveMap' = Registry!Without(e)
  BY <1>6, <1>7, WithoutIs
<1>9. IssuedSet' = IssuedSet
  BY <1>6, <1>7 DEF IssuedSet
<1> QED
  BY <1>2, <1>8, <1>9 DEF AliveMap

(* A new handle was not issued before, and is then; no other is.           *)
LEMMA CreatedMaps ==
  ASSUME Entities, NEW m \in Masks, NEW d \in Data, Created(m, d), NEW e, e = NewHandle
  PROVE  /\ e \in Handles /\ e \notin IssuedSet /\ AliveMap' = Registry!With(e, d)
         /\ IssuedSet' = IssuedSet \cup {e}
<1>1. Entities' /\ RowsFrom(e) /\ \A id \in Ids : Placed(id)' <=> Placed(id) \/ id = e.id
  BY CreatedOK
<1>2. /\ SlotsInv /\ Acquire /\ Table(Data) /\ InsertRow(e, m, d)
  BY DEF Entities, Created
<1>3. /\ e \in Handles /\ (e.id >= size \/ Free(e.id))
      /\ slots'[e.id] = e /\ e.id < size' /\ size \in Nat /\ size' \in Nat /\ size' >= size
      /\ \A id \in Ids : id # e.id => slots'[id] = slots[id]
      /\ slots \in [Ids -> [id : 0..MaxEntities, ver : Versions] \cup {NullHandle}]
  BY <1>2, AcquireFacts DEF SlotsInv, SlotsTypeOK
<1>4. e.id \in Ids /\ e.id \in Nat /\ e.ver \in Nat /\ e # NullHandle
  BY <1>3 DEF Handles, Versions, Ids, NullHandle
<1>f. emptySlots > 0 => Free(nextSlot)
  <2> SUFFICES ASSUME emptySlots > 0 PROVE Free(nextSlot)
    OBVIOUS
  <2>1. PICK f \in [1..emptySlots -> Ids] : IsFreeList(f)
    BY <1>2 DEF SlotsInv, FreeListInv
  <2>2. 1 \in 1..emptySlots /\ emptySlots \in Nat
    BY <1>2 DEF SlotsInv, SlotsTypeOK
  <2>3. f[1] = nextSlot /\ f[1] \in Ids
    BY <2>1, <2>2 DEF IsFreeList
  <2> QED
    BY <2>1, <2>2, <2>3 DEF IsFreeList
<1>g. e.id >= size => emptySlots = 0 /\ e = [id |-> size, ver |-> 0]
  BY <1>2, <1>3, <1>4, <1>f DEF Free, NewHandle, SlotsInv, SlotsTypeOK
<1>5. ~Placed(e.id)
  BY <1>3, <1>4, EntitiesFacts
<1>6. e.id >= size => slots[e.id] = NullHandle /\ e.ver = 0
  BY <1>2, <1>4, <1>g DEF SlotsInv, TailIsNull
<1>7. Free(e.id) => slots[e.id].ver = e.ver /\ slots[e.id].id # e.id
  BY <1>2, <1>3, <1>4 DEF Free, Used, NewHandle, Acquire
<1>8. Alive(e)' /\ DataOf(e)' = d
  <2>1. Placed(e.id)' /\ Valid(e)'
    BY <1>1, <1>3, <1>4 DEF Valid
  <2>2. \A n \in Masks : \A k \in DOMAIN rows'[n] :
           \/ n = m /\ rows'[n][k] = [ent |-> e, data |-> d]
           \/ k \in DOMAIN rows[n] /\ rows'[n][k] = rows[n][k]
    BY <1>2, <1>3, <1>5, InsertRowOK
  <2>3. \A n \in Masks : \A k \in DOMAIN rows[n] : rows[n][k].ent.id # e.id
    BY <1>5, EntitiesFacts
  <2>4. NewRows(e, d)
    <3>1. ASSUME NEW n \in Masks, NEW k \in DOMAIN rows'[n], rows'[n][k] = [ent |-> e, data |-> d]
          PROVE  rows'[n][k].data = d
      BY <3>1
    <3> QED
      BY <2>2, <2>3, <3>1 DEF NewRows
  <2>5. DataOf(e)' = d
    BY <1>1, <1>3, <2>1, <2>4, NewRowData
  <2> QED
    BY <2>1, <2>5 DEF Alive
<1>9. ASSUME NEW o \in Handles, o.id = e.id
      PROVE  /\ ~Alive(o) /\ (Alive(o)' => o = e)
             /\ Issued(o)' <=> Issued(o) \/ o = e
             /\ o = e => ~Issued(o)
  <2>1. o.ver \in Nat /\ (o.ver = e.ver <=> o = e)
    BY <1>3, <1>9 DEF Handles, Versions
  <2>2. Valid(o)' <=> o = e
    BY <1>3, <1>9 DEF Valid
  <2>3. Issued(o)' <=> o.ver <= e.ver
    BY <1>3, <1>4, <1>9, <2>1, <2>2 DEF Issued
  <2>4. CASE e.id >= size
    <3>1. ~Issued(o)
      BY <1>3, <1>4, <1>9, <2>4 DEF Issued, Ids
    <3>2. o.ver <= e.ver <=> o = e
      BY <1>6, <2>1, <2>4
    <3> QED
      BY <1>5, <1>9, <2>2, <2>3, <3>1, <3>2 DEF Alive
  <2>5. CASE Free(e.id)
    <3>1. ~Valid(o)
      BY <1>7, <1>9, <2>5 DEF Valid
    <3>2. Issued(o) <=> o.ver < e.ver
      BY <1>7, <1>9, <2>5, <3>1 DEF Issued, Free
    <3> QED
      BY <1>4, <1>5, <1>9, <2>1, <2>2, <2>3, <3>2 DEF Alive
  <2> QED
    BY <1>3, <2>4, <2>5
<1>10. ASSUME NEW o \in Handles, o.id # e.id
       PROVE  /\ Alive(o)' <=> Alive(o)
              /\ Alive(o) => DataOf(o)' = DataOf(o)
              /\ Issued(o)' <=> Issued(o)
  BY <1>1, <1>3, <1>10, OthersKept
<1>11. AliveMap' = Registry!With(e, d)
  BY <1>3, <1>8, <1>9, <1>10, WithIs
<1>12. IssuedSet' = IssuedSet \cup {e} /\ e \notin IssuedSet
  BY <1>3, <1>9, <1>10 DEF IssuedSet
<1> QED
  BY <1>3, <1>11, <1>12

(* A pack that creates and destroys: the handle is issued, and dead.       *)
LEMMA DiscardedMaps ==
  ASSUME Entities, NEW e \in Handles, Discarded(e), e.id >= size
  PROVE  /\ e \notin IssuedSet /\ AliveMap' = Registry!Without(e)
         /\ IssuedSet' = IssuedSet \cup {e}
<1>1. Entities' /\ RowsFrom(e) /\ \A id \in Ids : Placed(id)' <=> Placed(id)
  BY DiscardedOK
<1>2. /\ SlotsInv /\ Release(e) /\ e \in Releasable /\ ~Placed(e.id) /\ e.ver = 0
      /\ e.id \in Ids /\ e.id \in Nat
  BY DEF Entities, Discarded, Releasable, LockedHandles, Handles, Ids
<1>3. /\ size \in Nat /\ size' \in Nat /\ size' = Max2(size, e.id + 1)
      /\ \A id \in Ids : id # e.id => slots'[id] = slots[id]
      /\ slots'[e.id].id # e.id
  BY <1>2, ReleaseFacts
<1>4. e.id < size' /\ size' >= size
  BY <1>2, <1>3 DEF Max2
<1>5. slots'[e.id].ver = 1
  BY <1>2 DEF Release, SlotsInv, SlotsTypeOK
<1>6. ASSUME NEW o \in Handles, o.id = e.id
      PROVE  ~Alive(o)' /\ ~Alive(o) /\ ~Issued(o) /\ (Issued(o)' <=> o = e)
  <2>1. o.ver \in Nat /\ (o.ver = 0 <=> o = e)
    BY <1>2, <1>6 DEF Handles, Versions
  <2>2. ~Placed(o.id) /\ ~Placed(o.id)'
    BY <1>1, <1>2, <1>6
  <2>3. ~Valid(o)'
    BY <1>3, <1>6 DEF Valid
  <2>4. Issued(o)' <=> o.ver < 1
    BY <1>4, <1>5, <1>6, <2>3 DEF Issued
  <2>5. ~Issued(o)
    BY <1>2, <1>3, <1>6 DEF Issued
  <2> QED
    BY <2>1, <2>2, <2>4, <2>5 DEF Alive
<1>7. ASSUME NEW o \in Handles, o.id # e.id
      PROVE  /\ Alive(o)' <=> Alive(o)
             /\ Alive(o) => DataOf(o)' = DataOf(o)
             /\ Issued(o)' <=> Issued(o)
  BY <1>1, <1>3, <1>4, <1>7, OthersKept
<1>8. AliveMap' = Registry!Without(e)
  BY <1>6, <1>7, WithoutIs
<1>9. IssuedSet' = IssuedSet \cup {e} /\ e \notin IssuedSet
  BY <1>6, <1>7 DEF IssuedSet
<1> QED
  BY <1>8, <1>9

(* A pack that creates: the handle is issued, and alive with its           *)
(* components.                                                             *)
LEMMA AdoptedMaps ==
  ASSUME Entities, NEW e \in Handles, NEW m \in Masks, NEW d \in Data, Adopted(e, m, d),
         e.id >= size
  PROVE  /\ e \notin IssuedSet /\ AliveMap' = Registry!With(e, d)
         /\ IssuedSet' = IssuedSet \cup {e}
<1>1. Entities' /\ RowsFrom(e) /\ \A id \in Ids : Placed(id)' <=> Placed(id) \/ id = e.id
  BY AdoptedOK
<1>2. /\ SlotsInv /\ Adopt(e) /\ Table(Data) /\ InsertRow(e, m, d) /\ e \in LockedHandles
      /\ ~Placed(e.id) /\ e.ver = 0 /\ e.id \in Ids /\ e.id \in Nat
  BY DEF Entities, Adopted, LockedHandles, Handles, Ids
<1>3. /\ size \in Nat /\ size' \in Nat /\ size' = Max2(size, e.id + 1) /\ slots'[e.id] = e
      /\ \A id \in Ids : id # e.id => slots'[id] = slots[id]
  BY <1>2, AdoptFacts
<1>4. e.id < size' /\ size' >= size
  BY <1>2, <1>3 DEF Max2
<1>5. Alive(e)' /\ DataOf(e)' = d
  <2>1. Placed(e.id)' /\ Valid(e)'
    BY <1>1, <1>2, <1>3, <1>4 DEF Valid
  <2>2. \A n \in Masks : \A k \in DOMAIN rows'[n] :
           \/ n = m /\ rows'[n][k] = [ent |-> e, data |-> d]
           \/ k \in DOMAIN rows[n] /\ rows'[n][k] = rows[n][k]
    BY <1>2, InsertRowOK
  <2>3. \A n \in Masks : \A k \in DOMAIN rows[n] : rows[n][k].ent.id # e.id
    BY <1>2, EntitiesFacts
  <2>4. NewRows(e, d)
    <3>1. ASSUME NEW n \in Masks, NEW k \in DOMAIN rows'[n], rows'[n][k] = [ent |-> e, data |-> d]
          PROVE  rows'[n][k].data = d
      BY <3>1
    <3> QED
      BY <2>2, <2>3, <3>1 DEF NewRows
  <2>5. DataOf(e)' = d
    BY <1>1, <2>1, <2>4, NewRowData
  <2> QED
    BY <2>1, <2>5 DEF Alive
<1>6. ASSUME NEW o \in Handles, o.id = e.id
      PROVE  (Alive(o)' => o = e) /\ ~Alive(o) /\ ~Issued(o) /\ (Issued(o)' <=> o = e)
  <2>1. o.ver \in Nat
    BY DEF Handles, Versions
  <2>2. Valid(o)' <=> o = e
    BY <1>3, <1>4, <1>6 DEF Valid
  <2>3. Issued(o)' <=> o = e
    BY <1>2, <1>3, <1>4, <1>6, <2>1, <2>2 DEF Issued
  <2>4. ~Issued(o)
    BY <1>2, <1>3, <1>6 DEF Issued
  <2> QED
    BY <1>2, <1>6, <2>2, <2>3, <2>4 DEF Alive
<1>7. ASSUME NEW o \in Handles, o.id # e.id
      PROVE  /\ Alive(o)' <=> Alive(o)
             /\ Alive(o) => DataOf(o)' = DataOf(o)
             /\ Issued(o)' <=> Issued(o)
  BY <1>1, <1>3, <1>4, <1>7, OthersKept
<1>8. AliveMap' = Registry!With(e, d)
  BY <1>5, <1>6, <1>7, WithIs
<1>9. IssuedSet' = IssuedSet \cup {e} /\ e \notin IssuedSet
  BY <1>6, <1>7 DEF IssuedSet
<1> QED
  BY <1>8, <1>9

-----------------------------------------------------------------------------
RunEnd(r, created, initial, old, cmds) ==
    /\ Kills(cmds) # {} => ~r.live
    /\ Kills(cmds) = {} =>
          r.live /\ r.data = FinalData(created, initial, old, FinalMask(initial, cmds), cmds)
    /\ r.mark <=> \E i \in DOMAIN Seen(cmds) : Seen(cmds)[i].op = "destroy"

(* Where a pack's commands lead a live entity.                             *)
LEMMA RunEnds ==
  ASSUME NEW g, NEW st, NEW cmds, Run(g, st, cmds), st.live, IsMap(st.data),
         ~st.mark, NEW created, NEW initial \in SUBSET Components, NEW old,
         initial = DOMAIN st.data, old = st.data, NEW r, r = g[Len(cmds)]
  PROVE  RunEnd(r, created, initial, old, cmds)
<1> SUFFICES
      /\ Kills(cmds) # {} => ~r.live
      /\ Kills(cmds) = {} => /\ r.live
                             /\ r.data = FinalData(created, DOMAIN st.data, st.data,
                                           FinalMask(DOMAIN st.data, cmds), cmds)
      /\ r.mark <=> st.mark \/ \E i \in DOMAIN Seen(cmds) : Seen(cmds)[i].op = "destroy"
  BY DEF RunEnd
<1>1. /\ Len(cmds) \in Nat /\ DOMAIN cmds = 1..Len(cmds) /\ cmds \in Seq(Commands)
      /\ \A i \in 1..Len(cmds) : /\ i - 1 \in 0..Len(cmds) /\ cmds[i] \in Commands
                                 /\ cmds[i].op # "create"
                                 /\ g[i] = Registry!Effect(g[i - 1], cmds[i])
  BY RunFacts DEF Run
<1>2. CASE Kills(cmds) = {}
  <2>1. \A i \in 1..Len(cmds) : cmds[i].op # "destroyNow"
    BY <1>1, <1>2 DEF Kills
  <2>2. /\ r.live
        /\ r.mark <=> st.mark \/ \E j \in 1..Len(cmds) : cmds[j].op = "destroy"
    <3>1. Len(cmds) \in 0..Len(cmds)
      BY <1>1
    <3> QED
      BY <2>1, <3>1, LiveRun
  <2>3. Seen(cmds) = cmds
    BY <1>2 DEF Seen
  <2>4. r.data = FinalData(created, DOMAIN st.data, st.data, FinalMask(DOMAIN st.data, cmds), cmds)
    BY <1>2, RunData
  <2> QED
    BY <1>1, <1>2, <2>2, <2>3, <2>4
<1>3. CASE Kills(cmds) # {}
  <2>1. /\ Earliest(Kills(cmds)) \in Kills(cmds)
        /\ \A i \in Kills(cmds) : Earliest(Kills(cmds)) <= i
        /\ DOMAIN Seen(cmds) = 1..(Earliest(Kills(cmds)) - 1)
        /\ \A i \in DOMAIN Seen(cmds) : i \in 1..Len(cmds) /\ Seen(cmds)[i] = cmds[i]
    BY <1>1, <1>3, SeenFacts
  <2>2. PICK x : x = Earliest(Kills(cmds))
    OBVIOUS
  <2>3. x \in 1..Len(cmds) /\ cmds[x].op = "destroyNow"
    BY <1>1, <2>1, <2>2 DEF Kills
  <2>4. x - 1 \in 0..Len(cmds) /\ \A i \in 1..(x - 1) : cmds[i].op # "destroyNow"
    <3>1. ASSUME NEW i \in 1..(x - 1), cmds[i].op = "destroyNow" PROVE FALSE
      <4>1. i \in 1..Len(cmds) /\ i < x
        BY <1>1, <2>3
      <4>2. i \in Kills(cmds)
        BY <1>1, <3>1, <4>1 DEF Kills
      <4>3. x <= i
        BY <2>1, <2>2, <4>2
      <4> QED
        BY <2>3, <4>1, <4>3
    <3> QED
      BY <1>1, <2>3, <3>1
  <2>5. /\ IsState(g[x - 1]) /\ g[x - 1].live
        /\ g[x - 1].mark <=> st.mark \/ \E j \in 1..(x - 1) : cmds[j].op = "destroy"
    <3>1. x - 1 \in 0..(x - 1)
      BY <2>4
    <3> QED
      BY <2>4, <3>1, LiveRun
  <2>6. IsState(g[x]) /\ ~g[x].live /\ (g[x].mark <=> g[x - 1].mark)
    BY <1>1, <2>3, <2>5, EffectIs
  <2>7. r = g[x]
    BY <1>1, <2>3, <2>6, DeadStays
  <2>8. (\E i \in DOMAIN Seen(cmds) : Seen(cmds)[i].op = "destroy")
            <=> \E j \in 1..(x - 1) : cmds[j].op = "destroy"
    BY <2>1, <2>2
  <2> QED
    BY <1>3, <2>5, <2>6, <2>7, <2>8
<1> QED
  BY <1>2, <1>3

RunsTo(st, cmds, r) == \E g : Run(g, st, cmds) /\ r = g[Len(cmds)]

(* Where a pack begins: with what its create makes, or what is there.      *)
FirstState(p, st) ==
    IF p[1].op = "create"
    THEN [live |-> TRUE, mark |-> st.mark, data |-> [c \in p[1].mask |-> Default]]
    ELSE st

(* The commands of a pack but its create.                                  *)
Follow(cmds, p) ==
    /\ \A i \in 1..Len(cmds) : cmds[i].op # "create"
    /\ IF p[1].op = "create"
       THEN Len(cmds) = Len(p) - 1 /\ \A i \in 1..(Len(p) - 1) : cmds[i] = p[i + 1]
       ELSE Len(cmds) = Len(p) /\ \A i \in 1..Len(p) : cmds[i] = p[i]

(* The commands after a create go on from the created entity.              *)
LEMMA PackRuns ==
  ASSUME NEW p \in Seq(Commands), NEW cmds \in Seq(Commands), NEW st, IsState(st),
         Len(p) \in Nat \ {0}, Follow(cmds, p), NEW st1, st1 = FirstState(p, st),
         NEW r, r = Registry!After(st, p)
  PROVE  RunsTo(st1, cmds, r)
<1>0. /\ \A i \in 1..Len(cmds) : cmds[i].op # "create"
      /\ IF p[1].op = "create"
         THEN Len(cmds) = Len(p) - 1 /\ \A i \in 1..(Len(p) - 1) : cmds[i] = p[i + 1]
         ELSE Len(cmds) = Len(p) /\ \A i \in 1..Len(p) : cmds[i] = p[i]
      /\ st1 = IF p[1].op = "create"
               THEN [live |-> TRUE, mark |-> st.mark, data |-> [c \in p[1].mask |-> Default]]
               ELSE st
  BY DEF Follow, FirstState
<1>1. PICK g : States(g, st, p) /\ Registry!After(st, p) = g[Len(p)]
  BY AfterFacts
<1>2. CASE p[1].op # "create"
  <2>1. cmds = p
    BY <1>0, <1>2
  <2>2. Run(g, st1, cmds)
    BY <1>0, <1>1, <1>2, <2>1 DEF Run
  <2> QED
    BY <1>1, <2>1, <2>2 DEF RunsTo
<1>3. CASE p[1].op = "create"
  <2>0. Len(p) \in Nat /\ Len(p) >= 1 /\ Len(cmds) = Len(p) - 1
    BY <1>0, <1>3
  <2>n. PICK n : n = Len(p)
    OBVIOUS
  <2>1. n = Len(p) /\ n \in Nat /\ n >= 1 /\ Len(cmds) = n - 1
    BY <2>0, <2>n
  <2>2. \A i \in 1..n : i \in 0..n /\ i # 0 /\ g[i] = Registry!Effect(g[i - 1], p[i])
    <3>1. \A i \in 1..n : i \in 0..n /\ i # 0
      BY <2>1
    <3>2. g = [i \in 0..n |-> IF i = 0 THEN st ELSE Registry!Effect(g[i - 1], p[i])]
      BY <1>1, <2>1 DEF States
    <3> QED
      BY <3>1, <3>2
  <2>3. g[0] = st
    <3>1. g = [i \in 0..n |-> IF i = 0 THEN st ELSE Registry!Effect(g[i - 1], p[i])]
      BY <1>1, <2>1 DEF States
    <3>2. 0 \in 0..n
      BY <2>1
    <3> QED
      BY <3>1, <3>2
  <2>4. g[1] = st1
    <3>1. PICK l, m, d, x, y, f : /\ st = [live |-> l, mark |-> m, data |-> d]
                                  /\ x = p[1] /\ y = g[1] /\ f = [c \in x.mask |-> Default]
      BY DEF IsState
    <3>2. y = Registry!Effect(st, x) /\ x.op = "create"
      BY <1>3, <2>1, <2>2, <2>3, <3>1
    <3>3. y = [st EXCEPT !.live = TRUE, !.data = Registry!AllDefault(x.mask)]
      BY <3>2 DEF Registry!Effect
    <3>4. Registry!AllDefault(x.mask) = f
      BY <3>1 DEF Registry!AllDefault
    <3>5. y = [live |-> TRUE, mark |-> m, data |-> f]
      BY <3>1, <3>3, <3>4
    <3>6. st1 = [live |-> TRUE, mark |-> m, data |-> f]
      BY <1>0, <1>3, <3>1
    <3> QED
      BY <3>1, <3>5, <3>6
<2>5. IsState(st1)
    <3>b. PICK l, m \in BOOLEAN : \E d : st = [live |-> l, mark |-> m, data |-> d]
      BY DEF IsState
    <3>1. PICK d : st = [live |-> l, mark |-> m, data |-> d]
      BY <3>b
    <3>2. st1 = [live |-> TRUE, mark |-> m, data |-> [c \in p[1].mask |-> Default]]
      BY <1>0, <1>3, <3>1
    <3> QED
      BY <3>2, Zenon DEF IsState
  <2>6. PICK h : h = [i \in 0..(n - 1) |-> g[i + 1]]
    OBVIOUS
  <2>7. h = [i \in 0..(n - 1) |-> IF i = 0 THEN st1 ELSE Registry!Effect(h[i - 1], cmds[i])]
    <3>1. ASSUME NEW i \in 0..(n - 1)
          PROVE  g[i + 1] = IF i = 0 THEN st1 ELSE Registry!Effect(h[i - 1], cmds[i])
      <4>1. CASE i = 0
        BY <2>4, <4>1
      <4>2. CASE i # 0
        <5>1. i + 1 \in 1..n /\ i \in 1..(n - 1) /\ i - 1 \in 0..(n - 1) /\ (i + 1) - 1 = i /\ (i - 1) + 1 = i
          BY <2>1, <4>2
        <5>2. g[i + 1] = Registry!Effect(g[i], p[i + 1])
          BY <2>2, <5>1
        <5>3. h[i - 1] = g[i]
          BY <2>6, <5>1
        <5>4. cmds[i] = p[i + 1]
          BY <1>0, <1>3, <2>1, <5>1
        <5> QED
          BY <4>2, <5>2, <5>3, <5>4
      <4> QED
        BY <4>1, <4>2
    <3> QED
      BY <2>6, <3>1, Zenon
  <2>8. Run(h, st1, cmds)
    BY <1>0, <2>1, <2>5, <2>7 DEF Run, States
  <2>9. h[Len(cmds)] = g[Len(p)]
    BY <2>1, <2>6
  <2> QED
    BY <1>1, <2>8, <2>9 DEF RunsTo
<1> QED
  BY <1>2, <1>3

-----------------------------------------------------------------------------
(* No component needs another: every mask is closed.                       *)
NoDeps == \A c \in Components : Deps[c] = {}

(* Closing a mask adds nothing then.                                       *)
LEMMA NothingNeeded ==
  ASSUME NoDeps, NEW m \in Masks
  PROVE  Closed(m) /\ Closure(m) = m
<1>1. Closed(m)
  BY DEF NoDeps, Closed, Masks
<1> QED
  BY <1>1, ClosureFacts

(* Taking out an entity that is not in changes nothing.                    *)
LEMMA WithoutAbsent ==
  ASSUME NEW e, e \notin DOMAIN AliveMap
  PROVE  Registry!Without(e) = AliveMap
<1>1. Registry!Without(e) = [x \in {x \in Handles : Alive(x)} \ {e} |->
         [y \in {y \in Handles : Alive(y)} |-> DataOf(y)][x]]
  BY DEF Registry!Without
<1>2. {x \in Handles : Alive(x)} \ {e} = {x \in Handles : Alive(x)}
  BY DEF AliveMap
<1> QED
  BY <1>1, <1>2 DEF AliveMap

(* The state of an entity in the registry is the one in its row.           *)
LEMMA StateOfIs ==
  ASSUME Entities, NEW e \in Handles, NEW st, st = Registry!StateOf(e)
  PROVE  /\ IsState(st) /\ ~st.mark /\ (st.live <=> Alive(e))
         /\ Alive(e) => /\ st.data = DataOf(e) /\ IsMap(st.data)
                        /\ DOMAIN st.data = MaskOf(e) /\ MaskOf(e) \in Masks
<1>1. e \in DOMAIN AliveMap <=> Alive(e)
  BY DEF AliveMap
<1>2. st = [live |-> e \in DOMAIN AliveMap, mark |-> FALSE,
            data |-> IF e \in DOMAIN AliveMap THEN AliveMap[e] ELSE <<>>]
  BY DEF Registry!StateOf, AliveMap
<1>3. CASE Alive(e)
  <2>1. PICK d : d = DataOf(e)
    OBVIOUS
  <2>2. (e \in DOMAIN AliveMap) = TRUE
    BY <1>1, <1>3
  <2>3. AliveMap[e] = d
    BY <1>3, <2>1 DEF AliveMap
  <2>4. st = [live |-> TRUE, mark |-> FALSE, data |-> d]
    BY <1>2, <2>2, <2>3
  <2>5. MaskOf(e) \in Masks /\ d \in [MaskOf(e) -> Values \cup {Raw}]
    BY <1>3, <2>1, EntityData DEF Alive
  <2>6. IsState(st)
    BY <2>4, Zenon DEF IsState
  <2>7. ~st.mark /\ st.live /\ st.data = d
    BY <2>4
  <2> QED
    BY <1>3, <2>1, <2>5, <2>6, <2>7 DEF IsMap
<1>4. CASE ~Alive(e)
  <2>1. (e \in DOMAIN AliveMap) = FALSE
    BY <1>1, <1>4
  <2>2. st = [live |-> FALSE, mark |-> FALSE, data |-> <<>>]
    BY <1>2, <2>1
  <2>3. IsState(st)
    BY <2>2, Zenon DEF IsState
  <2>4. ~st.mark /\ ~st.live
    BY <2>2
  <2> QED
    BY <1>4, <2>3, <2>4
<1> QED
  BY <1>3, <1>4

(* Taking the front of a storage to the registry.                          *)
LEMMA ApplyIs ==
  ASSUME NEW t \in Threads, NEW n \in 1..Len(storages[t]),
         NEW p, p = SubSeq(storages[t], 1, n), NEW e, \A i \in 1..n : p[i].ent = e,
         n \in Nat, 1 \in 1..n, Popped(t, n),
         NEW r, r = Registry!After(Registry!StateOf(e), p),
         NEW created, created <=> p[1].op = "create", created => e \notin IssuedSet,
         IssuedSet' = IF created THEN IssuedSet \cup {e} ELSE IssuedSet,
         marked' = IF r.mark THEN marked \cup {e} ELSE marked,
         AliveMap' = IF r.live THEN Registry!With(e, r.data) ELSE Registry!Without(e)
  PROVE  Registry!Apply
<1>1. p[1].ent = e
  OBVIOUS
<1>2. storages' = [storages EXCEPT ![t] = SubSeq(storages[t], n + 1, Len(storages[t]))]
  BY DEF Popped
<1> QED
  BY <1>1, <1>2 DEF Registry!Apply, AliveMap, IssuedSet

(* What applying a pack does to the registry's variables, when no          *)
(* component needs another.                                                *)
PackMapped(t, n, e, created, cmds, initial, old) ==
    /\ PackOf(t, n, e, cmds) /\ created = Creates(t, 1)
    /\ initial = IF created THEN storages[t][1].mask ELSE MaskOf(e)
    /\ old = IF created THEN [c \in initial |-> Default] ELSE DataOf(e)
    /\ \/ UNCHANGED <<slotVars, tableVars, storages, marked>>
       \/ /\ Popped(t, n) /\ ~created /\ ~Alive(e)
          /\ UNCHANGED <<slotVars, tableVars, marked>>
       \/ /\ Popped(t, n) /\ (created \/ Alive(e))
          /\ marked' = IF \E i \in DOMAIN Seen(cmds) : Seen(cmds)[i].op = "destroy"
                       THEN marked \cup {e} ELSE marked
          /\ created => e \notin IssuedSet
          /\ IssuedSet' = IF created THEN IssuedSet \cup {e} ELSE IssuedSet
          /\ AliveMap' = IF Kills(cmds) = {}
                         THEN Registry!With(e, FinalData(created, initial, old,
                                                         FinalMask(initial, cmds), cmds))
                         ELSE Registry!Without(e)

(* Applying a pack is that.                                                *)
LEMMA PackMaps ==
  ASSUME NoDeps, IInv, Ahead, ApplyPack
  PROVE  \E t \in Threads : \E n \in 1..Len(storages[t]) : \E e \in Handles :
         \E cmds \in Seq(Commands) : \E created, initial, old :
            PackMapped(t, n, e, created, cmds, initial, old)
<1>t. PICK t \in Threads : \E n \in 1..Len(storages[t]) : \E e \in Handles :
         \E cmds \in Seq(Commands) : \E initial, old : PackParts(t, n, e, cmds, initial, old)
  BY PackDetail
<1>p. PICK n \in 1..Len(storages[t]), e \in Handles, cmds \in Seq(Commands) :
         \E initial, old : PackParts(t, n, e, cmds, initial, old)
  BY <1>t
<1>q. PICK initial, old : PackParts(t, n, e, cmds, initial, old)
  BY <1>p
<1>1. /\ PackOf(t, n, e, cmds)
      /\ initial = IF Creates(t, 1) THEN storages[t][1].mask ELSE MaskOf(e)
      /\ old = IF Creates(t, 1) THEN [c \in initial |-> Default] ELSE DataOf(e)
      /\ PackStep(t, n, e, Creates(t, 1), cmds, initial, old)
  BY <1>q DEF PackParts
<1>2. /\ 1 \in DOMAIN storages[t] /\ storages[t][1] \in Commands /\ storages[t][1].ent = e
      /\ Entities
  <2>1. storages[t] \in Seq(Commands)
    BY DEF IInv, Recorded, RecordedTypes
  <2>2. 1 \in 1..n /\ 1 \in DOMAIN storages[t] /\ storages[t][1] \in Commands
    BY <2>1
  <2> QED
    BY <1>1, <2>2 DEF PackOf, IInv
<1>3. PICK created, m, d : /\ created = Creates(t, 1) /\ m = FinalMask(initial, cmds)
                           /\ d = FinalData(created, initial, old, m, cmds)
  OBVIOUS
<1>4. m \in Masks /\ Closure(m) = m /\ Closed(m)
  <2>1. m \in Masks
    BY <1>3 DEF FinalMask, Masks
  <2> QED
    BY <2>1, NothingNeeded
<1>5. created => e \in LockedHandles /\ ~Placed(e.id) /\ e.id >= size
  BY <1>2, <1>3 DEF IInv, PendingFresh, Ahead
<1>6. ASSUME created \/ Alive(e)
      PROVE  initial \in Masks /\ old \in [initial -> Values \cup {Raw}]
  <2>1. CASE created
    <3>1. initial \in Masks
      BY <1>1, <1>2, <1>3, <2>1, CommandFacts DEF Creates
    <3> QED
      BY <1>1, <1>3, <2>1, <3>1 DEF Values
  <2>2. CASE ~created
    BY <1>1, <1>2, <1>3, <1>6, <2>2, EntityData DEF Alive
  <2> QED
    BY <2>1, <2>2
<1>7. ASSUME created \/ Alive(e)
      PROVE  d \in Data /\ DOMAIN d = m
  <2>1. d \in [m -> Values \cup {Raw}]
    BY <1>3, <1>4, <1>6, <1>7, FinalDataOK
  <2> QED
    BY <1>4, <2>1, DataIn
<1>8. \/ UNCHANGED <<slotVars, tableVars, storages, marked>>
      \/ /\ Popped(t, n) /\ ~created /\ ~Alive(e)
         /\ UNCHANGED <<slotVars, tableVars, marked>>
      \/ /\ Popped(t, n) /\ (created \/ Alive(e))
         /\ marked' = IF \E i \in DOMAIN Seen(cmds) : Seen(cmds)[i].op = "destroy"
                      THEN marked \cup {e} ELSE marked
         /\ \/ /\ Kills(cmds) # {} /\ Release(e)
               /\ IF created THEN UNCHANGED tableVars ELSE RemoveRow(e)
            \/ created /\ Kills(cmds) = {} /\ Adopt(e) /\ InsertRow(e, m, d)
            \/ /\ ~created /\ Kills(cmds) = {}
               /\ IF initial # m THEN MoveRow(e, m, d) ELSE WriteRow(e, d)
               /\ UNCHANGED slotVars
  <2>1. PackStep(t, n, e, created, cmds, initial, old)
    BY <1>1, <1>3
  <2> QED
    BY <1>3, <1>4, <2>1 DEF PackStep
<1>9. ASSUME created \/ Alive(e), Kills(cmds) # {}, Release(e),
             IF created THEN UNCHANGED tableVars ELSE RemoveRow(e)
      PROVE  /\ created => e \notin IssuedSet
             /\ IssuedSet' = IF created THEN IssuedSet \cup {e} ELSE IssuedSet
             /\ AliveMap' = Registry!Without(e)
  <2>1. CASE created
    <3>1. Discarded(e)
      BY <1>5, <1>9, <2>1 DEF Discarded
    <3> QED
      BY <1>2, <1>5, <2>1, <3>1, DiscardedMaps
  <2>2. CASE ~created
    <3>1. Destroyed(e)
      BY <1>9, <2>2 DEF Destroyed
    <3> QED
      BY <1>2, <2>2, <3>1, DestroyedMaps
  <2> QED
    BY <2>1, <2>2
<1>10. ASSUME created, Adopt(e), InsertRow(e, m, d)
       PROVE  /\ e \notin IssuedSet /\ IssuedSet' = IssuedSet \cup {e}
              /\ AliveMap' = Registry!With(e, d)
  <2>1. Adopted(e, m, d)
    BY <1>4, <1>5, <1>7, <1>10 DEF Adopted
  <2> QED
    BY <1>2, <1>4, <1>5, <1>7, <1>10, <2>1, AdoptedMaps
<1>11. ASSUME ~created, Alive(e), UNCHANGED slotVars,
              IF initial # m THEN MoveRow(e, m, d) ELSE WriteRow(e, d)
       PROVE  IssuedSet' = IssuedSet /\ AliveMap' = Registry!With(e, d)
  <2>1. CASE initial # m
    <3>1. Moved(e, m, d)
      BY <1>4, <1>7, <1>11, <2>1 DEF Moved
    <3> QED
      BY <1>2, <1>4, <1>7, <1>11, <3>1, MovedMaps
  <2>2. CASE initial = m
    <3>1. MaskOf(e) = m
      BY <1>1, <1>3, <1>11, <2>2
    <3>2. Written(e, d)
      BY <1>7, <1>11, <2>2, <3>1 DEF Written
    <3> QED
      BY <1>2, <1>7, <1>11, <3>2, WrittenMaps
  <2> QED
    BY <2>1, <2>2
<1>12. \/ UNCHANGED <<slotVars, tableVars, storages, marked>>
       \/ /\ Popped(t, n) /\ ~created /\ ~Alive(e)
          /\ UNCHANGED <<slotVars, tableVars, marked>>
       \/ /\ Popped(t, n) /\ (created \/ Alive(e))
          /\ marked' = IF \E i \in DOMAIN Seen(cmds) : Seen(cmds)[i].op = "destroy"
                       THEN marked \cup {e} ELSE marked
          /\ created => e \notin IssuedSet
          /\ IssuedSet' = IF created THEN IssuedSet \cup {e} ELSE IssuedSet
          /\ AliveMap' = IF Kills(cmds) = {} THEN Registry!With(e, d) ELSE Registry!Without(e)
  BY <1>8, <1>9, <1>10, <1>11, Zenon
<1>13. PackMapped(t, n, e, created, cmds, initial, old)
  BY <1>1, <1>3, <1>12, Zenon DEF PackMapped
<1> QED
  BY <1>13

(* Where neither a slot nor a row changes, the registry does not.          *)
LEMMA SameMaps ==
  ASSUME UNCHANGED <<slotVars, tableVars>>
  PROVE  AliveMap' = AliveMap /\ IssuedSet' = IssuedSet
BY DEF slotVars, tableVars, AliveMap, IssuedSet, Alive, Valid, Placed, Issued, DataOf, RowOf

(* The registry as it is.                                                  *)
RegistrySame == /\ AliveMap' = AliveMap /\ IssuedSet' = IssuedSet
                /\ marked' = marked /\ storages' = storages

(* A pack does at once what the registry does command by command; or the   *)
(* program dies, and the commands are never applied.                       *)
LEMMA PackRefines ==
  ASSUME NoDeps, IInv, Ahead, ApplyPack
  PROVE  Registry!Apply \/ RegistrySame
<1>t. PICK t \in Threads : \E n \in 1..Len(storages[t]) : \E e \in Handles :
         \E cmds \in Seq(Commands) : \E created, initial, old :
            PackMapped(t, n, e, created, cmds, initial, old)
  BY PackMaps
<1>p. PICK n \in 1..Len(storages[t]), e \in Handles, cmds \in Seq(Commands) :
         \E created, initial, old : PackMapped(t, n, e, created, cmds, initial, old)
  BY <1>t
<1>1. PICK created, initial, old : PackMapped(t, n, e, created, cmds, initial, old)
  BY <1>p
<1>2. /\ PackOf(t, n, e, cmds) /\ created = Creates(t, 1)
      /\ initial = IF created THEN storages[t][1].mask ELSE MaskOf(e)
      /\ old = IF created THEN [c \in initial |-> Default] ELSE DataOf(e)
  BY <1>1 DEF PackMapped
<1>3. PICK p : p = SubSeq(storages[t], 1, n)
  OBVIOUS
<1>4. /\ p \in Seq(Commands) /\ Len(p) = n /\ n \in Nat /\ 1 \in 1..n
      /\ \A i \in 1..n : p[i] = storages[t][i] /\ p[i].ent = e
      /\ (p[1].op = "create" <=> created)
  <2>1. storages[t] \in Seq(Commands)
    BY DEF IInv, Recorded, RecordedTypes
  <2>2. p \in Seq(Commands) /\ Len(p) = n /\ n \in Nat /\ \A i \in 1..n : p[i] = storages[t][i]
    BY <1>3, <2>1, PrefixFacts
  <2>3. \A i \in 1..n : storages[t][i].ent = e
    BY <1>2 DEF PackOf
  <2>4. created <=> storages[t][1].op = "create"
    BY <1>2 DEF Creates
  <2> QED
    BY <2>2, <2>3, <2>4
<1>5. Entities
  BY DEF IInv
<1>6. PICK st : st = Registry!StateOf(e)
  OBVIOUS
<1>7. /\ IsState(st) /\ ~st.mark /\ (st.live <=> Alive(e))
      /\ Alive(e) => /\ st.data = DataOf(e) /\ IsMap(st.data)
                     /\ DOMAIN st.data = MaskOf(e) /\ MaskOf(e) \in Masks
  BY <1>5, <1>6, StateOfIs
<1>8. PICK st1 : st1 = FirstState(p, st)
  OBVIOUS
<1>9. PICK r : r = Registry!After(st, p)
  OBVIOUS
<1>10. PICK g : Run(g, st1, cmds) /\ r = g[Len(cmds)]
  <2>1. Len(p) \in Nat \ {0}
    BY <1>4
  <2>3. IF created
        THEN Len(cmds) = n - 1 /\ \A i \in 1..(n - 1) : cmds[i] = storages[t][i + 1]
        ELSE Len(cmds) = n /\ \A i \in 1..n : cmds[i] = storages[t][i]
    BY <1>2 DEF PackOf
  <2>4. \A i \in 1..(n - 1) : i + 1 \in 1..n
    BY <1>4
  <2>2. IF p[1].op = "create"
        THEN Len(cmds) = Len(p) - 1 /\ \A i \in 1..(Len(p) - 1) : cmds[i] = p[i + 1]
        ELSE Len(cmds) = Len(p) /\ \A i \in 1..Len(p) : cmds[i] = p[i]
    <3>1. CASE created
      BY <1>4, <2>3, <2>4, <3>1
    <3>2. CASE ~created
      BY <1>4, <2>3, <3>2
    <3> QED
      BY <1>4, <3>1, <3>2
  <2>5. Follow(cmds, p)
    BY <1>2, <2>2 DEF PackOf, Follow
  <2> QED
    <3>1. p \in Seq(Commands) /\ IsState(st)
      BY <1>4, <1>7
    <3>2. RunsTo(st1, cmds, r)
      BY <1>8, <1>9, <2>1, <2>5, <3>1, PackRuns
    <3> QED
      BY <3>2 DEF RunsTo
<1>11. CASE UNCHANGED <<slotVars, tableVars, storages, marked>>
  BY <1>11, SameMaps DEF RegistrySame
<1>12. CASE /\ Popped(t, n) /\ ~created /\ ~Alive(e)
            /\ UNCHANGED <<slotVars, tableVars, marked>>
  <2>1. r = st
    <3>1. 0 \in 0..Len(cmds) /\ g[0] = st
      BY <1>4, <1>8, <1>10, <1>12, RunFacts DEF FirstState
    <3> QED
      BY <1>7, <1>10, <1>12, <3>1, DeadStays
  <2>2. AliveMap' = Registry!Without(e) /\ IssuedSet' = IssuedSet
    <3>1. e \notin DOMAIN AliveMap
      BY <1>12 DEF AliveMap
    <3> QED
      BY <1>12, <3>1, SameMaps, WithoutAbsent
  <2>3. ~r.mark /\ ~r.live /\ p[1].op # "create" /\ marked' = marked
    BY <1>4, <1>7, <1>12, <2>1
  <2> QED
    BY <1>3, <1>4, <1>6, <1>9, <1>12, <2>2, <2>3, ApplyIs
<1>13. CASE /\ Popped(t, n) /\ (created \/ Alive(e))
            /\ marked' = IF \E i \in DOMAIN Seen(cmds) : Seen(cmds)[i].op = "destroy"
                         THEN marked \cup {e} ELSE marked
            /\ created => e \notin IssuedSet
            /\ IssuedSet' = IF created THEN IssuedSet \cup {e} ELSE IssuedSet
            /\ AliveMap' = IF Kills(cmds) = {}
                           THEN Registry!With(e, FinalData(created, initial, old,
                                                           FinalMask(initial, cmds), cmds))
                           ELSE Registry!Without(e)
  <2>1. /\ st1.live /\ ~st1.mark /\ IsMap(st1.data)
        /\ st1.data = old /\ DOMAIN st1.data = initial /\ initial \subseteq Components
    <3>1. CASE created
      <4>1. p[1] \in Commands /\ p[1].op = "create" /\ p[1] = storages[t][1]
        BY <1>4, <3>1
      <4>2. PICK f : f = [c \in p[1].mask |-> Default]
        OBVIOUS
      <4>3. st1 = [live |-> TRUE, mark |-> st.mark, data |-> f]
        BY <1>8, <4>1, <4>2 DEF FirstState
      <4>4. st1.live /\ ~st1.mark /\ st1.data = f
        BY <1>7, <4>3
      <4>5. IsMap(f) /\ DOMAIN f = p[1].mask
        BY <4>2 DEF IsMap
      <4>6. initial = p[1].mask /\ old = f /\ initial \subseteq Components
        BY <1>2, <3>1, <4>1, <4>2, CommandFacts DEF Masks
      <4> QED
        BY <4>4, <4>5, <4>6
    <3>2. CASE ~created
      BY <1>2, <1>4, <1>7, <1>8, <1>13, <3>2 DEF Masks, FirstState
    <3> QED
      BY <3>1, <3>2
  <2>2. RunEnd(r, created, initial, old, cmds)
    BY <1>10, <2>1, RunEnds, Zenon
  <2>3. AliveMap' = IF r.live THEN Registry!With(e, r.data) ELSE Registry!Without(e)
    BY <1>13, <2>2 DEF RunEnd
  <2>4. marked' = IF r.mark THEN marked \cup {e} ELSE marked
    BY <1>13, <2>2 DEF RunEnd
  <2>5. Popped(t, n) /\ n \in Nat /\ 1 \in 1..n /\ (created => e \notin IssuedSet)
    BY <1>4, <1>13
  <2>6. IssuedSet' = IF created THEN IssuedSet \cup {e} ELSE IssuedSet
    BY <1>13
  <2>7. (created <=> p[1].op = "create") /\ \A i \in 1..n : p[i].ent = e
    BY <1>4
  <2>8. r = Registry!After(Registry!StateOf(e), p)
    BY <1>6, <1>9
  <2>9. Registry!Apply
    BY <1>3, <2>3, <2>4, <2>5, <2>6, <2>7, <2>8, ApplyIs
  <2> QED
    BY <2>9
<1> QED
  BY <1>1, <1>11, <1>12, <1>13, Zenon DEF PackMapped

(* What is marked for destruction was issued.                              *)
MarkedIssued == marked \subseteq IssuedSet

(* An entity that is alive was issued.                                     *)
LEMMA AliveIssued ==
  ASSUME NEW e \in Handles, Alive(e)
  PROVE  e \in IssuedSet /\ e \in DOMAIN AliveMap
BY DEF IssuedSet, AliveMap, Alive, Issued, Valid

(* A pack marks only an entity that is alive or has just been issued.      *)
LEMMA PackMarks ==
  ASSUME NoDeps, IInv, Ahead, ApplyPack, MarkedIssued
  PROVE  MarkedIssued'
<1>t. PICK t \in Threads : \E n \in 1..Len(storages[t]) : \E e \in Handles :
         \E cmds \in Seq(Commands) : \E created, initial, old :
            PackMapped(t, n, e, created, cmds, initial, old)
  BY PackMaps
<1>p. PICK n \in 1..Len(storages[t]), e \in Handles, cmds \in Seq(Commands) :
         \E created, initial, old : PackMapped(t, n, e, created, cmds, initial, old)
  BY <1>t
<1>1. PICK created, initial, old : PackMapped(t, n, e, created, cmds, initial, old)
  BY <1>p
<1>2. \/ UNCHANGED <<slotVars, tableVars, marked>>
      \/ /\ created \/ Alive(e)
         /\ marked' \in {marked, marked \cup {e}}
         /\ IssuedSet' = IF created THEN IssuedSet \cup {e} ELSE IssuedSet
  BY <1>1 DEF PackMapped
<1> QED
  BY <1>2, AliveIssued, SameMaps DEF MarkedIssued

(* create().                                                               *)
LEMMA CreateRefines ==
  ASSUME NoDeps, IInv, NEW m \in Masks, NEW vals \in [m -> Values], Create(vals)
  PROVE  Registry!Create /\ marked' = marked /\ IssuedSet \subseteq IssuedSet'
<1>1. Closure(m) = m /\ Closed(m) /\ DOMAIN vals = m
  BY NothingNeeded
<1>2. [c \in m |-> IF c \in DOMAIN vals THEN vals[c] ELSE Default] = vals
  BY <1>1
<1>3. vals \in Data
  BY DataIn
<1>4. Created(m, vals) /\ marked' = marked /\ storages' = storages
  BY <1>1, <1>2 DEF Create, Created, lockVars
<1>5. PICK e : e = NewHandle
  OBVIOUS
<1>6. /\ e \in Handles /\ e \notin IssuedSet /\ AliveMap' = Registry!With(e, vals)
      /\ IssuedSet' = IssuedSet \cup {e}
  BY <1>3, <1>4, <1>5, CreatedMaps DEF IInv
<1>7. Registry!Create
  BY <1>4, <1>6 DEF Registry!Create, AliveMap, IssuedSet, Masks
<1> QED
  BY <1>4, <1>6, <1>7

(* assign() and removeComponent() change one component of one entity.      *)
LEMMA ChangeRefines ==
  ASSUME NoDeps, IInv, NEW e \in Handles, NEW c \in Components,
         RemoveComponent(e, c) \/ \E v \in Assigned : Assign(e, c, v)
  PROVE  Registry!Change /\ marked' = marked /\ IssuedSet' = IssuedSet
<1>1. Alive(e) /\ UNCHANGED slotVars /\ marked' = marked /\ storages' = storages /\ Entities
  BY DEF RemoveComponent, Assign, lockVars, IInv
<1>2. MaskOf(e) \in Masks /\ DataOf(e) \in [MaskOf(e) -> Values \cup {Raw}]
  BY <1>1, EntityData DEF Alive
<1>3. e \in DOMAIN AliveMap /\ AliveMap[e] = DataOf(e)
  BY <1>1 DEF AliveMap
<1>4. ASSUME NEW d, NEW m \in Masks, d \in [m -> Values \cup {Raw}], MoveRow(e, m, d)
      PROVE  AliveMap' = Registry!With(e, d) /\ IssuedSet' = IssuedSet
  <2>1. d \in Data /\ DOMAIN d = m /\ Closed(m)
    BY <1>4, DataIn, NothingNeeded
  <2>2. Moved(e, m, d)
    BY <1>1, <1>4, <2>1 DEF Moved
  <2> QED
    BY <1>1, <2>1, <2>2, MovedMaps
<1>5. CASE RemoveComponent(e, c)
  <2>1. PICK m : m = MaskOf(e) \ {c}
    OBVIOUS
  <2>2. m \in Masks /\ Closure(m) = m
    BY <1>2, <2>1, NothingNeeded DEF Masks
  <2>3. PICK d : d = [x \in m |-> DataOf(e)[x]]
    OBVIOUS
  <2>4. MoveRow(e, m, d) /\ d \in [m -> Values \cup {Raw}]
    BY <1>2, <1>5, <2>1, <2>2, <2>3 DEF RemoveComponent
  <2>5. d = Registry!Drop(AliveMap[e], c)
    BY <1>2, <1>3, <2>1, <2>3 DEF Registry!Drop
  <2>6. AliveMap' = Registry!With(e, Registry!Drop(AliveMap[e], c)) /\ IssuedSet' = IssuedSet
    BY <1>4, <2>2, <2>4, <2>5
  <2>7. Registry!Change
    BY <1>1, <1>3, <2>6 DEF Registry!Change, AliveMap, IssuedSet
  <2> QED
    BY <1>1, <2>6, <2>7
<1>6. ASSUME NEW v \in Assigned, Assign(e, c, v)
      PROVE  Registry!Change /\ marked' = marked /\ IssuedSet' = IssuedSet
  <2>1. PICK m : m = MaskOf(e) \cup {c}
    OBVIOUS
  <2>2. m \in Masks /\ Closure(m) = m
    BY <1>2, <2>1, NothingNeeded DEF Masks
  <2>3. PICK d : d = [x \in m |-> IF x = c THEN v
                                  ELSE IF x \in MaskOf(e) THEN DataOf(e)[x] ELSE Default]
    OBVIOUS
  <2>4. MoveRow(e, m, d) /\ c \notin MaskOf(e)
    BY <1>6, <2>1, <2>2, <2>3 DEF Assign
  <2>5. d \in [m -> Values \cup {Raw}]
    BY <1>2, <2>1, <2>3 DEF Values
  <2>6. d = Registry!Set(AliveMap[e], c, v)
    BY <1>2, <1>3, <2>1, <2>3 DEF Registry!Set
  <2>7. AliveMap' = Registry!With(e, Registry!Set(AliveMap[e], c, v)) /\ IssuedSet' = IssuedSet
    BY <1>4, <2>2, <2>4, <2>5, <2>6
  <2>8. c \notin DOMAIN AliveMap[e] /\ v \in Values
    BY <1>2, <1>3, <2>4 DEF Values
  <2>9. Registry!Change
    BY <1>1, <1>3, <2>7, <2>8 DEF Registry!Change, AliveMap, IssuedSet
  <2> QED
    BY <1>1, <2>7, <2>9
<1> QED
  BY <1>5, <1>6

(* A live entity that is destroyed is killed in the registry.              *)
LEMMA KillRefines ==
  ASSUME Entities, NEW e \in Handles, Destroyed(e), storages' = storages,
         marked' \in {marked, marked \ {e}}
  PROVE  Registry!Kill /\ IssuedSet' = IssuedSet
<1>1. AliveMap' = Registry!Without(e) /\ IssuedSet' = IssuedSet
  BY DestroyedMaps
<1>2. e \in IssuedSet
  BY AliveIssued DEF Destroyed
<1> QED
  BY <1>1, <1>2 DEF Registry!Kill, AliveMap, IssuedSet

(* update() kills a marked entity, or drops the mark of a dead one.        *)
LEMMA DestroyMarkedRefines ==
  ASSUME IInv, MarkedIssued, DestroyMarked
  PROVE  Registry!Kill /\ marked' \subseteq marked /\ IssuedSet' = IssuedSet
<1>1. PICK e \in marked : /\ marked' = marked \ {e}
                          /\ \/ Alive(e) /\ RemoveRow(e) /\ Release(e)
                             \/ ~Alive(e) /\ UNCHANGED <<slotVars, tableVars>>
  BY DEF DestroyMarked
<1>2. e \in Handles /\ Entities /\ e \in IssuedSet /\ storages' = storages
  BY DEF IInv, Control, MarkedIssued, DestroyMarked, lockVars
<1>3. CASE Alive(e) /\ RemoveRow(e) /\ Release(e)
  BY <1>1, <1>2, <1>3, KillRefines DEF Destroyed
<1>4. CASE ~Alive(e) /\ UNCHANGED <<slotVars, tableVars>>
  <2>1. AliveMap' = Registry!Without(e) /\ IssuedSet' = IssuedSet
    <3>1. e \notin DOMAIN AliveMap
      BY <1>4 DEF AliveMap
    <3> QED
      BY <1>4, <3>1, SameMaps, WithoutAbsent
  <2>2. Registry!Kill
    BY <1>1, <1>2, <2>1 DEF Registry!Kill, AliveMap, IssuedSet
  <2> QED
    BY <1>1, <2>1, <2>2
<1> QED
  BY <1>1, <1>3, <1>4

(* destroy() marks a handle that was issued: outside of locks nothing is   *)
(* recorded, so there are no others.                                       *)
LEMMA DestroyRefines ==
  ASSUME IInv, NEW e \in Known, Destroy(e)
  PROVE  Registry!Mark /\ e \in IssuedSet /\ marked' = marked \cup {e} /\ IssuedSet' = IssuedSet
<1>1. /\ Unlocked /\ marked' = marked \cup {e} /\ storages' = storages
      /\ UNCHANGED <<slotVars, tableVars>>
  BY DEF Destroy, lockVars
<1>2. Empty
  BY <1>1 DEF Unlocked, Idle, IInv, Phases
<1>3. Pending = {}
  <2>1. \A t \in Threads : DOMAIN storages[t] = {}
    BY <1>2 DEF Empty
  <2> QED
    BY <2>1 DEF Pending
<1>4. e \in IssuedSet
  BY <1>3 DEF Known, IssuedSet
<1>5. AliveMap' = AliveMap /\ IssuedSet' = IssuedSet
  BY <1>1, SameMaps
<1>6. Registry!Mark
  BY <1>1, <1>4, <1>5 DEF Registry!Mark, AliveMap, IssuedSet
<1> QED
  BY <1>1, <1>4, <1>5, <1>6

(* A recorded command, known to the registry from then on.                 *)
LEMMA RecordRefines ==
  ASSUME IInv, NEW t \in Threads, NEW cmd \in Commands, Record(t, cmd)
  PROVE  Registry!Record /\ marked' = marked /\ IssuedSet' = IssuedSet
<1>1. /\ storages' = [storages EXCEPT ![t] = Append(storages[t], cmd)]
      /\ UNCHANGED <<slotVars, tableVars>> /\ marked' = marked
  BY DEF Record
<1>2. storages \in [Threads -> Seq(Commands)]
  BY DEF IInv, Recorded, RecordedTypes
<1>3. storages'[t] = Append(storages[t], cmd)
  BY <1>1, <1>2
<1>4. Len(storages'[t]) = Len(storages[t]) + 1 /\ storages'[t][Len(storages'[t])] = cmd
  BY <1>2, <1>3, AppendFacts
<1>5. storages' = [storages EXCEPT ![t] = Append(storages[t], storages'[t][Len(storages'[t])])]
  BY <1>1, <1>4
<1>6. AliveMap' = AliveMap /\ IssuedSet' = IssuedSet
  BY <1>1, SameMaps
<1>7. Registry!Record
  BY <1>1, <1>4, <1>5, <1>6 DEF Registry!Record, AliveMap, IssuedSet
<1> QED
  BY <1>1, <1>6, <1>7

(* A call for a known handle.                                              *)
LEMMA UseRefines ==
  ASSUME NoDeps, IInv, MarkedIssued, NEW e \in Known, Use(e)
  PROVE  Registry!Next /\ MarkedIssued'
<1>1. e \in Handles
  BY DEF Known, Pending
<1>2. CASE Destroy(e)
  BY <1>2, DestroyRefines DEF Registry!Next, MarkedIssued
<1>3. CASE DestroyNow(e)
  <2>1. Destroyed(e) /\ storages' = storages /\ marked' = marked /\ Entities
    BY <1>3 DEF DestroyNow, Destroyed, lockVars, IInv
  <2> QED
    BY <1>1, <2>1, KillRefines DEF Registry!Next, MarkedIssued
<1>4. CASE \E c \in Components : RemoveComponent(e, c) \/ \E v \in Assigned : Assign(e, c, v)
  BY <1>1, <1>4, ChangeRefines DEF Registry!Next, MarkedIssued
<1>5. ASSUME NEW t \in Threads, NEW cmd \in Commands, Record(t, cmd)
      PROVE  Registry!Next /\ MarkedIssued'
  BY <1>5, RecordRefines DEF Registry!Next, MarkedIssued
<1>6. CASE \E t \in Threads : RecordDestroy(t, e)
  <2>p. PICK t \in Threads, op \in {"destroy", "destroyNow"} : Record(t, [op |-> op, ent |-> e])
    BY <1>6 DEF RecordDestroy
  <2>1. PICK cmd : cmd = [op |-> op, ent |-> e]
    OBVIOUS
  <2>2. cmd \in Commands
    BY <1>1, <2>1 DEF Commands
  <2> QED
    BY <1>5, <2>p, <2>1, <2>2
<1>7. CASE \E t \in Threads : \E c \in Components : RecordRemove(t, e, c)
  <2>p. PICK t \in Threads, c \in Components : Record(t, [op |-> "remove", ent |-> e, comp |-> c])
    BY <1>7 DEF RecordRemove
  <2>1. PICK cmd : cmd = [op |-> "remove", ent |-> e, comp |-> c]
    OBVIOUS
  <2>2. cmd \in Commands
    BY <1>1, <2>1 DEF Commands
  <2> QED
    BY <1>5, <2>p, <2>1, <2>2
<1>8. CASE \E t \in Threads : \E c \in Components : \E v \in Assigned : RecordAssign(t, e, c, v)
  <2>p. PICK t \in Threads, c \in Components, v \in Assigned : Record(t, [op |-> "assign", ent |-> e, comp |-> c, val |-> v])
    BY <1>8 DEF RecordAssign
  <2>1. PICK cmd : cmd = [op |-> "assign", ent |-> e, comp |-> c, val |-> v]
    OBVIOUS
  <2>2. cmd \in Commands
    BY <1>1, <2>1 DEF Commands, Values
  <2> QED
    BY <1>5, <2>p, <2>1, <2>2
<1> QED
  BY <1>2, <1>3, <1>4, <1>6, <1>7, <1>8 DEF Use

(* Every step of the manager is one of the registry, or none.              *)
LEMMA StepRefines ==
  ASSUME NoDeps, ~WithClear, IInv, Ahead, MarkedIssued, [Next]_vars
  PROVE  (Registry!Next \/ RegistrySame) /\ MarkedIssued'
<1>1. ASSUME NEW m \in Masks, NEW vals \in [m -> Values], Create(vals)
      PROVE  Registry!Next /\ MarkedIssued'
  BY <1>1, CreateRefines DEF Registry!Next, MarkedIssued
<1>2. ASSUME NEW t \in Threads, NEW m \in Masks, CreateLocked(t, m)
      PROVE  Registry!Next /\ MarkedIssued'
  <2>1. PICK e, cmd : e \in Handles /\ cmd = [op |-> "create", ent |-> e, mask |-> m] /\ Record(t, cmd)
    BY <1>2 DEF CreateLocked
  <2>2. cmd \in Commands
    BY <2>1 DEF Commands
  <2> QED
    BY <2>1, <2>2, RecordRefines DEF Registry!Next, MarkedIssued
<1>3. ASSUME NEW e \in Known, Use(e)
      PROVE  Registry!Next /\ MarkedIssued'
  BY <1>3, UseRefines
<1>4. CASE ApplyPack
  BY <1>4, PackRefines, PackMarks DEF Registry!Next
<1>5. CASE DestroyMarked
  BY <1>5, DestroyMarkedRefines DEF Registry!Next, MarkedIssued
<1>6. CASE Lock \/ Unlock \/ BeginUpdate \/ EndUpdate \/ UNCHANGED vars
  <2>1. UNCHANGED <<slotVars, tableVars>> /\ storages' = storages /\ marked' = marked
    BY <1>6 DEF Lock, Unlock, BeginUpdate, EndUpdate, vars, lockVars
  <2>2. RegistrySame
    BY <2>1, SameMaps DEF RegistrySame
  <2> QED
    BY <2>2 DEF RegistrySame, MarkedIssued
<1>7. ~Clear /\ \A m \in Masks : ~ClearArchetype(m)
  BY DEF Clear, ClearArchetype
<1> QED
  BY <1>1, <1>2, <1>3, <1>4, <1>5, <1>6, <1>7 DEF Next

(* The manager implements the registry: a client sees a map from live      *)
(* handles to components in which every call takes effect at once, and     *)
(* every recorded one as if done alone and in its thread's order when the  *)
(* lock is released.  For one thread that creates while locked (with two,  *)
(* em_parallel_create loses entities), without dependencies between        *)
(* components (unlock() then adds and drops components no command names),  *)
(* and without clear() (which forgets what was issued).                    *)
THEOREM ManagerImplementsRegistry ==
  ASSUME OneCreator, \A c \in Components : Deps[c] = {}, ~WithClear
  PROVE  Spec => ImplementsRegistry
<1>1. NoDeps
  BY DEF NoDeps
<1>2. Init => Registry!Init /\ MarkedIssued
  <2> SUFFICES ASSUME Init PROVE Registry!Init /\ MarkedIssued
    OBVIOUS
  <2>1. size = 0 /\ marked = {} /\ storages = [t \in Threads |-> <<>>]
    BY DEF Init, SlotsInit
  <2>2. \A e \in Handles : ~Alive(e) /\ ~Issued(e)
    BY <2>1 DEF Alive, Valid, Issued, Handles, Ids
  <2>3. IssuedSet = {} /\ AliveMap = <<>>
    BY <2>2 DEF IssuedSet, AliveMap
  <2> QED
    BY <2>1, <2>3 DEF Registry!Init, MarkedIssued, AliveMap, IssuedSet
<1>3. IInv /\ Ahead /\ MarkedIssued /\ [Next]_vars
          => [Registry!Next]_(Registry!vars) /\ MarkedIssued'
  <2>1. RegistrySame => UNCHANGED Registry!vars
    BY DEF RegistrySame, AliveMap, IssuedSet, Registry!vars
  <2> QED
    BY <1>1, <2>1, StepRefines
<1> QED
  BY <1>2, <1>3, ManagerInvariant, OneCreatorInvariant, PTL DEF Spec, ImplementsRegistry, Registry!Spec
=============================================================================
