-------------------------- MODULE SharedComponents --------------------------
(***************************************************************************)
(* Components that entities share: SharedComponentsInfo, which every       *)
(* archetype has one of, the objects EntityManager keeps of each shared    *)
(* type so that equal values are one object, and the calls that take an    *)
(* entity to the archetype of another info.  None of them looks at the     *)
(* lock.                                                                   *)
(***************************************************************************)
EXTENDS Naturals, Sequences, FiniteSets, SequencesExt, Functions

CONSTANTS
  Entities,      \* the entities
  Components,    \* the components entities have for themselves
  SharedIds,     \* the types of shared components
  Values,        \* their values, as operator== tells them apart
  DefaultValue,  \* the value of a default constructed one
  MaxPointers,   \* bound on the shared objects made
  MaxArchetypes, \* bound on the archetypes created
  Null           \* no pointer

ASSUME SharedAssumption == DefaultValue \in Values /\ MaxPointers \in Nat

VARIABLES
  pointers,      \* pointers[p]: the value of the shared object p
  interned,      \* EntityManager::shared_components_
  archetypes,    \* the ids_ of the info of each archetype, by its key
  of,            \* of[e]: the key of the archetype of e, if e exists
  given,         \* history: given[e][s]: the object e was last given as s
  merged,        \* history: infos have been merged
  broken         \* undefined behaviour has been reached

vars == <<pointers, interned, archetypes, of, given, merged, broken>>

Nothing == [k \in {} |-> k]

(* f with v at k, whether f had something there or not. *)
Put(f, k, v) == [x \in DOMAIN f \cup {k} |-> IF x = k THEN v ELSE f[x]]

-----------------------------------------------------------------------------
(* SharedComponentsInfo. *)

NoShared == [mask |-> {}, ids |-> <<>>, data |-> <<>>]

(* indexOf: the first position of the id, 0 for null. *)
IndexOf(info, s) == SelectInSeq(info.ids, LAMBDA i : i = s)

AddShared(info, s, p) ==
  IF s \notin info.mask
  THEN [mask |-> info.mask \cup {s}, ids |-> Append(info.ids, s), data |-> Append(info.data, p)]
  ELSE [info EXCEPT !.data[IndexOf(info, s)] = p]

RemoveShared(info, s) ==
  IF s \notin info.mask THEN info
  ELSE LET i == IndexOf(info, s)
       IN [mask |-> info.mask \ {s}, ids |-> RemoveAt(info.ids, i), data |-> RemoveAt(info.data, i)]

(* merge: the objects of the other come first, but its ids are left out. *)
Merge(info, oth) ==
  [mask |-> oth.mask \cup info.mask, ids |-> info.ids, data |-> oth.data \o info.data]

GetShared(info, s) ==
  IF IndexOf(info, s) = 0 THEN Null ELSE info.data[IndexOf(info, s)]

(* An info that knows the position of s if it has it. *)
Locates(info, s) == s \in info.mask => IndexOf(info, s) # 0

-----------------------------------------------------------------------------
(* EntityManager. *)

Key(unique, info) == [unique |-> unique, mask |-> info.mask, data |-> info.data]

Info(e) == [mask |-> of[e].mask, ids |-> archetypes[of[e]], data |-> of[e].data]

(* getArchetype, and what takes e there: an archetype is found by its key, *)
(* and one that is found has the ids of the info it was created with.      *)
Enter(e, unique, info) ==
  LET key == Key(unique, info)
  IN /\ archetypes' = IF key \in DOMAIN archetypes THEN archetypes
                      ELSE Put(archetypes, key, info.ids)
     /\ Cardinality(DOMAIN archetypes') <= MaxArchetypes
     /\ of' = Put(of, e, key)

(* Mistaken variant: only the same object is found again. *)
InternedSame(s, value) == Append(interned[s], Len(pointers) + 1)

(* getCreatedSharedComponent for a new object: one equal to it that is     *)
(* kept already, or itself, which is then kept.                            *)
Interned(s, value) ==
  IF \E i \in DOMAIN interned[s] : pointers[interned[s][i]] = value
  THEN interned[s] ELSE Append(interned[s], Len(pointers) + 1)

Init ==
  /\ pointers = <<>>
  /\ interned = [s \in SharedIds |-> <<>>]
  /\ archetypes = Nothing
  /\ of = Nothing
  /\ given = Nothing
  /\ merged = FALSE
  /\ broken = FALSE

Room(n) == Len(pointers) + n <= MaxPointers

(* create<...>(): each shared component in turn gets a default object of   *)
(* its own, which is not looked for among those that are kept.             *)
Create(e, unique, shared) ==
  LET n == Len(pointers)
      info == [mask |-> ToSet(shared), ids |-> shared,
               data |-> [i \in DOMAIN shared |-> n + i]]
  IN /\ ~broken /\ e \notin DOMAIN of /\ Room(Len(shared))
     /\ pointers' = pointers \o [i \in DOMAIN shared |-> DefaultValue]
     /\ Enter(e, unique, info)
     /\ given' = Put(given, e, [s \in ToSet(shared) |-> GetShared(info, s)])
     /\ UNCHANGED <<interned, merged, broken>>

AssignShared(e, s, value) ==
  /\ ~broken /\ e \in DOMAIN of
  /\ interned' = [interned EXCEPT ![s] = Interned(s, value)]
  /\ IF interned' = interned THEN UNCHANGED pointers
     ELSE Room(1) /\ pointers' = Append(pointers, value)
  /\ LET p == CHOOSE p \in ToSet(interned'[s]) :
                pointers'[p] = value /\ (interned' # interned => p = Len(pointers'))
     IN /\ IF Locates(Info(e), s)
           THEN Enter(e, of[e].unique, AddShared(Info(e), s, p)) /\ UNCHANGED broken
           ELSE broken' = TRUE /\ UNCHANGED <<archetypes, of>>
        /\ given' = [given EXCEPT ![e] = Put(@, s, p)]
  /\ UNCHANGED merged

RemoveSharedComponent(e, s) ==
  /\ ~broken /\ e \in DOMAIN of /\ s \in of[e].mask
  /\ IF Locates(Info(e), s)
     THEN Enter(e, of[e].unique, RemoveShared(Info(e), s)) /\ UNCHANGED broken
     ELSE broken' = TRUE /\ UNCHANGED <<archetypes, of>>
  /\ given' = [given EXCEPT ![e] = Restrict(@, DOMAIN @ \ {s})]
  /\ UNCHANGED <<pointers, interned, merged>>

(* assign and removeComponent keep the info of the archetype. *)
ChangeUnique(e, unique) ==
  /\ ~broken /\ e \in DOMAIN of /\ unique # of[e].unique
  /\ Enter(e, unique, Info(e))
  /\ UNCHANGED <<pointers, interned, given, merged, broken>>

(* updateComponents, of a builder for an entity that exists, merges the    *)
(* info of its archetype into an empty one.                                *)
BuildOn(e, unique) ==
  /\ ~broken /\ e \in DOMAIN of /\ unique # of[e].unique
  /\ Enter(e, unique, Merge(NoShared, Info(e)))
  /\ merged' = (merged \/ of[e].mask # {})
  /\ UNCHANGED <<pointers, interned, given, broken>>

(* clone keeps the archetype. *)
Clone(e, dest) ==
  /\ ~broken /\ e \in DOMAIN of /\ dest \notin DOMAIN of
  /\ of' = Put(of, dest, of[e])
  /\ given' = Put(given, dest, given[e])
  /\ UNCHANGED <<pointers, interned, archetypes, merged, broken>>

Destroy(e) ==
  /\ ~broken /\ e \in DOMAIN of
  /\ of' = Restrict(of, DOMAIN of \ {e})
  /\ given' = Restrict(given, DOMAIN given \ {e})
  /\ UNCHANGED <<pointers, interned, archetypes, merged, broken>>

SharedLists == {q \in BoundedSeq(SharedIds, Cardinality(SharedIds)) : IsInjective(q)}

Next ==
  \/ \E e \in Entities, u \in SUBSET Components, q \in SharedLists : Create(e, u, q)
  \/ \E e \in Entities, s \in SharedIds, v \in Values : AssignShared(e, s, v)
  \/ \E e \in Entities, s \in SharedIds : RemoveSharedComponent(e, s)
  \/ \E e \in Entities, u \in SUBSET Components : ChangeUnique(e, u) \/ BuildOn(e, u)
  \/ \E e, dest \in Entities : Clone(e, dest)
  \/ \E e \in Entities : Destroy(e)

Spec == Init /\ [][Next]_vars

-----------------------------------------------------------------------------
(* Properties. *)

(* However entities came to their archetypes, and whoever created those:   *)
(* an entity has the shared components it was given and no others; as long *)
(* as no infos were merged it finds for each the very object it was given; *)
(* and objects that assignShared gave for equal values are the same        *)
(* (getSharedComponent, getCreatedSharedComponent, getArchetype).          *)
SharedFound ==
  ~broken =>
    /\ \A e \in DOMAIN of :
         /\ of[e].mask = DOMAIN given[e]
         /\ ~merged => \A s \in of[e].mask : GetShared(Info(e), s) = given[e][s]
    /\ \A e, f \in DOMAIN of : \A s \in of[e].mask \cap of[f].mask :
         LET p == given[e][s]
             q == given[f][s]
         IN (pointers[p] = pointers[q] /\ {p, q} \subseteq ToSet(interned[s])) => p = q

=============================================================================
