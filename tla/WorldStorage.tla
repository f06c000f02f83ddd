---------------------------- MODULE WorldStorage ----------------------------
(***************************************************************************)
(* The worlds of a process: their ids, and the storage each has for        *)
(* singletons, by a type id given out per process, and for objects with a  *)
(* tag, a checksum of a string.                                            *)
(***************************************************************************)
EXTENDS Naturals, Sequences, FiniteSets, SequencesExt, Functions

CONSTANTS
  Worlds,        \* the world objects
  GivenIds,      \* the ids worlds are constructed with explicitly
  Singletons,    \* the singleton types
  Strings,       \* what tags are made from, by bytes: a literal includes its NUL
  Crc32,         \* Crc32[str]: its checksum
  Values,        \* the objects stored
  Null           \* no object

(* The history stored has one key for each of both kinds.                  *)
ASSUME KeysAssumption == Singletons \cap Strings = {}

VARIABLES
  usedIds,       \* used_world_ids
  nextId,        \* next_id
  id,            \* id[w]: World::id_ of the worlds that exist
  singletonTypes, \* the singleton types in the order of their ids: type_map
  singletons,    \* singletons[w]: WorldStorage::singletons_ by id
  tagged,        \* tagged[w]: WorldStorage::objects_with_tag_
  stored,        \* history: what was last stored in w as a singleton or tag
  byDefault      \* history: the worlds that took the default id

storageVars == <<usedIds, nextId, id, singletonTypes, singletons, tagged, stored, byDefault>>

Nothing == [k \in {} |-> k]

(* f with v at k, whether f had something there or not. *)
Put(f, k, v) == [x \in DOMAIN f \cup {k} |-> IF x = k THEN v ELSE f[x]]

StorageInit ==
  /\ usedIds = {}
  /\ nextId = 0
  /\ id = Nothing
  /\ singletonTypes = <<>>
  /\ singletons = Nothing
  /\ tagged = Nothing
  /\ stored = Nothing
  /\ byDefault = {}

Exists(w) == w \in DOMAIN id

(* World::nextWorldId(): an id of used_world_ids, the least, or the next.  *)
NextWorldId(given) ==
  IF usedIds # {}
  THEN /\ given = CHOOSE i \in usedIds : \A j \in usedIds : i <= j
       /\ usedIds' = usedIds \ {given}
       /\ UNCHANGED nextId
  ELSE /\ given = nextId
       /\ nextId' = nextId + 1
       /\ UNCHANGED usedIds

Constructed(w, i) ==
  /\ id' = Put(id, w, i)
  /\ singletons' = Put(singletons, w, <<>>)
  /\ tagged' = Put(tagged, w, Nothing)
  /\ stored' = Put(stored, w, Nothing)
  /\ UNCHANGED singletonTypes

(* World(context): the default argument takes an id. *)
Construct(w) ==
  /\ ~Exists(w) /\ nextId <= Cardinality(Worlds)
  /\ \E i \in usedIds \cup {nextId} : NextWorldId(i) /\ Constructed(w, i)
  /\ byDefault' = byDefault \cup {w}

(* World(id): an id given explicitly is not reserved. *)
ConstructWith(w, i) ==
  /\ ~Exists(w)
  /\ Constructed(w, i)
  /\ UNCHANGED <<usedIds, nextId, byDefault>>

Without(f, w) == Restrict(f, DOMAIN f \ {w})

(* Mistaken variant: the id of a destroyed world is kept to be used again, *)
(* whoever gave it.                                                        *)
DestructKept(w) ==
  /\ Exists(w)
  /\ usedIds' = usedIds \cup {id[w]}
  /\ id' = Without(id, w)
  /\ singletons' = Without(singletons, w)
  /\ tagged' = Without(tagged, w)
  /\ stored' = Without(stored, w)
  /\ byDefault' = byDefault \ {w}
  /\ UNCHANGED <<nextId, singletonTypes>>

(* ~World(): the id is erased from a set it is not in. *)
Destruct(w) ==
  /\ Exists(w)
  /\ usedIds' = usedIds \ {id[w]}
  /\ id' = Without(id, w)
  /\ singletons' = Without(singletons, w)
  /\ tagged' = Without(tagged, w)
  /\ stored' = Without(stored, w)
  /\ byDefault' = byDefault \ {w}
  /\ UNCHANGED <<nextId, singletonTypes>>

(* Mistaken variant: the types known already are not searched. *)
RegisteredAgain(t) == Append(singletonTypes, t)

(* getSingletonId: the id a type has, or the next one. *)
Registered(t) == IF Contains(singletonTypes, t) THEN singletonTypes ELSE Append(singletonTypes, t)

TypeId(ts, t) == CHOOSE i \in DOMAIN ts : ts[i] = t

Resize(s, n) == [i \in 1..n |-> IF i \in DOMAIN s THEN s[i] ELSE Null]

(* Mistaken variant: the table is resized for every type that has nothing  *)
(* stored yet, as the table of EventManager is.                            *)
WithRoomCut(s, i) == IF i \in DOMAIN s /\ s[i] # Null THEN s ELSE Resize(s, i)

(* A table that ends before the id is resized to end with it. *)
WithRoom(s, i) == IF i \in DOMAIN s THEN s ELSE Resize(s, i)

Store(w, t, v) ==
  /\ Exists(w)
  /\ singletonTypes' = Registered(t)
  /\ LET i == TypeId(singletonTypes', t) IN
       singletons' = [singletons EXCEPT ![w] = [WithRoom(@, i) EXCEPT ![i] = v]]
  /\ stored' = [stored EXCEPT ![w] = Put(@, t, v)]
  /\ UNCHANGED <<usedIds, nextId, id, tagged, byDefault>>

StoreTagged(w, str, v) ==
  /\ Exists(w)
  /\ tagged' = [tagged EXCEPT ![w] = Put(@, Crc32[str], v)]
  /\ stored' = [stored EXCEPT ![w] = Put(@, str, v)]
  /\ UNCHANGED <<usedIds, nextId, id, singletonTypes, singletons, byDefault>>

(* getInstanceOf registers the type it asks for. *)
GetInstance(w, t) ==
  /\ Exists(w)
  /\ singletonTypes' = Registered(t)
  /\ UNCHANGED <<usedIds, nextId, id, singletons, tagged, stored, byDefault>>

InstanceOf(w, t) ==
  IF Contains(singletonTypes, t) /\ TypeId(singletonTypes, t) \in DOMAIN singletons[w]
  THEN singletons[w][TypeId(singletonTypes, t)] ELSE Null

Load(w, str) ==
  IF Crc32[str] \in DOMAIN tagged[w] THEN tagged[w][Crc32[str]] ELSE Null

StorageNext ==
  \/ \E w \in Worlds : Construct(w) \/ Destruct(w)
  \/ \E w \in Worlds, i \in GivenIds : ConstructWith(w, i)
  \/ \E w \in Worlds, t \in Singletons : GetInstance(w, t)
  \/ \E w \in Worlds, t \in Singletons, v \in Values : Store(w, t, v)
  \/ \E w \in Worlds, str \in Strings, v \in Values : StoreTagged(w, str, v)

StorageSpec == StorageInit /\ [][StorageNext]_storageVars

-----------------------------------------------------------------------------
(* Properties. *)

(* Types of the variables; every world that exists has its tables. *)
StorageTypeOK ==
  /\ DOMAIN id \subseteq Worlds /\ DOMAIN singletons = DOMAIN id
  /\ nextId \in Nat /\ usedIds \subseteq Nat
  /\ ToSet(singletonTypes) \subseteq Singletons /\ IsInjective(singletonTypes)
  /\ \A w \in DOMAIN id : ToSet(singletons[w]) \subseteq Values \cup {Null}

(* A world finds what was stored in it last under a type, and nothing that *)
(* another world stored, in whatever order the worlds and types came; the  *)
(* same for tags whose strings have different checksums.  Worlds that took *)
(* their ids by default differ in them (WorldStorage, World::nextWorldId). *)
StoredIsFound ==
  /\ \A w \in DOMAIN id :
       /\ \A t \in Singletons :
            InstanceOf(w, t) = IF t \in DOMAIN stored[w] THEN stored[w][t] ELSE Null
       /\ \A str \in Strings :
            (\A other \in Strings : Crc32[other] = Crc32[str] => other = str) =>
              Load(w, str) = IF str \in DOMAIN stored[w] THEN stored[w][str] ELSE Null
  /\ \A w, o \in byDefault : id[w] = id[o] => w = o

=============================================================================
