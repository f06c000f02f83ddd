------------------------------ MODULE Systems ------------------------------
(***************************************************************************)
(* The systems of a world: the life cycle of ASystem, the list of systems  *)
(* SystemManager keeps and the order it updates them in, and World::init() *)
(* and World::update(), which drive them.  The hooks of a system run inside *)
(* update(); while one runs any operation of the manager may be called.    *)
(***************************************************************************)
EXTENDS Integers, Sequences, FiniteSets, SequencesExt, Functions

CONSTANTS
  SystemPtrs,    \* the system objects
  Name,          \* Name[s]: what name() returns for s
  Configure,     \* Configure[s]: the SystemConfig onConfigure of s leaves
  Groups,        \* the update groups
  Priorities,    \* the priorities setGroupPriority is called with
  MaxInfos,      \* bound on the number of addSystem calls
  MaxUpdates     \* bound on the world version

(* What the code's types say: names are strings, and a SystemConfig has    *)
(* two sets of names, a group and a priority.                              *)
Configs == [before : SUBSET STRING, after : SUBSET STRING, group : Groups, priority : Int]

ASSUME SystemsAssumption ==
  /\ Name \in [SystemPtrs -> STRING]
  /\ Configure \in [SystemPtrs -> Configs]
  /\ Groups # {} /\ Priorities \subseteq Int
  /\ MaxInfos \in Nat /\ MaxUpdates \in Nat

VARIABLES
  state,         \* state[s]: ASystem::state_
  wasInit,       \* Data::was_init
  infos,         \* Data::systems_info
  ordered,       \* Data::ordered_systems
  byName,        \* Data::system_by_name
  groups,        \* Data::group_priorities, 0 when absent
  version,       \* World::version_
  cursor,        \* position of the loop of update() in ordered, 0 outside of it
  running,       \* the hook of the system at the cursor is running
  life,          \* "alive", "destroyed", or "broken" by undefined behaviour
  updates,       \* history: how often this update() has updated each system
  steady,        \* history: the systems this update() owes one onUpdate
  jumped,        \* history: entries of each system put behind the loop, less those put ahead
  merged,        \* history: systems whose update_before has been merged
  seen,          \* history: systems configured when ordered was computed
  settled        \* history: systems merged when ordered was computed

vars == <<state, wasInit, infos, ordered, byName, groups, version, cursor,
          running, life, updates, steady, jumped, merged, seen, settled>>

history == <<updates, steady, jumped, merged, seen, settled>>
manager == <<wasInit, infos, ordered, byName, groups>>

States == {"Uninit", "Inited", "Configured", "Stopped", "Active", "Paused"}

NoConfig ==
  [before |-> {}, after |-> {}, group |-> CHOOSE g \in Groups : TRUE, priority |-> 0]

Names == {Name[s] : s \in SystemPtrs}

Init ==
  /\ state = [s \in SystemPtrs |-> "Uninit"]
  /\ wasInit = FALSE
  /\ infos = <<>>
  /\ ordered = <<>>
  /\ byName = [n \in {} |-> n]
  /\ groups = [g \in Groups |-> 0]
  /\ version = 0
  /\ cursor = 0
  /\ running = FALSE
  /\ life = "alive"
  /\ updates = [s \in SystemPtrs |-> 0]
  /\ steady = {}
  /\ jumped = [s \in SystemPtrs |-> 0]
  /\ merged = {}
  /\ seen = {}
  /\ settled = {}

-----------------------------------------------------------------------------
(* Reordering. *)

NameOf(info) == Name[info.system]

(* The comparison systems are sorted with: a group of higher priority      *)
(* first, then a higher priority.                                          *)
Above(a, b) ==
  LET ga == groups[a.config.group]
      gb == groups[b.config.group]
  IN IF ga # gb THEN ga > gb ELSE a.config.priority > b.config.priority

(* std::sort keeps no order between equals: any sorted permutation. *)
Sorted(is) ==
  {q \in [DOMAIN is -> DOMAIN is] :
     /\ IsInjective(q)
     /\ \A i, j \in DOMAIN is : i < j => ~Above(is[q[j]], is[q[i]])}

(* No system that i must come after is unplaced.  A name counts as placed  *)
(* with the first system that has it.                                      *)
CanBePlaced(is, placed, i) ==
  LET unplaced == {NameOf(is[k]) : k \in DOMAIN is}
                    \ {NameOf(is[placed[k]]) : k \in DOMAIN placed}
  IN is[i].config.after \cap unplaced = {}

Least(S) == CHOOSE i \in S : \A j \in S : i <= j

(* Mistaken variant: the last system that can be placed is taken. *)
NextPlacedBack(is, q, placed) ==
  LET free == {i \in DOMAIN q : /\ ~Contains(placed, q[i])
                                /\ CanBePlaced(is, placed, q[i])}
  IN IF free = {} THEN placed
     ELSE Append(placed, q[CHOOSE i \in free : \A j \in free : i >= j])

(* One round of the loop: the first system of the sorted list that can be  *)
(* placed is, and the search starts again.                                 *)
NextPlaced(is, q, placed) ==
  LET free == {i \in DOMAIN q : /\ ~Contains(placed, q[i])
                                /\ CanBePlaced(is, placed, q[i])}
  IN IF free = {} THEN placed ELSE Append(placed, q[Least(free)])

Placement(is, q) ==
  LET round[n \in 0..Len(is)] ==
        IF n = 0 THEN <<>> ELSE NextPlaced(is, q, round[n - 1])
  IN round[Len(is)]

(* The orders reorderSystems can compute; none when it throws. *)
Orders(is) ==
  {[i \in DOMAIN p |-> is[p[i]].system] :
     p \in {p \in {Placement(is, q) : q \in Sorted(is)} : Len(p) = Len(is)}}

(* Mistaken variant: every system of a name gets the names the others say  *)
(* they update after, as if before and after were the same.                *)
MergedReversed(is) ==
  [k \in DOMAIN is |->
     [is[k] EXCEPT !.config.after = @ \cup
        {n \in is[k].config.before : \E j \in DOMAIN is : NameOf(is[j]) = n}]]

(* update_before of every name is added to update_after of the other one,  *)
(* both found as the last system of their name.                            *)
Merged(is) ==
  LET last(k) == \A j \in DOMAIN is : NameOf(is[j]) = NameOf(is[k]) => j <= k
      earlier(k) == {NameOf(is[i]) : i \in {i \in DOMAIN is :
                        last(i) /\ NameOf(is[k]) \in is[i].config.before}}
  IN [k \in DOMAIN is |->
        IF last(k) THEN [is[k] EXCEPT !.config.after = @ \cup earlier(k)]
        ELSE is[k]]

(* The systems whose own constraints are in their info. *)
Configured(is) ==
  {s \in SystemPtrs : \E k \in DOMAIN is :
     /\ is[k].system = s
     /\ is[k].config.before = Configure[s].before
     /\ Configure[s].after \subseteq is[k].config.after}

(* reorderSystems on the infos is: works on a copy made before             *)
(* update_before is merged, and assigns ordered_systems last.              *)
Reorder(is, throws) ==
  /\ throws = (Orders(is) = {})
  /\ infos' = Merged(is)
  /\ merged' = merged \cup Configured(is)
  /\ IF throws THEN UNCHANGED <<ordered, seen, settled>>
     ELSE /\ ordered' \in Orders(is)
          /\ seen' = Configured(is)
          /\ settled' = merged

-----------------------------------------------------------------------------
(* Calls from outside update() or from a hook it runs. *)

Callable == life = "alive" /\ (cursor = 0 \/ running)

Info(s) == [system |-> s, config |-> NoConfig]

(* system_by_name with s under its name. *)
Named(s) == [n \in DOMAIN byName \cup {Name[s]} |-> IF n = Name[s] THEN s ELSE byName[n]]

(* addSystem before init(): the system is created and stored. *)
AddSystem(s) ==
  /\ Callable /\ ~wasInit /\ Len(infos) < MaxInfos
  /\ infos' = Append(infos, Info(s))
  /\ byName' = Named(s)
  /\ state' = [state EXCEPT ![s] = IF @ = "Uninit" THEN "Inited" ELSE @]
  /\ UNCHANGED <<wasInit, ordered, groups, version, cursor, running, life, history>>

(* addSystem after init(): the system is configured at once.  configure()  *)
(* throws, after the system was stored, if it is configured already; so    *)
(* does reorderSystems().  A longer ordered_systems moves, so it breaks an *)
(* update() that iterates it.                                              *)
AddSystemLate(s) ==
  /\ Callable /\ wasInit /\ Len(infos) < MaxInfos
  /\ byName' = Named(s)
  /\ IF state[s] \in {"Uninit", "Inited"}
       THEN /\ state' = [state EXCEPT ![s] = "Configured"]
            /\ \E throws \in BOOLEAN :
                 /\ Reorder(Append(infos, [Info(s) EXCEPT !.config = Configure[s]]), throws)
                 /\ life' = IF cursor > 0 /\ ~throws THEN "broken" ELSE life
       ELSE /\ infos' = Append(infos, Info(s))
            /\ UNCHANGED <<state, ordered, life, merged, seen, settled>>
  /\ UNCHANGED <<wasInit, groups, version, cursor, running, updates, steady, jumped>>

(* How many entries of s the loop of update() has behind it in an order    *)
(* while a hook runs.                                                      *)
Behind(order, s) == Cardinality({i \in DOMAIN order : order[i] = s /\ i <= cursor})

(* removeSystem.  What std::remove returns is discarded: a system that is  *)
(* not last leaves an info without a system, which reorderSystems() then   *)
(* uses; a system that is last stays.  removeSystem is noexcept, so that a *)
(* throwing reorderSystems() ends the program too.  The order is longer    *)
(* than it was if there are infos that an addSystem which threw has left,  *)
(* and then moves.  Otherwise the new order overwrites the old one, and an *)
(* update() that iterates it goes on at the same place in the new one.     *)
RemoveSystem(n) ==
  /\ Callable
  /\ n \in DOMAIN byName
  /\ byName' = [m \in DOMAIN byName \ {n} |-> byName[m]]
  /\ LET s == byName[n]
         moved == \E i, j \in DOMAIN infos :
                    i < j /\ infos[i].system = s /\ infos[j].system # s
     IN IF moved
        THEN life' = "broken" /\ UNCHANGED <<infos, ordered, merged, seen, settled>>
        ELSE \E throws \in BOOLEAN :
               /\ Reorder(infos, throws)
               /\ life' = IF throws \/ (cursor > 0 /\ Len(ordered') > Len(ordered))
                          THEN "broken" ELSE life
  /\ jumped' = [s \in SystemPtrs |->
                  IF cursor = 0 THEN jumped[s]
                  ELSE jumped[s] + Behind(ordered', s) - Behind(ordered, s)]
  /\ UNCHANGED <<state, wasInit, groups, version, cursor, running, updates, steady>>

SetGroupPriority(g, p) ==
  /\ Callable
  /\ groups' = [groups EXCEPT ![g] = p]
  /\ UNCHANGED <<state, wasInit, infos, ordered, byName, version, cursor, running, life, history>>

-----------------------------------------------------------------------------
(* The life cycle of a system outside the manager's own steps: each method *)
(* throws, and changes nothing, in any other state.                        *)

Move(s, from, to) ==
  /\ Callable
  /\ state[s] = from
  /\ state' = [state EXCEPT ![s] = to]
  /\ UNCHANGED <<manager, version, cursor, running, life, updates, jumped, merged, seen, settled>>

Pause(s) == Move(s, "Active", "Paused") /\ steady' = steady \ {s}
Resume(s) == Move(s, "Paused", "Active") /\ UNCHANGED steady
Stop(s) == Move(s, "Paused", "Stopped") /\ UNCHANGED steady

-----------------------------------------------------------------------------
(* init() and update(). *)

(* SystemManager::init() the first time: the systems that are Inited are   *)
(* configured, each with the first info it has; all are ordered, and those *)
(* that are ordered are started.  When the order fails they stay as        *)
(* configured, and init() is not tried again.                              *)
InitSystems(throws) ==
  LET first(k) == \A j \in DOMAIN infos : infos[j].system = infos[k].system => k <= j
      inited == {k \in DOMAIN infos : first(k) /\ state[infos[k].system] = "Inited"}
      configured == {infos[k].system : k \in inited}
  IN /\ wasInit' = TRUE
     /\ Reorder([k \in DOMAIN infos |->
                   IF k \in inited THEN [infos[k] EXCEPT !.config = Configure[infos[k].system]]
                   ELSE infos[k]], throws)
     /\ state' = [s \in SystemPtrs |->
                   CASE s \in configured /\ ~throws -> "Active"
                     [] s \in configured /\ throws -> "Configured"
                     [] OTHER -> state[s]]
     /\ UNCHANGED <<byName, groups>>

(* World::init(): the version restarts whether or not there is something   *)
(* to do for the systems.                                                  *)
WorldInit ==
  /\ Callable
  /\ version' = 0
  /\ IF wasInit THEN UNCHANGED <<state, manager, merged, seen, settled>>
     ELSE \E throws \in BOOLEAN : InitSystems(throws)
  /\ UNCHANGED <<cursor, running, life, updates, steady, jumped>>

Owed(order, states) == {s \in ToSet(order) : states[s] \in {"Configured", "Active"}}

(* World::update() up to the first system; when init() throws it ends. *)
BeginUpdate ==
  /\ life = "alive" /\ cursor = 0 /\ version < MaxUpdates
  /\ version' = version + 1
  /\ \E throws \in BOOLEAN :
       /\ IF wasInit THEN ~throws /\ UNCHANGED <<state, manager, merged, seen, settled>>
          ELSE InitSystems(throws)
       /\ cursor' = IF throws THEN 0 ELSE 1
  /\ steady' = IF cursor' = 0 THEN {} ELSE Owed(ordered', state')
  /\ UNCHANGED <<running, life, updates, jumped>>

(* Mistaken variant: the state read before start() decides on the update. *)
UpdateSystemUnread ==
  /\ life = "alive" /\ cursor > 0 /\ ~running /\ cursor <= Len(ordered)
  /\ LET s == ordered[cursor] IN
       /\ IF state[s] = "Active"
          THEN running' = TRUE /\ updates' = [updates EXCEPT ![s] = @ + 1] /\ UNCHANGED <<state, cursor>>
          ELSE cursor' = cursor + 1 /\ UNCHANGED <<running, updates>>
       /\ state' = [state EXCEPT ![s] = IF @ = "Configured" THEN "Active" ELSE @]
  /\ UNCHANGED <<manager, version, life, steady, jumped, merged, seen, settled>>

(* The loop comes to the next system: starts it if it is Configured, calls *)
(* onUpdate if it is Active then, passes it over otherwise.                *)
UpdateSystem ==
  /\ life = "alive" /\ cursor > 0 /\ ~running /\ cursor <= Len(ordered)
  /\ LET s == ordered[cursor] IN
       IF state[s] \in {"Configured", "Active"}
       THEN /\ state' = [state EXCEPT ![s] = "Active"]
            /\ updates' = [updates EXCEPT ![s] = @ + 1]
            /\ running' = TRUE
            /\ UNCHANGED cursor
       ELSE /\ cursor' = cursor + 1
            /\ UNCHANGED <<state, updates, running>>
  /\ UNCHANGED <<manager, version, life, steady, jumped, merged, seen, settled>>

HookReturns ==
  /\ life = "alive" /\ running
  /\ running' = FALSE
  /\ cursor' = cursor + 1
  /\ UNCHANGED <<state, manager, version, life, history>>

(* The systems are done; the entities are updated and update() returns. *)
EndUpdate ==
  /\ life = "alive" /\ cursor > Len(ordered) /\ ~running
  /\ cursor' = 0
  /\ updates' = [s \in SystemPtrs |-> 0]
  /\ steady' = {}
  /\ jumped' = [s \in SystemPtrs |-> 0]
  /\ UNCHANGED <<state, manager, version, running, life, merged, seen, settled>>

(* ~SystemManager destroys the systems that are ordered, and only them:    *)
(* destroy() has no expected state, and passes through pause() and stop()  *)
(* where they apply.                                                       *)
DestroyManager ==
  /\ life = "alive" /\ cursor = 0
  /\ life' = "destroyed"
  /\ state' = [s \in SystemPtrs |-> IF s \in ToSet(ordered) THEN "Uninit" ELSE state[s]]
  /\ UNCHANGED <<manager, version, cursor, running, history>>

Next ==
  \/ \E s \in SystemPtrs : AddSystem(s) \/ AddSystemLate(s)
  \/ \E n \in Names : RemoveSystem(n)
  \/ \E g \in Groups, p \in Priorities : SetGroupPriority(g, p)
  \/ \E s \in SystemPtrs : Pause(s) \/ Resume(s) \/ Stop(s)
  \/ WorldInit
  \/ BeginUpdate \/ UpdateSystem \/ HookReturns \/ EndUpdate
  \/ DestroyManager

Spec == Init /\ [][Next]_vars

-----------------------------------------------------------------------------
(* Properties. *)

(* Types of the variables; names are looked up to systems that have them,  *)
(* and a hook runs at an entry of the order.                               *)
TypeOK ==
  /\ state \in [SystemPtrs -> States]
  /\ wasInit \in BOOLEAN
  /\ \A k \in DOMAIN infos : infos[k].system \in SystemPtrs
  /\ ordered \in Seq(SystemPtrs)
  /\ \A n \in DOMAIN byName : Name[byName[n]] = n
  /\ version \in 0..MaxUpdates
  /\ running => cursor \in DOMAIN ordered
  /\ life \in {"alive", "destroyed", "broken"}

(* No two entries have the same name. *)
Unique(order) == \A i, j \in DOMAIN order : Name[order[i]] = Name[order[j]] => i = j

(* Systems of different names are updated in an order that respects        *)
(* update_after of every system configured when the order was computed,    *)
(* and update_before of those that were configured one reordering earlier  *)
(* (reorderSystems).                                                       *)
OrderRespected ==
  Unique(ordered) =>
    \A i, j \in DOMAIN ordered : i < j =>
      LET a == ordered[i]
          b == ordered[j]
      IN /\ a \in seen => Name[b] \notin Configure[a].after
         /\ {a, b} \subseteq settled => Name[a] \notin Configure[b].before

(* A new order puts a system before one of higher priority only if, at     *)
(* that place, the other one still had to wait for a system that comes     *)
(* later.                                                                  *)
PriorityRespected ==
  [][(ordered' # ordered /\ Unique(ordered')) =>
       LET info(s) == infos'[CHOOSE k \in DOMAIN infos' : infos'[k].system = s]
       IN \A i, j \in DOMAIN ordered' :
            (i < j /\ Above(info(ordered'[j]), info(ordered'[i]))) =>
              \E k \in i..(j - 1) : Name[ordered'[k]] \in info(ordered'[j]).config.after]_vars

(* When update() has passed all systems, one that could be updated since   *)
(* its begin was updated once for each entry it has in the order, less the *)
(* entries that removals made by hooks put behind the loop, plus those     *)
(* they put ahead of it again (SystemManager::update).  So hooks skip or   *)
(* repeat a system only by a removal that changes the order, and by the    *)
(* entries it moves.  Nothing is said after a call that breaks the loop:   *)
(* one that makes the order longer, or removes a system that is not last.  *)
EachUpdatedOnce ==
  [][EndUpdate => \A s \in steady :
       updates[s] + jumped[s] = Cardinality({i \in DOMAIN ordered : ordered[i] = s})]_vars

=============================================================================
