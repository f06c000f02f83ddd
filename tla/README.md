# A formal model of mustache

TLA+ modules for [mustache](../src/README.md), a C++17 entity component
system, with TLC runs on small instances and theorems checked by TLAPS for
every instance. The modules are translated from the source under
`src/src/mustache`; `PROJECT.json` maps every definition to its lines.

## The system

| Component | State it keeps | Operations | What makes it correct |
|---|---|---|---|
| **EntityManager**, handles | `locations_[id].entity`, `next_slot_`, `empty_slots_` | `createWithOutInit`, `releaseEntityIdUnsafe`, `clearArchetype`, the create case of `applyCommandPack`, `clear` | the free list is exactly the free slots; a dead handle never becomes valid again |
| **EntityManager**, structure | `locations_[id].archetype/.index`, `marked_for_delete_`, `dependencies_` | `create`, `assign`, `removeComponent`, `destroy`, `destroyNow`, `update`, `clear`, `clearArchetype` | a map from living handles to components; archetypes closed under dependencies |
| **EntityManager**, lock | `lock_counter_`, `next_entity_id_`, `temporal_storages_`, `was_temporal_storage_used_` | `lock`, `unlock`, the recorded variants, `applyStorage`, `applyCommandPack` | recorded commands take effect as if done one by one, in each thread's order; `unlock` never throws |
| **Archetype** | `entities_`, the component storage, versions | `insert`, `remove`, `externalMove`, `internalMove`, `cloneEntity`, `clear` | rows and locations agree after every move |
| **TemporalStorage** | `actions_`, `create_actions_`, a bump allocator | one `emplaceItem` per command, `clear` | order is kept; values live until applied |
| **StableLatencyComponentDataStorage** | `size_`, `migration_pos_`, `capacity_`, two buffers | `emplace`, `incSize`, `decrSize`, `grow`, `migrationSteps`, `clear`, lookups | every element is found where it is; an insertion moves at most one |
| **Dispatcher** | worker threads, a parallel queue, serial queues by priority, `threads_waiting`, `terminate` | `addJob`, `async`, `threadTask`, `wait`, destructor | jobs run once; serial jobs exclude each other; `wait` returns after the jobs it waits for; workers stop |
| **VersionStorage** and filters | a version per chunk and component, one per archetype and component; per job `last_update_version_` | `emplace`, `setVersion`, `checkAndSet`, `applyFilter` | a job never misses a change |
| **Jobs**, `TaskGroup`, `ArrayView` | the filter result: archetypes and blocks of entities | `run`, `runParallel`, splitting | the tasks cover every matched entity once |
| **SystemManager**, **ASystem** | systems, their states, order, groups | `addSystem`, `removeSystem`, `init`, `update`, the life cycle | order respects the constraints; callbacks follow the documented life cycle |
| **EventManager** | receivers per event type | `subscribe_`, `unsubscribe`, `post` | a post calls each receiver once while its list does not change |
| **World** | id, version, the managers | `update`, `init`, `nextWorldId` | ids of living worlds differ |
| **ComponentMask**, **DynamicComponentMask** | a bitset; two words, or an array of blocks, and the flag of the tail | `set`, `has`, `isMatch`, `merge`, `intersection`, `subtract`, `inverse`, copies and moves | a mask answers as the set of ids it stands for |
| **Component info**: constructors, hooks, `default_value` | the functions of each type | called by `Archetype` and by `applyCommandPack` | each cell holds one object; hooks come in pairs |
| **Shared components** | `SharedComponentsInfo` of each archetype, `shared_components_` of the manager | `assignShared`, `removeSharedComponent`, `getCreatedSharedComponent` | an entity finds the object it was given; equal values are one object |
| **WorldStorage** | singletons by type id, objects by tag | `storeSingleton`, `getInstanceOf`, `store`, `load` | what was stored is found, in its world only |
| **MemoryManager**, groups, C API, type registration | tables and wrappers | | |

How they interact. `BaseJob::run` filters archetypes, increments the world
version, locks the entity manager, hands its tasks to the dispatcher, waits,
and unlocks. While it is locked every thread records structural changes in its
own `TemporalStorage`; `unlock` replays them, storage after storage.
Structural changes end in an `Archetype`, which keeps its rows dense by moving
the last one into a hole and reports every move to `locations_`; it stores the
components in a `StableLatencyComponentDataStorage`. Component hooks
(`afterAssign`, `beforeRemove`) call user code from inside these operations.
`World::update` runs the systems and then `EntityManager::update`, which
destroys what was marked.

The hard parts are the delayed commands of several threads (ids chosen ahead
of time, packs of commands, an `unlock` that may not throw), the double
indirection of rows and locations, the two buffers of the storage, the
hand-made scheduling of the dispatcher, version stamps that are compared
across components, and re-entrance through hooks. `PROJECT.json` lists each
hazard at its line with the properties that watch it.

## Modules

| Module | Models |
|---|---|
| `EntitySlots` | handles: slots, the free list threaded through them, ids chosen ahead |
| `ArchetypeTable` (extends it) | rows of the archetypes and the place of each id |
| `EntityManager` (extends it) | all operations of the manager, immediate and recorded |
| `EntityRegistry` | the abstract promise: a map from handles to components, delayed commands done one by one |
| `MCEntityManager` | dependencies for the runs |
| `StableLatencyStorage` | the storage of one column, as `Archetype` drives it |
| `Dispatcher` | workers, callers, the parallel and the serial queues |
| `MCDispatcher` | queues and jobs for the runs |
| `ComponentVersions` | `VersionStorage`: versions of chunks and archetypes |
| `TaskViews` | from matched chunks to blocks, tasks, parts and arrays |
| `JobArguments` | what a job's parameter list says of components |
| `Jobs` (extends the three) | a world's archetypes and version stamps, the jobs that are filtered by them, and the tasks of a running job |
| `MCJobs` | archetypes and jobs for the run; `TasksCoverRows` |
| `Systems` | `SystemManager`, `ASystem`, and what `World` does with them |
| `Events` | `EventManager` and its receivers |
| `WorldStorage` | world ids, singletons, tagged objects |
| `MCWorld` (extends the three) | the last three side by side |
| `ComponentMasks` | static and dynamic masks |
| `ComponentObjects` | constructors, moves, destructors and hooks in the rows |
| `SharedComponents` | infos, interning and the archetypes they select |
| `MCComponents` (extends it) | the last three side by side |
| `EntityManagerProofs`, `EntityRegistryProofs` | theorems about handles, the manager with its rows, and its refinement of the registry; the second extends the first |
| `StableLatencyStorageProofs`, `DispatcherProofs` | theorems about the storage and the dispatcher |
| `TaskViewsProofs`, `JobsProofs` | theorems about the splitting of a result into tasks, and about versions and jobs; the second extends the first |
| `WorldProofs`, `ComponentsProofs` | theorems about the order and the updates of systems, events, singletons and tagged objects; about shared components, masks, and objects with their hooks |

### Handles (`EntitySlots`)

`slots[id]` is `locations_[id].entity`. A used slot holds its own handle; a
free one holds the next free id and the version of its next owner; a slot
skipped by `locations_.resize` holds the null handle (`Gap`). `Acquire` is
`createWithOutInit`; `Release` is `releaseEntityIdUnsafe`, including the resize
it may do; `ReleaseAll` is the loop of `clearArchetype`; `Adopt` is what
`applyCommandPack` does to the slot of an entity created while locked.
`SlotsSpec` is the allocator on its own: `em_registry` shows that the manager
without `clear()` only takes these steps (`AllocatesHandles`), and the theorems
are about it. `clear()` forgets every handle, so it is not a step of
`SlotsSpec`: uniqueness is promised between two calls of it.

### The manager (`ArchetypeTable`, `EntityManager`)

A row is a handle and a function from components to values; masks are sets of
components, and the empty mask has an archetype of its own. Values are opaque:
`"default"` is a constructed one, `"raw"` storage no constructor has run on.
Each public function is one action. `unlock` and `update` are loops: each
iteration is a step and `phase` says which loop runs, so an exception in the
middle of one leaves the state the code leaves. `fault` records how the
program died: `terminate` for an exception inside the `noexcept` unlock,
`outOfBounds` for `getData` with a null component index.

`ApplyPack` is `applyCommandPack` on the longest run of commands for one
entity: it scans the commands in order (a `destroyNow` ends the scan, a
`destroy` marks, assign and remove set and clear bits), moves the entity once
to the closure of the final mask, and moves the assigned values in.

`EntityRegistry` has none of this. A recorded command is an element of a
sequence; `Apply` takes any number of leading commands for one entity and does
them one by one, with the meaning `applyCommandPackUnoptimized` gives each.
`ImplementsRegistry` maps the concrete state to it (a handle is alive when it is
valid and placed), so packing, row moves and the free list must not show.

### The storage (`StableLatencyStorage`)

One column stands for all components of a row: they share the positions, and a
lookup goes to the first buffer below `migration_pos_` and to the second
otherwise. `PushBack` is `Archetype::pushBack` followed by the construction in
place; `Remove(i)` is `internalMove` of the last row and `decrSize`; `Clear` is
`Archetype::clear`. `contents` is a history variable: what the client stored.
A lookup outside the buffer yields `"garbage"`. The case of archetypes without
components (a block of size 0, which only counts) is not modelled.

`clear(false)` sets `capacity_` to 0 and keeps the buffers. If that happens
before the first growth, the second buffer is empty, the next growth allocates
0 bytes and the next element is written outside. `EarlyClear` is FALSE where a
property needs that not to happen, and the theorems that need it name it.

### The dispatcher (`Dispatcher`)

Each thread has a place in its code (`pc`). What the code does under the mutex
is one step, with one exception: a worker that finds nothing tests `terminate`,
counts itself in `threads_waiting` and then waits, all under the mutex, while
the destructor sets `terminate` without it. So this worker is "dozing" and holds
the mutex (`MutexFree`) for a step of its own. The reads the code does without
the mutex (`threads_waiting` and `isLocked` in the spinning loops, `terminate` at
the head of the loop, `threads.size()`) are steps that do not ask for it.

`Add` begins `addJob` or `async`, and `sub` holds the steps left: the two
functions start the threads, push and notify in different orders. A job may add
jobs. A waiting caller runs jobs itself (`WaitTake`), from a locked serial queue
too, as the code does. `Destroy` sets `terminate`; then come `clear()`, which is
also an operation of its own, `notify_all` and the joins. Destroying a
dispatcher that another caller is using is left out.

Queues exist from the start and have different priorities (equal ones would be
served in order of creation). Jobs do not wait; single-thread mode is not
modelled. `accepted` and `status` are history variables.

Fairness: one strong condition for each thread over the step it is at. A thread
has only one such step at a time; strong, because another thread may hold the
mutex whenever it asks. That jobs return is part of it; that anybody calls an
operation, and spurious wakeups, are not.

### Versions and jobs (`ComponentVersions`, `TaskViews`, `JobArguments`, `Jobs`)

`versions[A]` is the `VersionStorage` of an archetype: `chunk` is
`chunk_versions_`, whose domain is as long as the vector, `all` is
`global_versions_`. `Insert`, `RemoveRow`, `Move` and `Clear` are the stamps of
`Archetype::insert`, `remove`, `externalMove` and `clear`; of the rows only their
number matters. `GetComponent` is `getComponent` of a component that is not
const; it stamps `managerVersion`, which `EndUpdate` sets. Before the first
`update()` that version is not the world's: the constructor reads it before it
is initialised. It starts as 0 or as `Garbage`, a number above all versions.

`Run` is `BaseJob::run` up to the tasks: the filter with its stamps
(`PassingArchetypes`, `PassingChunks`, `AfterFilter`), the blocks
(`FilteredArchetype`, `FilterResult`), the version after the filter, and the tasks. `RunTask` is a
worker that takes one; the tasks end in any order. The manager is locked
meanwhile, so nothing else happens. `ForEach` is the other way to run a
function, without a filter.

`unseen` says which cells were written since a job last saw their chunk;
`ChangesVisible`, `NothingSpurious` and `ShownWhatChanged` compare it with what
the stamps say. `stale` and `staleAll` name the cells whose last write carries
another version than the world's, which these properties leave out:
`getComponent` between updates, and handlers of mutable components.

`TaskViews` are pure functions. A loop of the code is a function from the loop's
variables to what one pass makes of them, done as often as it can have passes
(`Loop`): a further pass changes nothing. `Advance` is `TaskGroup::operator++`, `Parts` is
`ArchetypeGroup`, `Locate` and `Arrays` are `ArrayView`; `TasksCover` compares
all of it with `MatchedRows`, the definition of what should be visited.
`TasksCoverRows` evaluates that for every result of two archetypes within its
bounds, in the initial states only, as it depends on no variable.
`EveryRowOnce` says the same of the jobs that run.

### A world (`Systems`, `Events`, `WorldStorage`)

The hooks of a system run inside `update()`. `UpdateSystem` comes to the next
entry of `ordered_systems` and begins the hook, `HookReturns` ends it, and in
between every other call is possible. `Reorder` is `reorderSystems`: it sorts
(`Sorted` has every permutation `std::sort` may return), places one system after
another (`Placement`), and merges `update_before` only after it has copied the
infos. `throws` is a result of the calls that reorder, and what they have
changed before they throw stays. `life` becomes "broken" when the code goes on
with what no longer exists: an info that `std::remove` has moved from, or a list
that moved while `update()` walks it.

A removal by a hook leaves the list in its place when the new order is as long:
`reorderSystems` overwrites the list, and `update()` goes on at the same place of
the new order (system_manager.cpp:54-66). After a `setGroupPriority`, or with an
`update_before` that was still to be merged, that order is another one, so that
systems are skipped or updated twice. The history variable `jumped` counts for
each system the entries such removals have put behind the loop, less those they
have put ahead of it; `EachUpdatedOnce` says that the updates of a system and
these make up its entries, so it is about every `update()` that ends.

A list of `Events` has its memory and its size, because a post walks pointers
it took at its start: what an unsubscribe leaves behind the size is read. A post
is a record on a stack (`posts`), and receivers make calls, other posts
included, while they are called. `misused` becomes true when the process does
what the class does not provide for: it uses a second manager, registers a type
by name, subscribes a receiver twice, or changes a list that is being walked.
`EachReceiverOnce` is about what happens before.

`WorldStorage` has the ids of `World::nextWorldId`, and the two tables of each
world; the ids of singleton types are shared by all worlds, as the tables of
`EventManager` are, but the table is resized by another rule.

### Components (`ComponentMasks`, `ComponentObjects`, `SharedComponents`)

A dynamic mask is a record of what its words say: whether there is an array,
the flag of the tail, the size, the blocks. Each mask has a companion in
`items`, the set it stands for. Some calls on arrays store a wrong size or lose
a flag; `known` then says for which ids `has()` still answers rightly, and a mask
that is not known in full is only asked with `has()` (`Usable`), since the code
behind the other calls would read past its array.

`ComponentObjects` counts the objects in the cells of the rows (for types with a
destructor up to 2, which means too many) and the calls of `after_assign` less
those of `before_remove`. Which types have a constructor, a destructor, a default
value or hooks are constants. It follows the calls at once and the recorded
commands; one thread, since `EntityManager` has the order of the storages. Where
the code constructs an object twice or not at all, or calls a hook too often,
the action says so in `flawed`, and `LifetimesBalanced` says that nothing else
goes wrong, and that a flaw does not spread beyond the entity that gets the
object. A builder is modelled as it is used: it has arguments for types without
a constructor.

`SharedComponents` has the infos as the code has them, a mask and two parallel
lists, and archetypes by the key they are found with, which leaves out `ids_`.
`broken` follows `merge`, which does not fill `ids_`: a later assignment then
indexes with a null position.

### Side by side

`MCWorld` and `MCComponents` each hold three modules that share no state:
`part` is chosen at the start and only that part moves. This explores each
module exactly as a run of its own would. The modules that the theorems are about
(`Systems`, `Events`, `WorldStorage`, `SharedComponents`) are extended;
`ComponentMasks` and `ComponentObjects` are instances.

## Runs

Deadlock checking is off everywhere: a client may stop calling, and the bounds
end every behaviour.

| Run | Question | Bounds |
|---|---|---|
| `em_registry` | Is the manager the map it promises, with a correct handle allocator, through one thread's immediate and recorded operations? | 2 ids, versions 0..1, 1 component and value, 2 recorded commands, 1 mark |
| `em_threads` | The same with two threads recording under nested locks; is every row a living entity's, are recorded ids new, does unlock return? | 1 id, 3 commands over 2 threads, 2 locks; one thread creates |
| `em_dependencies` | With `b` needing `a`, and clears at any time: are masks closed, rows complete, locations right? | 2 ids, 2 components, 1 command |
| `em_parallel_create` | finding | two creating threads |
| `em_unlock_throws` | finding | a chain of three components |
| `storage` | Are all elements kept, found inside, and moved one at a time? | capacity 1, up to 7 elements, 2 values: three growths, every mix of removals |
| `storage_shrink` | finding | capacity 2, up to 4 elements |
| `dispatcher` | Do waits return, and only when they should; do serial jobs keep their order; are all jobs run and all workers joined? | 2 workers, 1 caller, 1 parallel job, 2 jobs of a serial queue, 1 of another that is waited for |
| `dispatcher_two` | finding | 1 worker, 2 callers, 1 job |
| `jobs` | Is a job shown every change, and only changes? Do its tasks visit every matched entity once? | versions 0..3, 1 worker, 2 jobs; archetype X with 2 chunks of 2 rows, Y without components; for `TasksCoverRows` results of two archetypes of up to 4 and 3 rows, 1 to 3 threads |
| `world` | Are systems ordered as configured, and updated once for each entry but those that a removal moves across the loop? Does a post reach its receivers once? Do worlds find what was stored in them? | 3 systems, 1 update; 2 managers, 2 types, 3 receivers, lists of 2, posts 2 deep; 2 worlds, 2 types, 1 tag |
| `components` | Are masks sets? Do constructors, destructors and hooks match the components? Are shared components found? | 2 masks of 4 bits a block, 5 ids; 2 components, 2 entities, 2 commands; 2 shared types and values, 3 pointers, 4 archetypes |

Why the bounds are enough: two ids give a free list of two slots, reuse in
either order, a gap (id 1 applied before id 0), and a swap of the last row; two
versions give a handle reused once, beyond which `Release` is disabled. Three
commands make packs of one, two and three commands, interrupted by another
entity or thread. Seven elements take a column of capacity 1 through the
capacities 1, 2 and 4. Two workers are enough for one to sleep while the other
runs a job, adds one, or unlocks a queue; two jobs of one queue for its lock to
matter.

The three systems of `world` are chosen so that one order exists until the
`update_before` of the third is merged, and then none: reordering succeeds, takes
a constraint into account late, and throws. Its constraint `Proper` ends a
behaviour at the first misuse of an event manager, after which nothing is
claimed of posts; the step into the misuse is still explored, and the other
parts never have one. Two masks with ids in the static words (0, 1), past them (2, where
the flags are) and in the second and third blocks (5, 8) are converted, grown
and combined in every mixture of representations. In `components` one type has
a constructor, a destructor and hooks, and needs the other, which has a default
value; two entities in one archetype make the last row fill a hole, and two
commands make packs of one and two. In `jobs` two chunks make the hole and the last row
lie in the same chunk or in different ones, and three versions let both jobs run
and one run again.

The variant definitions that say "Mistaken variant" in their comment are not
part of the model: each is a plausible error, and checking the property with it
in place of the definition after it must fail.

### Findings

- **A created entity can be invalid for ever** (`em_parallel_create`). Storages
  are applied in thread order. When the storage of an earlier thread holds the
  higher id, the resize makes a null slot for the lower one, and
  `applyCommandPack` (entity_manager.cpp:272) writes a slot only if it does not
  exist. The entity has a row in an archetype, jobs see it, but its handle is
  not valid. The passing runs let one thread create.
- **unlock() can throw** (`em_unlock_throws`). Removing, while locked, a
  component that another one needs changes the mask but not the archetype;
  `externalMove` to the same archetype throws (archetype.cpp:143) inside
  `noexcept`. Unlocked, the same call does nothing. The runs that record
  removals and must pass have no dependencies, or the one component that may be
  recorded with others is not removed within the bound.
- **An element can be looked up in the wrong buffer** (`storage_shrink`).
  `incSize` decides whether to migrate from `size_ >= capacity_`. After removals
  below the capacity, with some elements already moved, it increments
  `migration_pos_` over an element that lives in the second buffer.
  `KeptUnlessRecounted` and the theorem `ElementsKept` show that this is the only
  way to lose one.
- **A wait can spin for ever** (`dispatcher_two`). `wait` reads the number of
  threads once, before it compares it. A caller that waits before the workers
  exist reads 0; a job another thread adds starts them, they go to sleep, and
  `threads_waiting` is not 0 again. With one caller this cannot happen
  (`WaitsReturn`).

What the properties of `dispatcher` exclude is real too. Somebody who calls
`waitQueue` takes jobs without testing the lock, so jobs of the queue overlap and
the wait may return while one runs; `SerialInOrder` is only about queues nobody
waits for. With two callers, one may leave `waitForParallelFinish` while the
other still runs a job it took; `ParallelWaitComplete` needs a single one.
Unlocking a serial queue notifies nobody: a sleeping worker does not take the
next job, the one that unlocked does when it gets to it.

Two more conditions are stated and not run: `UnlockStaysInBounds` (assign
then remove of the same component in one pack calls `getData` with a null
index) and `NoRawComponent` (a locked create skips the constructors of
components the dependencies add). `LifetimesBalanced` has both as exceptions.

### What the code does and the properties leave out

The passing properties name their exceptions. Each of these is a thing the code
does; the models have it unless the line says otherwise.

Versions and jobs:
- `getComponent` and `markDirty` stamp the version of the last `update()` of the
  manager, which jobs have passed meanwhile. A job can miss such a change; the
  repository's README (line 139) says it is marked.
- Handlers (`RequiredComponent`, `OptionalComponent`) of mutable components are
  not counted as mutable (component_handler.hpp:132): what is written through
  them is not stamped. A component that two parameters name is stamped if the
  last one is mutable.
- `forEach` stamps one chunk past the end when the rows fill the last one (not
  followed), and throws out of a `noexcept` function for a mutable optional
  component that an archetype lacks (`terminated`).

Systems:
- `removeSystem` discards what `std::remove` returns: the last system stays,
  another one leaves an empty info behind that the reordering uses, which ends
  the behaviour of the model.
- A `removeSystem` from an `onUpdate` that changes the order rewrites the list
  under the loop, which skips or repeats other active systems.
  `EachUpdatedOnce` counts them exactly (`jumped`). In `world` they occur: with
  `jumped` left out of the property TLC finds an active system that was not
  updated.
- A call from an `onUpdate` that makes the list longer (`addSystem`, or a removal
  after an `addSystem` that threw) moves it under the loop; the behaviour ends.
- Calls from `onStart`, and from the hooks of the other transitions, are not
  modelled. After a removal from `onStart` the loop's reference to the system may
  name another one (system_manager.cpp:58).
- `update_before` takes effect one reordering late, and may then make one throw
  that has nothing to do with it. A throw in `init` leaves `was_init` set.
- `setGroupPriority` does not reorder. `destroy()` checks no state, and the
  destructor reaches only systems that are ordered.
- `World::init` sets the version to 0 at any time.

Events and worlds:
- A second manager can be used without a list for a type another one
  registered. Registering can shorten a table.
- Who unsubscribes during a post makes it skip a receiver and call the last one
  twice; a receiver subscribed twice and destroyed leaves a pointer behind.
- Ids of destroyed worlds are never used again, as nothing fills
  `used_world_ids`, and an id given explicitly is not reserved.

Masks:
- Copies of an array and `inverse()` store its size as `2n + 1`; an assignment to
  a longer array clears the flag that there is one.
- `inverse()` of static masks does not change the tail. `subtract` with a
  shorter array loses ids the other one has.

Objects:
- A locked create does not construct the components dependencies add (README
  line 252 says they are added). A locked assign by id does not apply the
  `default_value`. Locked assigns with arguments and builders call
  `after_assign` twice.
- `applyCommandPack` moves objects into cells that hold one already.
- A builder on an existing entity constructs what the move has constructed.
- `clear()` calls no `before_remove`. `insert` does not apply the
  `default_value` to a type that also has `after_assign`.
- The destructor of `TemporalStorage` looks for objects at `kCreateEntity` where
  they are at `kAssign`, and so leaks them (not modelled).

Entities:
- `removeComponent<T>` tests the handle; the overload by `ComponentId`
  (entity_manager.cpp:179) does not. `RemoveComponent` is the template; the
  overload with a dead handle is not modelled.

Tags:
- `ObjectTag::fromStr` of a literal hashes its terminating NUL too, of a
  `std::string` it does not (world_storage.hpp:20, 24), so one text has two tags.
  The members of `Strings` are what is hashed: these would be two of them.

Shared components:
- `SharedComponentsInfo::merge` leaves out the ids of the other info.
- `create<>` makes objects that are not kept for others to find.
- `assignShared` and `removeSharedComponent` do not look at the lock.

## Proofs

`EntityManagerProofs` begins with the handle allocator, from `BoundsAssumption`
(positive bounds), for every number of entities and versions:

- `InvariantHolds`: `SlotsInv` is inductive. `FreeListInv` says that *some*
  function lists the free slots; each lemma (`AcquireOK`, `ReleaseOK`,
  `ReleaseAllOK`, `AdoptOK`) builds the new list from the old one. It needs the
  types and `TailIsNull` (slots beyond the end are null), or `Adopt` and
  `Release` beyond the end could resurrect an old entry.
- `FreeListCorrect` and `HandlesNeverReused` follow; the second from
  `DeadStaysDeadOK`, one case per action, where the versions in free slots are
  those of the next owner.

`StableLatencyStorageProofs`, from `StorageAssumption`, for every capacity and
size:

- `PositionsInv` is inductive. Its core is the last conjunct: while migrating,
  `migration_pos_ + size_ <= 2 * capacity_`, as many insertions are left as
  elements to move. `StorageTyped` and `MigrationEndsInTime` follow.
- `RoomInv` adds what the buffers hold and needs `~EarlyClear`; with it
  `LookupsInBounds` and `ElementsKept` are proved.
- `LatencyIsStable`: the set of elements that change buffer is empty or a
  singleton.

`DispatcherProofs`, from `DispatcherAssumption`, for any workers, callers,
queues and jobs:

- `TypeCorrect` says, beyond the types, that `threads_waiting` is the number of
  sleeping workers. `JobsHaveOnePlace`: a job is with the thread that is to push
  it, in its queue, or with the one thread that runs it.
- `SerialOrder` rests on `Ordered`: of the jobs accepted by a queue a prefix was
  taken, all of it is done but perhaps the last, only the thread that holds the
  queue's lock may run that one, and the rest still is in the queue.
- `ParallelWait` is proved for one caller. `wait` returns when it has read a
  number of sleeping workers equal to a number of threads it read before; the
  invariant `CallerWaits` says that the second number is still right
  (`SizeRead`), and that work in the queue means somebody is awake
  (`SomeoneAwake`). With a second caller it does not hold: see below the
  findings.

Most steps move no job, so the proofs first sort the steps by what they do to
jobs (`StepKind`) and then prove each invariant for its kinds.

About the manager, `EntityManagerProofs` first has the lemmas about inserting,
removing and moving rows. Its results, from `BoundsAssumption` and `ManagerAssumption`, for any
entities, components, dependencies, threads and bounds, are:

- `ManagerInvariant`. Each conjunct is needed for another one: places and rows
  name each other (`Table`), rows hold the handle in their slot (`RowSlots`), a
  used slot has a row (`UsedPlaced`); the recorded commands name ids below
  `next_entity_id_`, and creates come in rising order, by creators only, each
  for its own id (`Recorded`), so that the first command of a pack for a new
  entity is its create; what is to be created has neither a handle nor a row
  (`PendingFresh`); and commands exist only under a lock or in `unlock`
  (`Phases`).
- From it `ManagerTyped`, `PlacesAlwaysAgree`, `RowsAlwaysComplete`,
  `MasksAlwaysClosed`, `FreeListKept` and `LockedIdsFresh` follow. Every action
  is shown to be one of a few effects on slots and rows (`StepEffect`), which
  is what the next results use.
- `ManagerAllocates` and `ManagerReusesNoHandle` assume `~WithClear`: `clear()`
  restarts ids and versions, so handles do come again after it.
- `UnlockIsNoexcept` assumes that no component has dependencies. With them the
  statement is false (`em_unlock_throws`).
- `RowsAlwaysAlive` assumes one creating thread (`OneCreator`). Then recorded
  creates are for ids that `locations_` does not reach yet, in order (`Ahead`),
  so that no resize passes one over. With two it is false (`em_parallel_create`).

`EntityRegistryProofs`: `ManagerImplementsRegistry`, the refinement, with the
same three assumptions (one creator, no dependencies, no `clear()`). The
immediate operations change the row of one entity, and what the client sees of
it is read off that row. For `applyCommandPack` the meaning of a pack, one move
to the final mask and then the values, is compared with the commands done one by
one, by induction over the commands of the pack; the step says what
`FinalMask` and the marks are after each command. That marked handles were
issued (`MarkedIssued`) is an invariant of its own. The proof showed that the
guards of the `CASE` in `EntityRegistry!Effect` overlapped (a create for an
entity that exists), where TLC takes the first; they are now disjoint.
Dependencies are left out because `unlock` then gives and drops components
that no command names; `em_dependencies` has them and claims the invariants only.

`JobsProofs`, from `ArchetypeAssumption` and `ArgsAssumption` (archetypes and
parameters are given as sequences, chunks hold rows), for any archetypes, chunk
sizes, jobs, parameters and versions:

- `JobsInvariant`. The argument is about cells, an archetype, a chunk and a
  component: a step leaves the cell alone, stamps it with the world's version
  and lets the jobs that check it see it, or leaves it stale (`CellStep`).
  `CellsKeep` shows that this is enough, and one lemma per operation that it is
  so. `StampsKnown` (only a stale stamp is later than the world's version) is
  what `NothingSpurious` needs of a job that notes the world's version.
- `JobsTyped`, `NoChangeLost` and `NoSpuriousRun` follow.
- `JobShownChanges`: what a job had to see passes its filter (`UnseenPasses`),
  and what passes is in the result, which has a positive total (`FilterFinds`),
  so that the job runs. This goes through the two scans of the filter, over the
  chunks of an archetype, which join neighbours to blocks, and over the
  archetypes.

`TaskViewsProofs` needs no assumption on a constant; its theorem,
`TasksCoverAlways`, is about any sequence of filtered archetypes whose blocks are
not empty, lie in the archetype and rise (`Result`), and any positive number of
tasks:

- A place in the result is the number of matched rows before it (`OnPlace`). Each
  loop is shown to keep the sum of the place and of what it has left to pass,
  and to end within the passes it is given. So `Advance` adds a task's size to
  its place, the parts of a task hold as many rows as it wants, `Locate` finds
  the block in which a part begins, and `Arrays` tiles the rows from there.
- `Tiles` says that arrays hold the matched rows from one place to another, in
  order. Tiles of neighbouring ranges join, from arrays to parts, from parts to
  tasks and from tasks to the whole result; the shares of the tasks add up to
  `TotalCount`.

In `JobsProofs`, `JobCallsEveryRowOnce` carries this to a job that runs: `JobInv`
says of its result that it is one a filter finds over the rows as they are
(`OfFilter`), and of `visits` that they are the calls of the tasks that are done,
whichever these are. Rows cannot change meanwhile, because every operation that
moves them waits for the job to end. When no task is left, the calls of all tasks
are those of the whole result (`CallsOfTasks`), and a result has exactly the rows
of the chunks that passed (`InBlocksInResult`). `SplittingCovers` is
`TasksCoverAlways` for the results that the run enumerates.

The recursive functions in these proofs walk finite positions. Their values are
described by lemmas proved from the least position at which a claim fails
(`LeastNat`, `Upto`, `Recursion` in `TaskViewsProofs`); the library's theorems for
induction and recursive definitions take operators as parameters and cannot be
used.

The first part of `WorldProofs`, from `SystemsAssumption` (the types of names and
configurations), for any systems, names, constraints, groups and priorities:

- What one reordering computes is described first (`InOrder`): every place has
  the first system of the sorted list that was left and whose `update_after` was
  placed. It goes from the rounds of the loop (`PlacementInOrder`) to what follows
  for systems of different names (`OrderFacts`).
- `OrderInvariant`. `update_before` counts only when it was merged into the
  `update_after` of the other system before the infos are copied. So the
  invariant says of the systems that were merged that their infos still have
  their `update_before` (`Known`), and that whoever it names knows (`Paired`);
  and that nothing waits to be merged before `init()`, which is why its new
  configurations cannot break this. `OrderAlwaysRespected` and
  `PriorityAlwaysRespected` follow; the sort may return any sorted permutation.
- `LoopInvariant`. A system that is owed an update has had one for each of its
  entries that are passed, less `jumped` (`UpToDate`). Most calls from hooks leave
  the order alone or break the loop (`LoopStays`). A removal may change the order
  (`LoopRemoves`): the entries it has passed are then counted in the new order,
  and `jumped` is the difference. The order never gets shorter, so that a running
  hook keeps a place in it (`HookKept`, `SystemsTyped`). `UpdatedOnce` follows. It
  covers every `update()` that ends, and so none that a hook has broken.

The proof of `UpdatedOnce` found a case the model had missed: a removal from
within an update can make the ordered list longer, by what an `addSystem` that
threw had left, and so move it under the loop. `RemoveSystem` has it now.

The second part of `WorldProofs`, from `EventsAssumption` (every receiver has a
type; "nobody" is no manager, receiver or list), for any managers, types,
receivers and bounds:

- `EventsInvariant` has two parts. `Shapes` holds whatever is called: ids stay
  apart, and what lists have in use are receivers, within their memory
  (`EventsTyped`). `Right` holds until the class is misused. That a post calls
  the receivers it should is not inductive by itself: `post` indexes the table
  with an id that another function, for another type or manager, may have given
  out, and `registerEventType` cuts a table that is longer than the id. What
  excludes both is that the one manager in use has a list for *every* id
  (`TableHolds`), so that a new id is always the one behind its last list.
- `PostRight` says of each post on the stack that what it has called is the
  beginning of the list it walks, whose size is still the end it took. A call
  from a receiver may add ids and change other lists, but by `Untouched` not this
  one (`PostsKept`): a subscription to it would be a misuse, and so would an
  unsubscription, unless the receiver was not in it.
- `ReceiversCalledOnce` is `EachReceiverOnce`: a post ends behind the last entry,
  and a list without repetitions is as long as the set it holds.

The third part of `WorldProofs`, from `KeysAssumption` (types and tags are different keys of
the history `stored`), for any worlds, types, tags and checksums:

- `StorageInvariant`. The ids of singleton types are shared by all worlds, but a
  world's table is only as long as that world needed. The invariant therefore
  says of every type and world what the entry means, whether the table reaches
  it or not (`StorageEntries`): it is what was stored last, or nothing was. Any world
  may register a type, at any time, for a table of another one (`TypesWith`).
- `WorldsFindTheirs`: so a world finds what was stored in it, and nothing of
  another. For tags it says so of strings whose checksum no other string has,
  as the property does. Worlds with default ids have different ones.

`WorldAlwaysTyped` puts the three parts together: a step of `MCWorld` is a step of
one of them in which the variables of the others stay (`PartsStep`).

The first part of `ComponentsProofs`, from `SharedAssumption`, for any types,
values, entities and archetypes:

- `SharedInvariant`. An archetype is found by a key that has the mask and the
  objects but not the order of the types (`ids_`); the one that is found may
  have been created with other `ids_`. What excludes that is that every object
  has one type: `KeptBy` and `ListedBy` say that *some* function gives the type
  of each object, in the lists of kept objects and in the infos of all
  archetypes, so that the same objects in the same order have the same types in
  the same order (`SameIds`). Each call extends this function by the objects it
  makes (`Extends`).
- `SharedAlwaysFound`: entities have the shared components they were given and,
  until infos were merged, find the very objects; kept objects with equal values
  are one. What was merged has objects without types (see above), and is left
  out of the second claim.

The second part of `ComponentsProofs`, from `MasksAssumption` (a static mask has
bits and flags, the ids that fit into it occur, ids are natural numbers), for
blocks of any width, arrays of any granularity, any masks and ids:

- `MaskInv` says of a mask of which everything is known that it stands for its
  set (`Means`): an id is in the set iff its bit is in its block, and what is
  past the array is not in the set. This is stronger than `MasksAreSets`, which
  asks about the ids that occur only: an operation on whole blocks also reads
  the other bits. Of a mask whose size was written one bit too high it says
  only that has() is right for `known` (`Good`, `PartGood`).
- Each operation keeps it: bits and longer arrays (`SetMeans`), copies,
  assignments, `inverse()`, which leaves a static mask right for the ids that
  fit, and `combineWith()`, whose difference of a longer array has lost blocks
  (`CombineGood`).
- `MasksAreAlwaysSets`: the questions about whole masks then follow block by block
  (`BlocksWithin`), also between masks of different representations; the count
  by a bijection between bits and ids.

The third part, from `ObjectsAssumption` (a type with a destructor has a
constructor, a dependency of a dependency is one), for any component types,
dependencies, numbers of entities and of commands:

- `ObjectsInv`. `LifetimesBalanced` alone is not inductive: it is silent on what
  is flawed, and a flaw is forgotten when its component goes. So the invariant
  says that the hooks of a component an entity lacks count nothing even if it
  was flawed (`Told`), that an entity has one row (`OneRow`), and that an entity
  a recorded command will create has none, and is created once
  (`CommandsRight`).
- Rows change by one row more (`RowAdded`) and one less (`RowTaken`): the row of
  the last entity is assigned into the gap, so that what is wrong with the object
  there passes to that entity (`Passed`), and nothing else. What a
  constructor was not called for and what is constructed in place afterwards
  must be the same components, or flawed (`Fits`, `BuiltRight`); this is shown
  of each call, and of `applyCommandPack` for every pack of commands, whatever
  its order (`PackFits`), where the last command for a component decides the
  mask (`FinalMaskIs`).
- `ObjectsAlwaysBalanced` follows: what is not flawed is right. It says nothing of
  the flaws, which are listed above.

Only model-checked so far:
- Liveness of the dispatcher (`WaitsReturn` and the rest), which with ENABLED
  is out of this prover's reach. All parts but the dispatcher are called, and a
  caller may stop: they have no liveness properties.

## Not modelled

- Hooks that call the manager again. The code does not say which calls it
  allows there: references into `locations_` and iterators of
  `marked_for_delete_` are kept across hooks, so the outcome depends on
  reallocation.
- The allocator behind recorded values (addresses and alignment only), and the
  memory manager.
- The loop of `getExtraComponents`, whose result, the closure, the models use;
  adding a dependency when entities exist.
- The registration of component types, a table behind a mutex.
- The splitting of `Dispatcher::parallelFor`; its single-thread mode, in which
  a job is simply called; jobs that wait.
- Filters that jobs add by overriding `extraArchetypeFilterCheck` and
  `extraChunkFilterCheck`.
- `EntityGroup`, the C API, the add and remove events: wrappers without state
  of their own. The component storages the library does not use.

Ids and versions do not wrap: the code's limits are 2^30 and 2^24, the model's
are bounds in the guards.

## Plan

Done: all modules named above. Proved: handles, component storage, the
dispatcher's safety, the manager and its refinement, versions and filters, task
splitting and the jobs that run, world storage, systems, events, shared
components, masks, objects and hook calls, and so every safety property that a
passing run checks.

Left, in this order:

1. The three views of an archetype (places, objects, versions) composed.
2. The loop of `getExtraComponents` against the least closed superset.
3. Calls from hooks, as far as they are defined.
