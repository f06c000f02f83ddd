-------------------------------- MODULE Jobs --------------------------------
(***************************************************************************)
(* Jobs over the archetypes of one world, and the component versions they  *)
(* are filtered by.  BaseJob::run asks every archetype, then every chunk,  *)
(* whether a component the job checks was written since the job last ran,  *)
(* stamps the components the job writes, splits the matched entities into  *)
(* tasks and runs them while the EntityManager is locked.                  *)
(*                                                                         *)
(* Versions are stamped by insertions, removals and moves of entities, by  *)
(* jobs and forEach, and by getComponent; all but the last use the world's *)
(* version, getComponent the one the EntityManager last noted in update(). *)
(***************************************************************************)
EXTENDS ComponentVersions, TaskViews, JobArguments

CONSTANTS
    Archetypes,   \* archetypes of the world, in a sequence (their index order)
    Comps,        \* Comps[A]: components of archetype A
    ChunkSize,    \* ChunkSize[A]: rows per version chunk
    MaxRows,      \* MaxRows[A]: bound on the rows of A
    JobNames,     \* BaseJob objects
    Args,         \* Args[j]: parameters of the job's function
    Check,        \* Check[j]: checkMask() of the job
    Functions,    \* parameter lists of functions given to forEach
    Workers,      \* threadCount() of the dispatcher
    MaxVersion,   \* bound on the world's version
    Garbage       \* world_version_ of the manager before the first update()

Arch == {Archetypes[i] : i \in DOMAIN Archetypes}
AllComps == UNION {Comps[A] : A \in Arch}

ASSUME ArchetypeAssumption == Archetypes \in Seq(Arch)
ASSUME ChunkAssumption == \A A \in Arch : ChunkSize[A] \in Nat \ {0} /\ MaxRows[A] \in Nat
ASSUME ArgsAssumption ==
    \A j \in JobNames : Len(Args[j]) \in Nat /\ DOMAIN Args[j] = 1..Len(Args[j])
ASSUME VersionAssumption == MaxVersion \in Nat /\ Garbage \in Nat /\ Workers \in Nat

VARIABLES
    version,         \* World::version_
    managerVersion,  \* EntityManager::world_version_
    updating,        \* inside World::update, before entities().update()
    rows,            \* rows[A]: Archetype::size()
    versions,        \* versions[A]: its VersionStorage
    last,            \* last[j]: last_update_version_
    job,             \* the running job: [name, result, tasks, left], or NoJob
    visits,          \* calls of the running job: [row, index] with global index
    unseen,          \* ghost: <<j, A, chunk, c>>, written since j last saw it
    stale,           \* ghost: <<A, chunk, c>> whose last write is not stamped
                     \* with the version it happened at
    staleAll,        \* ghost: <<A, c>>, the same for the archetype's version
    terminated       \* std::terminate was called

stamps == <<versions, unseen, stale, staleAll>>
vars == <<version, managerVersion, updating, rows, last, job, visits, stamps, terminated>>

NoJob == [name |-> "none"]
Idle == job = NoJob /\ ~terminated

Chunks(A) == {ChunkAt(r, ChunkSize[A]) : r \in 0..(rows[A] - 1)}
Matches(A, mask) == mask \subseteq Comps[A]

(* Cells are <<chunk, component>> of an archetype.                         *)
CellsOf(A, ks) == ks \X Comps[A]

(* The jobs that check c in archetype A.                                   *)
Watchers == [A \in Arch |-> [c \in Comps[A] |->
    {j \in JobNames : Matches(A, ComponentMask(Args[j])) /\ c \in Check[j]}]]
Unseen(A, cells) == UNION {{<<j, A, x[1], x[2]>> : j \in Watchers[A][x[2]]} : x \in cells}
Cells(A, cells) == {<<A, x[1], x[2]>> : x \in cells}

(* Cells of A written and stamped as they should be, when n rows are left. *)
Written(A, cells, n) ==
    LET gone(B, k) == B = A /\ k * ChunkSize[A] >= n
    IN  /\ unseen' = {u \in unseen \cup Unseen(A, cells) : ~gone(u[2], u[3])}
        /\ stale' = {s \in stale \ Cells(A, cells) : ~gone(s[1], s[2])}
        /\ staleAll' = staleAll \ {<<A, x[2]>> : x \in cells}

-----------------------------------------------------------------------------
Init ==
    /\ version = 0
    /\ managerVersion \in {0, Garbage}
    /\ updating = FALSE
    /\ rows = [A \in Arch |-> 0]
    /\ versions = [A \in Arch |-> NoVersions(Comps[A], Never)]
    /\ last = [j \in JobNames |-> Never]
    /\ job = NoJob
    /\ visits = {}
    /\ unseen = {}
    /\ stale = {}
    /\ staleAll = {}
    /\ terminated = FALSE

(* World::update up to the systems: a new version.                         *)
BeginUpdate ==
    /\ Idle /\ ~updating /\ version < MaxVersion
    /\ version' = version + 1
    /\ updating' = TRUE
    /\ UNCHANGED <<managerVersion, rows, last, job, visits, stamps, terminated>>

(* entities().update() at its end; systems have run in between.            *)
EndUpdate ==
    /\ Idle /\ updating
    /\ managerVersion' = version
    /\ updating' = FALSE
    /\ UNCHANGED <<version, rows, last, job, visits, stamps, terminated>>

-----------------------------------------------------------------------------
(* Structural changes.  A new row stamps its chunk.                        *)
Pushed(A) == Emplace(versions[A], version, ChunkAt(rows[A], ChunkSize[A]))

(* Mistaken variant: only the chunk that loses its last row is stamped.    *)
PulledFromLast(A, r) == SetChunk(versions[A], version, ChunkAt(rows[A] - 1, ChunkSize[A]))

(* Archetype::remove stamps the chunk of the last row and, when the last   *)
(* row fills the hole (internalMove), the chunk of the hole.               *)
Pulled(A, r) ==
    SetChunk(SetChunk(versions[A], version, ChunkAt(rows[A] - 1, ChunkSize[A])),
             version, ChunkAt(r, ChunkSize[A]))

PulledCells(A, r) == CellsOf(A, {ChunkAt(rows[A] - 1, ChunkSize[A]), ChunkAt(r, ChunkSize[A])})

Insert(A) ==
    /\ Idle /\ rows[A] < MaxRows[A]
    /\ rows' = [rows EXCEPT ![A] = @ + 1]
    /\ versions' = [versions EXCEPT ![A] = Pushed(A)]
    /\ Written(A, CellsOf(A, {ChunkAt(rows[A], ChunkSize[A])}), rows[A] + 1)
    /\ UNCHANGED <<version, managerVersion, updating, last, job, visits, terminated>>

RemoveRow(A, r) ==
    /\ Idle
    /\ rows' = [rows EXCEPT ![A] = @ - 1]
    /\ versions' = [versions EXCEPT ![A] = Pulled(A, r)]
    /\ Written(A, PulledCells(A, r), rows[A] - 1)
    /\ UNCHANGED <<version, managerVersion, updating, last, job, visits, terminated>>

(* externalMove: pushed into B, then removed from A.                       *)
Move(A, r, B) ==
    /\ Idle /\ A # B /\ rows[B] < MaxRows[B]
    /\ rows' = [rows EXCEPT ![A] = @ - 1, ![B] = @ + 1]
    /\ versions' = [versions EXCEPT ![A] = Pulled(A, r), ![B] = Pushed(B)]
    /\ LET intoB == CellsOf(B, {ChunkAt(rows[B], ChunkSize[B])})
           fromA == PulledCells(A, r)
           gone(C, k) == C = A /\ k * ChunkSize[A] >= rows[A] - 1
       IN  /\ unseen' = {u \in unseen \cup Unseen(A, fromA) \cup Unseen(B, intoB) : ~gone(u[2], u[3])}
           /\ stale' = {s \in stale \ (Cells(A, fromA) \cup Cells(B, intoB)) : ~gone(s[1], s[2])}
           /\ staleAll' = staleAll \ ({A, B} \X AllComps)
    /\ UNCHANGED <<version, managerVersion, updating, last, job, visits, terminated>>

(* Archetype::clear drops the rows and leaves the versions.                *)
Clear(A) ==
    /\ Idle /\ rows[A] > 0
    /\ rows' = [rows EXCEPT ![A] = 0]
    /\ unseen' = {u \in unseen : u[2] # A}
    /\ stale' = {s \in stale : s[1] # A}
    /\ UNCHANGED <<version, managerVersion, updating, versions, staleAll, last, job, visits, terminated>>

-----------------------------------------------------------------------------
(* getComponent of a component that is not const: marked as written at the *)
(* version the manager knows, for the chunk and for the archetype.         *)
GetComponent(A, r, c) ==
    /\ Idle
    /\ LET k == ChunkAt(r, ChunkSize[A])
       IN  /\ versions' = [versions EXCEPT ![A] = SetOne(@, managerVersion, k, c)]
           /\ unseen' = unseen \cup Unseen(A, {<<k, c>>})
           /\ stale' = IF managerVersion = version THEN stale \ {<<A, k, c>>}
                                                   ELSE stale \cup {<<A, k, c>>}
           /\ staleAll' = IF managerVersion = version THEN staleAll \ {<<A, c>>}
                                                      ELSE staleAll \cup {<<A, c>>}
    /\ UNCHANGED <<version, managerVersion, updating, rows, last, job, visits, terminated>>

(* The chunks updateVersion goes through: size / chunk size + 1 of them,   *)
(* one too many when the rows fill their last chunk.  Unless the archetype *)
(* has had more rows that write is past the end of chunk_versions_, into   *)
(* memory this model does not follow.                                      *)
ForEachChunks(A) == 0..(rows[A] \div ChunkSize[A])

(* Does forEach with these parameters ask for the version of a component A *)
(* lacks?  A mutable optional one has no index then, and the test of the   *)
(* enabled mask throws out of a noexcept function.                         *)
AsksAbsent(args, A) == ~(ForEachMask(args) \subseteq Comps[A])

(* forEach in the current thread (SimpleTask::run, and the fast path of    *)
(* NonTemplateJob): every matching archetype is stamped whole, without a   *)
(* filter and without a new world version; the function may write all rows.*)
ForEach(args) ==
    LET S == {A \in Arch : rows[A] > 0 /\ Matches(A, ComponentMask(args))}
        set(A) == ForEachMask(args) \cap Comps[A]
        inside(A) == ForEachChunks(A) \cap DOMAIN versions[A].chunk
        written(A) == Chunks(A) \X (Writes(args) \cap Comps[A])
        missed(A) == Chunks(A) \X ((Writes(args) \cap Comps[A]) \ set(A))
    IN  /\ Idle /\ S # {}
        /\ versions' = [A \in Arch |-> IF A \notin S THEN versions[A] ELSE
                          [chunk |-> [k \in DOMAIN versions[A].chunk |->
                                        IF k \in inside(A) THEN Stamped(versions[A].chunk[k], version, set(A))
                                                           ELSE versions[A].chunk[k]],
                           all |-> Stamped(versions[A].all, version, set(A))]]
        /\ unseen' = unseen \cup UNION {Unseen(A, written(A)) : A \in S}
        /\ stale' = (stale \ UNION {Cells(A, inside(A) \X set(A)) : A \in S})
                        \cup UNION {Cells(A, missed(A)) : A \in S}
        /\ staleAll' = staleAll \ UNION {{A} \X set(A) : A \in S}
        /\ terminated' = \E A \in S : AsksAbsent(args, A)
        /\ UNCHANGED <<version, managerVersion, updating, rows, last, job, visits>>

-----------------------------------------------------------------------------
(* applyFilter.  The archetypes a job looks into, then their chunks.       *)
JobMask == [j \in JobNames |-> ComponentMask(Args[j])]
PassingArchetypes(j) ==
    {A \in Arch : /\ rows[A] > 0
                  /\ Matches(A, JobMask[j])
                  /\ ChangedSince(versions[A].all, last[j], Check[j] \cap Comps[A])}

Passes(j, A, k) == ChangedSince(versions[A].chunk[k], last[j], Check[j] \cap Comps[A])
PassingChunks(j, A) == IF A \in PassingArchetypes(j) THEN {k \in Chunks(A) : Passes(j, A, k)} ELSE {}

(* One element of filter_result_.  cut is where the archetype's storage    *)
(* changes buffers, known to the storage only.                             *)
FilteredArchetype(j, A, cut) ==
    [arch |-> A, size |-> rows[A], cut |-> cut,
     blocks |-> Blocks([k \in Chunks(A) |-> k \in PassingChunks(j, A)], rows[A], ChunkSize[A])]

(* filter_result_: the archetypes with a matched entity, in their order.   *)
FilterResult(j, cut) ==
    LET found[i \in 0..Len(Archetypes)] ==
          IF i = 0 THEN <<>>
          ELSE LET before == found[i - 1]
                   item == FilteredArchetype(j, Archetypes[i], cut[Archetypes[i]])
               IN  IF EntitiesCount(item) > 0 THEN Append(before, item) ELSE before
    IN  found[Len(Archetypes)]

(* Mistaken variant: the version the tasks will run under.                 *)
SetVersionOfTasks == version + 1

(* The version of the filter's FilterSetParam.                             *)
SetVersion == version

(* What the filter leaves: the update mask stamped in passing archetypes   *)
(* and passing chunks, with the world's version.                           *)
AfterFilter(j) ==
    LET set(A) == UpdateMask(Args[j]) \cap Comps[A]
    IN  [A \in Arch |-> IF A \notin PassingArchetypes(j) THEN versions[A] ELSE
            [chunk |-> [k \in DOMAIN versions[A].chunk |->
                          IF k \in PassingChunks(j, A) THEN Stamped(versions[A].chunk[k], SetVersion, set(A))
                                                       ELSE versions[A].chunk[k]],
             all |-> Stamped(versions[A].all, SetVersion, set(A))]]

(* The job itself is shown the matched cells; other jobs get to see what   *)
(* it writes.  Its own writes are stamped with its last_update_version_.   *)
(* What a stale stamp hides from a run that finds something else is lost   *)
(* to the job, whose last_update_version_ moves past it.                   *)
SeenAndWritten(j) ==
    LET seen == UNION {{<<j, A, k, c>> : k \in PassingChunks(j, A), c \in Comps[A]} : A \in Arch}
        writes(A) == Unseen(A, PassingChunks(j, A) \X (Writes(Args[j]) \cap Comps[A]))
        wrote == {u \in UNION {writes(A) : A \in Arch} : u[1] # j}
        set(A) == UpdateMask(Args[j]) \cap Comps[A]
        missed(A) == (Writes(Args[j]) \cap Comps[A]) \ set(A)
        passing == PassingArchetypes(j)
        finds == \E A \in Arch : PassingChunks(j, A) # {}
        hidden == {u \in unseen : /\ finds /\ u[1] = j
                                  /\ <<u[2], u[3], u[4]>> \in stale \/ <<u[2], u[4]>> \in staleAll}
    IN  /\ unseen' = (unseen \ (seen \cup hidden)) \cup wrote
        /\ stale' = (stale \ UNION {Cells(A, PassingChunks(j, A) \X set(A)) : A \in Arch})
                        \cup UNION {Cells(A, PassingChunks(j, A) \X missed(A)) : A \in Arch}
        /\ staleAll' = staleAll \ UNION {{A} \X set(A) : A \in passing}

(* Mistaken variant: the version noted is the one after the increment.     *)
NoteAfterIncrement(j) == last' = [last EXCEPT ![j] = version + 1]

(* last_update_version_ is the version the filter compared and stamped at. *)
NoteVersion(j) == last' = [last EXCEPT ![j] = version]

(* BaseJob::run up to the tasks.  Without a matched entity only the filter *)
(* is applied; otherwise the version moves on before the tasks start, and  *)
(* the manager is locked.  One task unless the mode is kParallel.          *)
Run(j, parallel) ==
    /\ Idle
    /\ versions' = AfterFilter(j)
    /\ SeenAndWritten(j)
    /\ \E cut \in [Arch -> {0, 1}] :
          LET result == FilterResult(j, cut)
              total == TotalCount(result)
              numTasks == IF parallel THEN TaskCount(total, Workers) ELSE 1
          IN  /\ \A A \in Arch : cut[A] = 1 => rows[A] > 1
              /\ IF total = 0
                 THEN UNCHANGED <<version, last, job>>
                 ELSE /\ version < MaxVersion
                      /\ NoteVersion(j)
                      /\ version' = version + 1
                      /\ job' = [name |-> j, result |-> result, tasks |-> Tasks(result, numTasks),
                                 left |-> 0..(numTasks - 1)]
    /\ UNCHANGED <<managerVersion, updating, rows, visits, terminated>>

(* A worker runs one task: singleTask calls the function for every row, and*)
(* counts entity_index on from the task's first.                           *)
RunTask(i) ==
    /\ job # NoJob /\ i \in job.left
    /\ LET task == job.tasks[i]
           seen == TaskRows(job.result, task)
       IN  visits' = visits \cup {[row |-> seen[k], index |-> task.first + k - 1] : k \in DOMAIN seen}
    /\ job' = [job EXCEPT !.left = @ \ {i}]
    /\ UNCHANGED <<version, managerVersion, updating, rows, last, stamps, terminated>>

(* waitForParallelFinish has returned: unlock.                             *)
EndJob ==
    /\ job # NoJob /\ job.left = {}
    /\ job' = NoJob
    /\ visits' = {}
    /\ UNCHANGED <<version, managerVersion, updating, rows, last, stamps, terminated>>

RowAction(A) ==
    \/ Insert(A)
    \/ Clear(A)
    \/ \E r \in 0..(rows[A] - 1) :
          \/ RemoveRow(A, r)
          \/ \E B \in Arch : Move(A, r, B)
          \/ \E c \in Comps[A] : GetComponent(A, r, c)

Next ==
    \/ BeginUpdate
    \/ EndUpdate
    \/ \E A \in Arch : RowAction(A)
    \/ \E f \in Functions : ForEach(f)
    \/ \E j \in JobNames, parallel \in BOOLEAN : Run(j, parallel)
    \/ \E i \in 0..Workers : RunTask(i)
    \/ EndJob

Spec == Init /\ [][Next]_vars

-----------------------------------------------------------------------------
CellSet == UNION {UNION {{<<A, k, c>> : k \in 0..MaxRows[A], c \in Comps[A]}} : A \in Arch}

(* Types, and VersionStorage has versions for every chunk that holds rows, *)
(* although emplace resizes it to the chunk of the new row each time.      *)
TypeOK ==
    /\ version \in 0..MaxVersion
    /\ managerVersion \in 0..MaxVersion \cup {Garbage}
    /\ updating \in BOOLEAN
    /\ \A A \in Arch :
          /\ rows[A] \in 0..MaxRows[A]
          /\ Chunks(A) \subseteq DOMAIN versions[A].chunk
          /\ DOMAIN versions[A].all = Comps[A]
          /\ \A k \in DOMAIN versions[A].chunk :
                versions[A].chunk[k] \in [Comps[A] -> 0..MaxVersion \cup {Garbage}]
    /\ \A j \in JobNames : last[j] = Never \/ last[j] \in 0..(version - 1)
    /\ stale \subseteq CellSet
    /\ terminated \in BOOLEAN

(* No change is lost: a component written since a job last saw its chunk   *)
(* has a newer version than the job's last_update_version_, in the chunk   *)
(* and in the archetype, so that the job's filter will let the chunk pass. *)
(* The exceptions are named: the last write carried another version than   *)
(* the world's (getComponent between update() calls) or none (a handler of *)
(* a component that is not const).  This is why run() raises the version   *)
(* before the tasks, and why the filter stamps with the one before.        *)
ChangesVisible ==
    \A u \in unseen :
        LET since == last[u[1]]
        IN  \/ since = Never
            \/ <<u[2], u[3], u[4]>> \in stale
            \/ /\ versions[u[2]].chunk[u[3]][u[4]] > since
               /\ <<u[2], u[4]>> \notin staleAll => versions[u[2]].all[u[4]] > since

(* No job runs for nothing: what the filter takes for a change happened    *)
(* after the job last saw the chunk, and a job does not wake itself by its *)
(* own writes.                                                             *)
NothingSpurious ==
    \A j \in JobNames, A \in Arch : \A k \in Chunks(A), c \in Comps[A] :
        (/\ last[j] # Never
         /\ j \in Watchers[A][c]
         /\ versions[A].chunk[k][c] > last[j]
         /\ <<A, k, c>> \notin stale)
            => <<j, A, k, c>> \in unseen

(* The chunk is in a block of the result.                                  *)
InResult(result, A, k) ==
    \E i \in DOMAIN result : result[i].arch = A /\
        \E b \in DOMAIN result[i].blocks :
            result[i].blocks[b][1] <= k * ChunkSize[A] /\ k * ChunkSize[A] < result[i].blocks[b][2]

(* Whenever a job runs its tasks go over every chunk in which something it *)
(* checks was written since it last saw that chunk, however long ago, in   *)
(* whatever order entities moved meanwhile.                                *)
ShownWhatChanged ==
    [][job = NoJob /\ job' # NoJob =>
          \A u \in unseen :
              (/\ u[1] = job'.name
               /\ <<u[2], u[3], u[4]>> \notin stale
               /\ <<u[2], u[4]>> \notin staleAll)
                  => InResult(job'.result, u[2], u[3])]_vars

(* When the last task of a job is done, the job's function was called for  *)
(* every matched entity once, none outside the archetype, and entity_index *)
(* numbered the calls without gaps, in whatever order workers took tasks.  *)
EveryRowOnce ==
    job # NoJob /\ job.left = {} =>
        LET total == TotalCount(job.result)
            arch(i) == job.result[i].arch
            places == UNION {{i} \X (0..(rows[arch(i)] - 1)) : i \in DOMAIN job.result}
            matched == {x \in places : InResult(job.result, arch(x[1]), ChunkAt(x[2], ChunkSize[arch(x[1])]))}
        IN  /\ {v.row : v \in visits} = matched
            /\ {v.index : v \in visits} = 0..(total - 1)
            /\ Cardinality(visits) = total
=============================================================================
