-------------------------- MODULE ComponentObjects --------------------------
(***************************************************************************)
(* The objects in the rows of archetypes: when a component is constructed, *)
(* moved, destroyed and told of it by its hooks, by the calls that change  *)
(* entities at once and by those recorded while the manager is locked.     *)
(* Some calls construct an object twice, or not at all, or call a hook too *)
(* often: flawed says which components of which entities they reach.       *)
(* Entities are numbered in the order they are made; their handles are not *)
(* modelled here, nor are shared components, which move rows as assign     *)
(* does, or calls a hook makes.                                            *)
(***************************************************************************)
EXTENDS Integers, Sequences, FiniteSets, SequencesExt, Functions

CONSTANTS
  Components,    \* the components
  Creates,       \* those with functions.create
  Destroys,      \* those with functions.destroy
  Defaults,      \* those with a default_value
  Hooked,        \* those with functions.after_assign and before_remove
  Needs,         \* Needs[c]: the components dependencies_ adds to c
  MaxEntities,   \* bound on the entities made
  MaxCommands    \* bound on the commands recorded in a lock

(* What is assumed of the constants: a type that needs no constructor      *)
(* needs no destructor, and a dependency of a dependency is one.           *)
ObjectsAssumption ==
  /\ Destroys \subseteq Creates
  /\ Creates \cup Defaults \cup Hooked \subseteq Components
  /\ MaxEntities \in Nat /\ MaxCommands \in Nat
  /\ Needs \in [Components -> SUBSET Components]
  /\ \A c \in Components : \A d \in Needs[c] : Needs[d] \subseteq Needs[c]

VARIABLES
  rows,          \* rows[m]: the rows of the archetype of mask m, each with its
                 \* entity and the objects constructed in its cells
  made,          \* the number of entities made
  phase,         \* "unlocked", "locked", "applying", or "ended" by what the
                 \* code does not survive
  commands,      \* TemporalStorage::actions_ that are not applied yet
  hooks,         \* history: calls of after_assign less those of before_remove
  flawed         \* history: the <<entity, component>> that went wrong, as
                 \* long as the entity has the component or is in a command

vars == <<rows, made, phase, commands, hooks, flawed>>

Numbers == 1..MaxEntities
NoCalls == [c \in Components |-> 0]

Closed(mask) == mask \cup UNION {Needs[c] : c \in mask}
Archetypes == {Closed(m) : m \in SUBSET Components}

Init ==
  /\ rows = [m \in Archetypes |-> <<>>]
  /\ made = 0
  /\ phase = "unlocked"
  /\ commands = <<>>
  /\ hooks = [e \in Numbers |-> NoCalls]
  /\ flawed = {}

Exists(e) == \E m \in Archetypes : \E k \in DOMAIN rows[m] : rows[m][k].entity = e
MaskOf(e) == CHOOSE m \in Archetypes : \E k \in DOMAIN rows[m] : rows[m][k].entity = e
RowOf(e) == CHOOSE k \in DOMAIN rows[MaskOf(e)] : rows[MaskOf(e)][k].entity = e
Objects(e) == rows[MaskOf(e)][RowOf(e)].objects

-----------------------------------------------------------------------------
(* Cells.  A cell of a type with a destructor counts its objects (2 for    *)
(* more than one); of other types there is one once the cell was written.  *)

Built(c, n) == IF c \in Destroys /\ n > 1 THEN 2 ELSE 1

(* A row that insert() makes: what has a constructor or a hook is          *)
(* constructed; a default value is only copied to the others.              *)
Inserted(mask, skip) ==
  [c \in mask |-> IF c \notin skip /\ c \in Creates \cup (Defaults \ Hooked) THEN 1 ELSE 0]

(* A cell made of another one by its type's copy constructor, clone or     *)
(* move constructor: of what was never written nothing is made.            *)
MadeOf(n) == IF n > 0 THEN 1 ELSE 0

(* A row that externalMove makes of the one an entity has. *)
MovedObjects(old, mask, skip) ==
  [c \in mask |->
     CASE c \in DOMAIN old -> MadeOf(old[c])
       [] c \notin DOMAIN old /\ c \notin skip /\ c \in Creates \cup Defaults -> 1
       [] OTHER -> 0]

(* Components constructed in place afterwards, some more than once. *)
WithBuilt(objects, built) ==
  [c \in DOMAIN objects |->
     IF built[c] = 0 THEN objects[c] ELSE Built(c, objects[c] + built[c])]

Once(S) == [c \in Components |-> IF c \in S THEN 1 ELSE 0]

(* Mistaken variant: the last row is not destroyed where it was, but the   *)
(* one that is replaced is, before the last row is assigned to it.         *)
RemovedFirst(list, k) ==
  LET last == Len(list) IN
  IF k = last THEN Front(list)
  ELSE Front([list EXCEPT ![k] =
         [entity |-> list[last].entity,
          objects |-> [c \in DOMAIN list[k].objects |->
            IF c \in Destroys THEN list[k].objects[c] - 1 ELSE list[last].objects[c]]]])

(* A row after another was move assigned to it: an object is assigned to   *)
(* the object there; what has no destructor is as the other row has it.    *)
MoveAssigned(into, other) ==
  [c \in DOMAIN into |-> IF c \in Destroys THEN into[c] ELSE other[c]]

(* remove() without its hooks: the last row is assigned to row k and       *)
(* destroyed.                                                              *)
Removed(list, k) ==
  LET last == Len(list) IN
  IF k = last THEN Front(list)
  ELSE Front([list EXCEPT ![k] =
         [entity |-> list[last].entity,
          objects |-> MoveAssigned(list[k].objects, list[last].objects)]])

(* The entity of the last row gets what is wrong with row k. *)
Passed(list, k) ==
  {<<Last(list).entity, c>> : c \in {c \in Destroys : <<list[k].entity, c>> \in flawed}}

(* What of the flaws lasts. *)
Lasting(flaws) ==
  {f \in flaws : \/ \E m \in Archetypes : \E k \in DOMAIN rows'[m] :
                     rows'[m][k].entity = f[1] /\ f[2] \in m
                \/ \E i \in DOMAIN commands' : commands'[i].entity = f[1]}

(* Hook calls for e, not counted any more for what is flawed. *)
Account(e, assigned, removed, flaws) ==
  LET all == flawed \cup flaws
  IN /\ flawed' = Lasting(all)
     /\ hooks' = [hooks EXCEPT ![e] = [c \in Components |->
          IF <<e, c>> \in all \/ c \notin Hooked THEN 0
          ELSE @[c] + assigned[c] - (IF c \in removed THEN 1 ELSE 0)]]

-----------------------------------------------------------------------------
(* The steps archetypes make, as parts of actions. *)

(* insert() of the new entity e and the construction of built. *)
Insert(e, mask, skip, built, flaws) ==
  LET m == Closed(mask)
      quirk == {<<e, c>> : c \in ((m \ skip) \cap Hooked \cap Defaults) \ Creates}
      assigned == [c \in Components |->
                     built[c] + (IF c \in m \ skip THEN 1 ELSE 0)]
  IN /\ rows' = [rows EXCEPT ![m] = Append(@,
                   [entity |-> e, objects |-> WithBuilt(Inserted(m, skip), built)])]
     /\ Account(e, assigned, {}, quirk \cup flaws)

(* externalMove() of e to the archetype of mask, which must be another     *)
(* one, and the construction of built there.                               *)
ExternalMove(e, mask, skip, built, flaws) ==
  LET from == MaskOf(e)
      to == Closed(mask)
      k == RowOf(e)
      assigned == [c \in Components |->
                     built[c] + (IF c \in (to \ from) \ skip THEN 1 ELSE 0)]
  IN /\ to # from
     /\ rows' = [rows EXCEPT
          ![to] = Append(@, [entity |-> e,
                    objects |-> WithBuilt(MovedObjects(Objects(e), to, skip), built)]),
          ![from] = Removed(@, k)]
     /\ Account(e, assigned, from \ to, Passed(rows[from], k) \cup flaws)

(* remove() of e for good: every hook is called. *)
Erase(e) ==
  LET m == MaskOf(e)
      k == RowOf(e)
  IN /\ rows' = [rows EXCEPT ![m] = Removed(@, k)]
     /\ Account(e, Once({}), m, Passed(rows[m], k))

-----------------------------------------------------------------------------
(* Calls that act at once. *)

Unlocked == phase = "unlocked"
New == made + 1

Create(mask) ==
  /\ Unlocked /\ New \in Numbers
  /\ UNCHANGED <<phase, commands>>
  /\ made' = New
  /\ Insert(New, mask, {}, Once({}), {})

(* A builder's end() for a new entity: its components are not constructed  *)
(* by insert but in place, the dependencies it does not name by insert.    *)
Build(S) ==
  /\ Unlocked /\ New \in Numbers /\ S # {}
  /\ UNCHANGED <<phase, commands>>
  /\ made' = New
  /\ Insert(New, S, S, Once(S), {})

(* A builder's end() for an entity that exists: the move constructs what   *)
(* the entity had not, and each component named is constructed again.      *)
BuildOn(e, S, R) ==
  /\ Unlocked /\ Exists(e) /\ S \cup R # {} /\ S \cap R = {}
  /\ UNCHANGED <<made, phase, commands>>
  /\ ExternalMove(e, (MaskOf(e) \cup S) \ R, {}, Once(S),
                  {<<e, c>> : c \in S \cap (Destroys \cup Hooked)})

(* assign() by id; one that changes nothing throws. *)
Assign(e, c) ==
  /\ Unlocked /\ Exists(e)
  /\ UNCHANGED <<made, phase, commands>>
  /\ ExternalMove(e, MaskOf(e) \cup {c}, {}, Once({}), {})

(* assign() with arguments: the constructor is skipped and called here. *)
AssignWith(e, c) ==
  /\ Unlocked /\ Exists(e)
  /\ UNCHANGED <<made, phase, commands>>
  /\ ExternalMove(e, MaskOf(e) \cup {c}, MaskOf(e) \cup {c}, Once({c}), {})

(* removeComponent(); what a dependency adds again stays. *)
RemoveComponent(e, c) ==
  /\ Unlocked /\ Exists(e) /\ c \in MaskOf(e)
  /\ UNCHANGED <<made, phase, commands>>
  /\ ExternalMove(e, MaskOf(e) \ {c}, {}, Once({}), {})

(* clone(): every component is copied, and its clone hook takes the place  *)
(* of after_assign.                                                        *)
Clone(e) ==
  /\ Unlocked /\ New \in Numbers /\ Exists(e)
  /\ UNCHANGED <<phase, commands>>
  /\ made' = New
  /\ rows' = [rows EXCEPT ![MaskOf(e)] = Append(@,
                [entity |-> New,
                 objects |-> [c \in MaskOf(e) |-> MadeOf(Objects(e)[c])]])]
  /\ Account(New, Once(MaskOf(e)), {}, {<<New, c>> : c \in {c \in MaskOf(e) : <<e, c>> \in flawed}})

DestroyNow(e) ==
  /\ Unlocked /\ Exists(e)
  /\ UNCHANGED <<made, phase, commands>>
  /\ Erase(e)

(* Archetype::clear() of the archetypes ms, by clearArchetype() of one or  *)
(* by clear() of all: the objects are destroyed, no hook is called; the    *)
(* history of hooks begins anew.                                           *)
Clear(ms) ==
  /\ Unlocked \/ phase = "locked"
  /\ UNCHANGED <<made, phase, commands>>
  /\ rows' = [m \in Archetypes |-> IF m \in ms THEN <<>> ELSE rows[m]]
  /\ LET gone == {e \in Numbers : Exists(e) /\ MaskOf(e) \in ms}
     IN hooks' = [e \in Numbers |-> IF e \in gone THEN NoCalls ELSE hooks[e]]
  /\ flawed' = Lasting(flawed)

-----------------------------------------------------------------------------
(* Calls while the manager is locked. *)

Lock ==
  /\ Unlocked
  /\ phase' = "locked"
  /\ UNCHANGED <<rows, made, commands, hooks, flawed>>

Command(e, action, c, mask) ==
  [entity |-> e, action |-> action, component |-> c, mask |-> mask]

NoComponent == CHOOSE c \in Components : TRUE

Record(command, flaws) ==
  /\ phase = "locked" /\ Len(commands) < MaxCommands
  /\ commands' = Append(commands, command)
  /\ UNCHANGED <<rows, phase>>
  /\ Account(command.entity, Once({}), {}, flaws)

RecordCreate(mask) ==
  /\ New \in Numbers
  /\ made' = New
  /\ Record(Command(New, "create", NoComponent, mask), {})

(* assign, by id ("default"), with arguments ("given") or by a builder     *)
(* ("built"), makes an object in the storage of the commands.  By id it    *)
(* gets no default value; a builder constructs no type with a trivial      *)
(* constructor, though it has arguments; and but for assign by id the hook *)
(* is called for the object in the storage, and will be again.             *)
RecordAssign(e, c, how) ==
  /\ e <= made
  /\ Record(Command(e, "assign", c, {}),
       IF \/ how # "default" /\ c \in Hooked
          \/ how = "default" /\ c \in Defaults \ Creates
          \/ how = "built" /\ c \notin Creates
       THEN {<<e, c>>} ELSE {})
  /\ UNCHANGED made

RecordRemove(e, c) ==
  /\ e <= made
  /\ Record(Command(e, "remove", c, {}), {})
  /\ UNCHANGED made

RecordDestroyNow(e) ==
  /\ e <= made
  /\ Record(Command(e, "destroyNow", NoComponent, {}), {})
  /\ UNCHANGED made

Unlock ==
  /\ phase = "locked"
  /\ phase' = "applying"
  /\ UNCHANGED <<rows, made, commands, hooks, flawed>>

(* applyStorage takes the commands in packs of one entity. *)
PackLength ==
  CHOOSE n \in DOMAIN commands :
    /\ \A i \in 1..n : commands[i].entity = commands[1].entity
    /\ n < Len(commands) => commands[n + 1].entity # commands[1].entity

(* The last command for a component decides whether it is in the mask. *)
FinalMask(pack, initial) ==
  LET touching(c) == {i \in DOMAIN pack : /\ pack[i].action \in {"assign", "remove"}
                                          /\ pack[i].component = c}
  IN  {c \in Components : IF touching(c) = {} THEN c \in initial
                          ELSE pack[Max(touching(c))].action = "assign"}

(* What applyCommandPack lets no constructor be called for: whatever a new *)
(* entity was not created with, or all of the final mask of an old one.    *)
Skipped(pack, initial, final) ==
  IF pack[1].action = "create" THEN Components \ initial ELSE final

(* applyCommandPack.  A new entity gets no constructor called for the      *)
(* dependencies its mask leaves out.  The objects assigned are then moved  *)
(* into the cells, whether or not they hold objects already.  unlock() is  *)
(* noexcept, and a move from an archetype to itself throws; an object      *)
(* assigned that the final mask is without has no cell.                    *)
ApplyPack ==
  LET pack == SubSeq(commands, 1, PackLength)
      e == pack[1].entity
      new == pack[1].action = "create"
      initial == IF new THEN pack[1].mask ELSE MaskOf(e)
      final == FinalMask(pack, initial)
      skip == Skipped(pack, initial, final)
      times == [c \in Components |-> Cardinality({i \in DOMAIN pack :
                  pack[i].action = "assign" /\ pack[i].component = c})]
      assigned == {c \in Components : times[c] > 0}
      over == {c \in assigned : times[c] > 1 \/ c \in initial \/ (~new /\ c \notin final)}
      left == IF new THEN (Closed(final) \ initial) \ assigned ELSE {}
      flaws == {<<e, c>> : c \in over \cup left}
  IN /\ phase = "applying" /\ commands # <<>>
     /\ commands' = SubSeq(commands, PackLength + 1, Len(commands))
     /\ UNCHANGED made
     /\ \/ /\ ~new /\ ~Exists(e)
           /\ UNCHANGED <<rows, phase, hooks, flawed>>
        \/ /\ \E i \in DOMAIN pack : pack[i].action = "destroyNow"
           /\ IF new THEN UNCHANGED <<rows, hooks>> /\ flawed' = Lasting(flawed)
              ELSE Exists(e) /\ Erase(e)
           /\ UNCHANGED phase
        \/ /\ new \/ Exists(e)
           /\ \A i \in DOMAIN pack : pack[i].action # "destroyNow"
           /\ IF ~(assigned \subseteq Closed(final)) \/ (~new /\ final # initial /\ Closed(final) = initial)
              THEN phase' = "ended" /\ UNCHANGED <<rows, hooks, flawed>>
              ELSE /\ UNCHANGED phase
                   /\ CASE new -> Insert(e, final, skip, times, flaws)
                        [] ~new /\ final # initial -> ExternalMove(e, final, skip, times, flaws)
                        [] OTHER ->
                             /\ rows' = [rows EXCEPT ![initial][RowOf(e)].objects = WithBuilt(@, times)]
                             /\ Account(e, times, {}, flaws)

(* The objects the commands were recorded with are destroyed. *)
EndUnlock ==
  /\ phase = "applying" /\ commands = <<>>
  /\ phase' = "unlocked"
  /\ UNCHANGED <<rows, made, commands, hooks, flawed>>

Next ==
  \/ \E S \in SUBSET Components : Create(S) \/ Build(S) \/ RecordCreate(S)
  \/ \E e \in Numbers, S, R \in SUBSET Components : BuildOn(e, S, R)
  \/ \E e \in Numbers, c \in Components : Assign(e, c) \/ AssignWith(e, c) \/ RemoveComponent(e, c)
  \/ \E e \in Numbers : Clone(e) \/ DestroyNow(e) \/ RecordDestroyNow(e)
  \/ \E ms \in {{m} : m \in Archetypes} \cup {Archetypes} : Clear(ms)
  \/ \E e \in Numbers, c \in Components, how \in {"default", "given", "built"} : RecordAssign(e, c, how)
  \/ \E e \in Numbers, c \in Components : RecordRemove(e, c)
  \/ Lock \/ Unlock \/ ApplyPack \/ EndUnlock

Spec == Init /\ [][Next]_vars

-----------------------------------------------------------------------------
(* Properties. *)

(* Whatever way entities are created, changed, moved among rows and        *)
(* destroyed, at once or by commands: but for what the flaws above reach,  *)
(* every cell of a component that has a constructor or a default value     *)
(* holds exactly one object, and every component has been told of its      *)
(* assignment once more than of its removal while it is there, and as      *)
(* often when it is gone (Archetype, applyCommandPack, the hooks of        *)
(* README.md).                                                             *)
LifetimesBalanced ==
  /\ \A m \in Archetypes : \A k \in DOMAIN rows[m] : \A c \in m \cap (Creates \cup Defaults) :
       <<rows[m][k].entity, c>> \notin flawed => rows[m][k].objects[c] = 1
  /\ \A e \in Numbers : \A c \in Hooked :
       <<e, c>> \notin flawed =>
         hooks[e][c] = (IF Exists(e) /\ c \in MaskOf(e) THEN 1 ELSE 0)

=============================================================================
