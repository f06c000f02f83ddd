---------------------------- MODULE MCComponents ----------------------------
(***************************************************************************)
(* Masks, objects and shared components share no state here and are        *)
(* checked side by side: each behaviour exercises one of them, and the     *)
(* state of the others stays as it began.  SharedComponents is extended,   *)
(* the others are instances.                                               *)
(***************************************************************************)
EXTENDS SharedComponents, Integers

CONSTANTS
  Width, PerLine, Masks, ItemIds,
  ObjectComponents, Creates, Destroys, Defaults, Hooked, Needs, MaxEntities, MaxCommands

VARIABLES
  part,
  masks, items, known,
  rows, made, phase, commands, hooks, flawed

Ms == INSTANCE ComponentMasks
Ob == INSTANCE ComponentObjects WITH Components <- ObjectComponents

ASSUME ComponentsAssumption == Ms!MasksAssumption /\ Ob!ObjectsAssumption

(* The component with a constructor and hooks needs the other, of which    *)
(* a new object is a copy of the default value.                            *)
MCNeeds == [c \in ObjectComponents |-> IF c \in Creates THEN Defaults ELSE {}]

masking == <<masks, items, known>>
living == <<rows, made, phase, commands, hooks, flawed>>

ComponentsInit ==
  /\ Ms!Init /\ Ob!Init /\ Init
  /\ part \in {"masks", "objects", "shared"}

ComponentsNext ==
  \/ part = "masks" /\ Ms!Next /\ UNCHANGED <<part, living, vars>>
  \/ part = "objects" /\ Ob!Next /\ UNCHANGED <<part, masking, vars>>
  \/ part = "shared" /\ Next /\ UNCHANGED <<part, masking, living>>

ComponentsSpec == ComponentsInit /\ [][ComponentsNext]_<<part, masking, living, vars>>

(* Masks answer as the sets they stand for (ComponentMasks). *)
MasksAreSets == part = "masks" => Ms!MasksAreSets

(* Objects and hook calls match the components (ComponentObjects). *)
LifetimesBalanced == part = "objects" => Ob!LifetimesBalanced
=============================================================================
