---------------------------- MODULE JobArguments ----------------------------
(***************************************************************************)
(* What the library reads off the parameter list of a job's function: the  *)
(* components an archetype must have, and those whose versions the job     *)
(* sets.  A parameter is a record [form, comp].  The forms of components   *)
(* are C ("value"), C&, const C&, C*, const C*, and the handlers           *)
(* RequiredComponent and OptionalComponent of C or const C; the others are *)
(* a shared component, the entity, the index of the call, the array size   *)
(* and the world.  comp matters for components only.                       *)
(***************************************************************************)
EXTENDS Integers, Sequences, FiniteSets

RequiredForms == {"value", "ref", "const_ref", "required", "required_const"}
OptionalForms == {"ptr", "const_ptr", "optional", "optional_const"}
ComponentForms == RequiredForms \cup OptionalForms

(* IsComponentMutable has specializations for references and pointers; a   *)
(* handler of a non-const component takes the primary template: not mutable*)
MutableForms == {"ref", "ptr"}

(* What the function can write through.                                    *)
WritableForms == {"ref", "ptr", "required", "optional"}

(* getArgInfo: the positions of the parameters of one kind.                *)
ComponentPositions(args) == {i \in DOMAIN args : args[i].form \in ComponentForms}
SharedPositions(args) == {i \in DOMAIN args : args[i].form = "shared"}

(* componentMask(): makeMask adds the components of required parameters.   *)
ComponentMask(args) == {args[i].comp : i \in {p \in ComponentPositions(args) : args[p].form \in RequiredForms}}

(* The last parameter that names a component.                              *)
LastOf(args, c) ==
    CHOOSE i \in ComponentPositions(args) :
        /\ args[i].comp = c
        /\ \A p \in ComponentPositions(args) : args[p].comp = c => p <= i

Named(args) == {args[i].comp : i \in ComponentPositions(args)}

(* updateMask(): set(component, is_mutable) for each parameter in turn, so *)
(* that the last one that names a component decides.                       *)
UpdateMask(args) == {c \in Named(args) : args[LastOf(args, c)].form \in MutableForms}

(* updateVersion() of forEach: any mutable parameter sets the version.     *)
ForEachMask(args) == {args[i].comp : i \in {p \in ComponentPositions(args) : args[p].form \in MutableForms}}

(* Components the function may change.                                     *)
Writes(args) == {args[i].comp : i \in {p \in ComponentPositions(args) : args[p].form \in WritableForms}}
=============================================================================
