--------------------------- MODULE EntityRegistry ---------------------------
(***************************************************************************)
(* What EntityManager promises, without slots, archetypes or packs: a map  *)
(* from the handles that are alive to their components.  A handle is given *)
(* out once.  Operations recorded by a thread take effect later, but then  *)
(* in the order the thread gave them, as if each were done on its own:     *)
(* the meaning applyCommandPackUnoptimized spells out.                     *)
(***************************************************************************)
EXTENDS Integers, Sequences

CONSTANTS Handles, Components, Values, Threads, Default

VARIABLES alive,    \* per handle that is alive, its components
          issued,   \* every handle given out so far
          marked,   \* handles to be destroyed by the next update
          pending   \* per thread, the recorded commands

vars == <<alive, issued, marked, pending>>

Without(e) == [d \in DOMAIN alive \ {e} |-> alive[d]]
With(e, data) == [d \in DOMAIN alive \cup {e} |-> IF d = e THEN data ELSE alive[d]]
AllDefault(m) == [c \in m |-> Default]
Set(data, c, v) == [d \in DOMAIN data \cup {c} |-> IF d = c THEN v ELSE data[d]]
Drop(data, c) == [d \in DOMAIN data \ {c} |-> data[d]]

Init ==
    /\ alive = <<>>
    /\ issued = {}
    /\ marked = {}
    /\ pending = [t \in Threads |-> <<>>]

Create ==
    \E e \in Handles \ issued, m \in SUBSET Components : \E vals \in [m -> Values] :
        /\ alive' = With(e, vals)
        /\ issued' = issued \cup {e}
        /\ UNCHANGED <<marked, pending>>

Change ==
    \E e \in DOMAIN alive, c \in Components :
        /\ \/ /\ c \notin DOMAIN alive[e]
              /\ \E v \in Values : alive' = With(e, Set(alive[e], c, v))
           \/ alive' = With(e, Drop(alive[e], c))
        /\ UNCHANGED <<issued, marked, pending>>

Mark ==
    \E e \in issued :
        /\ marked' = marked \cup {e}
        /\ UNCHANGED <<alive, issued, pending>>

(* At once, or because it was marked.                                      *)
Kill ==
    \E e \in issued :
        /\ alive' = Without(e)
        /\ marked' \in {marked, marked \ {e}}
        /\ UNCHANGED <<issued, pending>>

Record ==
    \E t \in Threads :
        /\ Len(pending'[t]) = Len(pending[t]) + 1
        /\ pending' = [pending EXCEPT ![t] = Append(@, pending'[t][Len(pending'[t])])]
        /\ UNCHANGED <<alive, issued, marked>>

(* One command, on the state of its entity.                                *)
Effect(st, cmd) ==
    CASE cmd.op = "create" -> [st EXCEPT !.live = TRUE, !.data = AllDefault(cmd.mask)]
      [] cmd.op # "create" /\ ~st.live -> st
      [] st.live /\ cmd.op = "assign" -> [st EXCEPT !.data = Set(@, cmd.comp, cmd.val)]
      [] st.live /\ cmd.op = "remove" -> [st EXCEPT !.data = Drop(@, cmd.comp)]
      [] st.live /\ cmd.op = "destroy" -> [st EXCEPT !.mark = TRUE]
      [] st.live /\ cmd.op = "destroyNow" -> [st EXCEPT !.live = FALSE]

(* The state of an entity after the commands of a sequence.                *)
After(st, cmds) ==
    LET after[i \in 0..Len(cmds)] ==
            IF i = 0 THEN st ELSE Effect(after[i - 1], cmds[i])
    IN  after[Len(cmds)]

(* What an entity is before the commands of a sequence for it.             *)
StateOf(e) == [live |-> e \in DOMAIN alive, mark |-> FALSE,
               data |-> IF e \in DOMAIN alive THEN alive[e] ELSE <<>>]

(* The next commands of a thread, for one entity.                          *)
Apply ==
    \E t \in Threads : \E n \in 1..Len(pending[t]) :
        LET run == SubSeq(pending[t], 1, n)
            e   == run[1].ent
            st  == After(StateOf(e), run)
        IN  /\ \A i \in 1..n : run[i].ent = e
            /\ run[1].op = "create" => e \notin issued
            /\ pending' = [pending EXCEPT ![t] = SubSeq(@, n + 1, Len(@))]
            /\ issued' = IF run[1].op = "create" THEN issued \cup {e} ELSE issued
            /\ marked' = IF st.mark THEN marked \cup {e} ELSE marked
            /\ alive' = IF st.live THEN With(e, st.data) ELSE Without(e)

Next == Create \/ Change \/ Mark \/ Kill \/ Record \/ Apply

Spec == Init /\ [][Next]_vars
=============================================================================
