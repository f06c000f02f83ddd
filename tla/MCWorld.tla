------------------------------ MODULE MCWorld ------------------------------
(***************************************************************************)
(* The parts of a world that share no state are checked side by side: each *)
(* behaviour exercises one of them.                                        *)
(***************************************************************************)
EXTENDS Systems, Events, WorldStorage

VARIABLE part

MCName == [s \in SystemPtrs |-> CASE s = "s1" -> "a" [] s = "s2" -> "b" [] OTHER -> "c"]

(* The third system becomes part of a cycle one reordering after all three *)
(* have been added.                                                        *)
MCConfigure == [s \in SystemPtrs |->
  CASE s = "s1" -> [before |-> {}, after |-> {"b"}, group |-> "g", priority |-> 0]
    [] s = "s2" -> [before |-> {}, after |-> {}, group |-> "h", priority |-> 0]
    [] OTHER -> [before |-> {"b"}, after |-> {"a"}, group |-> "g", priority |-> -1]]

MCKind == [r \in Receivers |-> IF r = "r3" THEN "B" ELSE "A"]

MCCrc32 == [str \in Strings |-> IF str = "x" THEN 0 ELSE 1]

MCInit ==
  /\ Init /\ EventsInit /\ StorageInit
  /\ part \in {"systems", "events", "storage"}

MCNext ==
  \/ part = "systems" /\ Next /\ UNCHANGED <<part, eventVars, storageVars>>
  \/ part = "events" /\ EventsNext /\ UNCHANGED <<part, vars, storageVars>>
  \/ part = "storage" /\ StorageNext /\ UNCHANGED <<part, vars, eventVars>>

MCSpec == MCInit /\ [][MCNext]_<<part, vars, eventVars, storageVars>>

(* EachReceiverOnce says nothing of what follows a misuse. *)
Proper == ~misused

(* The types of the three parts. *)
WorldTyped == TypeOK /\ EventsTypeOK /\ StorageTypeOK
=============================================================================
