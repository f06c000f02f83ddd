-------------------------- MODULE MCEntityManager --------------------------
(* Instances of EntityManager for TLC. *)
EXTENDS EntityManager

NoDeps == [c \in Components |-> {}]

(* "c" needs "b", which needs "a": addDependency stores the closure.       *)
ChainDeps == [c \in Components |-> CASE c = "a" -> {} [] c = "b" -> {"a"}
                                     [] c = "c" -> {"a", "b"}]
=============================================================================
