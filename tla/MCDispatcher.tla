----------------------------- MODULE MCDispatcher -----------------------------
(* Queues and jobs for the runs of Dispatcher. *)
EXTENDS Dispatcher

\* by_priority counts upwards, so "low" comes before "high".
MCPriority == [q \in Serial |-> IF q = "low" THEN -100 ELSE 100]

\* p1, p2 are parallel jobs, h1, h2 jobs of "high", l1, l2 jobs of "low".
MCQueueOf == [j \in Jobs |-> CASE j \in {"p1", "p2"} -> Parallel
                               [] j \in {"h1", "h2"} -> "high"
                               [] j \in {"l1", "l2"} -> "low"]

===============================================================================
