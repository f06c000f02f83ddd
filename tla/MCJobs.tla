------------------------------- MODULE MCJobs -------------------------------
(* Instances of Jobs for TLC.                                              *)
EXTENDS Jobs

(* X has two chunks of two rows at most; Y has no component, so that its   *)
(* chunk size is without effect (chunkSize() gives the largest number).    *)
MCArchetypes == <<"X", "Y">>
MCComps == [X |-> {"a"}, Y |-> {}]
MCChunkSize == [X |-> 2, Y |-> 100]
MCMaxRows == [X |-> 4, Y |-> 1]

(* The reader wants "a" and runs on its changes only; the writer takes any *)
(* entity, writes "a" where it is and skips chunks of unchanged "a".       *)
MCArgs == [reader |-> <<[form |-> "const_ref", comp |-> "a"]>>,
           writer |-> <<[form |-> "ptr", comp |-> "a"]>>]
MCCheck == [reader |-> {"a"}, writer |-> {"a"}]
MCFunctions == {<<[form |-> "ref", comp |-> "a"]>>,
                <<[form |-> "required", comp |-> "a"]>>,
                <<[form |-> "ptr", comp |-> "a"]>>}

(* Splitting a filter result into tasks, parts, arrays and calls visits the*)
(* matched rows once and in order, for every result of two archetypes up   *)
(* to these sizes: any pattern of matched chunks, any place where the      *)
(* storage changes buffers, one to three threads.  It depends on no state, *)
(* so it is evaluated in the initial ones.                                 *)
TasksCoverRows ==
    (version = 0 /\ managerVersion = 0 /\ \A A \in Arch : versions[A].chunk = <<>>) =>
        \A first \in FilteredArchetypes(4, {1, 2}), second \in FilteredArchetypes(3, {1, 2}) :
            LET result == <<first, second>>
            IN  \A workers \in 0..2 : TasksCover(result, TaskCount(TotalCount(result), workers))
=============================================================================
