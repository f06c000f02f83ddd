----------------------------- MODULE TaskViews -----------------------------
(***************************************************************************)
(* From the chunks a filter lets through to the arrays a job's function is *)
(* called with.  A filtered archetype is a record [size, blocks, cut]: its *)
(* number of rows, the blocks <<begin, end>> of matched rows (end          *)
(* excluded), and the row at which its storage changes buffers.  A filter  *)
(* result is a sequence of them.  Rows count from 0, sequences from 1.     *)
(***************************************************************************)
EXTENDS Integers, SequencesExt

(* filterArchetype goes through the chunks of size rows: a matched chunk   *)
(* extends the block of the chunk before it or begins one; the last chunk  *)
(* may be short.                                                           *)
Blocks(match, size, chunkSize) ==
    LET chunks == (size - 1) \div chunkSize + 1
        end(k) == IF k * chunkSize < size THEN k * chunkSize ELSE size
        blocks[k \in 0..chunks] ==
          IF k = 0 THEN <<>>
          ELSE LET before == blocks[k - 1]
                   n == Len(before)
               IN  IF ~match[k - 1] THEN before
                   ELSE IF k > 1 /\ match[k - 2]
                   THEN [before EXCEPT ![n] = <<before[n][1], end(k)>>]
                   ELSE Append(before, <<(k - 1) * chunkSize, end(k)>>)
    IN  blocks[chunks]

BlockSize(b) == b[2] - b[1]

(* entities_count and total_entity_count, the sums addBlock and            *)
(* filterArchetype keep.                                                   *)
EntitiesCount(fa) ==
    LET sum[i \in 0..Len(fa.blocks)] == IF i = 0 THEN 0 ELSE sum[i - 1] + BlockSize(fa.blocks[i])
    IN  sum[Len(fa.blocks)]
TotalCount(result) ==
    LET sum[i \in 0..Len(result)] == IF i = 0 THEN 0 ELSE sum[i - 1] + EntitiesCount(result[i])
    IN  sum[Len(result)]

-----------------------------------------------------------------------------
(* taskCount: as many tasks as threads, the caller's included, but never   *)
(* more than entities.                                                     *)
TaskCount(total, workers) == Min({total, workers + 1})

(* Mistaken variant: the first tasks take no share of the remainder.       *)
TaskSizeEven(total, numTasks, i) == total \div numTasks

(* TaskGroup: task i of numTasks, counted from 0, takes total / numTasks   *)
(* entities, and one more while the remainder lasts.                       *)
TaskSize(total, numTasks, i) ==
    (total \div numTasks) + (IF i < total % numTasks THEN 1 ELSE 0)

(* The variables of a loop after n passes; next has what each pass makes   *)
(* of them, nothing once the loop's condition is false.                    *)
Loop(next, start, n) ==
    LET pass[i \in 0..n] == IF i = 0 THEN start ELSE next[pass[i - 1]]
    IN  pass[n]

(* TaskGroup::operator++: the position <<archetype, entity>> n entities    *)
(* after another; entities are counted over the blocks of the archetype.   *)
(* The loop has a position and the entities left to pass.                  *)
Advance(result, from, n) ==
    LET next == [p \in Nat \X Nat \X Nat |->
          LET free == EntitiesCount(result[p[1]]) - p[2]
          IN  IF p[3] = 0 THEN p
              ELSE IF free > p[3] THEN <<p[1], p[2] + p[3], 0>>
                                  ELSE <<p[1] + 1, 0, p[3] - free>>]
        end == Loop(next, <<from[1], from[2], n>>, Len(result))
    IN  <<end[1], end[2]>>

(* The tasks of a job: where each begins, its size, and the index of its   *)
(* first entity among all of the job's (invocation_index.entity_index).    *)
Tasks(result, numTasks) ==
    LET total == TotalCount(result)
        task[i \in 0..(numTasks - 1)] ==
          LET before == task[i - 1]
          IN  IF i = 0 THEN [at |-> <<1, 0>>, first |-> 0, size |-> TaskSize(total, numTasks, 0)]
              ELSE [at    |-> Advance(result, before.at, before.size),
                    first |-> before.first + before.size,
                    size  |-> TaskSize(total, numTasks, i)]
    IN  task

(* ArchetypeGroup: the parts <<archetype, first entity, count>> of a task. *)
Parts(result, task) ==
    LET next == [p \in Nat \X Nat \X Nat \X Seq(Nat \X Nat \X Nat) |->
          LET n == Min({p[3], EntitiesCount(result[p[1]]) - p[2]})
          IN  IF p[3] = 0 THEN p
              ELSE <<p[1] + 1, 0, p[3] - n, Append(p[4], <<p[1], p[2], n>>)>>]
    IN  Loop(next, <<task.at[1], task.at[2], task.size, <<>>>>, Len(result))[4]

-----------------------------------------------------------------------------
(* Mistaken variant: an array may cross from one buffer into the other.    *)
DistToSize(fa, row) == fa.size - row

(* distToChunkEnd of the storage: rows below the migration position are    *)
(* looked up in the first buffer, the others in the second one.            *)
DistToChunkEnd(fa, row) == IF row < fa.cut THEN fa.cut - row ELSE fa.size - row

(* ArrayView::make: the block and row of the first-th matched entity; at a *)
(* block's end it stays there and the first updateBlock moves on.          *)
Locate(fa, first) ==
    LET next == [p \in Nat \X Nat |->
          LET size == BlockSize(fa.blocks[p[1]])
          IN  IF p[2] > size THEN <<p[1] + 1, p[2] - size>> ELSE p]
        end == Loop(next, <<1, first>>, Len(fa.blocks))
    IN  <<end[1], fa.blocks[end[1]][1] + end[2]>>

(* The arrays <<row, length>> of ArrayView: each ends with the block, with *)
(* the buffer or with the entities wanted; updateBlock goes on to the next *)
(* block first when one is done.                                           *)
Arrays(fa, first, count) ==
    LET start == Locate(fa, first)
        next == [p \in Nat \X Nat \X Nat \X Seq(Nat \X Nat) |->
          LET done == p[2] = fa.blocks[p[1]][2]
              b == IF done THEN p[1] + 1 ELSE p[1]
              row == IF done THEN fa.blocks[b][1] ELSE p[2]
              n == Min({fa.blocks[b][2] - row, DistToChunkEnd(fa, row), p[3]})
          IN  IF p[3] = 0 THEN p
              ELSE <<b, row + n, p[3] - n, Append(p[4], <<row, n>>)>>]
        wanted == Min({count, fa.size - start[2]})
    IN  Loop(next, <<start[1], start[2], wanted, <<>>>>, wanted)[4]

(* All arrays of a task as <<archetype, row, length>>, in call order.      *)
TaskArrays(result, task) ==
    FlattenSeq([i \in DOMAIN Parts(result, task) |->
        LET part == Parts(result, task)[i]
            arrays == Arrays(result[part[1]], part[2], part[3])
        IN  [k \in DOMAIN arrays |-> <<part[1], arrays[k][1], arrays[k][2]>>]])

(* The rows of a task, each with its archetype, in the order visited.      *)
TaskRows(result, task) ==
    LET arrays == TaskArrays(result, task)
    IN  FlattenSeq([i \in DOMAIN arrays |->
            [k \in 1..arrays[i][3] |-> <<arrays[i][1], arrays[i][2] + k - 1>>]])

-----------------------------------------------------------------------------
(* The rows a result stands for, in order.                                 *)
MatchedRows(result) ==
    FlattenSeq([a \in DOMAIN result |->
        FlattenSeq([b \in DOMAIN result[a].blocks |->
            [k \in 1..BlockSize(result[a].blocks[b]) |-> <<a, result[a].blocks[b][1] + k - 1>>]])])

(* The results a filter can have for one archetype of at most maxRows rows.*)
FilteredArchetypes(maxRows, chunkSizes) ==
    UNION {UNION {LET last == (size - 1) \div cs
                  IN  {[size |-> size, blocks |-> Blocks(match, size, cs), cut |-> cut] :
                          match \in {f \in [0..last -> BOOLEAN] : \E k \in 0..last : f[k]},
                          cut \in 0..(size - 1)} :
                  size \in 1..maxRows} : cs \in chunkSizes}

(* The tasks' rows, one task after the other, are the matched rows; each   *)
(* task visits as many as its size says; each array stays inside a block   *)
(* and on one side of the cut.                                             *)
TasksCover(result, numTasks) ==
    LET tasks == Tasks(result, numTasks)
        rows(i) == TaskRows(result, tasks[i - 1])
    IN  /\ FlattenSeq([i \in 1..numTasks |-> rows(i)]) = MatchedRows(result)
        /\ \A i \in 1..numTasks :
              /\ Len(rows(i)) = tasks[i - 1].size
              /\ \A a \in ToSet(TaskArrays(result, tasks[i - 1])) :
                    /\ \E b \in ToSet(result[a[1]].blocks) : b[1] <= a[2] /\ a[2] + a[3] <= b[2]
                    /\ a[2] < result[a[1]].cut => a[2] + a[3] <= result[a[1]].cut
=============================================================================
