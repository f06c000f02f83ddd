------------------------- MODULE ComponentVersions -------------------------
(***************************************************************************)
(* VersionStorage: when was a component of an archetype last written?  One *)
(* version per chunk of rows and component (chunk_versions_), and one per  *)
(* component for the whole archetype (global_versions_).  The versions of  *)
(* an archetype are a record [chunk, all]; chunks count from 0 and are the *)
(* domain of chunk, so the size of chunk_versions_ is its cardinality.     *)
(* Every component of an archetype is under version control, and an        *)
(* archetype without components never fails a check.                       *)
(***************************************************************************)
EXTENDS Integers

Never == -1          \* WorldVersion::null() of a job that has not run

NoVersions(comps, v) == [chunk |-> <<>>, all |-> [c \in comps |-> v]]

ChunkAt(row, chunkSize) == row \div chunkSize

(* setVersion(version, chunk): all components of the chunk.                *)
SetChunk(vs, v, k) ==
    [chunk |-> [vs.chunk EXCEPT ![k] = [c \in DOMAIN vs.all |-> v]],
     all   |-> [c \in DOMAIN vs.all |-> v]]

(* setVersion(version, chunk, component), and by way of the row's chunk    *)
(* setVersion(version, index, component).                                  *)
SetOne(vs, v, k, c) == [vs EXCEPT !.chunk[k][c] = v, !.all[c] = v]

(* Mistaken variant: resized to k chunks.                                  *)
EmplaceShort(vs, v, k) ==
    [chunk |-> [i \in 0..(k - 1) |-> vs.chunk[i]], all |-> [c \in DOMAIN vs.all |-> v]]

(* emplace(version, index) for a row of chunk k: chunk_versions_ is resized*)
(* to k + 1 chunks, which also drops chunks above k, and k is stamped.     *)
(* Rows are added at the end, so that at most chunk k itself is new.       *)
Emplace(vs, v, k) ==
    [chunk |-> [i \in 0..k |-> IF i = k THEN [c \in DOMAIN vs.all |-> v]
                                        ELSE vs.chunk[i]],
     all   |-> [c \in DOMAIN vs.all |-> v]]

(* The test both forms of checkAndSet make.                                *)
ChangedSince(versions, since, check) ==
    since = Never \/ check = {} \/ \E c \in check : versions[c] > since

(* What checkAndSet leaves of the versions it passed.                      *)
Stamped(versions, v, set) == [c \in DOMAIN versions |-> IF c \in set THEN v ELSE versions[c]]
=============================================================================
