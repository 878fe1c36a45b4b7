--------------------------- MODULE MCWriteSession ---------------------------
(* Small instances of WriteSession for TLC. *)
EXTENDS WriteSessionRefinement, TLC

CONSTANTS j1, j2, j3, r1

MCJobs == {j1, j2, j3}
TwoJobs == {j1, j2}
MCReaders == {r1}
MCBatchRows == {0, 1, 2}
NoExtras == <<>>
OneExtra == <<"vec">>
Symmetry == Permutations(TwoJobs)

\* A list column that is a list in the first segment only, in none, and in
\* every segment or not according to where the segments are cut.
MCLists == {"tags"}
MCSeveral ==
    [j \in MCJobs |-> [c \in MCLists |->
        CASE j = j1 -> {0} [] j = j2 -> {} [] j = j3 -> {1, 3}]]
NoneSeveral == [j \in TwoJobs |-> [c \in MCLists |-> {}]]

(* A push or finish that has begun ends, in an answer, an error or a crash, and
   so does a read (flush_segment, write_files, do_get). *)
CallsEnd == FlushEnds /\ ReadEnds
=============================================================================
