-------------------------- MODULE MCColumnBuffers --------------------------
(* One list column of ColumnBuffers for TLC. *)
EXTENDS ColumnBuffers

LongsSchema == {[f \in {"l"} |-> "longs"]}
=============================================================================
