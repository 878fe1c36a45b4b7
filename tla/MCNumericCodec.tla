--------------------------- MODULE MCNumericCodec ---------------------------
(* One dense column of NumericCodec for TLC, in up to three chunks. *)
EXTENDS NumericCodec

UpTo(n) == UNION {[1 .. m -> {-1, 2}] : m \in 0 .. n}
ChunkCalls == {[lane |-> "chunks", docs |-> <<>>, chunks |-> c] :
                  c \in UNION {[1 .. k -> UpTo(2)] : k \in 1 .. 3}}
=============================================================================
