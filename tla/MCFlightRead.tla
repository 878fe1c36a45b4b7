---------------------------- MODULE MCFlightRead ----------------------------
(* A read of a segment one of whose terms is not UTF-8, for TLC. *)
EXTENDS FlightRead

Names2 == <<"n", "t">>
Shaped(n, t) == [f \in {"n", "t"} |-> IF f = "n" THEN n ELSE t]
TermFlushes == {[size |-> 2, shapes |-> Shaped("int", "term")]}
Terms == {"term"}
SecondNotUtf8 == Shaped({}, {2})
CpuOnly == {"auto", "cpu"}

\* Every segment and every column.
WholeReads ==
    {[all |-> TRUE, names |-> <<>>, every |-> TRUE, columns |-> {}, row_mode |-> m,
      batch_rows |-> 2, frame_version |-> 1, executor |-> "auto"] : m \in {"compact", "positional"}}
=============================================================================
