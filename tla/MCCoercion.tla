----------------------------- MODULE MCCoercion -----------------------------
(* Types of columns for TLC on which Coercion breaks what the repository says. *)
EXTENDS Coercion

\* Types the schema check accepts and the append cannot take.
OtherTypes == {"LargeUtf8", "LargeBinary", "Decimal128", "Float64"}
NegativeScales == {-1, 0}
ListTypes == Lists
=============================================================================
