----------------------------- MODULE MCHydrate -----------------------------
(* Three segments of one document each for Hydrate, for TLC. *)
EXTENDS Hydrate

Of(field, type) == [field |-> field, type |-> type]
StoredMC == {<<>>, <<Of("f", "str")>>}
ThreeSegments == <<1, 1, 1>>
TwoColumns == <<"f", "g">>
=============================================================================
