------------------------------ MODULE Coercion ------------------------------
(***************************************************************************)
(* How a column of any Arrow type is accepted, stored and read back:       *)
(* classify, WriteSession::new and append_column of                        *)
(* crates/flight/src/write.rs, field_arrow_type of engine.rs.              *)
(*                                                                         *)
(* A 64-bit integer has W bits here, a 32-bit one W - 1.  A float is its   *)
(* bit pattern: a sign bit, then a magnitude.  A string or a byte string   *)
(* is a number; their byte order is the order of the numbers.              *)
(***************************************************************************)
EXTENDS Integers, Sequences, FiniteSets, SequencesExt, FiniteSetsExt

CONSTANTS
    W,          \* bits of an i64
    Types,      \* the Arrow types of the column
    Factors,    \* values of lucene.scale_factor
    Scales,     \* scales of decimals
    MaxBatch,   \* bound: rows of a batch
    MaxRows     \* bound: rows of the column

Widened == {"Int32", "UInt32", "Boolean"}
Temporal == {"Timestamp", "Date32"}
Texts == {"Utf8", "LargeUtf8", "Dictionary"}
Lists == {"List<Int64>", "List<Utf8>"}
AllTypes == Widened \cup Temporal \cup Texts \cup Lists
              \cup {"Int64", "UInt64", "Decimal128", "Float64", "Float32", "Binary",
                    "LargeBinary", "List<Dictionary>", "Struct"}

ConstantsAssumption ==
    /\ W \in Nat /\ W >= 3
    /\ Types \subseteq AllTypes
    /\ Factors \subseteq Nat /\ Scales \subseteq Int
    /\ MaxBatch \in Nat /\ MaxRows \in Nat

I64 == -(2 ^ (W - 1)) .. 2 ^ (W - 1) - 1
I32 == -(2 ^ (W - 2)) .. 2 ^ (W - 2) - 1
\* v as i64
Wrapped(v) == ((v + 2 ^ (W - 1)) % 2 ^ W) - 2 ^ (W - 1)

\* The values of a type; those of a list are the values of its elements.
ValuesOf(t) ==
    CASE t \in {"Int64", "Timestamp"} -> I64
      [] t \in {"Int32", "Date32"} -> I32
      [] t = "UInt32" -> 0 .. 2 ^ (W - 1) - 1
      [] t = "UInt64" -> 0 .. 2 ^ W - 1
      [] t = "Decimal128" -> -10 .. 10
      [] t = "Float64" -> 0 .. 2 ^ W - 1
      [] t = "Float32" -> 0 .. 2 ^ (W - 1) - 1
      [] OTHER -> 0 .. 1

\* A cell: null, one value, or the elements of a list, which may be null too.
\* The array holds something, 0 here, in the place of a null.
CellsOf(t) ==
    LET elements == {[valid |-> TRUE, value |-> v] : v \in ValuesOf(t)}
                      \cup {[valid |-> FALSE, value |-> 0]}
    IN {[valid |-> FALSE, elements |-> <<>>]}
       \cup {[valid |-> TRUE, elements |-> e] :
                e \in IF t \in Lists THEN SeqOf(elements, 2) ELSE {<<x>> : x \in elements}}
\* A flat column has no value that is valid and null, a dictionary may have.
Cells(t) == IF t \in Lists \cup {"Dictionary"} THEN CellsOf(t)
            ELSE {c \in CellsOf(t) : c.valid => c.elements[1].valid}

VARIABLES
    type, scale, metadata, strict,  \* the field and the job's coercion policy
    phase,     \* "schema", "open", "rejected" or "panicked"
    sent,      \* history: the cells sent
    stored     \* what the buffer holds of each row: a sequence of values
vars == <<type, scale, metadata, strict, phase, sent, stored>>

Init ==
    /\ type \in Types
    /\ scale \in IF type = "Decimal128" THEN Scales ELSE {0}
    /\ metadata \in [allow_lossy : BOOLEAN, scale_factor : Factors \cup {0}]
    /\ strict \in BOOLEAN
    /\ phase = "schema" /\ sent = <<>> /\ stored = <<>>

-----------------------------------------------------------------------------
Classified ==
    CASE type = "UInt64" -> IF metadata.allow_lossy THEN "U64Lossy" ELSE "none"
      [] type = "Decimal128" -> IF metadata.scale_factor # 0 THEN "DecimalScaled" ELSE "none"
      [] type = "Int64" -> "Passthrough"
      [] type \in Widened -> "Widen"
      [] type = "Float64" -> "FloatBits"
      [] type = "Float32" -> "Float32Bits"
      [] type \in Temporal -> "TemporalI64"
      [] type \in {"Utf8", "LargeUtf8"} -> "SortedUtf8"
      [] type = "Dictionary" -> "SortedDict"
      [] type \in {"Binary", "LargeBinary"} -> "Bytes"
      [] type = "List<Int64>" -> "MultiNumeric"
      [] type = "List<Utf8>" -> "MultiTerms"
      [] OTHER -> "none"

Canonical ==
    \/ Classified \in {"Passthrough", "FloatBits", "SortedDict", "MultiNumeric"}
    \/ Classified = "Bytes" /\ type = "Binary"

Open ==
    /\ phase = "schema"
    /\ phase' = IF Classified # "none" /\ (strict => Canonical) THEN "open" ELSE "rejected"
    /\ UNCHANGED <<type, scale, metadata, strict, sent, stored>>

-----------------------------------------------------------------------------
(* append_column.                                                          *)

\* The downcasts are to the arrays of 32-bit offsets; 10^scale as u32 overflows
\* for a negative scale, and the first value is divided by 0.
Takes(batch) ==
    /\ type \notin {"LargeUtf8", "LargeBinary"}
    /\ scale < 0 => \A i \in DOMAIN batch : ~batch[i].valid

\* Mutant of DecimalRounded: half towards minus infinity.
DecimalFloored(v) == (v * metadata.scale_factor) \div 10 ^ scale

\* round(raw * factor / 10^scale), half away from zero.  Rust divides towards 0.
DecimalRounded(v) ==
    LET n == v * metadata.scale_factor
        denom == 10 ^ scale
    IN IF n >= 0 THEN (n + denom \div 2) \div denom
       ELSE -(((-n) + denom \div 2) \div denom)

\* f32 to f64: the sign moves up.
Float64Of(bits) ==
    IF bits >= 2 ^ (W - 2) THEN 2 ^ (W - 1) + (bits - 2 ^ (W - 2)) ELSE bits

Converted(v) ==
    CASE Classified = "DecimalScaled" -> Wrapped(DecimalRounded(v))
      [] Classified = "Float32Bits" -> Wrapped(Float64Of(v))
      [] Classified \in {"U64Lossy", "FloatBits"} -> Wrapped(v)
      [] OTHER -> v

\* Mutant of StoredOf: the values of a list are deduplicated as terms are.
StoredAsSet(c) ==
    IF ~c.valid THEN <<>>
    ELSE SetToSortSeq({Converted(c.elements[i].value) : i \in DOMAIN c.elements}, <)

\* <<>> stands for an absent value.  Elements are read whether valid or not,
\* lists are sorted when they are encoded, terms deduplicated.
StoredOf(c) ==
    LET read == [i \in DOMAIN c.elements |-> Converted(c.elements[i].value)]
    IN IF ~c.valid THEN <<>>
       ELSE IF Classified = "MultiTerms" THEN SetToSortSeq(ToSet(read), <)
       ELSE SortSeq(read, <)

Push(batch) ==
    /\ phase = "open" /\ Len(sent) + Len(batch) <= MaxRows
    /\ sent' = sent \o batch
    /\ IF Takes(batch)
       THEN stored' = stored \o [i \in DOMAIN batch |-> StoredOf(batch[i])] /\ UNCHANGED phase
       ELSE phase' = "panicked" /\ UNCHANGED stored
    /\ UNCHANGED <<type, scale, metadata, strict>>

Next == Open \/ \E n \in 0 .. MaxBatch : \E batch \in [1 .. n -> Cells(type)] : Push(batch)

Spec == Init /\ [][Next]_vars

-----------------------------------------------------------------------------
(* What resolve gives the column, and what canonical(T) of SPEC 10.2 is.   *)

ReadType ==
    CASE Classified \in {"SortedUtf8", "SortedDict"} -> "Dictionary"
      [] Classified = "Bytes" -> "Binary"
      [] Classified = "MultiTerms" -> IF \E k \in DOMAIN stored : Len(stored[k]) > 1
                                      THEN "List<Dictionary>" ELSE "Dictionary"
      [] Classified = "MultiNumeric" -> IF \E k \in DOMAIN stored : Len(stored[k]) > 1
                                        THEN "List<Int64>" ELSE "Int64"
      [] OTHER -> "Int64"

CanonicalType ==
    CASE type \in {"Float32", "Float64"} -> "Float64"
      [] type \in Texts -> "Dictionary"
      [] type \in {"Binary", "LargeBinary"} -> "Binary"
      [] type = "List<Utf8>" -> "List<Dictionary>"
      [] type = "List<Int64>" -> "List<Int64>"
      [] OTHER -> "Int64"

-----------------------------------------------------------------------------
(* Properties.                                                             *)

TypeOK ==
    /\ type \in Types /\ phase \in {"schema", "open", "rejected", "panicked"}
    /\ Len(stored) <= Len(sent)
    /\ \A k \in DOMAIN stored : \A i \in DOMAIN stored[k] :
          type \notin Texts => stored[k][i] \in I64

\* "strict accepts canonical shapes only; auto also applies the lossless
\* coercions.  Lossy conversions are never automatic" (SPEC 10.2).
PolicyIsKept ==
    phase = "open" =>
        /\ type \in {"UInt64", "Decimal128"} =>
              ~strict /\ (metadata.allow_lossy \/ metadata.scale_factor # 0)
        /\ strict => CanonicalType = type

\* Two rows of an accepted column that are read back alike were sent alike,
\* and one that is read back as null was null or an empty list: nothing is
\* lost but the order and, for terms, the number of the elements of a list.
\* UInt64 and scaled decimals are lossy by name; null elements are another
\* matter (NullsStayNull).
Content(c) == IF type = "List<Utf8>" THEN {c.elements[i].value : i \in DOMAIN c.elements}
              ELSE [v \in {c.elements[i].value : i \in DOMAIN c.elements} |->
                      Cardinality({i \in DOMAIN c.elements : c.elements[i].value = v})]
NothingIsLost ==
    type # "Decimal128" =>
        \A j, k \in DOMAIN stored :
            stored[j] = stored[k] =>
                /\ (sent[j].elements = <<>>) = (sent[k].elements = <<>>)
                /\ sent[j].elements # <<>> => Content(sent[j]) = Content(sent[k])

\* Stored integers sort as the values sent, which is what Lucene sorts by.
IntegersKeepTheirOrder ==
    type \in Widened \cup Temporal \cup {"Int64"} =>
        \A j, k \in DOMAIN stored :
            (sent[j].valid /\ sent[k].valid) =>
                (stored[j][1] < stored[k][1]
                    <=> sent[j].elements[1].value < sent[k].elements[1].value)

\* A scaled decimal is the nearest integer, half away from zero (SPEC 10.2,
\* the scaled_float convention), as long as it fits.
DecimalsRoundToNearest ==
    type = "Decimal128" =>
        \A k \in DOMAIN stored : sent[k].valid =>
            LET exact == sent[k].elements[1].value * metadata.scale_factor
                off == exact - stored[k][1] * 10 ^ scale
                abs == IF off < 0 THEN -off ELSE off
            IN abs <= 10 ^ scale \div 2
                 /\ (2 * abs = 10 ^ scale => (off < 0 <=> exact > 0))

\* "anything else fails at schema time -- never mid-stream [CONTRACT]"
\* (write.rs): a column that was accepted is never refused later.
AcceptedNeverPanics == phase # "panicked"

\* "Arrow nulls = field absent for this doc" (SPEC 10.2): what is stored for a
\* row is made of its valid elements.
NullsStayNull ==
    \A k \in DOMAIN stored :
        Len(stored[k]) <= Cardinality({i \in DOMAIN sent[k].elements : sent[k].elements[i].valid})

\* "store the IEEE bits as sortable i64 payload" (write.rs): the payloads of
\* two floats sort as the floats do.
FloatOf(bits) == IF bits >= 2 ^ (W - 1) THEN -(bits - 2 ^ (W - 1)) ELSE bits
FloatPayloadsSort ==
    type = "Float64" =>
        \A j, k \in DOMAIN stored :
            (sent[j].valid /\ sent[k].valid) =>
                (stored[j][1] < stored[k][1] =>
                    FloatOf(sent[j].elements[1].value) <= FloatOf(sent[k].elements[1].value))

\* "read(write(T)) == canonical(T)" (SPEC 10.2), as far as the type goes.
ComesBackAsItsType == phase = "open" /\ sent # <<>> => ReadType = CanonicalType
=============================================================================
