---------------------------- MODULE MCDocValues -----------------------------
(***************************************************************************)
(* The doc-values layer for TLC, one part at a time: the numbers of a      *)
(* field and the layout they get (NumericCodec), the bits of a payload     *)
(* (DirectPacking), the fields of a file (FieldEntries) and the dictionary *)
(* of a stream (OrdinalMap).  The parts do not interact but through what   *)
(* they hand on: a behaviour runs one, on one of its inputs, and leaves    *)
(* the variables of the others alone.                                      *)
(***************************************************************************)
EXTENDS OrdinalMap, NumericCodec, FieldEntries

CONSTANTS Offsets, Footer    \* DirectPacking

VARIABLES
    part,                                                    \* the part that runs
    bpv, values, start, producer, words, packed, got, loaded \* DirectPacking

packingVars == <<bpv, values, start, producer, words, packed, got, loaded>>
docValuesVars == <<part, codecVars, packingVars, vars, ordmapVars>>

(* The variables of a part that does not run. *)
CodecIdle == /\ call = 0 /\ phase = "none" /\ taken = 0 /\ stats = 0
             /\ entry = [numValues |-> 0] /\ payload = <<>> /\ column = 0
PackingIdle == /\ bpv = 0 /\ values = 0 /\ start = 0 /\ producer = 0
               /\ words = 0 /\ packed = 0 /\ got = 0 /\ loaded = 0
FieldsIdle == /\ fields = <<>> /\ next = 0 /\ dvm = <<>> /\ dvd = 0
              /\ cursor = 0 /\ plans = <<>> /\ columns = <<>> /\ failed = FALSE
OrdmapIdle == stream = <<>> /\ heap = {} /\ merged = <<>> /\ remap = <<>> /\ global = <<>>

-----------------------------------------------------------------------------
(* NumericCodec: every increasing sequence of docs with every sequence of as
   many values, calls refused for each check, and dense calls of one or two
   chunks, some empty, some short of the documents. *)
SortedDocs == {SetToSortSeq(s, <) : s \in SUBSET (0 .. CodecDocs - 1)}
BadDocs == {<<1, 0>>, <<0, 0>>, <<0, CodecDocs>>, <<0>>}
OneChunk(v) == IF v = <<>> THEN <<>> ELSE <<v>>
Split(v, k) == <<SubSeq(v, 1, k), SubSeq(v, k + 1, Len(v))>>
Calls ==
    UNION {{[lane |-> "flat", docs |-> d, chunks |-> OneChunk(v)] : v \in [1 .. Len(d) -> Int64]} :
              d \in SortedDocs}
    \cup {[lane |-> "flat", docs |-> d, chunks |-> <<<<0, 1>>>>] : d \in BadDocs}
    \cup {[lane |-> "chunks", docs |-> <<>>, chunks |-> Split(v, k)] :
              v \in [1 .. CodecDocs -> Int64], k \in 0 .. CodecDocs}
    \cup {[lane |-> "chunks", docs |-> <<>>, chunks |-> <<<<v>>>>] : v \in Int64}

(* DirectPacking: every width of the code; lengths around the ends of groups
   and words; all bits set, or one value of one end bit among zeros. *)
AllWidths == {1, 2, 4, 8, 12, 16, 20, 24, 28, 32, 40, 48, 56, 64}
Lengths(b) == {0, 1, 2, 3, 5, 10} \cup IF b < 8 THEN {64 \div b - 1, 64 \div b, 64 \div b + 1} ELSE {}
AllBits(b) == 0 .. b - 1
ValuesOf(b) ==
    {[i \in 1 .. n |-> AllBits(b)] : n \in Lengths(b)}
    \cup UNION {{[i \in 1 .. n |-> IF i = k THEN {e} ELSE {}] : k \in {1, n}, e \in {0, b - 1}} :
                  n \in Lengths(b) \ {0}}

Packing == INSTANCE DirectPacking WITH Widths <- AllWidths, Payloads <- ValuesOf

(* FieldEntries: every set of documents for one field, and pairs of fields of
   every type over a few; terms that share nothing, a byte, two bytes, or all
   of the shorter one. *)
AllDocs == 0 .. MaxDoc - 1
Terms == <<<<>>, <<1>>, <<1, 1>>, <<1, 1, 1>>, <<1, 1, 2, 2>>, <<2, 1, 1>>, <<2, 1, 2>>, <<3>>>>
Field(type, docs, vs) == [type |-> type, docs |-> docs, sent |-> vs]
Numbers(docs) == [k \in 1 .. Cardinality(docs) |-> <<k % 3>>]
TermOf(k, by) == Terms[((k * by) % Len(Terms)) + 1]
OneTerm(docs, by) == [k \in 1 .. Cardinality(docs) |-> <<TermOf(k, by)>>]

EveryDocs == {<<Field("numeric", s, Numbers(s))>> : s \in SUBSET AllDocs}
             \cup {<<Field("sorted", s, OneTerm(s, by))>> : s \in SUBSET AllDocs, by \in {1, 3}}

FewDocs == {{}, {0}, {1, 2}, {3, 8}, AllDocs}
Lists(S, docs) == [1 .. Cardinality(docs) -> S]
FewFields ==
    {Field("numeric", s, Numbers(s)) : s \in FewDocs}
    \cup {Field("binary", s, OneTerm(s, by)) : s \in FewDocs, by \in {0, 1, 5}}
    \cup {Field("sorted", s, OneTerm(s, by)) : s \in FewDocs, by \in {0, 1, 3}}
    \cup UNION {{Field("sorted_numeric", s, v) :
                    v \in Lists({<<2>>, <<2, 1>>, <<3, 3, 1>>}, s)} : s \in FewDocs \ {AllDocs}}
    \cup UNION {{Field("sorted_set", s, v) :
                    v \in Lists({<<Terms[3]>>, <<Terms[5], Terms[2]>>, <<Terms[6], Terms[6]>>}, s)} :
                 s \in FewDocs \ {AllDocs}}
    \cup {Field("sorted_numeric", AllDocs, [k \in 1 .. MaxDoc |-> IF k = 2 THEN <<5, 4>> ELSE <<k>>]),
          Field("sorted_numeric", AllDocs, Numbers(AllDocs)),
          Field("sorted_set", AllDocs, [k \in 1 .. MaxDoc |-> <<TermOf(k, 1), TermOf(k + 2, 3)>>])}
FieldPairs == EveryDocs \cup {<<f, g>> : f \in FewFields, g \in FewFields}

(* OrdinalMap: three segments of up to two documents. *)
SegmentTerms == UNION {[1 .. n -> {<<>>, <<1>>, <<1, 1>>}] : n \in 0 .. 2}
ThreeSegments == [1 .. 3 -> SegmentTerms]

ASSUME PartsAssumption ==
    /\ CodecAssumption
    /\ DisiAssumption /\ MonotonicAssumption /\ TermsDictAssumption /\ SegmentsAssumption
    /\ StreamsAssumption

-----------------------------------------------------------------------------
DocValuesInit ==
    \/ part = "codec" /\ CodecInit /\ PackingIdle /\ FieldsIdle /\ OrdmapIdle
    \/ part = "packing" /\ Packing!Init /\ CodecIdle /\ FieldsIdle /\ OrdmapIdle
    \/ part = "entries" /\ Init /\ CodecIdle /\ PackingIdle /\ OrdmapIdle
    \/ part = "ordmap" /\ OrdmapInit /\ CodecIdle /\ PackingIdle /\ FieldsIdle

DocValuesNext ==
    /\ UNCHANGED part
    /\ \/ part = "codec" /\ CodecNext /\ UNCHANGED <<packingVars, vars, ordmapVars>>
       \/ part = "packing" /\ Packing!Next /\ UNCHANGED <<codecVars, vars, ordmapVars>>
       \/ part = "entries" /\ Next /\ UNCHANGED <<codecVars, packingVars, ordmapVars>>
       \/ part = "ordmap" /\ OrdmapNext /\ UNCHANGED <<codecVars, packingVars, vars>>

DocValuesSpec == DocValuesInit /\ [][DocValuesNext]_docValuesVars

-----------------------------------------------------------------------------
(* The state of the part that runs is well typed. *)
TypesOK ==
    /\ part = "codec" => CodecTypeOK
    /\ part = "packing" => Packing!TypeOK
    /\ part = "entries" => TypeOK
    /\ part = "ordmap" => OrdmapTypeOK

(* Three readers get back the values of either producer at every width, length
   and offset, and the GPU's loads stay in the upload of a whole file. *)
EveryReaderAgrees == part = "packing" => Packing!EveryReaderAgrees /\ Packing!LoadsStayInUpload

(* The GPU packs the bytes direct::pack does. *)
ProducersAgree == part = "packing" => Packing!ProducersAgree

=============================================================================
