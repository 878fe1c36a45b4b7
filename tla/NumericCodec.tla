---------------------------- MODULE NumericCodec ----------------------------
(***************************************************************************)
(* One NUMERIC doc-values field from the values of a segment to its .dvm   *)
(* entry and .dvd payload, and back (docvalues/src/write.rs write_values,  *)
(* read.rs numeric_entry_into_plan, cpu/src/lib.rs decode_numeric).  The   *)
(* writer looks at the values twice, once for statistics and once to pack  *)
(* them, and between the two picks one of five layouts; the reader has     *)
(* only the entry to tell which it was.                                    *)
(*                                                                         *)
(* The packed payload is a sequence of numbers here: its bits are in       *)
(* module DirectPacking, the docs-with-field region is in module Disi.     *)
(***************************************************************************)
EXTENDS NumericStats, Listings

CONSTANTS
    CodecWidths,   \* SUPPORTED_BITS_PER_VALUE
    CodecDocs,     \* documents of the segment
    Inputs         \* the calls: [lane, docs, chunks]

(* A flat call has one slice, a call with chunks no documents. *)
CodecAssumption ==
    /\ WidthAssumption
    /\ CodecWidths \subseteq 1 .. W /\ W \in CodecWidths
    /\ CodecDocs \in Nat
    /\ \A c \in Inputs :
           /\ c.lane \in {"flat", "chunks"}
           /\ c.docs \in Seq(Nat) /\ c.chunks \in Seq(Seq(Int64))
           /\ c.lane = "flat" => c.chunks = <<>> \/ (Len(c.chunks) = 1 /\ c.chunks[1] # <<>>)
           /\ c.lane = "chunks" => c.docs = <<>>

VARIABLES
    call,      \* the arguments: lane "flat" or "chunks", docs, chunks
    phase,     \* where the writer, then the reader, is
    taken,     \* the values the statistics loop has been through
    stats,     \* the accumulators of that loop
    entry,     \* the .dvm entry
    payload,   \* the .dvd payload: the numbers handed to direct::pack
    column     \* the decoded column, [valid, v] for every doc

codecVars == <<call, phase, taken, stats, entry, payload, column>>

AllValues == FlattenSeq(call.chunks)
FirstValue == call.chunks[1][1]

unsigned_bits_required(m) ==
    LET raw == CHOOSE k \in 1 .. W : /\ Unsigned(m) < Pow2[k]
                                     /\ k = 1 \/ Pow2[k - 1] =< Unsigned(m)
    IN  CHOOSE w \in CodecWidths : w >= raw /\ \A u \in CodecWidths : u >= raw => w =< u

NoEntry == [docsWithField |-> -2, docs |-> <<>>, numValues |-> 0,
            table |-> <<>>, bpv |-> 0, min |-> 0, gcd |-> 0]
NoStats == StatsOfFirst(0)

CodecInit == /\ call \in Inputs
        /\ phase = "called"
        /\ taken = 0
        /\ stats = NoStats
        /\ entry = NoEntry
        /\ payload = <<>>
        /\ column = <<>>

-----------------------------------------------------------------------------
(* encode_numeric_field_with checks docs, the chunk lane its length. *)
Accepted ==
    IF call.lane = "chunks" THEN Len(AllValues) = CodecDocs
    ELSE /\ Len(call.docs) = Len(AllValues)
         /\ \A i \in 1 .. Len(call.docs) - 1 : call.docs[i] < call.docs[i + 1]
         /\ call.docs # <<>> => call.docs[Len(call.docs)] < CodecDocs

Refuse == /\ phase = "called"
          /\ ~ Accepted
          /\ phase' = "refused"
          /\ UNCHANGED <<call, taken, stats, entry, payload, column>>

(* -2: no doc has a value; -1: every doc has one; else the docs themselves.
   The chunk lane passes no docs for a dense field. *)
NumDocsWithValue ==
    IF call.docs = <<>> /\ Len(AllValues) = CodecDocs THEN CodecDocs ELSE Len(call.docs)

DocsWithField == IF NumDocsWithValue = 0 THEN -2
                 ELSE IF NumDocsWithValue = CodecDocs THEN -1 ELSE 0

(* stats_chunks starts from the first value of the first chunk, where a batch
   without rows may have left none. *)
FirstIsMissing == AllValues # <<>> /\ call.chunks[1] = <<>>

BeginEntry ==
    /\ phase = "called"
    /\ Accepted
    /\ ~ FirstIsMissing
    /\ entry' = [NoEntry EXCEPT !.docsWithField = DocsWithField,
                                !.docs = IF DocsWithField = 0 THEN call.docs ELSE <<>>,
                                !.numValues = Len(AllValues)]
    /\ IF AllValues = <<>>
       THEN phase' = "written" /\ UNCHANGED stats
       ELSE phase' = "stats" /\ stats' = StatsOfFirst(FirstValue)
    /\ UNCHANGED <<call, taken, payload, column>>

(* chunks[0][0] is out of bounds: the task that writes the job panics. *)
Panic == /\ phase = "called"
         /\ Accepted
         /\ FirstIsMissing
         /\ phase' = "panicked"
         /\ UNCHANGED <<call, taken, stats, entry, payload, column>>

(* The statistics loop: one value, in chunk order. *)
FoldValue ==
    /\ phase = "stats"
    /\ taken < Len(AllValues)
    /\ stats' = AddValue(stats, FirstValue, AllValues[taken + 1])
    /\ taken' = taken + 1
    /\ UNCHANGED <<call, phase, entry, payload, column>>

-----------------------------------------------------------------------------
DeltaWidth(s) == unsigned_bits_required(WrappingDiv(Wrap(s.max - s.min), s.gcd))

(* Storing the values themselves costs no more bits than their deltas. *)
\* Mutant of DropsMin: whatever the divisor.
DropsMinOfAnyGcd(s) ==
    s.min > 0 /\ unsigned_bits_required(s.max) = unsigned_bits_required(Wrap(s.max - s.min))

DropsMin(s) == /\ s.gcd = 1 /\ s.min > 0
               /\ unsigned_bits_required(s.max) = unsigned_bits_required(Wrap(s.max - s.min))

PrefersTable(s) ==
    LET n == Cardinality(s.unique.set) IN
    s.unique.some /\ n > 1 /\ unsigned_bits_required(n - 1) < DeltaWidth(s)

(* The layout: constant, table, or delta with an optional divisor. *)
Layout(s) ==
    IF s.min >= s.max
    THEN [bpv |-> 0, table |-> <<>>, min |-> s.min, gcd |-> s.gcd]
    ELSE IF PrefersTable(s)
    THEN [bpv |-> unsigned_bits_required(Cardinality(s.unique.set) - 1),
          table |-> InOrder(s.unique.set), min |-> 0, gcd |-> 1]
    ELSE [bpv |-> DeltaWidth(s), table |-> <<>>,
          min |-> IF DropsMin(s) THEN 0 ELSE s.min, gcd |-> s.gcd]

ChooseLayout ==
    /\ phase = "stats"
    /\ taken = Len(AllValues)
    /\ LET l == Layout(stats)
       IN  entry' = [entry EXCEPT !.bpv = l.bpv, !.table = l.table,
                                  !.min = l.min, !.gcd = l.gcd]
    /\ phase' = IF entry'.bpv > 0 THEN "pack" ELSE "written"
    /\ UNCHANGED <<call, taken, stats, payload, column>>

(* pack, before the bits: a table index, or (v - base) / gcd. *)
Packed(e, v) ==
    IF e.table # <<>> THEN (CHOOSE i \in DOMAIN e.table : e.table[i] = v) - 1
    ELSE WrappingDiv(Wrap(v - e.min), e.gcd)

Pack == /\ phase = "pack"
        /\ payload' = [i \in DOMAIN AllValues |-> Packed(entry, AllValues[i])]
        /\ phase' = "written"
        /\ UNCHANGED <<call, taken, stats, entry, column>>

-----------------------------------------------------------------------------
(* What comes out of bpv bits. *)
Unpacked(x) == Unsigned(x) % Pow2[entry.bpv]

(* numeric_entry_into_plan names the block kind, decode_block computes it. *)
BlockKind == IF entry.numValues = 0 THEN "none"
             ELSE IF entry.bpv = 0 THEN "constant"
             ELSE IF entry.table # <<>> THEN "table"
             ELSE IF entry.gcd # 1 THEN "gcd"
             ELSE IF entry.min # 0 THEN "delta" ELSE "direct"

DecodeValue(i) ==
    CASE BlockKind = "constant" -> entry.min
      [] BlockKind = "table"    -> entry.table[Unpacked(payload[i]) + 1]
      [] BlockKind = "gcd"      -> Wrap(entry.min + entry.gcd * Unpacked(payload[i]))
      [] BlockKind = "delta"    -> Wrap(entry.min + Unpacked(payload[i]))
      [] BlockKind = "direct"   -> Wrap(Unpacked(payload[i]))

DecodedValues == [i \in 1 .. entry.numValues |-> DecodeValue(i)]

(* decode_numeric: a value for every doc, or scattered over the docs of the
   region, and an error when their number is not the number of values. *)
DecodesTo ==
    CASE entry.docsWithField = -2 -> [d \in 0 .. CodecDocs - 1 |-> [valid |-> FALSE, v |-> 0]]
      [] entry.docsWithField = -1 -> [d \in 0 .. CodecDocs - 1 |-> [valid |-> TRUE, v |-> DecodedValues[d + 1]]]
      [] OTHER ->
          [d \in 0 .. CodecDocs - 1 |->
             IF d \in Range(entry.docs)
             THEN [valid |-> TRUE,
                   v |-> DecodedValues[Cardinality({e \in Range(entry.docs) : e =< d})]]
             ELSE [valid |-> FALSE, v |-> 0]]

CountFits == CASE entry.docsWithField = -2 -> TRUE
               [] entry.docsWithField = -1 -> entry.numValues = CodecDocs
               [] OTHER -> entry.numValues = Len(entry.docs)

Read == /\ phase = "written"
        /\ CountFits
        /\ column' = DecodesTo
        /\ phase' = "read"
        /\ UNCHANGED <<call, taken, stats, entry, payload>>

CodecNext == Refuse \/ BeginEntry \/ Panic \/ FoldValue \/ ChooseLayout \/ Pack \/ Read

CodecSpec == CodecInit /\ [][CodecNext]_codecVars

-----------------------------------------------------------------------------
(* The entry and the payload have the shapes the reader parses. *)
CodecTypeOK ==
    /\ phase \in {"called", "refused", "panicked", "stats", "pack", "written", "read"}
    /\ entry.docsWithField \in {-2, -1, 0} /\ entry.bpv \in CodecWidths \cup {0}
    /\ entry.min \in Int64 /\ entry.gcd \in Int64 /\ stats.gcd \in 0 .. High
    /\ Len(entry.table) =< TableLimit
    /\ payload \in Seq(Int64)

(* Every document has the value it was sent and no other document has one. *)
SentDocs == IF call.lane = "chunks" THEN [i \in 1 .. CodecDocs |-> i - 1] ELSE call.docs
ReadsBack ==
    \A d \in 0 .. CodecDocs - 1 :
        IF d \in Range(SentDocs)
        THEN column[d] = [valid |-> TRUE,
                          v |-> AllValues[CHOOSE i \in DOMAIN SentDocs : SentDocs[i] = d]]
        ELSE ~ column[d].valid

(* Whatever layout the writer picked, the reader can open what was written, for
   the counts in its entry agree; the packed numbers fit their width, for
   direct::pack does not mask and a wider one would spill into its neighbours;
   and what is decoded is what was sent (write_values against
   numeric_entry_into_plan and decode_block). *)
RoundTrip ==
    /\ phase = "written" => CountFits
    /\ \A i \in DOMAIN payload : Unsigned(payload[i]) < Pow2[entry.bpv]
    /\ phase = "read" => ReadsBack

(* The loop, over any split into chunks, computes what its terms mean on
   the concatenation ("MUST equal stats(concat)", write.rs:51): in particular
   the binary gcd with its early exits is the greatest common divisor. *)
StatsAreExact ==
    phase \in {"pack", "written", "read"} /\ entry.numValues > 0 => stats = StatsOf(AllValues)

(* The statistics of a list of chunks are those of the concatenation
   ("MUST equal `stats(concat)`", write.rs:51), which exist when a value does. *)
ChunksHaveStats == phase # "panicked"

(* The GPU packer subtracts and divides in C, where a signed overflow is
   undefined ("real plans never wrap", gpu/src/encode.rs:147), and leaves the
   full-width layout with gcd 1 to the host: no other layout may wrap. *)
NarrowPlansNeverWrap ==
    phase = "pack" /\ entry.table = <<>> /\ ~ (entry.bpv = W /\ entry.gcd = 1) =>
        \A i \in DOMAIN AllValues : AllValues[i] - entry.min \in Int64
=============================================================================
