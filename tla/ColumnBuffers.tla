---------------------------- MODULE ColumnBuffers ----------------------------
(***************************************************************************)
(* The columns of one write job: the ColBuffers push fills and             *)
(* flush_segment empties (crates/flight/src/write.rs), the coverage and    *)
(* the values each flush encodes (crates/docvalues/src/write.rs), and the  *)
(* columns DoGet decodes from them (crates/flight/src/engine.rs,           *)
(* crates/cpu/src/lib.rs).                                                 *)
(*                                                                         *)
(* A cell of a batch is the number of the row it arrived in and a shape:   *)
(* its value is as good as the row's number, so a value read back for      *)
(* another row, or by another column, shows.                               *)
(***************************************************************************)
EXTENDS Integers, Sequences, FiniteSets, SequencesExt, Listings

CONSTANTS
    Schemas,         \* the schemas jobs come with: for every column its coercion
    SegmentMaxDocs,  \* segment_max_docs after .max(1)
    MaxBatchRows,    \* bound: rows of a batch
    MaxBatches       \* bound: batches of a job

\* "int64": canonical Int64 (Passthrough).  "scalar": every other column with
\* one value per row.  "longs", "terms": List<Int64>, List<Utf8>.
Kinds == {"int64", "scalar", "longs", "terms"}

JobAssumption ==
    /\ \A s \in Schemas : DOMAIN s # {} /\ s \in [DOMAIN s -> Kinds]
    /\ SegmentMaxDocs \in Nat \ {0}
    /\ MaxBatchRows \in Nat
    /\ MaxBatches \in Nat

\* What a cell may hold: "twins" is a list of two equal elements.
ShapesOf(k) ==
    IF k \in {"longs", "terms"} THEN {"null", "empty", "one", "twins", "two"}
                                ELSE {"null", "one"}
Shapes == UNION {ShapesOf(k) : k \in Kinds}
SentCell == [row : Nat, shape : Shapes]

\* Null and the empty list are both "field absent for this doc".
Present(c) == c.shape \notin {"null", "empty"}

VARIABLES
    kind,             \* the schema of the job: kind[f] is the coercion of f
    buffers,          \* one ColBuffer per field
    docs_in_segment,
    written,          \* the segments flushed: max_doc and encoded columns
    finished,         \* the session is over
    arrived           \* history: the columns of all batches pushed
jobVars == <<kind, buffers, docs_in_segment, written, finished, arrived>>

Fields == DOMAIN kind

Dense == [lane : {"dense"}, chunks : Seq(Seq(SentCell))]
Sparse == [lane : {"sparse"}, docs : Seq(Nat), values : Seq(SentCell)]
EncodedColumn == [coverage : {"all", "some", "none"}, docs : Seq(Nat),
                  values : Seq(SentCell), multi : BOOLEAN]
Segment == [max_doc : Nat, columns : [Fields -> EncodedColumn]]

JobTypeOK ==
    /\ kind \in Schemas
    /\ buffers \in [Fields -> Dense \cup Sparse]
    /\ docs_in_segment \in Nat
    /\ written \in Seq(Segment)
    /\ finished \in BOOLEAN
    /\ arrived \in Seq([Fields -> Seq(SentCell)])

\* ColBuffer::for_coercion
EmptyBuffer(f) ==
    IF kind[f] = "int64" THEN [lane |-> "dense", chunks |-> <<>>]
                         ELSE [lane |-> "sparse", docs |-> <<>>, values |-> <<>>]

\* ColBuffer::clear keeps the lane: a column that was demoted stays so.
Cleared(b) ==
    IF b.lane = "dense" THEN [b EXCEPT !.chunks = <<>>]
                        ELSE [b EXCEPT !.docs = <<>>, !.values = <<>>]

JobInit ==
    /\ kind \in Schemas
    /\ buffers = [f \in Fields |-> EmptyBuffer(f)]
    /\ docs_in_segment = 0
    /\ written = <<>>
    /\ finished = FALSE
    /\ arrived = <<>>

-----------------------------------------------------------------------------
(* append_column.                                                          *)

\* The positions of the cells that hold a value.
PresentAt(cells) == {i \in DOMAIN cells : Present(cells[i])}

\* Mutant of DocsOf: docids from -1.
DocsOneEarly(cells, base) ==
    LET at == InOrder(PresentAt(cells)) IN [k \in DOMAIN at |-> base + at[k] - 2]

DocsOf(cells, base) ==
    LET at == InOrder(PresentAt(cells)) IN [k \in DOMAIN at |-> base + at[k] - 1]

AppendSparse(b, cells, base) ==
    [b EXCEPT !.docs = @ \o DocsOf(cells, base),
              !.values = @ \o Chosen(cells, PresentAt(cells))]

\* Mutant of Demote: the chunks so far are not replayed.
DemoteWithoutReplay(b, cells, base) ==
    AppendSparse([lane |-> "sparse", docs |-> <<>>, values |-> <<>>], cells, base)

\* A null arrived in the dense lane: docids and values are materialized for
\* the chunks so far, and for the valid rows of this batch.
Demote(b, cells, base) ==
    LET sofar == FlattenSeq(b.chunks)
    IN AppendSparse([lane |-> "sparse",
                     docs |-> [d \in 1 .. Len(sofar) |-> d - 1],
                     values |-> sofar], cells, base)

AppendColumn(b, cells, base) ==
    IF b.lane = "sparse" THEN AppendSparse(b, cells, base)
    ELSE IF \A i \in DOMAIN cells : Present(cells[i])
    THEN [b EXCEPT !.chunks = Append(@, cells)]
    ELSE Demote(b, cells, base)

-----------------------------------------------------------------------------
(* flush_segment: what the doc-values writer stores of each buffer.        *)

\* write_values / write_docs_with_field: the docs-with-field indicator.
CoverageOf(docs, max_doc) ==
    IF Len(docs) = 0 THEN "none" ELSE IF Len(docs) = max_doc THEN "all" ELSE "some"

\* An addresses block is written when some document has several values.
\* Terms are deduplicated within a document first.
IsMulti(f, cells) ==
    \E i \in DOMAIN cells :
        \/ cells[i].shape = "two"
        \/ cells[i].shape = "twins" /\ kind[f] = "longs"

Encode(f, b, max_doc) ==
    LET values == IF b.lane = "dense" THEN FlattenSeq(b.chunks) ELSE b.values
        coverage == IF b.lane = "dense" THEN "all" ELSE CoverageOf(b.docs, max_doc)
    IN [coverage |-> coverage,
        docs |-> IF coverage = "some" THEN b.docs ELSE <<>>,
        values |-> values,
        multi |-> IsMulti(f, values)]

DocsToFlush == docs_in_segment

\* The state after flush_segment: the buffers, docs_in_segment and written.
Flushed ==
    IF docs_in_segment = 0
    THEN [buffers |-> buffers, docs |-> 0, written |-> written]
    ELSE [buffers |-> [f \in Fields |-> Cleared(buffers[f])],
          docs |-> 0,
          written |-> Append(written,
             [max_doc |-> DocsToFlush,
              columns |-> [f \in Fields |-> Encode(f, buffers[f], DocsToFlush)]])]

-----------------------------------------------------------------------------
RowsInBatch(k) == Len(arrived[k][CHOOSE f \in Fields : TRUE])
RowsOfBatches(k) == Total([i \in 1 .. k |-> RowsInBatch(i)])
RowCount == RowsOfBatches(Len(arrived))

\* The record batches of n rows; the rows are numbered as they arrive.
Batches(n) ==
    {[f \in Fields |-> [i \in 1 .. n |-> [row |-> RowCount + i - 1, shape |-> s[f][i]]]] :
        s \in {t \in [Fields -> [1 .. n -> Shapes]] :
                  \A f \in Fields, i \in 1 .. n : t[f][i] \in ShapesOf(kind[f])}}

SegmentFull == docs_in_segment >= SegmentMaxDocs

\* push: flush when the segment is full, then append the batch whole.
Push(batch, n) ==
    LET before == IF SegmentFull THEN Flushed
                  ELSE [buffers |-> buffers, docs |-> docs_in_segment, written |-> written]
    IN /\ ~finished
       /\ Len(arrived) < MaxBatches
       /\ buffers' = [f \in Fields |->
                        AppendColumn(before.buffers[f], batch[f], before.docs)]
       /\ docs_in_segment' = before.docs + n
       /\ written' = before.written
       /\ arrived' = Append(arrived, batch)
       /\ UNCHANGED <<kind, finished>>

\* finish: flush the tail; a job without rows is an error and ends too.
FinishJob ==
    /\ ~finished
    /\ buffers' = Flushed.buffers
    /\ docs_in_segment' = 0
    /\ written' = Flushed.written
    /\ finished' = TRUE
    /\ UNCHANGED <<kind, arrived>>

\* A batch without rows leaves an empty chunk.  When it is the first, the CPU
\* encoder, which takes chunks[0][0] (docvalues write.rs:127), panics at the
\* flush and the session is lost; the GPU's goes on.
FirstChunkIsEmpty ==
    \E f \in Fields : /\ buffers[f].lane = "dense"
                      /\ buffers[f].chunks # <<>> /\ buffers[f].chunks[1] = <<>>

EncoderPanics ==
    /\ ~finished
    /\ docs_in_segment > 0
    /\ FirstChunkIsEmpty
    /\ finished' = TRUE
    /\ UNCHANGED <<kind, buffers, docs_in_segment, written, arrived>>

JobNext ==
    \/ \E n \in 0 .. MaxBatchRows : \E batch \in Batches(n) : Push(batch, n)
    \/ FinishJob
    \/ EncoderPanics

JobSpec == JobInit /\ [][JobNext]_jobVars

-----------------------------------------------------------------------------
(* DoGet: what a segment's column decodes to.                              *)

\* The documents below d that have a value: the rank of the docs bitmap.
RankOf(docs, d) == Cardinality({i \in 1 .. Len(docs) : docs[i] < d})

\* decode_numeric / decode_sorted / decode_multi_numeric: scatter the values
\* to the documents of the coverage.  None is <<>>, a value is <<cell>>.
Decode(col, max_doc) ==
    [d \in 1 .. max_doc |->
        CASE col.coverage = "none" -> <<>>
          [] col.coverage = "all" -> <<col.values[d]>>
          [] col.coverage = "some" ->
                IF \E i \in 1 .. Len(col.docs) : col.docs[i] = d - 1
                THEN <<col.values[RankOf(col.docs, d - 1) + 1]>> ELSE <<>>]

\* field_arrow_type: a list column whose documents all have at most one value
\* degrades to the single-valued type, segment by segment.
ArrowType(f, col) ==
    IF kind[f] \notin {"longs", "terms"} THEN "flat"
    ELSE IF col.multi THEN "list" ELSE "flat"

-----------------------------------------------------------------------------
(* Properties.                                                             *)

\* What a buffer holds for the documents of the segment being built.
InBuffer(f) ==
    IF docs_in_segment = 0 THEN <<>>
    ELSE Decode(Encode(f, buffers[f], docs_in_segment), docs_in_segment)

OnDisk(f) ==
    FlattenSeq([k \in 1 .. Len(written) |->
                  Decode(written[k].columns[f], written[k].max_doc)])

\* What was sent, a slot for every row.
Slots(cells) ==
    [i \in DOMAIN cells |-> IF cells[i].shape \in {"null", "empty"} THEN <<>> ELSE <<cells[i]>>]

Sent(f) ==
    FlattenSeq([k \in 1 .. Len(arrived) |-> Slots(arrived[k][f])])

\* Every value is read back for the row it was sent in and no other, across
\* lanes, demotions and segment cuts: docids are assigned in arrival order
\* (SPEC 10.1), and null is kept apart from every value (SPEC 10.2).
ReadsBackWhatWasSent == \A f \in Fields : OnDisk(f) \o InBuffer(f) = Sent(f)

\* The encoder's preconditions (docvalues write.rs, "docs must be sorted and
\* unique"; "dense chunks: n values != max_doc"; debug_assert in
\* flush_segment) hold at any moment a flush may come.
EncoderAccepts ==
    \A f \in Fields :
        LET b == buffers[f] IN
        IF b.lane = "dense" THEN Len(FlattenSeq(b.chunks)) = docs_in_segment
        ELSE /\ Len(b.docs) = Len(b.values)
             /\ \A i \in 1 .. Len(b.docs) - 1 : b.docs[i] < b.docs[i + 1]
             /\ Len(b.docs) > 0 => b.docs[Len(b.docs)] < docs_in_segment

\* A batch belongs to exactly one segment: cuts happen between batches, never
\* mid-batch (push).  Every segment but the open one ends where a batch ends.
RowsOfSegments(k) == Total([i \in 1 .. k |-> written[i].max_doc])
BatchInOneSegment ==
    \A s \in 1 .. Len(written) :
        \E b \in 0 .. Len(arrived) : RowsOfSegments(s) = RowsOfBatches(b)

\* segment_max_docs is a threshold, checked before a batch: only the last
\* segment may be smaller, and none is larger by as much as a batch.
SegmentSizes ==
    \A s \in 1 .. Len(written) :
        /\ 0 < written[s].max_doc
        /\ written[s].max_doc < SegmentMaxDocs + MaxBatchRows
        /\ (s < Len(written) \/ ~finished) => written[s].max_doc >= SegmentMaxDocs

\* The buffers are what the encoder asks for whenever a flush may come, the
\* segments are cut where a batch ends, and every value is in the buffers or the
\* segments at its row.
BuffersReadBack ==
    ReadsBackWhatWasSent /\ EncoderAccepts /\ BatchInOneSegment /\ SegmentSizes

\* The round trip of SPEC 10.2 for canonical columns: the segments of a job
\* agree on the Arrow type of every field, so resolve can read them together.
\* Segments where a field is single-valued by chance break it.
SegmentsAgreeOnType ==
    \A f \in Fields : \A s, t \in 1 .. Len(written) :
        ArrowType(f, written[s].columns[f]) = ArrowType(f, written[t].columns[f])
=============================================================================
