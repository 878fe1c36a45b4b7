# lucene-arrow in TLA+

A verification project for lucene-arrow: TLA+ modules translated from the Rust
source and its CUDA kernels, TLC configurations that check them on small
instances, and theorems about them that TLAPS checks for every instance. Paths
are relative to the repository; `write.rs`, `server.rs`, `engine.rs` and
`hydrate.rs` without a directory are those of `crates/flight/src`;
`executor.rs`, `encode.rs`, `bm25.rs` and `text_ingest.rs` those of
`crates/gpu/src`.

    tlasany M.tla                     parse a module
    tlc -config X.cfg M               one run (see "Runs")
    tlapm WriteSessionProofs.tla      the proofs about write sessions, and that they implement Shard
    tlapm ColumnBuffersProofs.tla     the proofs about the columns of a write job
    tlapm GpuProofs.tla               the proofs about the staging ring, the packer's upload cache and the top-k
    tlapm GpuStatsProofs.tla          the proofs about the statistics kernel, its table and its result
    tlapm FlightReadProofs.tla        the proofs about get_flight_info, do_get and hydrate
    tlapm DocValuesProofs.tla         the proofs about numbers, keys, jumps and the merged dictionary
    tlapm NumericStatsProofs.tla      the proofs about the statistics of a column and the binary gcd
    tlapm ListingsProofs.tla          the lemmas on sequences and sets they rest on

## 1. Inventory

lucene-arrow converts between Lucene segment directories and Arrow record
batches. A Flight server takes write jobs (`DoPut`: batches in, one Lucene
directory out) and reads (`DoGet`: a directory in, batches out; the action
`hydrate`: addresses in, stored fields out). It has no state of its own between
calls: **what persists is the directory**, and calls interact only through it.
Inside a call the layers call one another in turn (flight, codec, doc values or
postings, CPU or GPU); on the GPU, threads of a kernel and the host interact
through device memory and the stream.

| Component | State | Operations | What must hold |
|---|---|---|---|
| Write session (`write.rs`, `server.rs` `do_put`) | buffers, `docs_in_segment`, `written`; the output directory | `new`, `push`, `flush_segment`, `finish` | a commit lists only whole files of one job; an answer means committed; jobs never append |
| Column buffers (`write.rs` `classify`, `ColBuffer`, `append_column`) | one buffer per field: dense chunks, or docids and values | accept a schema, convert and append a batch, demote, encode, clear | every value comes back at its row, null stays null, nothing is lost but by name |
| Read (`server.rs` `get_flight_info`, `do_get`, `engine.rs`) | none; reads the directory file by file | `resolve`, `segment_batches`, `postings_batches` | rows of one commit, each once, in order; errors rather than other rows |
| Hydrate (`hydrate.rs`) | none | addresses to stored documents to columns | rows in the caller's order, one type per column |
| Codec (`crates/codec`) | segment files, `segments_N` | `write_segment_files*`, `commit_segments`, `SegmentDirectory::open` | order of writes, identity checks |
| bearing (`vendor/bearing`, as used) | pending and final commit file | create, flush on drop, sync, rename; latest commit | a commit appears whole |
| Doc values (`crates/docvalues`) | none: encoders and decoders | numeric, sorted, binary, DISI, direct, monotonic, terms, ordinal map | decode inverts encode; what only Lucene reads leads it right |
| CPU decoder (`crates/cpu`) | none | scatter, list offsets, dictionaries | right value at right document |
| GPU staging ring (`crates/gpu/src/executor.rs`) | page-locked buffers and their events; the CUDA stream | `upload`, `upload_into`, drop | no buffer is reused or freed under a copy |
| GPU encode (`encode.rs`) | device upload cache, hash table, gcd accumulator | stats, pack | same result as the CPU; a field is packed from its own values |
| GPU BM25 (`bm25.rs`) | score rows, shared memory | score, top-k | the k best, each once |
| GPU text ingest (`text_ingest.rs`) | vocabulary hash table, pair and span counters | tokenize, compact, remap | same index as the CPU; ends |
| Postings (`crates/postings`) | none | tokenize, build CSR in parallel, walk, PFOR | order and counts of postings, at any number of threads |
| Vectors (`crates/vectors`) | none | flat vectors, HNSW graph, jVector | graph stays navigable |
| Core (`crates/core`) | mmaps | extents, cursors, plans | extents cover the ranges |
| `faiss-source` (empty), `harness` (Java checks) | | | |

Where it is hard: several calls on one directory, interleaved file by file;
errors and crashes between any two file operations; retries into what a failed
job left; an index that changes under a read, and a ticket that is resolved
again; columns that change lanes and segments that are cut at arbitrary
batches; formats whose reader has only counts and offsets to tell layouts apart;
two's-complement statistics at the ends of the range; kernels whose threads race
on tables, counters and flags; a host that runs ahead of the GPU and reuses
staging memory; counts at 0, all and limit. `PROJECT.json` lists these hazards
line by line, with the properties that cover each one.

## 2. Modules

| Module | Models | Checked in |
|---|---|---|
| `WriteSession` | jobs, files, commit, readers on one directory | `WriteSession.cfg` |
| `Shard`, `WriteSessionRefinement` | the abstract promise (a shard appears once, whole) and the mapping to it | `WriteSession.cfg` |
| `Coercion` | one column of any Arrow type, from acceptance to what is read back | `Flight.cfg` |
| `ColumnBuffers` | columns of one job, from batches to decoded columns | `Flight.cfg` |
| `FlightRead` | `get_flight_info` and `do_get` on a changing index | `Flight.cfg` |
| `Hydrate` | the action `hydrate` | `Flight.cfg` |
| `NumericStats`, `NumericCodec` | the two passes over a numeric field, its five layouts, its reader | `DocValues.cfg` |
| `DirectPacking` | the bits of a payload: two producers, three readers | `DocValues.cfg` |
| `Disi`, `Monotonic`, `TermsDict` | the parts of a field's data (operators only) | through `FieldEntries` |
| `FieldEntries` | whole `.dvm` and `.dvd` files: writers, the walk, decoders | `DocValues.cfg` |
| `OrdinalMap` | the merge of the segments' dictionaries | `DocValues.cfg` |
| `PinnedRing` | staging ring, host and GPU | `Gpu.cfg` |
| `PackerCache` | the upload kept between statistics and packing | `Gpu.cfg` |
| `GpuStats` | the statistics kernel, thread by thread | `Gpu.cfg` |
| `Inverted`, `TextIngest` | text to postings: serial, parallel, and the GPU kernel thread by thread | `Gpu.cfg` |
| `Bm25TopK` | the kernel `bm25_topk` and its host filter | `Gpu.cfg` |
| `Listings` | helpers on sequences | |
| `WriteSessionProofs`, `ColumnBuffersProofs`, `FlightReadProofs`, `NumericStatsProofs`, `DocValuesProofs`, `GpuProofs`, `GpuStatsProofs` | invariants and theorems | tlapm |
| `ListingsProofs` | what the helpers on sequences and sets return | tlapm |
| `MCWriteSession`, `MCFlight`, `MCDocValues`, `MCGpu` | the four passing runs | |
| `MCColumnBuffers`, `MCCoercion`, `MCNumericCodec`, `MCFlightRead`, `MCHydrate`, `MCFieldEntries`, `MCTextIngest` | small instances of one module each | |

**WriteSession.** `dir[s][e]` is the file of extension `e` of segment `_s`. A
file records which job and segment it was written for (the random segment id of
its header), which rows it was encoded from and whether all of it has been
written. `std::fs::write` is two steps, `CreateFile` (created and truncated) and
`FillFile`; files come in the order of `write_segment_files_ext`. `Start`,
`Reject`, `Append_`, `CutSegment` and `Finish` are the client's moves
(`WriteSession::new`, `push`, `finish`); `ResumePush` and `ResumeFinish` are what
happens when `flush_segment` returns. The commit is `CreatePending`,
`FillPending` (the `BufWriter` flushes when it is dropped) and `RenamePending`.
`StreamFails`, `IoFails` and `Crash` end a job and leave its files. A reader opens
the latest commit, checks every `.si` and `.fnm` (whole, and with the segment id
of the commit), then plans and decodes each segment; `.dvm` is checked for
being whole but not for its id, and `.dvd` not at all, as in `plan_doc_values`.
`got` keeps what it decoded. `accepted` and `arriving` are not fields of the
session: they number the rows so that a file can say which ones it holds. Of the
values of the rows only one thing is kept, which rows have several values in which
list column (`Several`): it decides whether a segment's column decodes to a List
(`TypesOf`, from `field_arrow_type`), `Plan` reconciles these types into `schema`
and ends the read when two segments disagree, as `resolve` does, and `Decode` checks
them again, as `RecordBatch::try_new` does. A reader asks for every column and for
an executor the server has, its own file operations succeed, no column is named like
a system column, and terms are UTF-8 (`DoPut` takes them from strings); the reads
and directories for which this is not so are the business of `FlightRead`.

**Shard.** A client's rows; a shard that a job may publish once, whole, when
there is none; the answer to that job; readers that get the shard as it is.
`WriteSessionRefinement` maps every state of `WriteSession` to it: what is
published is read off the files the commit lists, so a commit with a missing, torn
or foreign file maps to an unreadable shard and fails the refinement. A read may be
`Refused` the shard as a whole; the mapping gives that name to an error only when the
types of the shard's segments conflict (`TypeConflict`), and any other error after a
commit fails the refinement.

**Coercion.** `classify` and the two policies, the conversion of each Arrow type in
`append_column` and the type the column comes back as. An `i64` has W bits and
casts wrap; a float is its bit pattern; decimals are scaled and rounded; strings
are numbers with the same order. Nulls, null list elements and the values behind
them are kept apart from values.

**ColumnBuffers.** A job comes with a schema, `kind`: the coercion of every column.
A cell is the number of its row and a shape (null, empty, one, two equal, two). `AppendColumn` has the lanes of `append_column`, `Demote` the
replay of earlier chunks, `EncoderPanics` the end of a session whose dense lane begins
with an empty batch (the CPU encoder's; the GPU's goes on), `Encode` the coverage (none, some, all) and the
single- or multi-valued layout, `Decode` the scatter of the readers, `ArrowType`
the type `resolve` gives the column of one segment. `arrived` is a history
variable for the properties.

**FlightRead.** An index is the segments ever written, the `.liv` generations of
each, and a list of commits; an IndexWriter (external, since nothing in `crates/`
is one) flushes, deletes, merges and prunes old files at any time. A call opens
the latest commit, opens its segments, resolves the fields, and then decodes
segment by segment, reading files at each step; the client asks for the info
first and hands the request back as its ticket. A request names an executor, which
the server may not have (`Executable`, looked at when the schema is complete).
`NotUtf8` says which rows have a term that is not UTF-8: the dictionary of a segment
holds the terms of all its rows, deleted ones too, and decodes to Utf8 or to Binary,
while the schema has Utf8 (`DecodesAsDeclared`), so `Readable` has the error of
`RecordBatch::try_new` for it, and for an answer without columns. A flush writes at least one row,
and no field is named like a system column (`ConstantsAssumption`): `resolve`
would answer with two columns of that name.

**Hydrate.** Addresses are grouped by segment and fetched in ordinal order; rows go
back to the caller's order; a column takes the type of its first value and is
promoted with leading nulls.

**NumericStats, NumericCodec.** Statistics with wrapping W-bit arithmetic, the
binary gcd included; `write_values` picks constant, table, gcd, delta or plain
from them, checks its arguments in the code's order, and packs in a second pass; `Panic` is
`chunks[0][0]` of a column whose first chunk is empty;
`numeric_entry_into_plan` and `decode_numeric` have the entry only.

**DirectPacking.** A value is the set of its bits. `pack` has the code's three
shapes (below a byte, whole bytes, nibbles), `pack_words` one GPU thread per word,
and the readers are the fused and the grouped ones of `direct.rs` and
`decode_blocks`, with the words it loads.

**Disi, Monotonic, TermsDict, FieldEntries.** A file is a sequence of numbers and
small records, one place each, and offsets are places. `FieldEntries` writes the
fields of a segment one after another, then walks `.dvm` knowing only what entries
say, then decodes. Every structure is written through to its place, so that an
entry one place too long or an offset relative to the wrong start is seen. The
slope of a monotonic block is a float with MANTISSA bits; the writer and the
reader round it alike or a property fails. LZ4 is a pair of bytes and dictionary
that opens with the same dictionary only.

**OrdinalMap.** The heap with one term per segment, `IsDuplicate`, the table from
segment ordinals to global ones, and its use by the decoders on both the constant
and the direct ordinal plans.

**PinnedRing.** The stream is the sequence of all that was submitted and
`executed` how much of it the GPU has done. An event is a position in the stream;
waiting for it waits until the GPU is past it. A copy reads the staging buffer
when the GPU runs it, which is what makes early reuse visible, and writes the place
it was given (`Place`, the `dptr + off` of `upload_into`, where `dptr` begins where the
slice before ended). `Begin` to `Synchronize` are `upload` and `upload_chunks`:
several slices, each starting at buffer 0. `CallFails` is any CUDA call of an upload
returning an error; the upload is given up with copies still queued and the ring used
again or dropped. `Drop` and `FreeBuffer` walk the buffers one by one; both calls may
fail there too, and both errors are ignored: `unsynced` has the buffers drop could not
wait for, which it frees all the same, and a buffer that could not be freed is left.

**PackerCache.** The calls `write_values` makes for a field (statistics, then
nothing, a pack on the host or a pack on the device), any of which may fail, and
the one upload kept between them under an address and a length. Host memory is
freed and used again between fields, so that two fields may have one key.

**GpuStats.** Each thread of `stats_kernel` strides over the column: the plain loads
of the overflow flag and of the gcd return an old value or the latest, claims are
compare-and-swaps on a table of slots, extremes and gcd are merged at the end.
`Result` is what `stats_device` makes of global memory.

**Inverted, TextIngest.** `tokenize`, `IndexBuilder`, `build_parallel` and
`keys_to_csr` as operators on sequences of bytes of a small alphabet (space,
newline, letters of two cases, characters of two bytes). In `TextIngest` a thread
owns a slice of the text, may run past it to the end of a token, probes the table
and appends a pair; spans with bytes outside ASCII are packed with a length that
saturates, and the host tokenizes them. Then the host's remapping and
`keys_to_csr`.

**Bm25TopK.** One block: the threads' lists (`Take`, a document at a time in the
order of docids, since the lists are private until they are shared), shared memory
(`Share`), and `k` rounds, each the threads' scan (`Scan`, with the slot 0 a thread
reports when it finds nothing), the tree (`Reduce`, one step per halving) and the
winner (`Emit`). What the block does between two barriers is one step: in that
stretch no thread reads what another writes.

## 3. Runs

Four runs pass. `MCWriteSession` is one system. The other three are suites: the
parts they hold do not interact except through what one hands the next, so a
behaviour picks a `part` in its initial state, runs that part's actions alone and
keeps the variables of the others fixed; each property is about one part, or one
statement about several.

| Run | Shows | Bounds |
|---|---|---|
| `write_session` | safety with errors and crashes at every step, retries by two more jobs; reads fail only on types; `ImplementsShard`; calls end | 3 jobs, 1 reader, segments of 2 rows, batches of 0, 1 or 2, 4 rows per job, one list column, one extra (vector) file |
| `flight` | conversion and buffering on the way in; reads and hydrate on a changing index; calls end | 6-bit integers; columns of 2 rows; 3 batches of up to 2 rows, all null patterns; 3 commits, 4 rows, one of them with a term that is not UTF-8, nine requests; 2 addresses, 3 documents, 1 merge |
| `doc_values` | every encoder is inverted by every decoder; what only Lucene reads is right | 4-bit integers, 3 documents and all their values; all 14 widths, lengths at group ends, 3 offsets; 9 documents in blocks of 4, all their subsets, pairs of fields of all types; 3 segments of 2 documents |
| `gpu` | the ring's and the cache's safety, kernels equal the CPU, and end | 2 buffers, 2 slices of up to 3 chunks, 2 uploads; 2 contents at 1 address; 2 threads, 4 values, 3 slots; texts of 4 characters in slices of 3 bytes; 4 threads, 7 documents, k = 3 |

What each property says is at its definition. Why the bounds are enough to be
interesting:

- `write_session`. Three jobs allow a failed first attempt, a retry that finds
  leftovers and a job after the commit; four rows in segments of two with empty
  batches give several segments, a batch that overshoots the threshold (2 rows
  after 1) and a tail. The list column of the first job is a list in its first
  segment only, that of the second in none, and that of the third in every segment or
  not, according to where the segments are cut: readers meet both outcomes.
- `flight`. A merge and a prune fit between any two file reads of a call; the
  requests name segments in the opposite order and twice, ask for columns that do
  not exist or for an executor the server lacks, and use both row modes and batch
  sizes of 0, 1, 2 and 5; segment shapes give absent fields and type conflicts, and
  the third row written has a term that is not UTF-8. The Int64 column starts dense and
  is demoted after any number of batches, across cuts.
- `doc_values`. Four bits reach both ends of the range, overflowing differences, gcd
  of the lowest value, and table limits. Block, rank, term-block and
  reverse-index sizes are scaled so that sparse, bitmap and full blocks, several
  jump entries, several term blocks and index keys occur with 9 documents. Widths
  and offsets of `DirectPacking` are those of the code, unscaled.
- `gpu`. Two slices of three chunks through two buffers wrap the ring within a
  slice and across slices, and a second upload may follow one that was given up; drop
  may come at any time, and fail to wait for, or to free, any of the buffers.
  Two threads race at every atomic of either kernel, with colliding values and
  terms, tokens across slice ends, the sentinel as a value, and more distinct
  values than the table limit. Seven documents over four threads give unequal
  strides, three scores give ties.

Several properties are proved without these bounds (section 5).

Deadlock is not checked: jobs and calls end, rings are dropped, a finite encoder
has no next step, and clients may stop at any time.

**Where the code does not do what it says.** Each of these runs checks one
statement of the repository and TLC finds it violated:

| Run | Statement | What happens |
|---|---|---|
| `write_session_concurrent` | "write jobs never append" (`write.rs:315`) | the emptiness check and the first write are far apart, so two jobs may share a directory |
| `write_session_lost_flush` | "Writing is atomic" (`vendor/bearing/.../segment_infos.rs:367`) | a failed flush in `Drop` is ignored and a torn file is renamed |
| `column_buffers_list_types` | "canonical inputs round-trip exactly" (`SPEC.md:359`) | segments of one job may have different Arrow types for a list column, which `resolve` refuses |
| `numeric_chunks` | "MUST equal `stats(concat)`" (`docvalues/src/write.rs:51`) | a column whose first batch has no rows, and a later one has, panics at the flush |
| `terms_utf8` | "`Utf8` when every term is valid UTF-8" (`crates/cpu/src/lib.rs:180`) | terms are validated concatenated, so two invalid halves of a character pass |
| `pinned_ring_drop_fails` | "staged is pinned and outlives the copy (event-gated)" (`executor.rs:603-604`) | `drop` ignores an `event.synchronize` that fails (`executor.rs:616`) and frees the buffer under its copy |
| `pinned_ring_record_fails` | "no DMA in flight per the event sync" (`executor.rs:597`) | when `event.record` fails its copy is in flight and unguarded |
| `bm25_topk_few_docs` | "each query's top-`k` pairs" (`bm25.rs:229`) | with fewer documents than `k` one of them is returned again |

Five further configurations show statements about code near by, each violated,
and are kept beside the runs for whoever changes that code:

| Configuration (module) | Property | What happens |
|---|---|---|
| `CoercionOther.cfg` (`MCCoercion`) | `AcceptedNeverPanics` | LargeUtf8 and LargeBinary are accepted, then panic at the first batch (`write.rs:670`, against `write.rs:7-8`) |
| `CoercionOther.cfg` (`MCCoercion`), with `-continue` | `FloatPayloadsSort` | the payloads of negative floats sort backwards (`write.rs:35`) |
| the same | `ComesBackAsItsType` | Float64 comes back as Int64 (`engine.rs:83`, against `write.rs:35-36`) |
| `CoercionNullElements.cfg` (`MCCoercion`) | `NullsStayNull` | a null inside a list is stored as whatever the child array holds (`write.rs:712`, against "Arrow nulls = 'field absent for this doc'", `SPEC.md:376`) |
| `FlightReadNotUtf8.cfg` (`MCFlightRead`) | `DecodesToItsType` | terms that are not UTF-8 decode to Binary (`crates/cpu/src/lib.rs:180-190`) under a schema that says Utf8 (`engine.rs:71`, "Arrow type a field decodes to"), and the read fails (`engine.rs:391`) |
| `HydrateMerged.cfg` (`MCHydrate`) | `AddressIsStable` | after a merge an address names another document (`hydrate.rs:43`, against `SPEC.md:208`) |
| `TextIngestOther.cfg` (`MCTextIngest`) | `IngestEqualsCpu` | a non-ASCII span longer than 65535 bytes is cut on the device (`text_ingest.rs:84`, against "Byte-identical to `build_parallel`", `:178`) |
| the same, with `-continue` | `CompactInBounds` | the compacted table has half the entries of the table it is made from (`text_ingest.rs:252`, against `:264`) |
| the same, with `Slots = 1` and `KernelEnds` as PROPERTY | `KernelEnds` | with more terms than slots a probe never ends (`text_ingest.rs:98`) |

The passing runs are about the environment in which these do not occur:
`OneWriter` (clients keep one job at a time on a directory), no `lost_flush`, no
failing `event.record`, at least `k` documents, lists without null elements, types
that can be taken, dictionaries whose terms are UTF-8 when their concatenation is,
texts within the tables' capacity. Three of the errors above do occur in them, and the
properties say what remains true: segments that disagree on a list type and terms that
are not UTF-8 are among the reasons a read may fail for (`FailsOnlyOnTypes`,
`FailsForAReason`), and of a buffer that drop could not wait for `NeverFreesInFlight`
promises nothing.

## 4. Fairness

`WriteSession`: a flush, a commit and a decode are straight-line code in
`block_in_place` or `spawn_blocking`, on a thread that nothing in the server
stops, so each job's own steps (`JobStep`) and each reader's are weakly fair.
Clients are not: a job may stay open for ever. Errors and crashes are never
obliged to happen. `CallsEnd` needs no more than this.

`FlightRead` and `Hydrate`: likewise for the steps of the call (`Server`,
`HydrateStep`); the client and the IndexWriter are under no obligation. `EveryCallEnds`
of `MCFlight` is a single property of the suite `flight`.

`GpuStats`: a launched grid runs to its end, so every thread of it is weakly fair;
this is what the compare-and-swap loops rely on, for a swap is only lost to one
that succeeded. `TextIngest` needs less: some thread that can step does (`Kernel`).
With these `KernelsEnd` holds.

## 5. Proofs

All theorems are about the module's specification, for every value of the
constants that its assumptions allow.

**WriteSessionProofs.** `TypeCorrect` holds in any environment. The others assume
`Trusted`, that is `OneWriter` and no lost flush; I/O errors that are reported and
crashes may come at any step, and the numbers of jobs, readers, rows, segments
and files are arbitrary.

| Theorem | Statement |
|---|---|
| `TypeCorrect` | `Spec => []TypeOK` |
| `CommitsAreReadable` | `Spec => []CommitReadable` |
| `JobsNeverAppend` | `Spec => []NeverAppends` |
| `AcksAreCommitted` | `Spec => []AckedIsCommitted` |
| `ReadsFailOnTypes` | `Spec => []FailsOnlyOnTypes` |
| `ReadersSeeOneJob` | `Spec => []ReaderSeesOneJob` |
| `CommitFreezes` | `Spec => FrozenAfterCommit` |

None of these is inductive. `CommitReadable` says nothing of the files before the
commit, and it is the flushes before it that make it true. The invariant `IInv` has
four layers. `TInv` is types and counters: rows in segments, in buffers and
waiting add up, and a file being created belongs to a flush. `Writing` is about
the directory: at most one job is in progress or has committed (`Solo`) and it
owns every file (`Owns`); the segments it has flushed have all their files, whole,
encoded from the same rows, and tile the rows flushed (`Segments`); the files of
the segment being flushed are written up to `nextFile` (`Current`); the pending
commit and the commit say what its program counter implies (`Protocol`); and a
commit stays as it was (`Final`). `Following` is about readers: a reader that has
seen a commit has seen the present one, and what it has decoded is the prefix of
its segments. `Typing` is about the schema of a read: the segments it has planned
agree on their types and these are the schema's (`TypedBy`), and a read that has
failed has met two that disagree. Each layer is preserved given the ones below, one
lemma per group of actions (`StartWriting`, `FileWriting`, `PushWriting`,
`FlushedWriting`, `CommitWriting`; `FollowingRead`, `FollowingCrash`; `TypingRead`). `CommitCovers` and
`SegmentReadable` then give the properties.

In the same module, `ShardImplemented`: `Spec => ImplementsShard` under
`Trusted`, and `AbsentAssumption` (the value that stands for nothing is not a job).
`IInv` is nearly enough; the proof adds what the clients have sent (`Sending`: a job
that has not begun has sent nothing, and a batch that waits for a flush has a
legal size). `CommitOnDisk` says what the files of a commit stand for: the rows its
job accepted. With it every step is one of the shard's or changes nothing of it:
a batch that is taken (`Taking`), the rename (`Publishing`), the reply (`Telling`),
a read that ends in the rows or, if the types conflict, in a refusal (`Answering`,
`AnswersRefused`, which needs `Typing`); everything else, with every failure and crash,
leaves the shard as it is (`Stutters`, `JobImplements`, `CrashImplements`).

**GpuProofs, the ring.** `TypeCorrect`, whatever fails; and, unless recording an event
may fail, `NoOverwrite`, `NoEarlyFree`, `UploadArrives` and `StagedStable` (no step
changes a staged chunk between its submission and its copy). `NoEarlyFree` is about the
buffers drop has waited for; of those whose `event.synchronize` failed it says nothing,
and `pinned_ring_drop_fails` shows why. The invariant relates
the stream and the events: every queued copy lies before the event of its buffer,
or is the one just submitted (`Guarded`); the host holds a buffer, or has freed
it after a wait, only once its event has fired (`Held`); the chunks sent are those of
the slices before and of the one at hand, with no place left out (`InPlace`); the device
and the queued copies together are the chunks of the current upload, each staged where
its copy will read it and bound for its own place (`Arriving`). With `RecordMayFail` the first of these breaks, as the run
shows.

**GpuProofs, the cache.** `CacheTypeCorrect`, and `EveryFieldPacksItsOwn`
(`CacheSpec => []PacksOwnValues`) for any number of addresses, contents and chunks.
`PacksOwnValues` alone says nothing of the moment before a pack; with `KeptIsOwn`
(between the statistics of a field and its pack, the upload kept is the field's)
it is inductive. The point is that the key, an address and a length, is not
enough, and the order of calls is what makes it so.

**GpuProofs, the top k.** `TopTypeCorrect`, and `BestHitsFound` (`TopSpec =>
[]HitsAreTopK`) for any scores and `k` up to 16 and any block of a power of two
threads up to 256, if there are `k` documents (`EnoughDocs`: the kernel does not ask
for them, and the run `bm25_topk_few_docs` shows what happens without). The property
is about the answer; the invariant `TopIInv` is about the way there. A thread's list
is in descending order, has its own documents once each, and a document it dropped
is no better than the last of the list (`Kept`, kept by `InsertKeeps`). Hence in
shared memory a document has one slot, or `k` slots have documents no worse
(`Pooled`). The winners so far are in order, no slot that is left is better than any
of them, and exactly their slots are consumed (`Emitted`). At every step of the
tree, the bests of the threads below its width have among them one as good as any
slot (`Reducing`): that is why a power of two is needed. A slot is left in every
round (`SlotIsLeft`): the documents of `k` slots are `k` documents, by counting. In
the end a document that did not win either had a slot that was left, or is matched
by `k` slots that are all consumed, and so is no better than the last winner
(`LosersAreNoBetter`).

**ColumnBuffersProofs.** `JobTypeCorrect`, and `JobReadsBack` (`JobSpec =>
[]BuffersReadBack`): for any schemas, threshold and batches (`JobAssumption`: every
schema has a column, the threshold is positive), what the segments decode to
followed by what the buffers would decode to is, column by column and row by row,
what was sent; the encoder's preconditions hold at every moment; segments are cut
where a batch ends, and at the threshold. None of it is inductive: it speaks of
decoded columns, and says nothing of a buffer that is not flushed. The invariant
`JobIInv` says what a buffer stands for: one slot per document of the segment being
built (`Holds`), a value for each in the dense lane (`Fills`), the values at an
increasing list of docids in the others (`Scatters`); and what was sent is what is on
disk followed by those slots (`Told`). Three lemmas carry it: a batch appends its
slots in whatever lane, a demotion in the middle included (`ColumnAppends`,
`ReplayScatters`); what the encoder makes of a buffer decodes to its slots, whichever
coverage it chooses (`DecodesWhatItHolds`: n increasing docids below n are all of
them, `FullIsEveryDoc`, and the rank of a docid in the bitmap is the position of its
value, `RankIsPosition`); and a flush moves the slots from the buffers to the disk
(`FlushKeeps`). `Cut` and `Sized` count rows with `Total`.

**GpuStatsProofs.** For any column, width, number of threads, limit, order of probes
and table larger than the limit (`WidthAssumption`, `GridAssumption`,
`ProbeAssumption`, which TLC evaluates for the run's values; the code has 1024 slots
and a limit of 256):

| Theorem | Statement |
|---|---|
| `EveryValueOnce` | `StatsSpec => []NoValueTwice` |
| `GivenUpInTime` | `StatsSpec => []OverflowIsTrue` |
| `DeviceIsCpu` | `StatsSpec => []DeviceEqualsCpu` |
| `StatsTypeCorrect` | `StatsSpec => []StatsTypeOK` |

`NoValueTwice` is not inductive: it needs that a value sits in the
first slot of its probe order that others had left free (`Chained`), and that a
thread has passed only slots that others took (`Passed`); then a thread that finds
a free slot cannot be bringing a value stored further on (`NotYetThere`).
`OverflowIsTrue` needs that the counter runs behind the table by exactly the threads
between their swap and their addition (`Counted`). Both are steps to
`DeviceEqualsCpu`; the run `gpu` checks it and `NoValueTwice`.

`DeviceEqualsCpu` says something of the last state only, so its invariant (`Story`)
tells what a thread has done when it is half way: its extremes and its divisor are
those of the values at the positions of its stride it has folded (`Brought`,
`Extremes`, `Divisor`); what it has left behind is in the table, or is the sentinel
and noted apart, or the table has been given up (`Entered`); and once it has merged,
global memory accounts for its folds (`HandedOn`). For the divisor this is a relation
between divisors, not an order of events: whatever divides `gcd_accum` divides every
value it has had (`Accumulated`), so a thread that believes in an old one and finds
nothing to add is right to stop, and a swap that succeeds stores what the two have
in common (`SwapShrinks`). A difference to a first value out of range may wrap; then
`out_of_range` is set before the grid ends and the host drops the divisor, so the
divisors are followed for columns within the half range only (`AllHalf`). At the end
the strides cover the column (`AllBrought`), a full table has more values than the
limit (`FullTable`), and `SummaryIsStats` of `NumericStatsProofs` closes the argument.
`bin_gcd`, whose loop runs on to zero where that of `gcd_compute` stops when the two
meet, is the same common divisor (`RestLoopIsCommon`, `BinGcd`).

**FlightReadProofs.** For any fields, segments, requests and bounds
(`ConstantsAssumption`), whatever an IndexWriter does between any two steps of a
call:

| Theorem | Statement |
|---|---|
| `TypeCorrect` | `Spec => []TypeOK` |
| `RowsDelivered` | `Spec => []RowsOfOneCommit` |
| `EveryFieldReconciled` | `Spec => []HasEveryField` |
| `BatchesScoped` | `Spec => []BatchesAreSegmentScoped` |
| `OneCommitDelivered` | `Spec => []DeliversOneCommit`, the three together |
| `GlobalDocsGrow` | `Spec => []GlobalDocsIncrease` |
| `FailuresHaveReasons` | `Spec => []FailsForAReason` |
| `InfoIsTrue` | `Spec => []InfoDescribesStream` |

`DeliversOneCommit` speaks of the end of a call and of the directory as it is then;
the invariant `ReadIInv` makes it true all along. `DirOK`: what a commit lists has
been written, its `.liv` included. The writer's actions keep that and only ever add
(`Keeps`, proved action by action in `NextKeeps`; it is false of a writer that would
renumber documents in place, which Lucene never does), so what a call sees of its
commit (`View`) does not change any more (`ViewKept`), and no step of the writer
disturbs a call (`WriterKeepsCall`). The loops are described by what they have built
after `next - 1` segments: the reconciled fields are those the segments so far have
(`BuiltSchema`, from `ReconciledAdds`), the rows so far are the documents asked of
these segments (`BuiltRows`), their `_global_doc` lie in order below `doc_base`
(`BuiltGlobals`). One more segment adds exactly its part (`PlanKeepsCall`,
`BatchKeepsCall`), because its rows are its documents (`RowIsDocument`,
`SegmentRowsAsked`), because slicing a batch and putting the slices together gives
the batch (`FlattenChunks`), and because answers, and rows in order, can be appended
(`AnswersConcat`, `PlacedConcat`). `RefuseHasReason` finds the cause of every failure:
a segment that is missing from the disk was pruned, since the commit of the call is
on disk until then (`CommitOnDisk`); a field that conflicts with the schema got its
type from a segment selected before (`SchemaOK`, `ConflictIsDisagreement`). Once a
call has failed its reason stays one (`ReasonKept`).

`InfoDescribesStream` relates two calls, which `ReadIInv` says nothing of. Relative to
it, `InfoIInv` is inductive: the reconciled fields are a function of the commit and
the request alone (`Reached`, shown single-valued by `ReachedOnce`), `info` holds what
that function and the sizes of the segments give for the commit it was made from
(`InfoDescribed`, which the writer cannot change: `ViewOfKept`), and a `.liv` deletes
documents of its own segment only (`DelsInRange`). That the promised rows are those
delivered and the tombstones left out is a count along the selected segments
(`AskedUpToCounted`, `RowsAndTombstones`).

**FlightReadProofs, hydrate.** `HydrateTypeCorrect`; `HydrateIsExact` (`HydrateSpec => []HydrateAnswers`) for any
documents, addresses and columns, with a merge before the call or without; and
`StableWithoutMerge`: with no merge, `HydrateSpec => []AddressIsStable`, so the merge that
`HydrateMerged.cfg` shows is the only thing that moves an address. The invariant has
a part for each phase: the rows fetched are those of the segments no longer in
`by_seg` (`RowsFetched`), each finished array and the one being built hold a prefix
of their column in one type, which is that of the first value (`ArraysHold`,
`BufHolds`), and a refused call has met an unknown address or a second type.

**DocValuesProofs.** `OrdmapTypeCorrect`, and `GlobalOrdsHold` (`OrdmapSpec =>
[]GlobalOrdsAgree`), for any number of segments and any terms (`StreamsAssumption`: a
segment is a finite list of byte strings). That the dictionary is sorted says nothing of
what is still in the heap; the invariant `Merging` does: the heap has exactly the next
term of every segment that has one left (`Waits`), no term that waits comes before the
last one emitted (`Floors`), and every ordinal given out leads to its term (`Leads`).
`Floors` is what makes comparing with the last term enough to find a duplicate
(`EmitsInOrder`). One turn keeps the three (`TurnKeeps`). When the heap is empty each
table is as long as its dictionary, so the remap is total, on both plans
(`RemappedLeads`). It rests on two facts: the byte order is a strict total order
(`PrecedesNotItself`, `PrecedesTransitive`, `PrecedesTotal`: the first place where two
terms part), and sorting a finite set by a strict total order lists it once and in order
(`SortedTerms`).

`KeysAlwaysSeparate` (`Spec => []KeysSeparate`, of `FieldEntries`): the fields of a
segment never change, so what has to be shown is a fact about any dictionary. Two terms
in order part first where the earlier one ends or has the lower byte
(`DifferenceOfTerms`); a key is the start of the term at its group's head, cut just
there against the term before (`StartOfTerm`, `KeyOfTerm`), so it sorts behind that
term and not behind its own.

`JumpsAlwaysLead` (`Spec => []JumpsLead`) is an induction over the turns of
`write_bit_set` (`TurnsWritten`): after each turn every jump up to the block written
last leads to the first block at or after its own, with the number of documents
before that block (`PointsOn`), the blocks written decode where they begin
(`BlockWritten`), and between two blocks written one after the other there is no
document. That the count of a block is the number of its documents is the bijection
d -> d % BLOCK_SIZE (`WithinCounts`). `SegmentsAssumption` says what segments are:
documents below `MaxDoc`, terms of bytes, and no document in the block of
NO_MORE_DOCS, the last 65,536 numbers below 2^31. Nothing in the crate refuses such
a document, but the number of jumps would not fit its `i16` (disi.rs:72) either.

**NumericStatsProofs.** `GcdIsCommon`: for all integers, `gcd_compute` returns a number
whose divisors are exactly the common ones, and 0 only of two zeros. The loop never
divides, so the argument follows what it does: odd divisors of a number are those of its
odd part (`OddDivisors`), taking the smaller odd number from the larger keeps them
(`SubtractIsCommon`), both exits give what is left (`MeetIsCommon`), and the power of two
put back is the lesser of the two (`TwosInOrder`, `CommonOfParts`). `OddPart` and
`GcdLoop` are recursive functions; that such a definition has a solution, whenever some
rank falls from one argument to the next, is `RecursionExists`, proved once.
`SummaryGrows` then takes one more value into the statistics, whichever was first and
wherever the loop gave up on the gcd or on the table, and `SummaryIsStats` says that what
has this meaning is the `StatsOf` the run compares with.

**DocValuesProofs, numbers.** `NumbersReadBack` (`CodecSpec => []RoundTrip`),
`StatisticsAreExact`, `RealPlansNeverWrap` and `CodecTypeCorrect`, for any width of
integers above 2, any set of packed widths with the full one in it, any number of
documents, any values and any split into chunks (`CodecAssumption`; the codec's own
widths and the 64 bits of an i64 are an instance). Nothing is assumed of the call: those the
code refuses are refused, and one whose first chunk is empty panics. The core is
`LayoutKeeps`: from exact statistics every layout keeps every value. A table index fits
its width and leads back (`TableKeeps`); a delta is below 2^W although it may wrap as a
signed number, and wraps back (`DeltaKeeps`, which with a base of 0 is the case where
the minimum is dropped); a quotient is exact because a common divisor of the differences
to the first value divides the difference of any two (`DividesDeltas`, `QuotientKeeps`).
`CodecIInv` adds what the loop knows after `taken` values. What the reader needs besides is
that the docs of an accepted call that are as many as there are documents are all of
them (`AllDocsAscend`), and that the place of a value is the number of docs up to its own
(`PlaceOfDoc`).

**ListingsProofs.** The operators these models are built from, for every argument:
ranking the elements of a finite set by a strict total order lists it once and in
order (`ByRankIsOrdered`), so `InOrder` does, `Chosen` picks positions, `Chunks`
are windows that put together are the sequence, `FlattenSeq` distributes over
concatenation, `Total` adds up and is additive, `Min` and `Max` exist where they are used. The library's `FlattenSeq`
and folds are recursive functions; where an induction over the naturals is needed
it is by the least counterexample (`NatSteps`, from the well-foundedness of `<`),
since the library's induction theorems have an operator as a parameter.

`IInv`, `ReadIInv`, `TopIInv` and the invariants of `PinnedRing`, `PackerCache` and
`Hydrate` were also checked with TLC before they were proved.

**Only model-checked.** Liveness (`CallsEnd`, `EveryCallEnds`,
`KernelsEnd`), which needs fairness and ENABLED. `Coercion`, `Inverted`, and of the
doc values what says that whole files and packed bits give back their input
(`FieldsReadBack`, `EveryReaderAgrees`, `ProducersAgree`). The result of `TextIngest`
(`IndexersAgree`), which is stated with the recursions of `Inverted`.
No module has a RECURSIVE operator.

## 6. What is not modelled

- Loss of written but unsynced data on a power failure (the data files are never
  synced). `Crash` is the death of the server process.
- The bytes of the formats: headers, checksums, vints. A file is whole or not and
  has an identity; entries of doc values are numbers, one place each. The
  repository checks formats byte for byte against Java.
- Multi-block numeric entries and skip indexes, which only Lucene writes.
- The postings relation of `DoGet`, the postings walk and PFOR blocks.
- The BM25 formula, vectors and distances, which are floating point; HNSW,
  jVector and cuVS. The gather kernels, which share no state between threads.
- Memory orders of the GPU beyond stale plain loads: the atomics of the kernels
  are sequentially consistent in the models, one address at a time.
- Request parsing and the `stats` action (JSON in, JSON out), memory maps and extents.
- Writing by Lucene itself is external: `FlightRead` and `Hydrate` have an
  IndexWriter as an environment, as far as the code reads what one leaves.

`PROJECT.json` lists every component with its status.

## 7. Plan

The plan of the first version is carried out: `FlightRead`, `Coercion`,
`NumericCodec`, `Disi`, `DirectPacking`, `Monotonic`, `TermsDict`, `OrdinalMap`,
`GpuStats`, `TextIngest`, `Inverted`, `Hydrate` and the UTF-8 decision (in
`FieldEntries`). What is left, most useful first:

1. Proofs: the indexers of `gpu`, then the bits of `DirectPacking`.
2. The postings relation of `DoGet` and the walk, as a part of `flight`.
3. The truncation of HNSW neighbours with an abstract order for distances.
