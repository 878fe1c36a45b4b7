----------------------------- MODULE FlightRead -----------------------------
(***************************************************************************)
(* A client that asks for a read (get_flight_info) and then fetches it     *)
(* (do_get) from a directory an IndexWriter goes on writing to:            *)
(* crates/flight/src/server.rs, resolve and segment_batches of             *)
(* crates/flight/src/engine.rs, SegmentDirectory of                        *)
(* crates/codec/src/segment.rs and the live docs of liv.rs.                *)
(*                                                                         *)
(* A row is a number.  A segment is the sequence of its rows, in docid     *)
(* order, and the shape each field has in it: the Arrow type of its column,*)
(* of a vector or of doc values.  The server opens the commit              *)
(* file by file, three times over (open, resolve, segment_batches), while  *)
(* the writer deletes, flushes, merges and removes old files.              *)
(***************************************************************************)
EXTENDS Integers, Sequences, FiniteSets, SequencesExt, FiniteSetsExt, Listings

CONSTANTS
    FieldNames,   \* the fields of the index, in field-number order
    Flushes,      \* what a flush may write: [size, shapes]
    TermShapes,   \* the shapes whose values are terms: SORTED, SORTED_SET
    NotUtf8,      \* NotUtf8[f]: the rows whose term of field f has a byte that
                  \* no UTF-8 text has
    Requests,     \* the ReadRequests of the client
    Executors,    \* the executors the server can run, "auto" among them
    MaxCommits,   \* bound: commits
    MaxRows       \* bound: rows ever written

SystemColumns == <<"_seg", "_doc", "_global_doc">>
SystemNames == {"_seg", "_doc", "_global_doc", "_live"}
NoShape == "none"  \* DocValuesKind::None, or the field is not in the .fnm
Null == -1

ConstantsAssumption ==
    /\ FieldNames \in Seq(ToSet(FieldNames))
    /\ ToSet(FieldNames) \cap SystemNames = {}
    /\ NotUtf8 \in [ToSet(FieldNames) -> SUBSET Nat]
    /\ \A f \in Flushes : f.size \in 1 .. MaxRows /\ DOMAIN f.shapes = ToSet(FieldNames)
    /\ \A r \in Requests : /\ r.all \in BOOLEAN /\ r.every \in BOOLEAN
                           /\ r.names \in Seq(Nat) /\ r.batch_rows \in Nat
    /\ MaxCommits \in Nat /\ MaxRows \in Nat

VARIABLES
    segs,      \* the segments ever written: rows and shapes; the name is the index
    dels,      \* dels[s][g]: the docids .liv file _s_g has deleted
    commits,   \* the commits, each a sequence of [name, del_gen]
    oldest,    \* the files of the commits from this one on are on disk
    pc,        \* where the call is
    call,      \* "info" or "get"
    request,   \* the request, which is also the ticket
    seen,      \* the commit the call has opened
    next,      \* the segment the loop of the present phase is at
    schema,    \* the reconciled fields: <<name, shape>>
    info,      \* what get_flight_info answered, or <<>>
    doc_base,
    out        \* the record batches, each a sequence of rows
dir == <<segs, dels, commits, oldest>>
reader == <<pc, call, request, seen, next, schema, info, doc_base, out>>
vars == <<dir, reader>>

Init ==
    \E f \in Flushes :
        /\ segs = <<[rows |-> [d \in 1 .. f.size |-> d], shapes |-> f.shapes]>>
        /\ dels = <<<<>>>>
        /\ commits = <<<<[name |-> 1, del_gen |-> 0]>>>>
        /\ oldest = 1
        /\ pc = "idle" /\ call = "info" /\ request \in Requests
        /\ seen = 0 /\ next = 0 /\ schema = <<>> /\ info = <<>>
        /\ doc_base = 0 /\ out = <<>>

-----------------------------------------------------------------------------
(* The IndexWriter.                                                        *)

Latest == commits[Len(commits)]
RowsWritten == Max({0} \cup UNION {ToSet(segs[s].rows) : s \in DOMAIN segs})
Deleted(e) == IF e.del_gen = 0 THEN {} ELSE dels[e.name][e.del_gen]
Docs(e) == 0 .. Len(segs[e.name].rows) - 1
Live(e) == Docs(e) \ Deleted(e)

Commit(c) == /\ Len(commits) < MaxCommits
             /\ commits' = Append(commits, c)
             /\ UNCHANGED <<oldest, reader>>

Flush(f) ==
    /\ RowsWritten + f.size <= MaxRows
    /\ segs' = Append(segs, [rows |-> [d \in 1 .. f.size |-> RowsWritten + d],
                             shapes |-> f.shapes])
    /\ dels' = Append(dels, <<>>)
    /\ Commit(Append(Latest, [name |-> Len(segs) + 1, del_gen |-> 0]))

\* A segment without live documents is dropped, not kept.
Delete(i, d) ==
    LET e == Latest[i] IN
    /\ d \in Live(e) /\ Live(e) # {d}
    /\ dels' = [dels EXCEPT ![e.name] = Append(@, Deleted(e) \cup {d})]
    /\ Commit([Latest EXCEPT ![i].del_gen = Len(dels[e.name]) + 1])
    /\ UNCHANGED segs

LiveRows(e) == Chosen(segs[e.name].rows, {d + 1 : d \in Live(e)})

\* A merge of two neighbours; this model merges those of the same shapes.
Merge(i) ==
    LET a == Latest[i]
        b == Latest[i + 1]
    IN /\ segs[a.name].shapes = segs[b.name].shapes
       /\ segs' = Append(segs, [rows |-> LiveRows(a) \o LiveRows(b),
                                shapes |-> segs[a.name].shapes])
       /\ dels' = Append(dels, <<>>)
       /\ Commit(SubSeq(Latest, 1, i - 1)
                 \o <<[name |-> Len(segs) + 1, del_gen |-> 0]>>
                 \o SubSeq(Latest, i + 2, Len(Latest)))

\* The files only older commits refer to are removed.
Prune ==
    /\ oldest < Len(commits)
    /\ oldest' = Len(commits)
    /\ UNCHANGED <<segs, dels, commits, reader>>

Writer ==
    \/ \E f \in Flushes : Flush(f)
    \/ \E i \in 1 .. Len(Latest) : \E d \in Docs(Latest[i]) : Delete(i, d)
    \/ \E i \in 1 .. Len(Latest) - 1 : Merge(i)
    \/ Prune

SegmentOnDisk(name) ==
    \E c \in oldest .. Len(commits) : \E i \in DOMAIN commits[c] : commits[c][i].name = name
LivOnDisk(e) == \E c \in oldest .. Len(commits) : e \in ToSet(commits[c])

-----------------------------------------------------------------------------
(* The server.                                                             *)

Snapshot == commits[seen]
Wants(column) == request.every \/ column \in request.columns

\* resolve: the segments of the request, by position in the commit.
Named(n) == {i \in DOMAIN Snapshot : Snapshot[i].name = n}
Selected == IF request.all THEN [i \in DOMAIN Snapshot |-> i]
            ELSE [k \in DOMAIN request.names |-> Min(Named(request.names[k]))]

Fail == /\ pc' = "failed"
        /\ UNCHANGED <<dir, call, request, seen, next, schema, info, doc_base, out>>

\* get_flight_info, or do_get with the ticket: the request all over again.
Begin ==
    /\ pc \in {"idle", "done"}
    /\ pc = "done" => call = "info"
    /\ call' = IF pc = "idle" THEN "info" ELSE "get"
    /\ pc' = "open"
    /\ seen' = 0 /\ next' = 0 /\ schema' = <<>> /\ doc_base' = 0 /\ out' = <<>>
    /\ UNCHANGED <<dir, request, info>>

\* RowMode::parse and the frame version come before anything is read.
Understood == /\ request.row_mode \in {"compact", "positional"}
              /\ request.frame_version = 1

\* SegmentDirectory::open: the latest commit, then every segment it lists.
OpenCommit ==
    /\ pc = "open" /\ seen = 0 /\ Understood
    /\ seen' = Len(commits) /\ next' = 1
    /\ UNCHANGED <<dir, pc, call, request, schema, info, doc_base, out>>

OpenSegment ==
    /\ pc = "open" /\ seen # 0 /\ next <= Len(Snapshot)
    /\ SegmentOnDisk(Snapshot[next].name)
    /\ next' = next + 1
    /\ UNCHANGED <<dir, pc, call, request, seen, schema, info, doc_base, out>>

AllNamed == request.all \/ \A k \in DOMAIN request.names : Named(request.names[k]) # {}

Select ==
    /\ pc = "open" /\ seen # 0 /\ next > Len(Snapshot) /\ AllNamed
    /\ pc' = "plan" /\ next' = 1
    /\ UNCHANGED <<dir, call, request, seen, schema, info, doc_base, out>>

\* The fields of a segment that the request wants and a column can hold.
Shape(i, f) == segs[Snapshot[i].name].shapes[f]
Scans(i, f) == Shape(i, f) # NoShape /\ Wants(f)
Known(f) == \E k \in DOMAIN schema : schema[k][1] = f

\* Mutant of TypeConflict: a field may be in one segment only.
ConflictWhenKnown(i) == \E k \in DOMAIN schema : Scans(i, schema[k][1])

TypeConflict(i) ==
    \E k \in DOMAIN schema : Scans(i, schema[k][1]) /\ schema[k][2] # Shape(i, schema[k][1])

Reconciled(i) ==
    LET fresh == Chosen(FieldNames, {n \in DOMAIN FieldNames :
                                        Scans(i, FieldNames[n]) /\ ~Known(FieldNames[n])})
    IN schema \o [j \in DOMAIN fresh |-> <<fresh[j], Shape(i, fresh[j])>>]

\* plan_segment reads the segment's files again.
PlanSegment ==
    /\ pc = "plan" /\ next <= Len(Selected)
    /\ SegmentOnDisk(Snapshot[Selected[next]].name)
    /\ ~TypeConflict(Selected[next])
    /\ schema' = Reconciled(Selected[next])
    /\ next' = next + 1
    /\ UNCHANGED <<dir, pc, call, request, seen, info, doc_base, out>>

\* The columns of the answer: system columns first.
Columns ==
    Chosen(SystemColumns, {n \in DOMAIN SystemColumns : Wants(SystemColumns[n])})
    \o (IF request.row_mode = "positional" /\ Wants("_live") THEN <<"_live">> ELSE <<>>)
    \o [k \in DOMAIN schema |-> schema[k][1]]

MaxDoc(i) == Len(segs[Snapshot[i].name].rows)
SumOver(f(_)) == Total([k \in DOMAIN Selected |-> f(Selected[k])])

\* Mutant of TotalRecords: the segments of the commit, not of the request.
TotalOfCommit == Total([i \in DOMAIN Snapshot |-> MaxDoc(i)])

TotalRecords == SumOver(MaxDoc)

\* The request names an executor the server has: it was built with it, and
\* finds a device for it.  Looked at when the schema is complete.
Executable == request.executor \in Executors

\* Mutant of AllVisited: off by one.
AllVisitedTwice == next > Len(Selected) + 1

AllVisited == next > Len(Selected)

Resolved ==
    /\ pc = "plan" /\ AllVisited /\ Executable
    /\ IF call = "info"
       THEN /\ info' = <<[seen |-> seen, columns |-> Columns, total |-> TotalRecords]>>
            /\ pc' = "done" /\ next' = next
       ELSE pc' = "batch" /\ next' = 1 /\ UNCHANGED info
    /\ UNCHANGED <<dir, call, request, seen, schema, doc_base, out>>

-----------------------------------------------------------------------------
(* segment_batches.                                                        *)

Cell(i, d, column) ==
    LET s == segs[Snapshot[i].name]
    IN CASE column = "_seg" -> i - 1
         [] column = "_doc" -> d
         [] column = "_global_doc" -> doc_base + d
         [] column = "_live" -> d \in Live(Snapshot[i])
         [] OTHER -> IF s.shapes[column] = NoShape THEN Null ELSE s.rows[d + 1]
Row(i, d) == [c \in ToSet(Columns) |-> Cell(i, d, c)]

\* Mutant of Kept: tombstones are never dropped.
KeptAll(i) == Docs(Snapshot[i])

\* Compact mode filters the batch once its columns are complete.
Kept(i) == IF request.row_mode = "compact" THEN Live(Snapshot[i]) ELSE Docs(Snapshot[i])

SegmentRows(i) ==
    LET docs == InOrder(Kept(i)) IN [k \in DOMAIN docs |-> Row(i, docs[k])]

BatchRows == Max({request.batch_rows, 1})
Sliced(rows) == Chunks(rows, BatchRows)

\* Mutant of NextBase: the documents that were kept.
NextBaseKept(i) == doc_base + Cardinality(Kept(i))

NextBase(i) == doc_base + MaxDoc(i)

\* The dictionary of a segment holds the terms of all its rows, deleted or not.
\* It decodes to Utf8, which is what the schema has for terms (field_arrow_type),
\* only if they are UTF-8, and to Binary otherwise (terms_to_values).
DecodesAsDeclared(i) ==
    \A f \in ToSet(FieldNames) :
        Scans(i, f) /\ Shape(i, f) \in TermShapes
            => ToSet(segs[Snapshot[i].name].rows) \cap NotUtf8[f] = {}

\* live_docs opens the .liv of the commit; RecordBatch::try_new refuses a column
\* of another type than the schema's, and a batch without columns.
Readable(i) == /\ SegmentOnDisk(Snapshot[i].name)
               /\ Snapshot[i].del_gen > 0 => LivOnDisk(Snapshot[i])
               /\ DecodesAsDeclared(i)
               /\ Columns # <<>>

SegmentBatches ==
    /\ pc = "batch" /\ next <= Len(Selected)
    /\ Readable(Selected[next])
    /\ out' = out \o Sliced(SegmentRows(Selected[next]))
    /\ doc_base' = NextBase(Selected[next])
    /\ next' = next + 1
    /\ UNCHANGED <<dir, pc, call, request, seen, schema, info>>

Streamed ==
    /\ pc = "batch" /\ AllVisited
    /\ pc' = "done"
    /\ UNCHANGED <<dir, call, request, seen, next, schema, info, doc_base, out>>

\* Every error of open, resolve and segment_batches ends the call.
Refuse ==
    /\ \/ pc = "open" /\ seen = 0 /\ ~Understood
       \/ pc = "open" /\ seen # 0 /\ next <= Len(Snapshot)
          /\ ~SegmentOnDisk(Snapshot[next].name)
       \/ pc = "open" /\ seen # 0 /\ next > Len(Snapshot) /\ ~AllNamed
       \/ pc = "plan" /\ next <= Len(Selected)
          /\ (~SegmentOnDisk(Snapshot[Selected[next]].name) \/ TypeConflict(Selected[next]))
       \/ pc = "plan" /\ AllVisited /\ ~Executable
       \/ pc = "batch" /\ next <= Len(Selected) /\ ~Readable(Selected[next])
    /\ Fail

Server == OpenCommit \/ OpenSegment \/ Select \/ PlanSegment \/ Resolved
             \/ SegmentBatches \/ Streamed \/ Refuse

Next == Writer \/ Begin \/ Server

Spec == Init /\ [][Next]_vars /\ WF_vars(Server)

-----------------------------------------------------------------------------
(* Properties.                                                             *)

TypeOK ==
    /\ pc \in {"idle", "open", "plan", "batch", "done", "failed"}
    /\ call \in {"info", "get"}
    /\ request \in Requests
    /\ seen \in 0 .. Len(commits) /\ oldest \in DOMAIN commits
    /\ next \in Nat /\ doc_base \in Nat
    /\ \A c \in DOMAIN commits : \A i \in DOMAIN commits[c] :
          commits[c][i].name \in DOMAIN segs /\ commits[c][i].del_gen <= Len(dels[commits[c][i].name])
    /\ \A k \in DOMAIN schema : schema[k][1] \in ToSet(FieldNames) /\ schema[k][2] # NoShape

Got == pc = "done" /\ call = "get"

\* The documents a request is about: <<position in the commit, docid>>, in the
\* order of the request and of the docids, deleted ones only when positional.
AskedOf(i) ==
    LET docs == InOrder({d \in Docs(Snapshot[i]) : \/ request.row_mode = "positional"
                                                  \/ d \notin Deleted(Snapshot[i])})
    IN [k \in DOMAIN docs |-> <<i, docs[k]>>]
Asked == FlattenSeq([k \in DOMAIN Selected |-> AskedOf(Selected[k])])

\* What row of the index the document is, or Null where it lacks the field.
ValueAt(p, f) ==
    LET s == segs[Snapshot[p[1]].name]
    IN IF s.shapes[f] = NoShape THEN Null ELSE s.rows[p[2] + 1]

\* The rows of a do_get that succeeds are the documents of one commit, the latest
\* when it opened the directory, each with its own address, liveness and
\* values, absent fields as null (SPEC 8.2): segment order, docid order
\* (SPEC 8.1), whatever the writer has deleted, merged or removed meanwhile.
RowsOfOneCommit ==
    Got => LET rows == FlattenSeq(out) IN
        /\ Len(rows) = Len(Asked)
        /\ \A k \in DOMAIN rows :
              /\ "_seg" \in DOMAIN rows[k] => rows[k]["_seg"] = Asked[k][1] - 1
              /\ "_doc" \in DOMAIN rows[k] => rows[k]["_doc"] = Asked[k][2]
              /\ "_live" \in DOMAIN rows[k] =>
                    (rows[k]["_live"] <=> Asked[k][2] \notin Deleted(Snapshot[Asked[k][1]]))
              /\ \A f \in ToSet(FieldNames) \cap DOMAIN rows[k] : rows[k][f] = ValueAt(Asked[k], f)

\* No field a selected segment has is missing from the answer, and no other
\* column is in it: reconciliation is a union, at any order of the segments.
HasEveryField ==
    Got => \A f \in ToSet(FieldNames) :
        Known(f) <=> (Wants(f) /\ \E k \in DOMAIN Selected : Shape(Selected[k], f) # NoShape)

\* A batch covers documents of one segment, in docid order, and is neither
\* empty nor longer than batch_rows (SPEC 7.1).
BatchesAreSegmentScoped ==
    \A b \in DOMAIN out :
        /\ Len(out[b]) \in 1 .. BatchRows
        /\ \A k \in 1 .. Len(out[b]) - 1 :
              /\ "_seg" \in DOMAIN out[b][k] => out[b][k]["_seg"] = out[b][k + 1]["_seg"]
              /\ "_doc" \in DOMAIN out[b][k] => out[b][k]["_doc"] < out[b][k + 1]["_doc"]

\* A do_get that succeeds answers with the documents of one commit, all their
\* fields, in batches of one segment, whatever the writer does meanwhile.
DeliversOneCommit == RowsOfOneCommit /\ HasEveryField /\ BatchesAreSegmentScoped

\* Within an answer _global_doc orders the rows, with room for the deleted
\* ones: it grows by as much as _doc within a segment, and a positional answer
\* has no gaps.
GlobalDocsIncrease ==
    LET rows == FlattenSeq(out) IN
    \A k \in 1 .. Len(rows) - 1 :
        "_global_doc" \in DOMAIN rows[k] =>
            /\ rows[k]["_global_doc"] < rows[k + 1]["_global_doc"]
            /\ request.row_mode = "positional" =>
                  rows[k]["_global_doc"] + 1 = rows[k + 1]["_global_doc"]

\* The flight info describes the stream when no commit came between: the same
\* columns, and total_records counts the rows and the tombstones.
InfoDescribesStream ==
    (Got /\ info[1].seen = seen) =>
        /\ info[1].columns = Columns
        /\ info[1].total = Len(FlattenSeq(out))
              + (IF request.row_mode = "positional" THEN 0
                 ELSE SumOver(LAMBDA i : Cardinality(Deleted(Snapshot[i]))))

\* A read fails only for one of these: what it asks for (the mode, the frame
\* version, a segment there is not, an executor there is not, no column at all);
\* files of its commit that the writer has removed; terms that are not UTF-8 in
\* a field it wants; a field it wants that is of different shapes in two of the
\* segments it asks for.
FailsForAReason ==
    pc = "failed" =>
        \/ ~Understood
        \/ /\ seen # 0
           /\ \/ ~AllNamed \/ ~Executable \/ Columns = <<>> \/ oldest > seen
              \/ \E i \in ToSet(Selected) : ~DecodesAsDeclared(i)
              \/ \E i, j \in ToSet(Selected) : \E f \in ToSet(FieldNames) :
                    /\ Wants(f) /\ NoShape \notin {Shape(i, f), Shape(j, f)}
                    /\ Shape(i, f) # Shape(j, f)

\* "Arrow type a field decodes to" (engine.rs, field_arrow_type): every segment
\* of a request that was resolved decodes to the types of its schema.  Terms
\* that are not UTF-8 do not.
DecodesToItsType ==
    pc = "batch" => \A k \in DOMAIN Selected : DecodesAsDeclared(Selected[k])
=============================================================================
