---------------------------- MODULE WriteSession ----------------------------
(***************************************************************************)
(* DoPut as its clients and the file system see it: write jobs that name   *)
(* one output directory (crates/flight/src/server.rs do_put,               *)
(* crates/flight/src/write.rs WriteSession), the files each segment flush  *)
(* creates there (crates/codec/src/writer.rs), the segments_N commit       *)
(* (vendor/bearing), failures of single calls, a crash of the server, and  *)
(* DoGet calls that open the directory and decode it                       *)
(* (crates/codec/src/segment.rs, crates/flight/src/engine.rs).             *)
(*                                                                         *)
(* Directories do not interact, so there is one.  What the columns of a    *)
(* segment hold is the business of module ColumnBuffers: here a segment is *)
(* the range lo .. hi-1 of the rows of its job, in arrival order, and of   *)
(* their values only what decides the type a list column is read with.     *)
(*                                                                         *)
(* A DoGet asks for every column and for an executor the server has, its   *)
(* calls on the file system succeed, and no column of a job bears the name *)
(* of a system column (_seg, _doc, _global_doc, _live).  Terms written by  *)
(* DoPut are UTF-8.  FlightRead has the requests and the segments for      *)
(* which this is not so.                                                   *)
(***************************************************************************)
EXTENDS Integers, Sequences

CONSTANTS
    Jobs,            \* the DoPut streams that name this output_dir
    Readers,         \* DoGet calls on it
    SegmentMaxDocs,  \* WriteJob.segment_max_docs after .max(1)
    BatchRows,       \* the row counts a RecordBatch may have; 0 is legal
    MaxRows,         \* bound: rows a client sends in one job
    Extras,          \* the vector files of a segment, in the order written
    Lists,           \* the columns the jobs send as lists
    Several,         \* Several[j][c]: the rows of job j in which list column
                     \* c holds several values
    OneWriter,       \* TRUE: clients keep one job at a time on a directory
    Faults,          \* what may go wrong: "io", "crash", "lost_flush"
    Absent           \* stands for a file, or a commit, that is not there

\* write_segment_files_ext: the order in which a segment's files are written.
FileOrder == <<"dvd", "dvm", "fnm", "fdt", "fdx", "fdm">> \o Extras \o <<"si">>
NumFiles == Len(FileOrder)
Exts == {FileOrder[i] : i \in 1 .. NumFiles}

\* A segment is named base36(written.len()) and holds at least one row, so
\* MaxRows bounds how many there are.
SegNos == 0 .. MaxRows - 1

\* A file: the segment id in its header (random, so it stands for a job and
\* a segment number), the rows it was encoded from, and whether all of its
\* bytes have been written.
File == [job : Jobs, seg : SegNos, lo : Nat, hi : Nat, whole : BOOLEAN]

\* segments_1: entry s (0 <= s < segs) names _s with the id of job's segment s.
Commit == [job : Jobs, segs : Nat, whole : BOOLEAN]

ASSUME ConstantsAssumption ==
    /\ SegmentMaxDocs \in Nat \ {0}
    /\ MaxRows \in Nat \ {0}
    /\ BatchRows \subseteq Nat
    /\ Extras \in Seq(STRING)
    /\ \A i, k \in 1 .. NumFiles : FileOrder[i] = FileOrder[k] => i = k
    /\ Several \in [Jobs -> [Lists -> SUBSET Nat]]
    /\ OneWriter \in BOOLEAN
    /\ Faults \subseteq {"io", "crash", "lost_flush"}
    /\ Absent \notin File
    /\ Absent \notin Commit

VARIABLES
    dir,       \* dir[s][e]: the file of extension e of segment _s
    pending,   \* pending_segments_1
    commit,    \* segments_1; a session always commits generation 1
    pc,        \* where each job is
    docs,      \* docs_in_segment
    written,   \* written.len()
    nextFile,  \* position in FileOrder of the file being written
    creating,  \* that file is created and truncated, not yet filled
    arriving,  \* rows of the batch that push appends after its flush
    accepted,  \* rows the job's pushes have taken so far
    rpc,       \* where each DoGet is
    seen,      \* the commit its SegmentDirectory::open read
    at,        \* the segment it is at
    schema,    \* the list columns that are lists in its schema
    got        \* what it has decoded, segment by segment

dirVars == <<dir, pending, commit>>
bufVars == <<docs, written, arriving, accepted>>
ioVars == <<nextFile, creating>>
readerVars == <<rpc, seen, at, schema, got>>
vars == <<dir, pending, commit, pc, docs, written, nextFile, creating,
          arriving, accepted, rpc, seen, at, schema, got>>

Flushing == {"flush", "flush_tail"}
Committing == {"commit", "fill", "rename"}
InProgress == {"open"} \cup Flushing \cup Committing \cup {"reply"}
Ended == {"done", "failed", "rejected"}
Reading == {"si", "fnm", "plan", "decode"}

TypeOK ==
    /\ dir \in [SegNos -> [Exts -> File \cup {Absent}]]
    /\ pending \in Commit \cup {Absent}
    /\ commit \in Commit \cup {Absent}
    /\ pc \in [Jobs -> {"idle"} \cup InProgress \cup Ended]
    /\ docs \in [Jobs -> Nat]
    /\ written \in [Jobs -> Nat]
    /\ nextFile \in [Jobs -> 1 .. NumFiles + 1]
    /\ creating \in [Jobs -> BOOLEAN]
    /\ arriving \in [Jobs -> Nat]
    /\ accepted \in [Jobs -> Nat]
    /\ rpc \in [Readers -> {"idle"} \cup Reading \cup
                           {"ok", "no_commit", "error", "lost"}]
    /\ seen \in [Readers -> Commit \cup {Absent}]
    /\ at \in [Readers -> Nat]
    /\ schema \in [Readers -> SUBSET Lists]
    /\ got \in [Readers -> Seq(File)]

Init ==
    /\ dir = [s \in SegNos |-> [e \in Exts |-> Absent]]
    /\ pending = Absent
    /\ commit = Absent
    /\ pc = [j \in Jobs |-> "idle"]
    /\ docs = [j \in Jobs |-> 0]
    /\ written = [j \in Jobs |-> 0]
    /\ nextFile = [j \in Jobs |-> 1]
    /\ creating = [j \in Jobs |-> FALSE]
    /\ arriving = [j \in Jobs |-> 0]
    /\ accepted = [j \in Jobs |-> 0]
    /\ rpc = [r \in Readers |-> "idle"]
    /\ seen = [r \in Readers |-> Absent]
    /\ at = [r \in Readers |-> 0]
    /\ schema = [r \in Readers |-> {}]
    /\ got = [r \in Readers |-> <<>>]

-----------------------------------------------------------------------------
(* The session: WriteSession::new, push, finish.                           *)

\* Mutants of DirIsEmpty: the check overlooks what failed jobs left behind,
\* or whatever is not a commit in the making.
OnlyCommitChecked == commit = Absent
OnlyPendingChecked == pending = Absent

\* read_dir(&out_dir)?.next().is_some()
DirIsEmpty ==
    /\ \A s \in SegNos, e \in Exts : dir[s][e] = Absent
    /\ pending = Absent
    /\ commit = Absent

\* The clients' side of the bargain when OneWriter holds.
MayStart == OneWriter => \A k \in Jobs : pc[k] \notin InProgress

\* The first batch creates the session, which looks at the directory once,
\* and is pushed into it.
Start(j, n) ==
    /\ pc[j] = "idle"
    /\ MayStart
    /\ DirIsEmpty
    /\ n <= MaxRows
    /\ pc' = [pc EXCEPT ![j] = "open"]
    /\ docs' = [docs EXCEPT ![j] = n]
    /\ accepted' = [accepted EXCEPT ![j] = n]
    /\ UNCHANGED <<dirVars, written, arriving, ioVars, readerVars>>

\* "output_dir is not empty (write jobs never append, SPEC 10.1)"
Reject(j) ==
    /\ pc[j] = "idle"
    /\ MayStart
    /\ ~DirIsEmpty
    /\ pc' = [pc EXCEPT ![j] = "rejected"]
    /\ UNCHANGED <<dirVars, bufVars, ioVars, readerVars>>

\* push with room in the segment: the batch is appended whole.
Append_(j, n) ==
    /\ pc[j] = "open"
    /\ docs[j] < SegmentMaxDocs
    /\ accepted[j] + n <= MaxRows
    /\ docs' = [docs EXCEPT ![j] = @ + n]
    /\ accepted' = [accepted EXCEPT ![j] = @ + n]
    /\ UNCHANGED <<dirVars, pc, written, arriving, ioVars, readerVars>>

\* push at the threshold: flush_segment first, the batch waits.
CutSegment(j, n) ==
    /\ pc[j] = "open"
    /\ docs[j] >= SegmentMaxDocs
    /\ accepted[j] + n <= MaxRows
    /\ pc' = [pc EXCEPT ![j] = "flush"]
    /\ arriving' = [arriving EXCEPT ![j] = n]
    /\ nextFile' = [nextFile EXCEPT ![j] = 1]
    /\ UNCHANGED <<dirVars, docs, written, accepted, creating, readerVars>>

\* finish: flush the tail, or go straight to the commit when there is none,
\* or fail with "write job received no rows".
Finish(j) ==
    /\ pc[j] = "open"
    /\ pc' = [pc EXCEPT ![j] = IF docs[j] > 0 THEN "flush_tail"
                               ELSE IF written[j] > 0 THEN "commit"
                               ELSE "failed"]
    /\ nextFile' = [nextFile EXCEPT ![j] = 1]
    /\ UNCHANGED <<dirVars, bufVars, creating, readerVars>>

-----------------------------------------------------------------------------
(* flush_segment: std::fs::write creates and truncates a file, then fills  *)
(* it, one file after the other.                                           *)

\* Mutants of FileOf: the batch that triggers the cut is flushed with the
\* segment it should follow; the segment starts one row early.
FileWithArriving(j, full) == [job |-> j, seg |-> written[j],
                              lo |-> accepted[j] - docs[j],
                              hi |-> accepted[j] + arriving[j], whole |-> full]
FileOneRowEarly(j, full) == [job |-> j, seg |-> written[j],
                             lo |-> accepted[j] - docs[j] - 1,
                             hi |-> accepted[j], whole |-> full]

FileOf(j, full) == [job |-> j, seg |-> written[j],
                    lo |-> accepted[j] - docs[j], hi |-> accepted[j],
                    whole |-> full]

CreateFile(j) ==
    /\ pc[j] \in Flushing
    /\ nextFile[j] <= NumFiles
    /\ ~creating[j]
    /\ dir' = [dir EXCEPT ![written[j]][FileOrder[nextFile[j]]] = FileOf(j, FALSE)]
    /\ creating' = [creating EXCEPT ![j] = TRUE]
    /\ UNCHANGED <<pending, commit, pc, bufVars, nextFile, readerVars>>

FillFile(j) ==
    /\ pc[j] \in Flushing
    /\ creating[j]
    /\ dir' = [dir EXCEPT ![written[j]][FileOrder[nextFile[j]]] = FileOf(j, TRUE)]
    /\ creating' = [creating EXCEPT ![j] = FALSE]
    /\ nextFile' = [nextFile EXCEPT ![j] = @ + 1]
    /\ UNCHANGED <<pending, commit, pc, bufVars, readerVars>>

\* Mutants of FlushDone: one file short, one file too many.
DoneBeforeSi(j) == nextFile[j] >= NumFiles /\ ~creating[j]
DoneNever(j) == nextFile[j] > NumFiles + 1

FlushDone(j) == nextFile[j] > NumFiles

\* The end of flush_segment inside push: the buffers are cleared and the
\* batch that waited is appended to the next segment.
ResumePush(j) ==
    /\ pc[j] = "flush"
    /\ FlushDone(j)
    /\ pc' = [pc EXCEPT ![j] = "open"]
    /\ written' = [written EXCEPT ![j] = @ + 1]
    /\ docs' = [docs EXCEPT ![j] = arriving[j]]
    /\ accepted' = [accepted EXCEPT ![j] = @ + arriving[j]]
    /\ arriving' = [arriving EXCEPT ![j] = 0]
    /\ UNCHANGED <<dirVars, ioVars, readerVars>>

\* The end of flush_segment inside finish.
ResumeFinish(j) ==
    /\ pc[j] = "flush_tail"
    /\ FlushDone(j)
    /\ pc' = [pc EXCEPT ![j] = "commit"]
    /\ written' = [written EXCEPT ![j] = @ + 1]
    /\ docs' = [docs EXCEPT ![j] = 0]
    /\ UNCHANGED <<dirVars, arriving, accepted, ioVars, readerVars>>

-----------------------------------------------------------------------------
(* commit_segments: pending_segments_1 is created, filled, synced and      *)
(* renamed to segments_1.                                                  *)

\* Mutant of CommitOf: the tail segment is left out.
CommitWithoutTail(j, full) == [job |-> j, segs |-> written[j] - 1, whole |-> full]

CommitOf(j, full) == [job |-> j, segs |-> written[j], whole |-> full]

CreatePending(j) ==
    /\ pc[j] = "commit"
    /\ pending' = CommitOf(j, FALSE)
    /\ pc' = [pc EXCEPT ![j] = "fill"]
    /\ UNCHANGED <<dir, commit, bufVars, ioVars, readerVars>>

\* The bytes leave the BufWriter when the output is dropped.  Drop ignores a
\* failed flush ("lost_flush"), and the commit goes on with a torn file.  If
\* another job has renamed the file meanwhile, the open handle still writes
\* to it, under its new name.
FillPending(j) ==
    /\ pc[j] = "fill"
    /\ \E full \in {TRUE} \cup (IF "lost_flush" \in Faults THEN {FALSE} ELSE {}) :
          IF pending # Absent
          THEN /\ pending' = CommitOf(j, full)
               /\ UNCHANGED commit
          ELSE /\ commit' = CommitOf(j, full)
               /\ UNCHANGED pending
    /\ pc' = [pc EXCEPT ![j] = "rename"]
    /\ UNCHANGED <<dir, bufVars, ioVars, readerVars>>

\* sync opens the pending file by name, so both calls fail if it is gone.
RenamePending(j) ==
    /\ pc[j] = "rename"
    /\ IF pending = Absent
       THEN /\ pc' = [pc EXCEPT ![j] = "failed"]
            /\ UNCHANGED <<pending, commit>>
       ELSE /\ pc' = [pc EXCEPT ![j] = "reply"]
            /\ commit' = pending
            /\ pending' = Absent
    /\ UNCHANGED <<dir, bufVars, ioVars, readerVars>>

\* do_put answers with the manifests.
Reply(j) ==
    /\ pc[j] = "reply"
    /\ pc' = [pc EXCEPT ![j] = "done"]
    /\ UNCHANGED <<dirVars, bufVars, ioVars, readerVars>>

-----------------------------------------------------------------------------
(* What goes wrong.                                                        *)

\* The put stream breaks or a batch is refused: do_put drops the session.
\* Nothing it wrote is removed.
StreamFails(j) ==
    /\ pc[j] = "open"
    /\ pc' = [pc EXCEPT ![j] = "failed"]
    /\ UNCHANGED <<dirVars, bufVars, ioVars, readerVars>>

\* Encoding, or a call on the file system, returns an error.
IoFails(j) ==
    /\ "io" \in Faults
    /\ pc[j] \in Flushing \cup Committing
    /\ pc' = [pc EXCEPT ![j] = "failed"]
    /\ UNCHANGED <<dirVars, bufVars, ioVars, readerVars>>

\* The server process dies and is started again.  The directory stays.
Crash ==
    /\ "crash" \in Faults
    /\ \/ \E j \in Jobs : pc[j] \in InProgress
       \/ \E r \in Readers : rpc[r] \in Reading
    /\ pc' = [j \in Jobs |-> IF pc[j] \in InProgress THEN "failed" ELSE pc[j]]
    /\ rpc' = [r \in Readers |-> IF rpc[r] \in Reading THEN "lost" ELSE rpc[r]]
    /\ UNCHANGED <<dirVars, bufVars, ioVars, seen, at, schema, got>>

-----------------------------------------------------------------------------
(* DoGet: SegmentDirectory::open, resolve, segment_batches.                *)

\* The latest segments_N: absent ("not a Lucene segment directory"), torn
\* (checksum mismatch), or a list of segments.
OpenCommit(r) ==
    /\ rpc[r] = "idle"
    /\ seen' = [seen EXCEPT ![r] = commit]
    /\ rpc' = [rpc EXCEPT ![r] = IF commit = Absent THEN "no_commit"
                                 ELSE IF commit.whole THEN "si" ELSE "error"]
    /\ UNCHANGED <<dirVars, pc, bufVars, ioVars, at, schema, got>>

\* Whole, and with the segment id of the commit's entry.
HasId(f, c, s) == f # Absent /\ f.whole /\ f.job = c.job /\ f.seg = s

ReadSi(r) ==
    /\ rpc[r] = "si"
    /\ rpc' = [rpc EXCEPT ![r] =
                 IF HasId(dir[at[r]]["si"], seen[r], at[r]) THEN "fnm" ELSE "error"]
    /\ UNCHANGED <<dirVars, pc, bufVars, ioVars, seen, at, schema, got>>

\* From segment to segment, then from phase to phase.
Advance(r, phase, nextPhase) ==
    IF at[r] + 1 < seen[r].segs
    THEN /\ at' = [at EXCEPT ![r] = @ + 1]
         /\ rpc' = [rpc EXCEPT ![r] = phase]
    ELSE /\ at' = [at EXCEPT ![r] = 0]
         /\ rpc' = [rpc EXCEPT ![r] = nextPhase]

ReadFails(r) ==
    /\ rpc' = [rpc EXCEPT ![r] = "error"]
    /\ UNCHANGED <<at, got>>

ReadFnm(r) ==
    /\ rpc[r] = "fnm"
    /\ IF HasId(dir[at[r]]["fnm"], seen[r], at[r])
       THEN Advance(r, "si", "plan") /\ UNCHANGED got
       ELSE ReadFails(r)
    /\ UNCHANGED <<dirVars, pc, bufVars, ioVars, seen, schema>>

\* plan_segment checks the footer of the .dvm, not its segment id.
Plannable(s) ==
    /\ dir[s]["dvm"] # Absent /\ dir[s]["dvm"].whole
    /\ dir[s]["dvd"] # Absent

\* field_arrow_type: a SORTED_NUMERIC or SORTED_SET column is a List in a
\* segment only if its .dvm has addresses for it, that is, if some row of the
\* segment has several values.
TypesOf(f) == {c \in Lists : \E n \in f.lo .. f.hi - 1 : n \in Several[f.job][c]}

\* resolve plans every segment to reconcile the schema: the first decides, the
\* others agree with it or the read ends with "type conflict for field" ...
Plan(r) ==
    /\ rpc[r] = "plan"
    /\ IF Plannable(at[r]) /\ (at[r] = 0 \/ TypesOf(dir[at[r]]["dvm"]) = schema[r])
       THEN /\ Advance(r, "plan", "decode")
            /\ schema' = [schema EXCEPT ![r] = TypesOf(dir[at[r]]["dvm"])]
            /\ UNCHANGED got
       ELSE ReadFails(r) /\ UNCHANGED schema
    /\ UNCHANGED <<dirVars, pc, bufVars, ioVars, seen>>

\* ... and segment_batches plans it again to decode it, into columns that must
\* have the schema's types.  A .dvd that is not the one the .dvm describes
\* gives an error or other values.
Decode(r) ==
    /\ rpc[r] = "decode"
    /\ LET decodes == Plannable(at[r]) /\ TypesOf(dir[at[r]]["dvm"]) = schema[r]
       IN \/ /\ decodes
             /\ Advance(r, "decode", "ok")
             /\ got' = [got EXCEPT ![r] = Append(@, dir[at[r]]["dvd"])]
          \/ /\ decodes => dir[at[r]]["dvd"] # dir[at[r]]["dvm"]
             /\ ReadFails(r)
    /\ UNCHANGED <<dirVars, pc, bufVars, ioVars, seen, schema>>

-----------------------------------------------------------------------------
JobStep(j) ==
    \/ CreateFile(j) \/ FillFile(j) \/ ResumePush(j) \/ ResumeFinish(j)
    \/ CreatePending(j) \/ FillPending(j) \/ RenamePending(j) \/ Reply(j)

ClientStep(j) ==
    \/ \E n \in BatchRows : Start(j, n) \/ Append_(j, n) \/ CutSegment(j, n)
    \/ Reject(j) \/ Finish(j)

ReaderStep(r) ==
    OpenCommit(r) \/ ReadSi(r) \/ ReadFnm(r) \/ Plan(r) \/ Decode(r)

Next ==
    \/ \E j \in Jobs : JobStep(j) \/ ClientStep(j) \/ StreamFails(j) \/ IoFails(j)
    \/ \E r \in Readers : ReaderStep(r)
    \/ Crash

Spec == Init /\ [][Next]_vars

\* The server runs what it has started: a flush, a commit and a decode are
\* blocking calls on a thread of their own.  Nothing makes a client go on.
FairSpec ==
    /\ Spec
    /\ \A j \in Jobs : WF_vars(JobStep(j))
    /\ \A r \in Readers : WF_vars(ReadSi(r) \/ ReadFnm(r) \/ Plan(r) \/ Decode(r))

-----------------------------------------------------------------------------
(* Properties.                                                             *)

\* A commit is readable: segments_1 is whole, and every file of every segment
\* it lists is there, whole and written for that segment by the job that
\* committed.  Flushes precede the commit, one file at a time; this is what
\* makes their order enough (writer.rs, "in docid-base order").
CommitReadable ==
    commit # Absent =>
        /\ commit.whole
        /\ commit.segs > 0
        /\ \A s \in 0 .. commit.segs - 1, e \in Exts : HasId(dir[s][e], commit, s)

\* "Writing is atomic: the file is written to a temp name and renamed"
\* (segment_infos.rs): what bears the name segments_1 is a whole commit.
CommitIsAtomic == commit # Absent => commit.whole

\* The rows lo .. hi-1 of the segments follow one another from row 0 to the
\* last row the job accepted.
Covers(segs, j) ==
    /\ \A i \in 1 .. Len(segs) : segs[i].job = j /\ segs[i].lo < segs[i].hi
    /\ \A i \in 1 .. Len(segs) - 1 : segs[i].hi = segs[i + 1].lo
    /\ Len(segs) > 0 /\ segs[1].lo = 0 /\ segs[Len(segs)].hi = accepted[j]

\* A DoGet that succeeds has decoded every row of one job exactly once, in
\* arrival order (SPEC 10.1), whatever was failing or crashing around it.
ReaderSeesOneJob ==
    \A r \in Readers : rpc[r] = "ok" => Covers(got[r], seen[r].job)

\* The list columns have the same types in all the segments a commit lists.
SameTypes(c) ==
    \A s, t \in 0 .. c.segs - 1 : TypesOf(dir[s]["dvm"]) = TypesOf(dir[t]["dvm"])

\* Unless the server crashes under it, a DoGet that finds a commit succeeds if
\* the job's segments agree on the type of every list column, and otherwise
\* fails (SPEC 8.2): it never meets a file that is missing, torn or another
\* segment's, whoever is writing, failing or crashing.
FailsOnlyOnTypes ==
    \A r \in Readers : /\ rpc[r] = "error" => ~SameTypes(seen[r])
                       /\ rpc[r] = "ok" => SameTypes(seen[r])

\* do_put answers only when the directory holds all the rows of its job.
AckedIsCommitted ==
    \A j \in Jobs : pc[j] = "done" =>
        /\ commit # Absent /\ commit.job = j /\ commit.segs = written[j]
        /\ Covers([i \in 1 .. commit.segs |-> dir[i - 1]["dvd"]], j)

\* Write jobs never append (write.rs, WriteSession::new): no two jobs have
\* files in one directory.
NeverAppends ==
    \A s, t \in SegNos, e, f \in Exts :
        (dir[s][e] # Absent /\ dir[t][f] # Absent) => dir[s][e].job = dir[t][f].job

\* After the commit the directory is frozen: no later job, failure or crash
\* touches a file of it (SPEC 10.1: no deletes, no updates, no merges).
FrozenAfterCommit == [][commit # Absent => UNCHANGED dirVars]_vars

\* A flush or a commit that has begun comes to an end: the push goes on, or
\* the job is over.
FlushEnds ==
    \A j \in Jobs :
        (pc[j] \in Flushing \cup Committing \cup {"reply"})
            ~> (pc[j] \in {"open"} \cup Ended)

\* A DoGet that has opened a commit comes to an end.
ReadEnds ==
    \A r \in Readers : (rpc[r] \in Reading) ~> (rpc[r] \in {"ok", "error", "lost"})
=============================================================================
