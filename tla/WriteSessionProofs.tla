------------------------- MODULE WriteSessionProofs -------------------------
(***************************************************************************)
(* Proofs about WriteSession, for any number of jobs, readers, rows,       *)
(* segments and files per segment.  Types and counters are right whatever  *)
(* goes wrong; the rest assumes what Trusted names: clients keep one job   *)
(* at a time on the directory, and no write error is swallowed.  Errors    *)
(* that are reported, and crashes, may come at any step.  Under the same   *)
(* assumption WriteSession implements Shard: every step of a job, a reader,*)
(* a failure or a crash is a step of the shard that the files on disk      *)
(* stand for, or changes nothing of it.                                    *)
(***************************************************************************)
EXTENDS WriteSessionRefinement, SequenceTheorems, TLAPS

Trusted == OneWriter /\ "lost_flush" \notin Faults

-----------------------------------------------------------------------------
(* The invariant, for every environment.                                   *)

\* Each job's counters: a segment has a row, and no row is counted twice.
CountsOf(j) ==
    /\ written[j] + docs[j] <= accepted[j]
    /\ accepted[j] + arriving[j] <= MaxRows
    /\ pc[j] \in {"idle", "rejected"} => written[j] = 0 /\ docs[j] = 0
    /\ pc[j] \in (InProgress \ {"flush"}) \cup {"idle"} => arriving[j] = 0
    /\ pc[j] \in Flushing => docs[j] > 0
    /\ pc[j] \in Committing \cup {"reply", "done"} => written[j] > 0 /\ docs[j] = 0
    /\ creating[j] => pc[j] \in Flushing \cup {"failed"} /\ nextFile[j] <= NumFiles
Counting == \A j \in Jobs : CountsOf(j)

\* A commit lists between one and MaxRows segments, and a reader stays in it.
InBounds(c) == c # Absent => c.segs \in 1 .. MaxRows
Bounds ==
    /\ InBounds(pending) /\ InBounds(commit)
    /\ \A r \in Readers :
          /\ InBounds(seen[r])
          /\ rpc[r] = "idle" => at[r] = 0
          /\ rpc[r] \in Reading => seen[r] # Absent /\ at[r] < seen[r].segs

TInv == TypeOK /\ Counting /\ Bounds

-----------------------------------------------------------------------------
(* The invariant, for a trusted environment.                               *)

Committed(j) == commit # Absent /\ commit.job = j
Active(j) == pc[j] \in InProgress \/ Committed(j)

\* One job at a time writes to the directory or has committed it.
Solo == \A j, k \in Jobs : Active(j) /\ Active(k) => j = k

\* Every file in the directory is job j's.
Owns(j) == \A s \in SegNos, e \in Exts : dir[s][e] # Absent => dir[s][e].job = j

\* The segments a job has flushed: all files of a segment are whole and were
\* encoded from the same rows, and the segments tile the rows flushed so far.
Flushed(j, s) ==
    /\ dir[s]["dvd"] # Absent
    /\ \A e \in Exts : dir[s][e] = dir[s]["dvd"]
    /\ dir[s]["dvd"].job = j /\ dir[s]["dvd"].seg = s /\ dir[s]["dvd"].whole
    /\ dir[s]["dvd"].lo < dir[s]["dvd"].hi
    /\ dir[s]["dvd"].lo = IF s = 0 THEN 0 ELSE dir[s - 1]["dvd"].hi
FlushedRows(j) == IF written[j] = 0 THEN 0 ELSE dir[written[j] - 1]["dvd"].hi
Segments(j) ==
    /\ \A s \in 0 .. written[j] - 1 : Flushed(j, s)
    /\ FlushedRows(j) = accepted[j] - docs[j]

\* The files of the segment being flushed that are finished.
Current(j) ==
    pc[j] \in Flushing =>
        \A n \in 1 .. nextFile[j] - 1 : dir[written[j]][FileOrder[n]] = FileOf(j, TRUE)

\* The commit protocol: who has which of the two names.
Protocol(j) ==
    /\ pc[j] \in InProgress /\ pc[j] # "reply" => commit = Absent
    /\ pc[j] \in {"reply", "done"} => Committed(j)
    /\ pc[j] = "fill" => pending = CommitOf(j, FALSE)
    /\ pc[j] = "rename" => pending = CommitOf(j, TRUE)

\* The commit lists all the segments of a job that is over, or about to be.
Final ==
    commit # Absent =>
        /\ pc[commit.job] \in {"reply", "done", "failed"}
        /\ commit = CommitOf(commit.job, TRUE)
        /\ docs[commit.job] = 0

\* What the writers keep.
Writing ==
    /\ Solo /\ NeverAppends /\ Final
    /\ \A j \in Jobs : /\ Active(j) => Owns(j) /\ Segments(j)
                      /\ Current(j) /\ Protocol(j)

\* A reader follows the commit and has decoded the segments it has passed.
FollowedBy(r) ==
    /\ rpc[r] \in Reading \cup {"ok", "error"} => seen[r] = commit /\ commit # Absent
    /\ rpc[r] \in {"idle", "si", "fnm", "plan"} => got[r] = <<>>
    /\ rpc[r] = "decode" => Len(got[r]) = at[r]
    /\ rpc[r] = "ok" => Len(got[r]) = commit.segs
    /\ rpc[r] \in {"decode", "ok"} =>
          \A n \in 1 .. Len(got[r]) : got[r][n] = dir[n - 1]["dvd"]
Following == \A r \in Readers : FollowedBy(r)

\* The segments a reader has planned agree with its schema.  It decodes when
\* all of them do, and fails only when two of them do not.
Agreed(n, types) == \A s \in 0 .. n - 1 : TypesOf(dir[s]["dvm"]) = types
TypedBy(r) ==
    /\ rpc[r] = "plan" => Agreed(at[r], schema[r])
    /\ rpc[r] = "decode" => Agreed(commit.segs, schema[r])
    /\ rpc[r] = "ok" => SameTypes(commit)
    /\ rpc[r] = "error" => ~SameTypes(commit)
Typing == \A r \in Readers : TypedBy(r)

IInv == TInv /\ Writing /\ Following /\ Typing
-----------------------------------------------------------------------------
(* Lemmas about the definitions of WriteSession.                           *)

(* The files of a segment: each has one place in FileOrder. *)
LEMMA Files ==
    /\ NumFiles \in Nat /\ NumFiles > 0
    /\ \A n \in 1 .. NumFiles : FileOrder[n] \in Exts
    /\ \A m, n \in 1 .. NumFiles : FileOrder[m] = FileOrder[n] => m = n
    /\ \A e \in Exts : \E n \in 1 .. NumFiles : FileOrder[n] = e
    /\ {"dvd", "dvm", "fnm", "si"} \subseteq Exts
<1> DEFINE Names == STRING \cup {"dvd", "dvm", "fnm", "fdt", "fdx", "fdm", "si"}
           head == <<"dvd", "dvm", "fnm", "fdt", "fdx", "fdm">>
           front == head \o Extras
<1>1. Extras \in Seq(Names)
  BY ConstantsAssumption, SeqMonotonic
<1>2. /\ head \in Seq(Names) /\ <<"si">> \in Seq(Names)
      /\ Len(head) = 6 /\ Len(<<"si">>) = 1
  <2> "dvd" \in Names /\ "dvm" \in Names /\ "fnm" \in Names /\ "fdt" \in Names
      /\ "fdx" \in Names /\ "fdm" \in Names /\ "si" \in Names
    OBVIOUS
  <2> HIDE DEF Names
  <2> QED
    OBVIOUS
<1> HIDE DEF Names
<1>3. /\ front \in Seq(Names) /\ Len(front) = 6 + Len(Extras)
      /\ \A n \in 1 .. 6 : front[n] = head[n]
  BY <1>1, <1>2
<1>4. /\ NumFiles = Len(front) + 1
      /\ \A n \in 1 .. Len(front) : FileOrder[n] = front[n]
      /\ FileOrder[NumFiles] = "si"
  BY <1>2, <1>3 DEF FileOrder, NumFiles
<1>5. NumFiles \in Nat /\ NumFiles > 6
  BY <1>1, <1>3, <1>4
<1>6. FileOrder[1] = "dvd" /\ FileOrder[2] = "dvm" /\ FileOrder[3] = "fnm"
  BY <1>1, <1>3, <1>4
<1> HIDE DEF head, front
<1> QED
  BY <1>4, <1>5, <1>6, ConstantsAssumption DEF Exts

(* What a flush or a commit writes. *)
LEMMA Written ==
    ASSUME TInv, NEW j \in Jobs, NEW full \in BOOLEAN
    PROVE  /\ pc[j] \in Flushing => written[j] \in SegNos /\ FileOf(j, full) \in File
           /\ pc[j] \in Committing => /\ CommitOf(j, full) \in Commit
                                     /\ InBounds(CommitOf(j, full))
<1>1. /\ written[j] \in Nat /\ docs[j] \in Nat /\ accepted[j] \in Nat /\ arriving[j] \in Nat
      /\ MaxRows \in Nat
  BY ConstantsAssumption DEF TInv, TypeOK
<1>2. /\ written[j] + docs[j] <= accepted[j] /\ accepted[j] + arriving[j] <= MaxRows
      /\ pc[j] \in Flushing => docs[j] > 0
      /\ pc[j] \in Committing => written[j] > 0
  BY DEF TInv, Counting, CountsOf
<1>3. pc[j] \in Flushing => written[j] \in SegNos
  BY <1>1, <1>2 DEF SegNos
<1>4. accepted[j] - docs[j] \in Nat
  BY <1>1, <1>2
<1>5. pc[j] \in Committing => written[j] \in 1 .. MaxRows
  BY <1>1, <1>2
<1> QED
  BY <1>1, <1>3, <1>4, <1>5 DEF FileOf, File, CommitOf, Commit, InBounds

(* A file that carries the id of a commit's entry is a file. *)
LEMMA HasIdIsFile ==
    ASSUME TypeOK, NEW c, NEW s \in SegNos, NEW e \in Exts, HasId(dir[s][e], c, s)
    PROVE  dir[s][e] \in File
BY DEF TypeOK, HasId

-----------------------------------------------------------------------------
(* Types and counters, whatever goes wrong.                                *)

(* The initial state satisfies the type invariant. *)
LEMMA InitTInv == Init => TInv
<1> SUFFICES ASSUME Init PROVE TInv
  OBVIOUS
<1>1. TypeOK
  BY Files, ConstantsAssumption DEF Init, TypeOK
<1>2. Counting
  <2>1. MaxRows \in Nat
    BY ConstantsAssumption
  <2>2. ASSUME NEW j \in Jobs
        PROVE  /\ written[j] = 0 /\ docs[j] = 0 /\ accepted[j] = 0
               /\ arriving[j] = 0 /\ pc[j] = "idle" /\ creating[j] = FALSE
    BY DEF Init
  <2>3. /\ "idle" \notin Flushing /\ "idle" \notin Committing
    BY DEF Flushing, Committing
  <2> SUFFICES ASSUME NEW j \in Jobs
               PROVE  /\ written[j] + docs[j] <= accepted[j]
                      /\ accepted[j] + arriving[j] <= MaxRows
                      /\ written[j] = 0 /\ docs[j] = 0 /\ arriving[j] = 0
                      /\ pc[j] = "idle" /\ creating[j] = FALSE
    BY <2>3 DEF Counting, CountsOf
  <2>4. /\ written[j] = 0 /\ docs[j] = 0 /\ accepted[j] = 0 /\ arriving[j] = 0
    BY <2>2
  <2>5. pc[j] = "idle" /\ creating[j] = FALSE
    BY <2>2
  <2>6. 0 + 0 <= 0 /\ 0 + 0 <= MaxRows
    BY <2>1
  <2> QED
    BY <2>4, <2>5, <2>6
<1>3. Bounds
  BY DEF Init, Bounds, InBounds, Reading
<1> QED
  BY <1>1, <1>2, <1>3 DEF TInv

(* The steps of a job that leave the files alone. *)
QuietJobStep(j) ==
    \/ \E n \in BatchRows : Start(j, n) \/ Append_(j, n) \/ CutSegment(j, n)
    \/ Reject(j) \/ Finish(j) \/ ResumePush(j) \/ ResumeFinish(j) \/ Reply(j)
    \/ StreamFails(j) \/ IoFails(j)

(* The types are kept by every step. *)
LEMMA NextTypeOK == ASSUME TInv, [Next]_vars PROVE TypeOK'
<1> USE DEF TypeOK
<1>0. TypeOK
  BY DEF TInv
<1>a. BatchRows \subseteq Nat /\ NumFiles \in Nat /\ NumFiles > 0
  BY Files, ConstantsAssumption
<1>1. ASSUME NEW j \in Jobs, CreateFile(j) PROVE TypeOK'
  <2>1. written[j] \in SegNos /\ FileOf(j, FALSE) \in File
    BY <1>1, Written DEF CreateFile
  <2>2. FileOrder[nextFile[j]] \in Exts
    <3>1. nextFile[j] \in 1 .. NumFiles
      BY <1>0, <1>a, <1>1 DEF CreateFile
    <3> QED
      BY <3>1, Files
  <2>3. dir' \in [SegNos -> [Exts -> File \cup {Absent}]]
    BY <1>0, <1>1, <2>1, <2>2 DEF CreateFile
  <2> QED
    BY <1>0, <1>1, <2>3 DEF CreateFile, bufVars, readerVars
<1>2. ASSUME NEW j \in Jobs, FillFile(j) PROVE TypeOK'
  <2>1. nextFile[j] \in 1 .. NumFiles
    BY <1>0, <1>a, <1>2 DEF FillFile, TInv, Counting, CountsOf
  <2>2. written[j] \in SegNos /\ FileOf(j, TRUE) \in File
    BY <1>2, Written DEF FillFile
  <2>3. FileOrder[nextFile[j]] \in Exts
    BY <2>1, Files
  <2>4. dir' \in [SegNos -> [Exts -> File \cup {Absent}]]
    BY <1>0, <1>2, <2>2, <2>3 DEF FillFile
  <2>5. nextFile' \in [Jobs -> 1 .. NumFiles + 1]
    BY <1>0, <1>a, <1>2, <2>1 DEF FillFile
  <2> QED
    BY <1>0, <1>2, <2>4, <2>5 DEF FillFile, bufVars, readerVars
<1>3. ASSUME NEW j \in Jobs, QuietJobStep(j) PROVE TypeOK'
  <2> USE DEF dirVars, bufVars, ioVars, readerVars, InProgress, Flushing, Committing, Ended
  <2>1. ASSUME NEW n \in BatchRows, Start(j, n) PROVE TypeOK'
    BY <1>0, <1>a, <2>1 DEF Start
  <2>2. ASSUME NEW n \in BatchRows, Append_(j, n) PROVE TypeOK'
    <3>1. docs[j] \in Nat /\ accepted[j] \in Nat /\ n \in Nat
      BY <1>0, <1>a
    <3>2. docs[j] + n \in Nat /\ accepted[j] + n \in Nat
      BY <3>1
    <3>3. docs' \in [Jobs -> Nat] /\ accepted' \in [Jobs -> Nat]
      BY <1>0, <2>2, <3>2 DEF Append_
    <3>4. QED
      BY <1>0, <2>2, <3>3 DEF Append_
  <2>3. ASSUME NEW n \in BatchRows, CutSegment(j, n) PROVE TypeOK'
    BY <1>0, <1>a, <2>3 DEF CutSegment
  <2>4. CASE Reject(j) \/ Reply(j) \/ StreamFails(j) \/ IoFails(j)
    BY <1>0, <2>4 DEF Reject, Reply, StreamFails, IoFails
  <2>5. CASE Finish(j)
    BY <1>0, <1>a, <2>5 DEF Finish
  <2>6. CASE ResumePush(j)
    BY <1>0, <2>6 DEF ResumePush
  <2>7. CASE ResumeFinish(j)
    BY <1>0, <2>7 DEF ResumeFinish
  <2> QED
    BY <1>3, <2>1, <2>2, <2>3, <2>4, <2>5, <2>6, <2>7 DEF QuietJobStep
<1>4. ASSUME NEW j \in Jobs, CreatePending(j) PROVE TypeOK'
  <2>1. CommitOf(j, FALSE) \in Commit
    BY <1>4, Written DEF CreatePending, Committing
  <2> QED
    BY <1>0, <1>4, <2>1 DEF CreatePending, bufVars, ioVars, readerVars,
       InProgress, Committing
<1>5. ASSUME NEW j \in Jobs, FillPending(j) PROVE TypeOK'
  <2>1. CommitOf(j, TRUE) \in Commit /\ CommitOf(j, FALSE) \in Commit
    BY <1>5, Written DEF FillPending, Committing
  <2>2. pending' \in Commit \cup {Absent} /\ commit' \in Commit \cup {Absent}
    BY <1>0, <1>5, <2>1 DEF FillPending
  <2> QED
    BY <1>0, <1>5, <2>2 DEF FillPending, bufVars, ioVars, readerVars,
       InProgress, Committing
<1>6. ASSUME NEW j \in Jobs, RenamePending(j) PROVE TypeOK'
  BY <1>0, <1>6 DEF RenamePending, bufVars, ioVars, readerVars, InProgress, Ended
<1>7. CASE Crash
  BY <1>0, <1>7 DEF Crash, dirVars, bufVars, ioVars, Ended
<1>8. ASSUME NEW r \in Readers, ReaderStep(r) PROVE TypeOK'
  <2> USE DEF dirVars, bufVars, ioVars, Reading
  <2>0. at[r] \in Nat /\ at[r] + 1 \in Nat
    BY <1>0, <1>8
  <2>1. CASE OpenCommit(r)
    BY <1>0, <2>1 DEF OpenCommit
  <2>2. CASE ReadSi(r)
    BY <1>0, <2>2 DEF ReadSi
  <2>a. ASSUME NEW p \in Reading, NEW q \in Reading \cup {"ok"},
              Advance(r, p, q) \/ ReadFails(r)
        PROVE  /\ at' \in [Readers -> Nat]
               /\ rpc' \in [Readers -> {"idle"} \cup Reading \cup
                                       {"ok", "no_commit", "error", "lost"}]
    <3>1. CASE ReadFails(r)
      BY <1>0, <3>1 DEF ReadFails
    <3>2. CASE at' = [at EXCEPT ![r] = @ + 1] /\ rpc' = [rpc EXCEPT ![r] = p]
      BY <1>0, <2>0, <2>a, <3>2
    <3>3. CASE at' = [at EXCEPT ![r] = 0] /\ rpc' = [rpc EXCEPT ![r] = q]
      BY <1>0, <2>a, <3>3
    <3> QED
      BY <2>a, <3>1, <3>2, <3>3 DEF Advance
  <2>3. CASE ReadFnm(r)
    <3>1. Advance(r, "si", "plan") \/ ReadFails(r)
      BY <2>3 DEF ReadFnm
    <3>2. got' = got /\ schema' = schema
      BY <2>3 DEF ReadFnm, ReadFails
    <3> QED
      BY <1>0, <2>a, <2>3, <3>1, <3>2 DEF ReadFnm
  <2>4. CASE Plan(r)
    <3>1. Advance(r, "plan", "decode") \/ ReadFails(r)
      BY <2>4 DEF Plan
    <3>2. got' = got
      BY <2>4 DEF Plan, ReadFails
    <3>3. schema' \in [Readers -> SUBSET Lists]
      <4>1. TypesOf(dir[at[r]]["dvm"]) \in SUBSET Lists
        BY DEF TypesOf
      <4> QED
        BY <1>0, <2>4, <4>1 DEF Plan
    <3> QED
      BY <1>0, <2>a, <2>4, <3>1, <3>2, <3>3 DEF Plan
  <2>5. CASE Decode(r)
    <3>1. at[r] \in SegNos
      <4>1. /\ seen[r].segs \in 1 .. MaxRows /\ at[r] < seen[r].segs
            /\ MaxRows \in Nat
        BY <1>8, <2>5, ConstantsAssumption DEF Decode, TInv, Bounds, InBounds
      <4> QED
        BY <2>0, <4>1 DEF SegNos
    <3>2. Plannable(at[r]) => dir[at[r]]["dvd"] \in File
      BY <1>0, <3>1, Files DEF Plannable
    <3>3. got' \in [Readers -> Seq(File)]
      <4>1. CASE got' = got
        BY <1>0, <4>1
      <4>2. CASE Plannable(at[r]) /\ got' = [got EXCEPT ![r] = Append(@, dir[at[r]]["dvd"])]
        <5>1. Append(got[r], dir[at[r]]["dvd"]) \in Seq(File)
          BY <1>0, <1>8, <3>2, <4>2
        <5> QED
          BY <1>0, <4>2, <5>1
      <4> QED
        BY <2>5, <4>1, <4>2 DEF Decode, ReadFails
    <3>4. Advance(r, "decode", "ok") \/ ReadFails(r)
      BY <2>5 DEF Decode
    <3> QED
      BY <1>0, <2>a, <2>5, <3>3, <3>4 DEF Decode
  <2> QED
    BY <1>8, <2>1, <2>2, <2>3, <2>4, <2>5 DEF ReaderStep
<1>9. CASE UNCHANGED vars
  BY <1>0, <1>9 DEF vars
<1> QED
  BY <1>1, <1>2, <1>3, <1>4, <1>5, <1>6, <1>7, <1>8, <1>9
     DEF Next, JobStep, ClientStep, QuietJobStep

(* A job whose variables do not change keeps its counters. *)
LEMMA CountsKept ==
    ASSUME NEW k \in Jobs, CountsOf(k), pc'[k] = pc[k], docs'[k] = docs[k],
           written'[k] = written[k], accepted'[k] = accepted[k],
           arriving'[k] = arriving[k], nextFile'[k] = nextFile[k],
           creating'[k] = creating[k]
    PROVE  CountsOf(k)'
BY DEF CountsOf

(* A job that ends without a commit keeps its counters. *)
LEMMA CountsKeptAtEnd ==
    ASSUME NEW k \in Jobs, CountsOf(k), pc'[k] = "failed", docs'[k] = docs[k],
           written'[k] = written[k], accepted'[k] = accepted[k],
           arriving'[k] = arriving[k], nextFile'[k] = nextFile[k],
           creating'[k] = creating[k]
    PROVE  CountsOf(k)'
BY DEF CountsOf, InProgress, Flushing, Committing

(* The counters are kept by every step of a job. *)
LEMMA JobCounting ==
    ASSUME TInv, NEW j \in Jobs,
           JobStep(j) \/ ClientStep(j) \/ StreamFails(j) \/ IoFails(j)
    PROVE  Counting'
<1>1. ASSUME NEW k \in Jobs, k # j PROVE CountsOf(k)'
  <2>1. CountsOf(k)
    BY <1>1 DEF TInv, Counting
  <2>2. /\ pc'[k] = pc[k] /\ docs'[k] = docs[k] /\ written'[k] = written[k]
        /\ accepted'[k] = accepted[k] /\ arriving'[k] = arriving[k]
        /\ nextFile'[k] = nextFile[k] /\ creating'[k] = creating[k]
    BY <1>1 DEF TInv, TypeOK, JobStep, ClientStep, StreamFails, IoFails, CreateFile,
       FillFile, ResumePush, ResumeFinish, CreatePending, FillPending, RenamePending,
       Reply, Start, Append_, CutSegment, Reject, Finish, bufVars, ioVars
  <2> QED
    BY <1>1, <2>1, <2>2, CountsKept
<1>2. CountsOf(j)'
  <2>1. /\ pc \in [Jobs -> {"idle"} \cup InProgress \cup Ended]
        /\ docs \in [Jobs -> Nat] /\ written \in [Jobs -> Nat]
        /\ accepted \in [Jobs -> Nat] /\ arriving \in [Jobs -> Nat]
        /\ nextFile \in [Jobs -> 1 .. NumFiles + 1] /\ creating \in [Jobs -> BOOLEAN]
    BY DEF TInv, TypeOK
  <2>2. MaxRows \in Nat /\ BatchRows \subseteq Nat /\ NumFiles \in Nat /\ NumFiles > 0
    BY Files, ConstantsAssumption
  <2>3. CountsOf(j)
    BY DEF TInv, Counting
  <2>4. CASE CreateFile(j)
    BY <2>1, <2>2, <2>3, <2>4 DEF CreateFile, CountsOf, bufVars, InProgress, Flushing, Committing
  <2>5. CASE FillFile(j)
    BY <2>1, <2>2, <2>3, <2>5 DEF FillFile, CountsOf, bufVars, InProgress, Flushing, Committing
  <2>6. CASE ResumePush(j)
    BY <2>1, <2>2, <2>3, <2>6 DEF ResumePush, FlushDone, CountsOf, ioVars, InProgress, Flushing, Committing
  <2>7. CASE ResumeFinish(j)
    BY <2>1, <2>2, <2>3, <2>7 DEF ResumeFinish, FlushDone, CountsOf, ioVars, InProgress, Flushing, Committing
  <2>8. CASE CreatePending(j)
    BY <2>1, <2>3, <2>8 DEF CreatePending, CountsOf, bufVars, ioVars, InProgress, Flushing, Committing
  <2>9. CASE FillPending(j)
    BY <2>1, <2>3, <2>9 DEF FillPending, CountsOf, bufVars, ioVars, InProgress, Flushing, Committing
  <2>10. CASE RenamePending(j)
    BY <2>1, <2>3, <2>10 DEF RenamePending, CountsOf, bufVars, ioVars, InProgress, Flushing, Committing
  <2>11. CASE Reply(j)
    BY <2>1, <2>3, <2>11 DEF Reply, CountsOf, bufVars, ioVars, InProgress, Flushing, Committing
  <2>12. ASSUME NEW n \in BatchRows, Start(j, n) PROVE CountsOf(j)'
    BY <2>1, <2>2, <2>3, <2>12 DEF Start, CountsOf, ioVars, InProgress, Flushing, Committing
  <2>13. ASSUME NEW n \in BatchRows, Append_(j, n) PROVE CountsOf(j)'
    BY <2>1, <2>2, <2>3, <2>13 DEF Append_, CountsOf, ioVars, InProgress, Flushing, Committing
  <2>14. ASSUME NEW n \in BatchRows, CutSegment(j, n) PROVE CountsOf(j)'
    <3>1. docs[j] > 0
      BY <2>1, <2>14, ConstantsAssumption DEF CutSegment
    <3> QED
      BY <2>1, <2>2, <2>3, <2>14, <3>1 DEF CutSegment, CountsOf, InProgress, Flushing, Committing
  <2>15. CASE Reject(j)
    BY <2>1, <2>3, <2>15 DEF Reject, CountsOf, bufVars, ioVars, InProgress, Flushing, Committing
  <2>16. CASE Finish(j)
    BY <2>1, <2>2, <2>3, <2>16 DEF Finish, CountsOf, bufVars, InProgress, Flushing, Committing
  <2>17. CASE StreamFails(j) \/ IoFails(j)
    BY <2>1, <2>3, <2>17, CountsKeptAtEnd DEF StreamFails, IoFails, bufVars, ioVars
  <2> QED
    BY <2>4, <2>5, <2>6, <2>7, <2>8, <2>9, <2>10, <2>11, <2>12, <2>13, <2>14, <2>15,
       <2>16, <2>17 DEF JobStep, ClientStep
<1> QED
  BY <1>1, <1>2 DEF Counting

(* What a reader step leaves alone. *)
LEMMA ReaderLeaves ==
    ASSUME NEW r \in Readers, ReaderStep(r)
    PROVE  UNCHANGED <<dir, pending, commit, pc, docs, written, nextFile, creating,
                       arriving, accepted>>
BY DEF ReaderStep, OpenCommit, ReadSi, ReadFnm, Plan, Decode, dirVars, bufVars, ioVars

(* What a step of a job leaves alone. *)
LEMMA JobLeaves ==
    ASSUME NEW j \in Jobs, JobStep(j) \/ ClientStep(j) \/ StreamFails(j) \/ IoFails(j)
    PROVE  UNCHANGED readerVars
BY DEF JobStep, ClientStep, StreamFails, IoFails, CreateFile, FillFile, ResumePush,
   ResumeFinish, CreatePending, FillPending, RenamePending, Reply, Start, Append_,
   CutSegment, Reject, Finish

(* Only the commit protocol touches the two names of the commit. *)
LEMMA NamesMove ==
    ASSUME NEW j \in Jobs, JobStep(j) \/ ClientStep(j) \/ StreamFails(j) \/ IoFails(j)
    PROVE  \/ UNCHANGED <<pending, commit>>
           \/ CreatePending(j) \/ FillPending(j) \/ RenamePending(j)
BY DEF JobStep, ClientStep, StreamFails, IoFails, CreateFile, FillFile, ResumePush,
   ResumeFinish, Reply, Start, Append_, CutSegment, Reject, Finish, dirVars

(* Commits stay in bounds. *)
LEMMA JobBounds ==
    ASSUME TInv, NEW j \in Jobs,
           JobStep(j) \/ ClientStep(j) \/ StreamFails(j) \/ IoFails(j)
    PROVE  Bounds'
<1>1. Bounds /\ UNCHANGED readerVars
  BY JobLeaves DEF TInv
<1>2. InBounds(pending)' /\ InBounds(commit)'
  <2>1. CASE UNCHANGED <<pending, commit>>
    BY <1>1, <2>1 DEF Bounds, InBounds
  <2>2. CASE CreatePending(j)
    <3>1. InBounds(CommitOf(j, FALSE))
      BY <2>2, Written DEF CreatePending, Committing
    <3> QED
      BY <1>1, <2>2, <3>1 DEF CreatePending, Bounds, InBounds
  <2>3. CASE FillPending(j)
    <3>1. InBounds(CommitOf(j, FALSE)) /\ InBounds(CommitOf(j, TRUE))
      BY <2>3, Written DEF FillPending, Committing
    <3> QED
      BY <1>1, <2>3, <3>1 DEF FillPending, Bounds, InBounds
  <2>4. CASE RenamePending(j)
    BY <1>1, <2>4 DEF RenamePending, Bounds, InBounds
  <2> QED
    BY <2>1, <2>2, <2>3, <2>4, NamesMove
<1> QED
  BY <1>1, <1>2 DEF Bounds, readerVars, InBounds

(* A reader stays within the commit it has opened. *)
LEMMA ReaderBounds == ASSUME TInv, NEW r \in Readers, ReaderStep(r) PROVE Bounds'
<1>1. UNCHANGED <<pending, commit>> /\ InBounds(pending)' /\ InBounds(commit)'
  BY ReaderLeaves DEF TInv, Bounds, InBounds
<1>2. /\ rpc \in [Readers -> {"idle"} \cup Reading \cup {"ok", "no_commit", "error", "lost"}]
      /\ seen \in [Readers -> Commit \cup {Absent}] /\ at \in [Readers -> Nat]
  BY DEF TInv, TypeOK
<1>3. ASSUME NEW q \in Readers
      PROVE  /\ InBounds(seen[q])
             /\ rpc[q] = "idle" => at[q] = 0
             /\ rpc[q] \in Reading => seen[q] # Absent /\ at[q] < seen[q].segs
  BY DEF TInv, Bounds
<1>a. ASSUME NEW q \in Readers, q # r
      PROVE  seen'[q] = seen[q] /\ rpc'[q] = rpc[q] /\ at'[q] = at[q]
  BY <1>2, <1>a DEF ReaderStep, OpenCommit, ReadSi, ReadFnm, Plan, Decode, Advance, ReadFails
<1>4. /\ InBounds(seen'[r])
      /\ rpc'[r] = "idle" => at'[r] = 0
      /\ rpc'[r] \in Reading => seen'[r] # Absent /\ at'[r] < seen'[r].segs
  <2>1. CASE OpenCommit(r)
    <3>1. /\ seen'[r] = commit /\ at'[r] = 0
          /\ rpc'[r] \in {"no_commit", "si", "error"}
          /\ rpc'[r] = "si" => commit # Absent
      BY <1>2, <1>3, <2>1 DEF OpenCommit
    <3>2. InBounds(commit)
      BY <1>1 DEF InBounds
    <3> QED
      BY <3>1, <3>2 DEF InBounds, Reading
  <2>2. CASE ReadSi(r)
    BY <1>2, <1>3, <2>2 DEF ReadSi, Reading
  <2>3. CASE ReadFnm(r) \/ Plan(r) \/ Decode(r)
    <3>1. /\ seen' = seen /\ rpc[r] \in Reading
          /\ \/ ReadFails(r)
             \/ \E p \in Reading, q \in Reading \cup {"ok"} : Advance(r, p, q)
      BY <2>3 DEF ReadFnm, Plan, Decode, Reading
    <3>2. seen[r].segs \in 1 .. MaxRows /\ MaxRows \in Nat
      BY <1>3, <3>1, ConstantsAssumption DEF InBounds
    <3>3. CASE ReadFails(r)
      BY <1>2, <1>3, <3>1, <3>3 DEF ReadFails, Reading
    <3>4. ASSUME NEW p \in Reading, NEW q \in Reading \cup {"ok"}, Advance(r, p, q)
          PROVE  rpc'[r] # "idle" /\ at'[r] < seen[r].segs
      <4>1. CASE at[r] + 1 < seen[r].segs
        BY <1>2, <3>4, <4>1 DEF Advance, Reading
      <4>2. CASE ~(at[r] + 1 < seen[r].segs)
        BY <1>2, <3>2, <3>4, <4>2 DEF Advance, Reading
      <4> QED
        BY <4>1, <4>2
    <3> QED
      BY <1>3, <3>1, <3>3, <3>4
  <2> QED
    BY <2>1, <2>2, <2>3 DEF ReaderStep
<1> QED
  BY <1>1, <1>3, <1>a, <1>4 DEF Bounds, InBounds

(* The type invariant is inductive. *)
LEMMA NextTInv == ASSUME TInv, [Next]_vars PROVE TInv'
<1>1. TypeOK'
  BY NextTypeOK
<1>2. ASSUME NEW j \in Jobs, JobStep(j) \/ ClientStep(j) \/ StreamFails(j) \/ IoFails(j)
      PROVE  Counting' /\ Bounds'
  BY <1>2, JobCounting, JobBounds
<1>3. ASSUME NEW r \in Readers, ReaderStep(r) PROVE Counting' /\ Bounds'
  <2>1. Counting'
    BY <1>3, ReaderLeaves DEF TInv, Counting, CountsOf
  <2> QED
    BY <1>3, <2>1, ReaderBounds
<1>4. CASE Crash
  <2>1. ASSUME NEW k \in Jobs PROVE CountsOf(k)'
    <3>1. CountsOf(k) /\ (pc'[k] = pc[k] \/ pc'[k] = "failed")
      BY <1>4 DEF TInv, Counting, Crash
    <3> QED
      BY <1>4, <3>1, CountsKept, CountsKeptAtEnd DEF Crash, bufVars, ioVars
  <2>2. ASSUME NEW r \in Readers
        PROVE  rpc'[r] = "lost" \/ (rpc'[r] = rpc[r] /\ rpc[r] \notin Reading)
    <3>1. rpc' = [q \in Readers |-> IF rpc[q] \in Reading THEN "lost" ELSE rpc[q]]
      BY <1>4 DEF Crash
    <3> QED
      BY <3>1
  <2>3. Bounds'
    BY <1>4, <2>2 DEF TInv, Bounds, InBounds, Crash, dirVars, Reading
  <2>4. Counting'
    BY <2>1 DEF Counting
  <2> QED
    BY <1>1, <2>3, <2>4 DEF TInv
<1>5. CASE UNCHANGED vars
  <2>1. Counting'
    BY <1>5 DEF vars, TInv, Counting, CountsOf
  <2>2. Bounds'
    BY <1>5 DEF vars, TInv, Bounds, InBounds
  <2> QED
    BY <1>1, <2>1, <2>2 DEF TInv
<1> QED
  BY <1>1, <1>2, <1>3, <1>4, <1>5 DEF Next, TInv

(* Whatever clients do and whatever fails, every file, commit and counter is
   of its type: a segment's name and rows are never out of range. *)
THEOREM TypeCorrect == Spec => []TypeOK
<1>1. TInv /\ [Next]_vars => TInv'
  BY NextTInv
<1>2. TInv => TypeOK
  BY DEF TInv
<1> QED
  BY <1>1, <1>2, InitTInv, PTL DEF Spec

-----------------------------------------------------------------------------
(* The writers, in a trusted environment.                                  *)

\* No other job is in progress, or acknowledged, or has committed.
AloneWith(j) == \A k \in Jobs : k # j => pc[k] \notin InProgress \cup {"done"} /\ ~Committed(k)

(* A job in progress is alone with the directory. *)
LEMMA InProgressAlone ==
    ASSUME Writing, NEW j \in Jobs, pc[j] \in InProgress
    PROVE  AloneWith(j)
<1> SUFFICES ASSUME NEW k \in Jobs, k # j
             PROVE  pc[k] \notin InProgress \cup {"done"} /\ ~Committed(k)
  BY DEF AloneWith
<1>1. ~Active(k)
  BY DEF Writing, Solo, Active
<1>2. pc[k] = "done" => Committed(k)
  BY DEF Writing, Protocol
<1> QED
  BY <1>1, <1>2 DEF Active

(* A step of a job that is alone with the directory needs to be looked at
   for that job only. *)
LEMMA OwnStep ==
    ASSUME NEW j \in Jobs, AloneWith(j), \A k \in Jobs : k # j => pc'[k] = pc[k],
           commit' # Absent => commit'.job = j,
           Owns(j)', Segments(j)', Current(j)', Protocol(j)', Final'
    PROVE  Writing'
<1>1. ASSUME NEW k \in Jobs, k # j
      PROVE  pc'[k] \notin InProgress \cup {"done"} /\ ~Active(k)'
  BY <1>1 DEF AloneWith, Active, Committed
<1>2. Solo'
  BY <1>1 DEF Solo
<1>3. NeverAppends'
  BY DEF Owns, NeverAppends
<1>4. ASSUME NEW k \in Jobs, k # j PROVE Current(k)' /\ Protocol(k)'
  <2>1. pc'[k] \notin InProgress \cup {"done"}
    BY <1>1, <1>4
  <2> QED
    BY <2>1 DEF Current, Protocol, InProgress, Flushing, Committing
<1> QED
  BY <1>1, <1>2, <1>3, <1>4 DEF Writing

(* A step that only ends jobs, or nothing, keeps everything. *)
LEMMA EndingStep ==
    ASSUME TypeOK, Writing,
           UNCHANGED <<dir, pending, commit, docs, written, nextFile, arriving, accepted>>,
           \A k \in Jobs : \/ pc'[k] = pc[k]
                           \/ pc'[k] \in {"failed", "rejected"} /\ pc[k] \in InProgress \cup {"idle"}
                                /\ (pc'[k] = "rejected" => pc[k] = "idle")
                           \/ pc'[k] = "done" /\ pc[k] = "reply"
    PROVE  Writing'
<1>1. ASSUME NEW k \in Jobs PROVE Active(k)' => Active(k)
  BY DEF Active, Committed, InProgress, Flushing, Committing
<1>2. Solo' /\ NeverAppends'
  BY <1>1 DEF Writing, Solo, NeverAppends
<1>3. Final'
  <2> SUFFICES ASSUME commit # Absent PROVE Final'
    BY DEF Final
  <2>1. commit.job \in Jobs
    BY DEF TypeOK, Commit
  <2>2. pc[commit.job] \in {"reply", "done", "failed"}
    BY DEF Writing, Final
  <2>3. pc'[commit.job] \in {"reply", "done", "failed"}
    BY <2>1, <2>2 DEF InProgress, Flushing, Committing
  <2> QED
    BY <2>3 DEF Writing, Final, CommitOf
<1>4. ASSUME NEW k \in Jobs
      PROVE  (Active(k)' => Owns(k)' /\ Segments(k)') /\ Current(k)' /\ Protocol(k)'
  <2>1. (Active(k) => Owns(k) /\ Segments(k)) /\ Current(k) /\ Protocol(k)
    BY DEF Writing
  <2>2. Active(k)' => Owns(k)' /\ Segments(k)'
    BY <1>1, <2>1 DEF Owns, Segments, Flushed, FlushedRows
  <2>3. Current(k)'
    BY <2>1 DEF Current, FileOf, InProgress, Flushing
  <2>4. Protocol(k)'
    BY <2>1 DEF Protocol, Committed, CommitOf, InProgress, Flushing, Committing
  <2> QED
    BY <2>2, <2>3, <2>4
<1> QED
  BY <1>2, <1>3, <1>4 DEF Writing

(* Initially nobody has written anything. *)
LEMMA InitWriting == Init => Writing
<1> SUFFICES ASSUME Init PROVE Writing
  OBVIOUS
<1>1. ASSUME NEW j \in Jobs PROVE pc[j] = "idle" /\ ~Active(j)
  BY DEF Init, Active, Committed, InProgress, Flushing, Committing
<1>2. Solo /\ NeverAppends /\ Final
  BY <1>1 DEF Init, Solo, NeverAppends, Final
<1>3. ASSUME NEW j \in Jobs PROVE Current(j) /\ Protocol(j)
  BY <1>1 DEF Current, Protocol, InProgress, Flushing, Committing
<1> QED
  BY <1>1, <1>2, <1>3 DEF Writing

(* The first batch finds the directory empty. *)
LEMMA StartWriting ==
    ASSUME TInv, Writing, Trusted, NEW j \in Jobs, NEW n \in BatchRows, Start(j, n)
    PROVE  Writing'
<1>1. /\ pc[j] = "idle" /\ DirIsEmpty /\ UNCHANGED <<dir, pending, commit, written>>
      /\ pc' = [pc EXCEPT ![j] = "open"] /\ docs' = [docs EXCEPT ![j] = n]
      /\ accepted' = [accepted EXCEPT ![j] = n]
  BY DEF Start, dirVars
<1>2. /\ pc \in [Jobs -> {"idle"} \cup InProgress \cup Ended] /\ docs \in [Jobs -> Nat]
      /\ accepted \in [Jobs -> Nat] /\ n \in Nat
  BY ConstantsAssumption DEF TInv, TypeOK
<1>3. AloneWith(j)
  <2> SUFFICES ASSUME NEW k \in Jobs, k # j
               PROVE  pc[k] \notin InProgress \cup {"done"} /\ ~Committed(k)
    BY DEF AloneWith
  <2>1. commit = Absent
    BY <1>1 DEF DirIsEmpty
  <2>2. pc[k] \notin InProgress
    BY DEF Start, MayStart, Trusted
  <2>3. pc[k] = "done" => Committed(k)
    BY DEF Writing, Protocol
  <2> QED
    BY <2>1, <2>2, <2>3 DEF Committed
<1>4. pc'[j] = "open" /\ commit' = Absent
  BY <1>1, <1>2 DEF DirIsEmpty
<1>5. Owns(j)'
  BY <1>1 DEF DirIsEmpty, Owns
<1>6. Segments(j)'
  <2>1. written[j] = 0
    BY <1>1 DEF TInv, Counting, CountsOf
  <2>2. docs'[j] = n /\ accepted'[j] = n /\ written'[j] = 0
    BY <1>1, <1>2, <2>1
  <2> QED
    BY <1>2, <2>2 DEF Segments, FlushedRows
<1>7. Current(j)' /\ Protocol(j)' /\ Final'
  BY <1>4 DEF Current, Protocol, Final, InProgress, Flushing, Committing
<1> QED
  BY <1>1, <1>2, <1>3, <1>4, <1>5, <1>6, <1>7, OwnStep

(* What is known of a job in progress before its step. *)
LEMMA OwnFacts ==
    ASSUME TInv, Writing, NEW j \in Jobs, pc[j] \in InProgress
    PROVE  /\ AloneWith(j) /\ Owns(j) /\ Segments(j) /\ Current(j) /\ Protocol(j)
           /\ pc \in [Jobs -> {"idle"} \cup InProgress \cup Ended]
           /\ dir \in [SegNos -> [Exts -> File \cup {Absent}]]
           /\ docs \in [Jobs -> Nat] /\ written \in [Jobs -> Nat]
           /\ accepted \in [Jobs -> Nat] /\ arriving \in [Jobs -> Nat]
           /\ nextFile \in [Jobs -> 1 .. NumFiles + 1] /\ creating \in [Jobs -> BOOLEAN]
           /\ CountsOf(j)
BY InProgressAlone DEF TInv, TypeOK, Counting, Writing, Active

(* A file of the segment at hand is created, or filled. *)
LEMMA FileWriting ==
    ASSUME TInv, Writing, NEW j \in Jobs, CreateFile(j) \/ FillFile(j)
    PROVE  Writing'
<1> DEFINE s == written[j]
           e == FileOrder[nextFile[j]]
<1>0. pc[j] \in Flushing /\ pc[j] \in InProgress
  BY DEF CreateFile, FillFile, InProgress
<1>1. /\ AloneWith(j) /\ Owns(j) /\ Segments(j) /\ Current(j) /\ Protocol(j)
      /\ dir \in [SegNos -> [Exts -> File \cup {Absent}]]
      /\ nextFile \in [Jobs -> 1 .. NumFiles + 1] /\ written \in [Jobs -> Nat]
      /\ CountsOf(j)
  BY <1>0, OwnFacts
<1>2. /\ UNCHANGED <<pending, commit, pc, docs, written, arriving, accepted>>
      /\ pc'[j] \in Flushing
  BY <1>0 DEF CreateFile, FillFile, bufVars
<1>3. /\ s \in SegNos /\ s \in Nat /\ nextFile[j] \in 1 .. NumFiles /\ e \in Exts
  <2>1. nextFile[j] <= NumFiles
    BY <1>1 DEF CreateFile, FillFile, CountsOf
  <2>2. nextFile[j] \in 1 .. NumFiles
    BY <1>1, <2>1, Files
  <2>3. written[j] \in SegNos
    BY <1>0, Written
  <2> QED
    BY <1>1, <2>2, <2>3, Files
<1>4. \E f \in File : f.job = j /\ dir' = [dir EXCEPT ![s][e] = f]
  <2>1. \A b \in BOOLEAN : FileOf(j, b) \in File /\ FileOf(j, b).job = j
    BY <1>0, Written DEF FileOf
  <2> QED
    BY <2>1 DEF CreateFile, FillFile
<1>5. PICK f \in File : f.job = j /\ dir' = [dir EXCEPT ![s][e] = f]
  BY <1>4
<1>6. /\ \A t \in SegNos : t # s => dir'[t] = dir[t]
      /\ \A g \in Exts : dir'[s][g] = IF g = e THEN f ELSE dir[s][g]
  BY <1>1, <1>3, <1>5
<1>7. Owns(j)'
  <2> SUFFICES ASSUME NEW t \in SegNos, NEW g \in Exts, dir'[t][g] # Absent
               PROVE  dir'[t][g].job = j
    BY DEF Owns
  <2> QED
    BY <1>1, <1>5, <1>6 DEF Owns
<1>8. Segments(j)'
  <2>1. \A t \in 0 .. written[j] - 1 : t \in SegNos /\ t # s /\ dir'[t] = dir[t]
    BY <1>3, <1>6, ConstantsAssumption DEF SegNos
  <2>2. \A t \in 0 .. written[j] - 1 : t # 0 => t - 1 \in 0 .. written[j] - 1
    BY <1>3
  <2>3. ASSUME NEW t \in 0 .. written[j] - 1 PROVE Flushed(j, t)'
    BY <1>1, <2>1, <2>2 DEF Segments, Flushed
  <2>4. FlushedRows(j)' = FlushedRows(j)
    <3>1. written[j] # 0 => written[j] - 1 \in 0 .. written[j] - 1
      BY <1>3
    <3> QED
      BY <1>2, <2>1, <3>1 DEF FlushedRows
  <2> QED
    BY <1>1, <1>2, <2>3, <2>4 DEF Segments
<1>9. Current(j)'
  <2>1. ASSUME NEW n \in 1 .. nextFile[j] - 1
        PROVE  dir'[s][FileOrder[n]] = FileOf(j, TRUE)
    <3>1. n \in 1 .. NumFiles /\ n # nextFile[j]
      BY <1>3, Files
    <3>2. FileOrder[n] \in Exts /\ FileOrder[n] # e
      BY <1>3, <3>1, Files
    <3>3. dir[s][FileOrder[n]] = FileOf(j, TRUE)
      BY <1>0, <1>1 DEF Current
    <3> QED
      BY <1>6, <3>2, <3>3
  <2>2. CASE CreateFile(j)
    <3>1. nextFile' = nextFile
      BY <2>2 DEF CreateFile
    <3> QED
      BY <1>2, <2>1, <3>1 DEF Current, FileOf
  <2>3. CASE FillFile(j)
    <3>1. nextFile'[j] = nextFile[j] + 1 /\ dir'[s][e] = FileOf(j, TRUE)
      <4>1. nextFile'[j] = nextFile[j] + 1
        BY <1>1, <2>3 DEF FillFile
      <4>2. dir' = [dir EXCEPT ![s][e] = FileOf(j, TRUE)]
        BY <2>3 DEF FillFile
      <4> QED
        BY <1>1, <1>3, <4>1, <4>2
    <3>2. \A n \in 1 .. nextFile[j] : n = nextFile[j] \/ n \in 1 .. nextFile[j] - 1
      BY <1>3, Files
    <3>3. \A n \in 1 .. nextFile[j] : dir'[s][FileOrder[n]] = FileOf(j, TRUE)
      BY <2>1, <3>1, <3>2
    <3>4. nextFile'[j] - 1 = nextFile[j]
      BY <1>3, <3>1, Files
    <3> QED
      BY <1>2, <3>3, <3>4 DEF Current, FileOf
  <2> QED
    BY <2>2, <2>3
<1>10. Protocol(j)' /\ Final'
  <2>1. commit = Absent
    BY <1>0, <1>1 DEF Protocol, InProgress, Flushing
  <2> QED
    BY <1>2, <2>1 DEF Protocol, Final, InProgress, Flushing
<1>11. commit' = Absent
  BY <1>0, <1>1, <1>2 DEF Protocol, InProgress, Flushing
<1> QED
  BY <1>1, <1>2, <1>7, <1>8, <1>9, <1>10, <1>11, OwnStep

(* push and finish, outside flush_segment, touch no file. *)
LEMMA PushWriting ==
    ASSUME TInv, Writing, NEW j \in Jobs,
           Finish(j) \/ \E n \in BatchRows : Append_(j, n) \/ CutSegment(j, n)
    PROVE  Writing'
<1>0. pc[j] = "open" /\ pc[j] \in InProgress
  BY DEF Append_, CutSegment, Finish, InProgress
<1>1. /\ AloneWith(j) /\ Owns(j) /\ Segments(j) /\ Protocol(j)
      /\ pc \in [Jobs -> {"idle"} \cup InProgress \cup Ended]
      /\ docs \in [Jobs -> Nat] /\ accepted \in [Jobs -> Nat]
      /\ nextFile \in [Jobs -> 1 .. NumFiles + 1]
  BY <1>0, OwnFacts
<1> DEFINE Quiet ==
              /\ UNCHANGED <<dir, pending, commit, written>>
              /\ \A k \in Jobs : k # j => pc'[k] = pc[k]
              /\ pc'[j] \in {"open", "flush", "flush_tail", "commit", "failed"}
              /\ accepted'[j] - docs'[j] = accepted[j] - docs[j]
              /\ pc'[j] \in Flushing => nextFile'[j] = 1
<1>2. Quiet
  <2>1. ASSUME NEW n \in BatchRows, Append_(j, n) PROVE Quiet
    BY <1>0, <1>1, <2>1, ConstantsAssumption DEF Append_, dirVars, Flushing
  <2>2. ASSUME NEW n \in BatchRows, CutSegment(j, n) PROVE Quiet
    BY <1>1, <2>2 DEF CutSegment, dirVars
  <2>3. CASE Finish(j)
    BY <1>1, <2>3 DEF Finish, dirVars, bufVars
  <2> QED
    BY <2>1, <2>2, <2>3
<1>3. commit = Absent
  BY <1>0, <1>1 DEF Protocol
<1>4. Owns(j)' /\ Segments(j)'
  BY <1>1, <1>2 DEF Owns, Segments, Flushed, FlushedRows
<1>5. Current(j)'
  <2>1. pc'[j] \in Flushing => nextFile'[j] - 1 = 0
    BY <1>2
  <2> QED
    BY <2>1 DEF Current
<1>6. Protocol(j)' /\ Final'
  BY <1>2, <1>3 DEF Protocol, Final, InProgress, Flushing
<1> QED
  BY <1>1, <1>2, <1>3, <1>4, <1>5, <1>6, OwnStep

(* The end of flush_segment: the segment at hand is complete, and follows
   the ones before it. *)
LEMMA FlushedWriting ==
    ASSUME TInv, Writing, NEW j \in Jobs, ResumePush(j) \/ ResumeFinish(j)
    PROVE  Writing'
<1> DEFINE s == written[j]
           f == FileOf(j, TRUE)
<1>0. pc[j] \in Flushing /\ pc[j] \in InProgress /\ FlushDone(j)
  BY DEF ResumePush, ResumeFinish, InProgress, Flushing
<1>1. /\ AloneWith(j) /\ Owns(j) /\ Segments(j) /\ Current(j) /\ Protocol(j)
      /\ pc \in [Jobs -> {"idle"} \cup InProgress \cup Ended]
      /\ docs \in [Jobs -> Nat] /\ accepted \in [Jobs -> Nat]
      /\ arriving \in [Jobs -> Nat] /\ written \in [Jobs -> Nat]
      /\ nextFile \in [Jobs -> 1 .. NumFiles + 1]
      /\ CountsOf(j)
  BY <1>0, OwnFacts
<1>2. /\ UNCHANGED <<dir, pending, commit>>
      /\ \A k \in Jobs : k # j => pc'[k] = pc[k]
      /\ pc'[j] \in {"open", "commit"}
      /\ written'[j] = s + 1
      /\ accepted'[j] - docs'[j] = accepted[j]
  <2>1. CASE ResumePush(j)
    BY <1>1, <2>1 DEF ResumePush, dirVars
  <2>2. CASE ResumeFinish(j)
    BY <1>1, <2>2 DEF ResumeFinish, dirVars
  <2> QED
    BY <2>1, <2>2
<1>3. commit = Absent
  BY <1>0, <1>1 DEF Protocol, InProgress, Flushing
<1>4. \A e \in Exts : dir[s][e] = f
  <2> SUFFICES ASSUME NEW e \in Exts PROVE dir[s][e] = f
    OBVIOUS
  <2>1. PICK n \in 1 .. NumFiles : FileOrder[n] = e
    BY Files
  <2>2. n \in 1 .. nextFile[j] - 1
    BY <1>0, <1>1, <2>1, Files DEF FlushDone
  <2> QED
    BY <1>0, <1>1, <2>1, <2>2 DEF Current
<1>5. Segments(j)'
  <2>1. docs[j] > 0 /\ s \in Nat
    BY <1>0, <1>1 DEF CountsOf
  <2>2. /\ dir[s]["dvd"] = f /\ f \in File
        /\ f.job = j /\ f.seg = s /\ f.whole /\ f.hi = accepted[j]
        /\ f.lo = accepted[j] - docs[j] /\ f.lo < f.hi
    <3>1. f.job = j /\ f.seg = s /\ f.whole /\ f.hi = accepted[j] /\ f.lo = accepted[j] - docs[j]
      BY DEF FileOf
    <3>2. f \in File
      BY <1>0, Written
    <3>3. dir[s]["dvd"] = f
      BY <1>4, Files
    <3>4. accepted[j] - docs[j] < accepted[j]
      BY <1>1, <2>1
    <3> QED
      BY <3>1, <3>2, <3>3, <3>4
  <2>3. f.lo = IF s = 0 THEN 0 ELSE dir[s - 1]["dvd"].hi
    BY <1>1, <2>2 DEF Segments, FlushedRows
  <2>4. Flushed(j, s)
    <3>1. f # Absent
      BY <2>2, ConstantsAssumption
    <3> QED
      BY <1>4, <2>2, <2>3, <3>1 DEF Flushed
  <2>5. \A t \in 0 .. s : Flushed(j, t)
    <3>1. \A t \in 0 .. s : t = s \/ t \in 0 .. s - 1
      BY <2>1
    <3> QED
      BY <1>1, <2>4, <3>1 DEF Segments
  <2>6. written'[j] # 0 /\ written'[j] - 1 = s
    BY <1>2, <2>1
  <2>7. FlushedRows(j)' = accepted[j]
    BY <1>2, <2>2, <2>6 DEF FlushedRows
  <2> QED
    BY <1>2, <2>5, <2>6, <2>7 DEF Segments, Flushed
<1>6. Owns(j)' /\ Current(j)'
  BY <1>1, <1>2 DEF Owns, Current, Flushing
<1>7. Protocol(j)' /\ Final'
  BY <1>2, <1>3 DEF Protocol, Final
<1> QED
  BY <1>1, <1>2, <1>3, <1>5, <1>6, <1>7, OwnStep

(* commit_segments: pending_segments_1 is this job's own, and complete when
   it is renamed. *)
LEMMA CommitWriting ==
    ASSUME TInv, Writing, Trusted, NEW j \in Jobs,
           CreatePending(j) \/ FillPending(j) \/ RenamePending(j)
    PROVE  Writing'
<1>0. pc[j] \in Committing /\ pc[j] \in InProgress
  BY DEF CreatePending, FillPending, RenamePending, Committing, InProgress
<1>1. /\ AloneWith(j) /\ Owns(j) /\ Segments(j) /\ Protocol(j) /\ CountsOf(j)
      /\ pc \in [Jobs -> {"idle"} \cup InProgress \cup Ended]
  BY <1>0, OwnFacts
<1>2. /\ UNCHANGED <<dir, docs, written, accepted>>
      /\ \A k \in Jobs : k # j => pc'[k] = pc[k]
  BY <1>1 DEF CreatePending, FillPending, RenamePending, bufVars
<1>3. commit = Absent /\ docs[j] = 0
  BY <1>0, <1>1 DEF Protocol, CountsOf, Committing
<1>4. /\ CommitOf(j, TRUE).job = j /\ CommitOf(j, FALSE).job = j
      /\ CommitOf(j, TRUE) # Absent /\ CommitOf(j, FALSE) # Absent
      /\ CommitOf(j, TRUE)' = CommitOf(j, TRUE)
  <2>1. CommitOf(j, TRUE) \in Commit /\ CommitOf(j, FALSE) \in Commit
    BY <1>0, Written
  <2>2. CommitOf(j, TRUE)' = CommitOf(j, TRUE)
    BY <1>2 DEF CommitOf
  <2> QED
    BY <2>1, <2>2, ConstantsAssumption DEF CommitOf
<1>5. Owns(j)' /\ Segments(j)'
  BY <1>1, <1>2 DEF Owns, Segments, Flushed, FlushedRows
<1>6. /\ commit' # Absent => commit'.job = j
      /\ pc'[j] \notin Flushing /\ Protocol(j)' /\ Final'
  <2>1. CASE CreatePending(j)
    <3>1. pc'[j] = "fill" /\ pending' = CommitOf(j, FALSE) /\ commit' = Absent
      BY <1>1, <1>3, <2>1 DEF CreatePending
    <3>2. CommitOf(j, FALSE)' = CommitOf(j, FALSE)
      BY <1>2 DEF CommitOf
    <3> QED
      BY <3>1, <3>2 DEF Protocol, Final, Flushing
  <2>2. CASE FillPending(j)
    <3>1. pc[j] = "fill" /\ pc'[j] = "rename"
      BY <1>1, <2>2 DEF FillPending
    <3>2. pending # Absent
      BY <1>1, <1>4, <3>1 DEF Protocol
    <3>3. pending' = CommitOf(j, TRUE) /\ commit' = Absent
      BY <1>3, <2>2, <3>2 DEF FillPending, Trusted
    <3> QED
      BY <1>4, <3>1, <3>3 DEF Protocol, Final, Flushing
  <2>3. CASE RenamePending(j)
    <3>1. pc[j] = "rename" /\ pending = CommitOf(j, TRUE)
      BY <1>1, <2>3 DEF RenamePending, Protocol
    <3>2. pc'[j] = "reply" /\ commit' = CommitOf(j, TRUE)
      BY <1>1, <1>4, <2>3, <3>1 DEF RenamePending
    <3>3. Committed(j)'
      BY <1>4, <3>2 DEF Committed
    <3>4. Final'
      BY <1>2, <1>3, <1>4, <3>2 DEF Final
    <3> QED
      BY <1>4, <3>2, <3>3, <3>4 DEF Protocol, Flushing
  <2> QED
    BY <2>1, <2>2, <2>3
<1>7. Current(j)'
  BY <1>6 DEF Current
<1> QED
  BY <1>1, <1>2, <1>5, <1>6, <1>7, OwnStep

(* Every step keeps what the writers keep. *)
LEMMA NextWriting == ASSUME TInv, Writing, Trusted, [Next]_vars PROVE Writing'
<1>0. TypeOK /\ pc \in [Jobs -> {"idle"} \cup InProgress \cup Ended]
  BY DEF TInv, TypeOK
<1>1. ASSUME NEW j \in Jobs, JobStep(j) \/ ClientStep(j) PROVE Writing'
  <2>1. CASE CreateFile(j) \/ FillFile(j)
    BY <2>1, FileWriting
  <2>2. CASE ResumePush(j) \/ ResumeFinish(j)
    BY <2>2, FlushedWriting
  <2>3. CASE CreatePending(j) \/ FillPending(j) \/ RenamePending(j)
    BY <2>3, CommitWriting
  <2>4. CASE Reply(j)
    <3>1. UNCHANGED <<dir, pending, commit, docs, written, nextFile, arriving, accepted>>
      BY <2>4 DEF Reply, dirVars, bufVars, ioVars
    <3>2. \A k \in Jobs : pc'[k] = pc[k] \/ (pc'[k] = "done" /\ pc[k] = "reply")
      BY <1>0, <2>4 DEF Reply
    <3> QED
      BY <1>0, <3>1, <3>2, EndingStep
  <2>5. ASSUME NEW n \in BatchRows, Start(j, n) PROVE Writing'
    BY <2>5, StartWriting
  <2>6. CASE Finish(j) \/ \E n \in BatchRows : Append_(j, n) \/ CutSegment(j, n)
    BY <2>6, PushWriting
  <2>7. CASE Reject(j)
    <3>1. UNCHANGED <<dir, pending, commit, docs, written, nextFile, arriving, accepted>>
      BY <2>7 DEF Reject, dirVars, bufVars, ioVars
    <3>2. \A k \in Jobs : pc'[k] = pc[k] \/ (pc'[k] = "rejected" /\ pc[k] = "idle")
      BY <1>0, <2>7 DEF Reject
    <3> QED
      BY <1>0, <3>1, <3>2, EndingStep
  <2> QED
    BY <1>1, <2>1, <2>2, <2>3, <2>4, <2>5, <2>6, <2>7 DEF JobStep, ClientStep
<1>2. CASE Crash \/ \E j \in Jobs : StreamFails(j) \/ IoFails(j)
  <2>1. UNCHANGED <<dir, pending, commit, docs, written, nextFile, arriving, accepted>>
    BY <1>2 DEF Crash, StreamFails, IoFails, dirVars, bufVars, ioVars
  <2>2. \A k \in Jobs : pc'[k] = pc[k] \/ (pc'[k] = "failed" /\ pc[k] \in InProgress)
    <3>1. CASE Crash
      <4>1. pc' = [k \in Jobs |-> IF pc[k] \in InProgress THEN "failed" ELSE pc[k]]
        BY <3>1 DEF Crash
      <4> QED
        BY <4>1
    <3>2. ASSUME NEW j \in Jobs, StreamFails(j) \/ IoFails(j)
          PROVE  \A k \in Jobs : pc'[k] = pc[k] \/ (pc'[k] = "failed" /\ pc[k] \in InProgress)
      <4>1. pc[j] \in InProgress /\ pc' = [pc EXCEPT ![j] = "failed"]
        BY <3>2 DEF StreamFails, IoFails, InProgress
      <4> QED
        BY <1>0, <4>1
    <3> QED
      BY <1>2, <3>1, <3>2
  <2> QED
    BY <1>0, <2>1, <2>2, EndingStep
<1>3. CASE UNCHANGED vars \/ \E r \in Readers : ReaderStep(r)
  <2>1. UNCHANGED <<dir, pending, commit, pc, docs, written, nextFile, arriving, accepted>>
    BY <1>3, ReaderLeaves DEF vars
  <2> QED
    BY <1>0, <2>1, EndingStep
<1> QED
  BY <1>1, <1>2, <1>3 DEF Next

-----------------------------------------------------------------------------
(* What a commit is worth.                                                 *)

(* All the segments of a commit are there. *)
LEMMA CommitFlushed ==
    ASSUME TInv, Writing, commit # Absent
    PROVE  /\ commit.job \in Jobs /\ commit.whole /\ commit.segs \in 1 .. MaxRows
           /\ commit.segs = written[commit.job]
           /\ commit.segs \in Nat /\ commit.segs > 0
           /\ \A s \in 0 .. commit.segs - 1 : s \in SegNos /\ Flushed(commit.job, s)
           /\ Segments(commit.job) /\ docs[commit.job] = 0
<1>1. commit \in Commit /\ commit.job \in Jobs
  BY DEF TInv, TypeOK, Commit
<1>2. commit.segs \in 1 .. MaxRows /\ MaxRows \in Nat
  BY ConstantsAssumption DEF TInv, Bounds, InBounds
<1>3. commit = CommitOf(commit.job, TRUE) /\ docs[commit.job] = 0
  BY DEF Writing, Final
<1>4. commit.whole /\ commit.segs = written[commit.job]
  BY <1>3 DEF CommitOf
<1>5. Segments(commit.job)
  BY <1>1 DEF Writing, Active, Committed
<1> QED
  BY <1>1, <1>2, <1>3, <1>4, <1>5 DEF Segments, SegNos

(* Each of them passes what the readers check. *)
LEMMA SegmentReadable ==
    ASSUME TInv, Writing, commit # Absent, NEW s \in 0 .. commit.segs - 1
    PROVE  /\ \A e \in Exts : HasId(dir[s][e], commit, s)
           /\ Plannable(s) /\ dir[s]["dvd"] = dir[s]["dvm"]
<1>1. Flushed(commit.job, s)
  BY CommitFlushed
<1> QED
  BY <1>1, Files DEF Flushed, HasId, Plannable

(* Together they hold the rows the job accepted. *)
LEMMA CommitCovers ==
    ASSUME TInv, Writing, commit # Absent
    PROVE  Covers([n \in 1 .. commit.segs |-> dir[n - 1]["dvd"]], commit.job)
<1> DEFINE segs == [n \in 1 .. commit.segs |-> dir[n - 1]["dvd"]]
           j == commit.job
<1>1. /\ j \in Jobs /\ commit.segs \in Nat /\ commit.segs > 0
      /\ commit.segs = written[j] /\ Segments(j) /\ docs[j] = 0
      /\ \A s \in 0 .. commit.segs - 1 : Flushed(j, s)
  BY CommitFlushed
<1>2. /\ Len(segs) = commit.segs
      /\ \A n \in 1 .. commit.segs : segs[n] = dir[n - 1]["dvd"] /\ n - 1 \in 0 .. commit.segs - 1
  BY <1>1
<1> HIDE DEF segs
<1>3. \A n \in 1 .. Len(segs) : segs[n].job = j /\ segs[n].lo < segs[n].hi
  BY <1>1, <1>2 DEF Flushed
<1>4. \A n \in 1 .. Len(segs) - 1 : segs[n].hi = segs[n + 1].lo
  <2> SUFFICES ASSUME NEW n \in 1 .. commit.segs - 1 PROVE segs[n].hi = segs[n + 1].lo
    BY <1>2
  <2>1. n \in 1 .. commit.segs /\ n + 1 \in 1 .. commit.segs /\ n # 0 /\ n \in 0 .. commit.segs - 1
    BY <1>1
  <2>2. segs[n] = dir[n - 1]["dvd"] /\ segs[n + 1] = dir[n]["dvd"]
    BY <1>2, <2>1
  <2>3. Flushed(j, n)
    BY <1>1, <2>1
  <2> QED
    BY <2>1, <2>2, <2>3 DEF Flushed
<1>5. segs[1].lo = 0
  <2>1. segs[1] = dir[0]["dvd"] /\ Flushed(j, 0)
    BY <1>1, <1>2
  <2> QED
    BY <2>1 DEF Flushed
<1>6. segs[Len(segs)].hi = accepted[j]
  <2>1. segs[Len(segs)] = dir[written[j] - 1]["dvd"] /\ written[j] # 0
    BY <1>1, <1>2
  <2>2. accepted[j] - docs[j] = accepted[j]
    BY <1>1 DEF TInv, TypeOK
  <2> QED
    BY <1>1, <2>1, <2>2 DEF Segments, FlushedRows
<1> QED
  BY <1>1, <1>2, <1>3, <1>4, <1>5, <1>6 DEF Covers, segs

(* Once there is a commit, no step touches the directory, or the commit's job
   but for its answer. *)
LEMMA Frozen ==
    ASSUME TInv, Writing, Trusted, [Next]_vars, commit # Absent
    PROVE  UNCHANGED <<dir, pending, commit>>
<1>1. ASSUME NEW j \in Jobs PROVE pc[j] \notin Flushing \cup Committing
  BY DEF Writing, Protocol, InProgress, Flushing, Committing
<1>2. ASSUME NEW j \in Jobs, JobStep(j) \/ ClientStep(j) \/ StreamFails(j) \/ IoFails(j)
      PROVE  UNCHANGED <<dir, pending, commit>>
  <2>1. ~CreateFile(j) /\ ~FillFile(j) /\ ~CreatePending(j) /\ ~FillPending(j)
        /\ ~RenamePending(j)
    BY <1>1 DEF CreateFile, FillFile, CreatePending, FillPending, RenamePending, Committing
  <2> QED
    BY <1>2, <2>1 DEF JobStep, ClientStep, StreamFails, IoFails, ResumePush, ResumeFinish,
       Reply, Start, Append_, CutSegment, Reject, Finish, dirVars
<1> QED
  BY <1>2, ReaderLeaves DEF Next, Crash, vars, dirVars

-----------------------------------------------------------------------------
(* The readers, in a trusted environment.                                  *)

(* Initially nobody reads. *)
LEMMA InitFollowing == Init => Following
<1> SUFFICES ASSUME Init, NEW r \in Readers
             PROVE  rpc[r] = "idle" /\ got[r] = <<>>
  BY DEF Following, FollowedBy, Reading
<1> QED
  BY DEF Init

(* Nor is anybody at a schema. *)
LEMMA InitTyping == Init => Typing
<1> SUFFICES ASSUME Init, NEW r \in Readers PROVE rpc[r] = "idle"
  BY DEF Typing, TypedBy
<1> QED
  BY DEF Init

(* Without a commit nobody reads; with one nothing changes under a reader. *)
LEMMA FollowingKept ==
    ASSUME TInv, Writing, Following, Trusted, [Next]_vars, UNCHANGED readerVars
    PROVE  Following' /\ (Typing => Typing')
<1> SUFFICES ASSUME NEW r \in Readers
             PROVE  FollowedBy(r)' /\ (TypedBy(r) => TypedBy(r)')
  BY DEF Following, Typing
<1>1. FollowedBy(r)
  BY DEF Following
<1>2. CASE commit = Absent
  <2>1. rpc[r] \notin {"si", "fnm", "plan", "decode", "ok", "error"}
    BY <1>1, <1>2 DEF FollowedBy, Reading
  <2> QED
    BY <1>1, <2>1 DEF FollowedBy, TypedBy, readerVars, Reading
<1>3. CASE commit # Absent
  <2>1. UNCHANGED <<dir, commit>>
    BY <1>3, Frozen
  <2> QED
    BY <1>1, <2>1 DEF FollowedBy, TypedBy, Agreed, SameTypes, TypesOf, readerVars
<1> QED
  BY <1>2, <1>3

(* A crash drops the readers that were at work. *)
LEMMA FollowingCrash ==
    ASSUME TInv, Writing, Following, Typing, Crash
    PROVE  Following' /\ Typing'
<1> SUFFICES ASSUME NEW r \in Readers PROVE FollowedBy(r)' /\ TypedBy(r)'
  BY DEF Following, Typing
<1>1. FollowedBy(r) /\ TypedBy(r) /\ UNCHANGED <<dir, commit, seen, at, schema, got>>
  BY DEF Following, Typing, Crash, dirVars
<1>2. rpc'[r] = IF rpc[r] \in Reading THEN "lost" ELSE rpc[r]
  BY DEF Crash
<1>3. CASE rpc[r] \in Reading
  BY <1>1, <1>2, <1>3 DEF FollowedBy, TypedBy, Reading
<1>4. CASE rpc[r] \notin Reading
  BY <1>1, <1>2, <1>4 DEF FollowedBy, TypedBy, Agreed, SameTypes, TypesOf
<1> QED
  BY <1>3, <1>4

(* A reader that has decoded nothing yet. *)
LEMMA FollowsFresh ==
    ASSUME NEW r \in Readers, rpc'[r] \in {"no_commit", "si", "fnm", "plan"}, got'[r] = <<>>,
           rpc'[r] # "no_commit" => seen'[r] = commit' /\ commit' # Absent
    PROVE  FollowedBy(r)'
<1>1. rpc'[r] \notin {"error", "ok", "decode", "idle"}
  OBVIOUS
<1>2. rpc'[r] \in Reading \cup {"ok", "error"} => rpc'[r] # "no_commit"
  BY DEF Reading
<1> QED
  BY <1>1, <1>2 DEF FollowedBy

(* A reader that decodes, or is done. *)
LEMMA FollowsDecoding ==
    ASSUME NEW r \in Readers, seen'[r] = commit', commit' # Absent,
           \/ rpc'[r] = "decode" /\ Len(got'[r]) = at'[r]
           \/ rpc'[r] = "ok" /\ Len(got'[r]) = commit'.segs,
           \A n \in 1 .. Len(got'[r]) : got'[r][n] = dir'[n - 1]["dvd"]
    PROVE  FollowedBy(r)'
<1>1. rpc'[r] \notin {"error", "idle", "si", "fnm", "plan"}
  OBVIOUS
<1> QED
  BY <1>1 DEF FollowedBy

(* A reader that has failed. *)
LEMMA FollowsFailed ==
    ASSUME NEW r \in Readers, rpc'[r] = "error", seen'[r] = commit', commit' # Absent
    PROVE  FollowedBy(r)'
<1>1. rpc'[r] \notin {"ok", "idle", "si", "fnm", "plan", "decode"}
  OBVIOUS
<1> QED
  BY <1>1 DEF FollowedBy

(* A reader at work is at a segment of the commit, whose files are as they
   should be. *)
LEMMA ReaderFinds ==
    ASSUME TInv, Writing, Following, NEW r \in Readers, rpc[r] \in Reading
    PROVE  /\ seen[r] = commit /\ commit # Absent
           /\ at[r] \in 0 .. commit.segs - 1 /\ at[r] \in Nat
           /\ commit.segs \in Nat
           /\ \A e \in Exts : HasId(dir[at[r]][e], commit, at[r])
           /\ Plannable(at[r]) /\ dir[at[r]]["dvd"] = dir[at[r]]["dvm"]
<1>1. seen[r] = commit /\ commit # Absent
  BY DEF Following, FollowedBy
<1>2. at[r] < commit.segs /\ commit.segs \in Nat /\ at[r] \in Nat
  BY <1>1, CommitFlushed DEF TInv, TypeOK, Bounds
<1>3. at[r] \in 0 .. commit.segs - 1
  BY <1>2
<1> QED
  BY <1>1, <1>2, <1>3, SegmentReadable

(* A reader's own step: whatever it checks is as it should be. *)
LEMMA FollowingRead ==
    ASSUME TInv, Writing, Following, NEW r \in Readers, ReaderStep(r)
    PROVE  Following'
<1>1. UNCHANGED <<dir, commit>>
  BY ReaderLeaves
<1>2. /\ rpc \in [Readers -> {"idle"} \cup Reading \cup {"ok", "no_commit", "error", "lost"}]
      /\ seen \in [Readers -> Commit \cup {Absent}] /\ at \in [Readers -> Nat]
      /\ got \in [Readers -> Seq(File)]
  BY DEF TInv, TypeOK
<1>3. ASSUME NEW q \in Readers, q # r PROVE FollowedBy(q)'
  <2>1. /\ seen'[q] = seen[q] /\ rpc'[q] = rpc[q] /\ at'[q] = at[q] /\ got'[q] = got[q]
    BY <1>2, <1>3 DEF ReaderStep, OpenCommit, ReadSi, ReadFnm, Plan, Decode, Advance, ReadFails
  <2>2. FollowedBy(q)
    BY DEF Following
  <2> QED
    BY <1>1, <2>1, <2>2 DEF FollowedBy
<1>4. FollowedBy(r)
  BY DEF Following
<1>5. ASSUME rpc[r] \in Reading
      PROVE  /\ seen[r] = commit /\ commit # Absent
             /\ at[r] \in 0 .. commit.segs - 1 /\ at[r] \in Nat
             /\ commit.segs \in Nat
             /\ \A e \in Exts : HasId(dir[at[r]][e], commit, at[r])
             /\ Plannable(at[r]) /\ dir[at[r]]["dvd"] = dir[at[r]]["dvm"]
  BY <1>5, ReaderFinds
<1>6. ASSUME OpenCommit(r) PROVE FollowedBy(r)'
  <2>1. commit # Absent => commit.whole
    BY CommitFlushed
  <2>2. /\ rpc'[r] \in {"no_commit", "si"} /\ seen'[r] = commit
        /\ rpc'[r] = "si" => commit # Absent
        /\ got'[r] = got[r] /\ rpc[r] = "idle"
    BY <1>2, <1>6, <2>1 DEF OpenCommit
  <2>3. got[r] = <<>>
    BY <1>4, <2>2 DEF FollowedBy
  <2> QED
    BY <1>1, <2>2, <2>3, FollowsFresh
<1>7. ASSUME ReadSi(r) PROVE FollowedBy(r)'
  <2>1. rpc'[r] = "fnm"
    BY <1>2, <1>5, <1>7, Files DEF ReadSi, Reading
  <2>2. UNCHANGED <<seen, at, got>> /\ rpc[r] = "si"
    BY <1>7 DEF ReadSi
  <2>3. got[r] = <<>> /\ seen[r] = commit /\ commit # Absent
    BY <1>4, <1>5, <2>2 DEF FollowedBy, Reading
  <2> QED
    BY <1>1, <2>1, <2>2, <2>3, FollowsFresh
<1>8. ASSUME ReadFnm(r) PROVE FollowedBy(r)'
  <2>1. rpc[r] = "fnm" /\ UNCHANGED <<seen, got>> /\ Advance(r, "si", "plan")
    BY <1>5, <1>8, Files DEF ReadFnm, Reading
  <2>2. rpc'[r] \in {"si", "plan"}
    BY <1>2, <2>1 DEF Advance
  <2>3. got[r] = <<>> /\ seen[r] = commit /\ commit # Absent
    BY <1>4, <1>5, <2>1 DEF FollowedBy, Reading
  <2> QED
    BY <1>1, <2>1, <2>2, <2>3, FollowsFresh
<1>9. ASSUME Plan(r) PROVE FollowedBy(r)'
  <2>1. /\ rpc[r] = "plan" /\ UNCHANGED <<seen, got>>
        /\ Advance(r, "plan", "decode") \/ ReadFails(r)
    BY <1>9 DEF Plan, ReadFails
  <2>2. rpc'[r] \in {"plan", "error"} \/ (rpc'[r] = "decode" /\ at'[r] = 0)
    BY <1>2, <2>1 DEF Advance, ReadFails
  <2>3. got[r] = <<>> /\ seen[r] = commit /\ commit # Absent
    BY <1>4, <1>5, <2>1 DEF FollowedBy, Reading
  <2>4. CASE rpc'[r] = "plan"
    BY <1>1, <2>1, <2>3, <2>4, FollowsFresh
  <2>5. CASE rpc'[r] = "decode" /\ at'[r] = 0
    <3>1. got'[r] = <<>> /\ Len(got'[r]) = 0
      BY <2>1, <2>3
    <3>2. \A n \in 1 .. Len(got'[r]) : FALSE
      BY <3>1
    <3> QED
      BY <1>1, <2>1, <2>3, <2>5, <3>1, <3>2, FollowsDecoding
  <2>6. CASE rpc'[r] = "error"
    BY <1>1, <2>1, <2>3, <2>6, FollowsFailed
  <2> QED
    BY <2>2, <2>4, <2>5, <2>6
<1>10. ASSUME Decode(r), ~ReadFails(r) PROVE FollowedBy(r)'
  <2>1. rpc[r] = "decode"
    BY <1>10 DEF Decode
  <2>2. /\ at[r] \in Nat /\ commit.segs \in Nat /\ at[r] < commit.segs
        /\ seen[r] = commit /\ commit # Absent /\ Plannable(at[r])
        /\ dir[at[r]]["dvd"] = dir[at[r]]["dvm"]
    BY <1>5, <2>1 DEF Reading
  <2>3. /\ seen' = seen /\ Advance(r, "decode", "ok")
        /\ got' = [got EXCEPT ![r] = Append(@, dir[at[r]]["dvd"])]
    BY <1>10, <2>2 DEF Decode
  <2>4. Len(got[r]) = at[r] /\ \A n \in 1 .. Len(got[r]) : got[r][n] = dir[n - 1]["dvd"]
    BY <1>4, <2>1 DEF FollowedBy
  <2>5. /\ Len(got'[r]) = at[r] + 1
        /\ \A n \in 1 .. at[r] + 1 : got'[r][n] = dir[n - 1]["dvd"]
    <3>1. at[r] \in SegNos
      <4>1. MaxRows \in Nat /\ commit.segs <= MaxRows
        BY <2>2, CommitFlushed, ConstantsAssumption
      <4> QED
        BY <2>2, <4>1 DEF SegNos
    <3>2. dir[at[r]]["dvd"] \in File
      BY <2>2, <3>1, Files DEF Plannable, TInv, TypeOK
    <3>3. /\ got'[r] = Append(got[r], dir[at[r]]["dvd"])
          /\ got[r] \in Seq(File)
      BY <1>2, <2>3
    <3>4. /\ Len(got'[r]) = Len(got[r]) + 1
          /\ \A n \in 1 .. Len(got[r]) : got'[r][n] = got[r][n]
          /\ got'[r][Len(got[r]) + 1] = dir[at[r]]["dvd"]
      BY <3>2, <3>3
    <3>5. (at[r] + 1) - 1 = at[r] /\ \A n \in 1 .. at[r] + 1 : n = at[r] + 1 \/ n \in 1 .. at[r]
      BY <2>2
    <3> QED
      BY <2>4, <3>4, <3>5
  <2>6. \/ rpc'[r] = "decode" /\ at'[r] = at[r] + 1
        \/ rpc'[r] = "ok" /\ at[r] + 1 = commit.segs
    <3>1. CASE at[r] + 1 < commit.segs
      BY <1>2, <2>2, <2>3, <3>1 DEF Advance
    <3>2. CASE ~(at[r] + 1 < commit.segs)
      BY <1>2, <2>2, <2>3, <3>2 DEF Advance
    <3> QED
      BY <3>1, <3>2
  <2> QED
    BY <1>1, <2>2, <2>3, <2>5, <2>6, FollowsDecoding
<1>11. ASSUME Decode(r), ReadFails(r) PROVE FollowedBy(r)'
  <2>1. rpc[r] = "decode" /\ seen' = seen /\ rpc'[r] = "error"
    BY <1>2, <1>11 DEF Decode, ReadFails
  <2>2. seen[r] = commit /\ commit # Absent
    BY <1>5, <2>1 DEF Reading
  <2> QED
    BY <1>1, <2>1, <2>2, FollowsFailed
<1> QED
  BY <1>3, <1>6, <1>7, <1>8, <1>9, <1>10, <1>11 DEF ReaderStep, Following

(* Segments that agree with one schema agree with each other. *)
LEMMA AgreedIsSame ==
    ASSUME NEW types, Agreed(commit.segs, types) PROVE SameTypes(commit)
BY DEF Agreed, SameTypes

(* A reader's own step and the types: the first segment decides the schema,
   every other one agrees with it or ends the read. *)
LEMMA TypingRead ==
    ASSUME TInv, Writing, Following, Typing, NEW r \in Readers, ReaderStep(r)
    PROVE  Typing'
<1>1. UNCHANGED <<dir, commit>>
  BY ReaderLeaves
<1>2. /\ rpc \in [Readers -> {"idle"} \cup Reading \cup {"ok", "no_commit", "error", "lost"}]
      /\ at \in [Readers -> Nat] /\ schema \in [Readers -> SUBSET Lists]
  BY DEF TInv, TypeOK
<1>3. ASSUME NEW n, NEW types PROVE Agreed(n, types)' = Agreed(n, types)
  BY <1>1 DEF Agreed, TypesOf
<1>4. SameTypes(commit)' = SameTypes(commit)
  BY <1>1 DEF SameTypes, TypesOf
<1>5. ASSUME NEW q \in Readers, q # r PROVE TypedBy(q)'
  <2>1. /\ rpc'[q] = rpc[q] /\ at'[q] = at[q] /\ schema'[q] = schema[q]
    BY <1>2, <1>5 DEF ReaderStep, OpenCommit, ReadSi, ReadFnm, Plan, Decode, Advance, ReadFails
  <2>2. TypedBy(q)
    BY DEF Typing
  <2> QED
    BY <1>1, <2>1, <2>2 DEF TypedBy, Agreed, SameTypes, TypesOf
<1>6. TypedBy(r)
  BY DEF Typing
<1>7. ASSUME OpenCommit(r) \/ ReadSi(r) PROVE TypedBy(r)'
  <2>1. rpc'[r] \in {"no_commit", "si", "fnm"}
    <3>1. CASE OpenCommit(r)
      <4>1. commit # Absent => commit.whole
        BY CommitFlushed
      <4> QED
        BY <1>2, <3>1, <4>1 DEF OpenCommit
    <3>2. CASE ReadSi(r)
      BY <1>2, <3>2, ReaderFinds, Files DEF ReadSi, Reading
    <3> QED
      BY <1>7, <3>1, <3>2
  <2> QED
    BY <2>1 DEF TypedBy
<1>8. ASSUME ReadFnm(r) PROVE TypedBy(r)'
  <2>1. Advance(r, "si", "plan")
    BY <1>8, ReaderFinds, Files DEF ReadFnm, Reading
  <2>2. rpc'[r] = "si" \/ (rpc'[r] = "plan" /\ at'[r] = 0)
    <3>1. CASE at[r] + 1 < seen[r].segs
      BY <1>2, <2>1, <3>1 DEF Advance
    <3>2. CASE ~(at[r] + 1 < seen[r].segs)
      BY <1>2, <2>1, <3>2 DEF Advance
    <3> QED
      BY <3>1, <3>2
  <2>3. ASSUME NEW types PROVE Agreed(0, types)'
    BY DEF Agreed
  <2> QED
    BY <2>2, <2>3 DEF TypedBy, Agreed
<1>9. ASSUME Plan(r) PROVE TypedBy(r)'
  <2> DEFINE types == TypesOf(dir[at[r]]["dvm"])
  <2>1. /\ rpc[r] = "plan" /\ seen[r] = commit /\ Plannable(at[r])
        /\ at[r] \in 0 .. commit.segs - 1 /\ at[r] \in Nat /\ commit.segs \in Nat
        /\ Agreed(at[r], schema[r])
    BY <1>6, <1>9, ReaderFinds DEF Plan, Reading, TypedBy
  <2>2. CASE at[r] = 0 \/ types = schema[r]
    <3>1. Advance(r, "plan", "decode") /\ schema'[r] = types
      BY <1>2, <1>9, <2>1, <2>2 DEF Plan
    <3> HIDE DEF types
    <3>2. Agreed(at[r] + 1, types)
      <4> SUFFICES ASSUME NEW s \in 0 .. at[r] PROVE TypesOf(dir[s]["dvm"]) = types
        BY <2>1 DEF Agreed
      <4>1. CASE s = at[r]
        BY <4>1 DEF types
      <4>2. CASE s # at[r]
        <5>1. s \in 0 .. at[r] - 1 /\ at[r] # 0
          BY <2>1, <4>2
        <5> QED
          BY <2>1, <2>2, <5>1 DEF Agreed
      <4> QED
        BY <4>1, <4>2
    <3>3. \/ rpc'[r] = "plan" /\ at'[r] = at[r] + 1
          \/ rpc'[r] = "decode" /\ at[r] + 1 = commit.segs
      <4>1. CASE at[r] + 1 < commit.segs
        BY <1>2, <2>1, <3>1, <4>1 DEF Advance
      <4>2. CASE ~(at[r] + 1 < commit.segs)
        <5>1. at[r] + 1 = commit.segs
          BY <2>1, <4>2
        <5> QED
          BY <1>2, <2>1, <3>1, <4>2, <5>1 DEF Advance
      <4> QED
        BY <4>1, <4>2
    <3> QED
      BY <1>1, <3>1, <3>2, <3>3 DEF TypedBy, Agreed, TypesOf
  <2>3. CASE ~(at[r] = 0 \/ types = schema[r])
    <3>1. rpc'[r] = "error"
      BY <1>2, <1>9, <2>3 DEF Plan, ReadFails
    <3>2. 0 \in 0 .. at[r] - 1 /\ 0 \in 0 .. commit.segs - 1
      BY <2>1, <2>3
    <3>3. TypesOf(dir[0]["dvm"]) = schema[r]
      BY <2>1, <3>2 DEF Agreed
    <3>4. ~SameTypes(commit)
      BY <2>1, <2>3, <3>2, <3>3 DEF SameTypes
    <3> QED
      BY <1>4, <3>1, <3>4 DEF TypedBy
  <2> QED
    BY <2>2, <2>3
<1>10. ASSUME Decode(r) PROVE TypedBy(r)'
  <2>1. /\ rpc[r] = "decode" /\ Plannable(at[r]) /\ at[r] \in 0 .. commit.segs - 1
        /\ dir[at[r]]["dvd"] = dir[at[r]]["dvm"] /\ Agreed(commit.segs, schema[r])
    BY <1>6, <1>10, ReaderFinds DEF Decode, Reading, TypedBy
  <2>2. TypesOf(dir[at[r]]["dvm"]) = schema[r]
    BY <2>1 DEF Agreed
  <2>3. Advance(r, "decode", "ok") /\ schema' = schema
    BY <1>10, <2>1, <2>2 DEF Decode
  <2>4. rpc'[r] \in {"decode", "ok"}
    BY <1>2, <2>3 DEF Advance
  <2>5. SameTypes(commit)
    BY <2>1, AgreedIsSame
  <2> QED
    BY <1>1, <1>4, <2>1, <2>3, <2>4, <2>5 DEF TypedBy, Agreed, TypesOf
<1> QED
  BY <1>5, <1>7, <1>8, <1>9, <1>10 DEF ReaderStep, Typing

-----------------------------------------------------------------------------
(* The theorems.                                                           *)

(* The initial state satisfies the invariant. *)
LEMMA InitIInv == Init => IInv
BY InitTInv, InitWriting, InitFollowing, InitTyping DEF IInv

(* A step of a trusted environment keeps the invariant. *)
LEMMA NextIInv == ASSUME IInv, Trusted, [Next]_vars PROVE IInv'
<1>1. TInv' /\ Writing'
  BY NextTInv, NextWriting DEF IInv
<1>2. Following' /\ Typing'
  <2>1. CASE \E r \in Readers : ReaderStep(r)
    BY <2>1, FollowingRead, TypingRead DEF IInv
  <2>2. CASE Crash
    BY <2>2, FollowingCrash DEF IInv
  <2>3. CASE UNCHANGED readerVars
    BY <2>3, FollowingKept DEF IInv
  <2> QED
    BY <2>1, <2>2, <2>3, JobLeaves DEF Next, vars, readerVars
<1> QED
  BY <1>1, <1>2 DEF IInv

(* The invariant holds throughout, with one writer at a time. *)
THEOREM Invariant == ASSUME Trusted PROVE Spec => []IInv
<1>1. IInv /\ [Next]_vars => IInv'
  BY NextIInv
<1> QED
  BY <1>1, InitIInv, PTL DEF Spec

(* segments_1 never names a file that is missing, torn or another job's: the
   order of flush_segment, commit_segments and the rename is enough, wherever
   a call fails or the server dies. *)
THEOREM CommitsAreReadable == ASSUME Trusted PROVE Spec => []CommitReadable
<1>1. IInv => CommitReadable
  BY CommitFlushed, SegmentReadable DEF IInv, CommitReadable
<1> QED
  BY <1>1, Invariant, PTL

(* "Write jobs never append": the directory never holds files of two jobs. *)
THEOREM JobsNeverAppend == ASSUME Trusted PROVE Spec => []NeverAppends
<1>1. IInv => NeverAppends
  BY DEF IInv, Writing
<1> QED
  BY <1>1, Invariant, PTL

(* A DoPut that is answered has put all of its rows, each of them once. *)
THEOREM AcksAreCommitted == ASSUME Trusted PROVE Spec => []AckedIsCommitted
<1>1. ASSUME IInv, NEW j \in Jobs, pc[j] = "done"
      PROVE  /\ commit # Absent /\ commit.job = j /\ commit.segs = written[j]
             /\ Covers([i \in 1 .. commit.segs |-> dir[i - 1]["dvd"]], j)
  <2>1. commit # Absent /\ commit.job = j
    BY <1>1 DEF IInv, Writing, Protocol, Committed
  <2> QED
    BY <1>1, <2>1, CommitFlushed, CommitCovers DEF IInv
<1>2. IInv => AckedIsCommitted
  BY <1>1 DEF AckedIsCommitted
<1> QED
  BY <1>2, Invariant, PTL

(* A DoGet that finds a commit fails if and only if two of its segments
   disagree on the type of a list column: never for a file that is missing,
   torn or another segment's. *)
THEOREM ReadsFailOnTypes == ASSUME Trusted PROVE Spec => []FailsOnlyOnTypes
<1>1. IInv => FailsOnlyOnTypes
  BY DEF IInv, Following, FollowedBy, Typing, TypedBy, FailsOnlyOnTypes, Reading
<1> QED
  BY <1>1, Invariant, PTL

(* A DoGet that succeeds has read every row of one job once, in order. *)
THEOREM ReadersSeeOneJob == ASSUME Trusted PROVE Spec => []ReaderSeesOneJob
<1>1. ASSUME IInv, NEW r \in Readers, rpc[r] = "ok" PROVE Covers(got[r], seen[r].job)
  <2>1. /\ seen[r] = commit /\ commit # Absent /\ Len(got[r]) = commit.segs
        /\ \A n \in 1 .. Len(got[r]) : got[r][n] = dir[n - 1]["dvd"]
    BY <1>1 DEF IInv, Following, FollowedBy
  <2>2. got[r] \in Seq(File)
    BY <1>1 DEF IInv, TInv, TypeOK
  <2>3. got[r] = [n \in 1 .. Len(got[r]) |-> got[r][n]]
    BY <2>2, LenProperties
  <2>4. got[r] = [n \in 1 .. commit.segs |-> dir[n - 1]["dvd"]]
    BY <2>1, <2>3
  <2> QED
    BY <1>1, <2>1, <2>4, CommitCovers DEF IInv
<1>2. IInv => ReaderSeesOneJob
  BY <1>1 DEF ReaderSeesOneJob
<1> QED
  BY <1>2, Invariant, PTL

(* After the commit the directory is frozen: no step of any job, no failure
   and no crash changes it. *)
THEOREM CommitFreezes == ASSUME Trusted PROVE Spec => FrozenAfterCommit
<1>1. IInv /\ [Next]_vars => [commit # Absent => UNCHANGED dirVars]_vars
  BY Frozen DEF IInv, dirVars
<1> QED
  BY <1>1, Invariant, PTL DEF Spec, FrozenAfterCommit

-----------------------------------------------------------------------------
(* The refinement.                                                         *)

(* What the clients have sent when a push or finish begins or goes on. *)
SentBy(j) ==
    /\ pc[j] = "idle" => accepted[j] = 0
    /\ pc[j] = "flush" => arriving[j] \in BatchRows
Sending == \A j \in Jobs : SentBy(j)

RInv == IInv /\ Sending

-----------------------------------------------------------------------------
(* The shard on disk.                                                      *)

(* Without a commit there is none, whatever files there are. *)
LEMMA NothingOnDisk ==
    ASSUME commit = Absent PROVE OnDisk = [job |-> Absent, rows |-> 0]
BY DEF OnDisk

(* With a commit it holds the rows the committing job accepted. *)
LEMMA CommitOnDisk ==
    ASSUME TInv, Writing, commit # Absent
    PROVE  /\ OnDisk = ContentOf([n \in 1 .. commit.segs |-> dir[n - 1]["dvd"]], commit.job)
           /\ OnDisk = [job |-> commit.job, rows |-> accepted[commit.job]]
<1> DEFINE segs == [n \in 1 .. commit.segs |-> dir[n - 1]["dvd"]]
<1>1. OnDisk = ContentOf(segs, commit.job)
  BY SegmentReadable DEF OnDisk
<1>2. Covers(segs, commit.job)
  BY CommitCovers
<1>3. ASSUME NEW n \in 1 .. Len(segs) PROVE segs[n] # Absent /\ segs[n].whole
  <2>1. commit.segs \in Nat
    BY CommitFlushed
  <2>2. n \in 1 .. commit.segs /\ n - 1 \in 0 .. commit.segs - 1 /\ segs[n] = dir[n - 1]["dvd"]
    BY <2>1
  <2> QED
    BY <2>2, CommitFlushed DEF Flushed
<1> HIDE DEF segs
<1>4. ContentOf(segs, commit.job) = [job |-> commit.job, rows |-> accepted[commit.job]]
  BY <1>2, <1>3 DEF Covers, ContentOf
<1> QED
  BY <1>1, <1>4 DEF segs

(* So it does after a step that leads to such a state. *)
LEMMA CommitOnDiskNext ==
    (TInv /\ Writing /\ commit # Absent
        => OnDisk = [job |-> commit.job, rows |-> accepted[commit.job]])'
<1>1. TInv /\ Writing /\ commit # Absent
        => OnDisk = [job |-> commit.job, rows |-> accepted[commit.job]]
  BY CommitOnDisk
<1> QED
  BY <1>1, PTL

(* Steps that leave the commit alone leave the shard alone. *)
LEMMA SameOnDisk ==
    ASSUME IInv, Trusted, [Next]_vars, commit' = commit
    PROVE  OnDisk' = OnDisk
<1>1. CASE commit = Absent
  BY <1>1 DEF OnDisk
<1>2. CASE commit # Absent
  <2>1. dir' = dir
    BY <1>2, Frozen DEF IInv
  <2> QED
    BY <2>1 DEF OnDisk, HasId, ContentOf, Unreadable
<1> QED
  BY <1>1, <1>2

(* A read that succeeds answers with the shard. *)
LEMMA AnswersWithShard ==
    ASSUME IInv, NEW r \in Readers, rpc[r] = "ok"
    PROVE  AnswerOf(r) = OnDisk
<1>1. /\ seen[r] = commit /\ commit # Absent /\ Len(got[r]) = commit.segs
      /\ \A n \in 1 .. Len(got[r]) : got[r][n] = dir[n - 1]["dvd"]
  BY DEF IInv, Following, FollowedBy
<1>2. got[r] \in Seq(File)
  BY DEF IInv, TInv, TypeOK
<1>3. got[r] = [n \in 1 .. Len(got[r]) |-> got[r][n]]
  BY <1>2, LenProperties
<1>4. got[r] = [n \in 1 .. commit.segs |-> dir[n - 1]["dvd"]]
  BY <1>1, <1>3
<1>5. AnswerOf(r) = ContentOf(got[r], commit.job)
  BY <1>1 DEF AnswerOf
<1> QED
  BY <1>1, <1>4, <1>5, CommitOnDisk DEF IInv

(* So does one that has just succeeded. *)
LEMMA AnswersWithShardNext ==
    ASSUME NEW r \in Readers
    PROVE  (IInv /\ rpc[r] = "ok" => AnswerOf(r) = OnDisk)'
<1>1. IInv /\ rpc[r] = "ok" => AnswerOf(r) = OnDisk
  BY AnswersWithShard
<1> QED
  BY <1>1, PTL

-----------------------------------------------------------------------------
(* The rows the clients send.                                              *)

(* Initially nobody has sent anything. *)
LEMMA InitSending == Init => Sending
BY DEF Init, Sending, SentBy

(* A job that ends, or whose variables stay, sends nothing. *)
LEMMA SendingKept ==
    ASSUME NEW k \in Jobs, SentBy(k), accepted'[k] = accepted[k], arriving'[k] = arriving[k],
           pc'[k] = pc[k] \/ pc'[k] \notin {"idle", "flush"}
    PROVE  SentBy(k)'
BY DEF SentBy

(* Every step keeps what the pushes rely on. *)
LEMMA NextSending == ASSUME TypeOK, Sending, [Next]_vars PROVE Sending'
<1>0. /\ pc \in [Jobs -> {"idle"} \cup InProgress \cup Ended]
      /\ arriving \in [Jobs -> Nat] /\ accepted \in [Jobs -> Nat]
  BY DEF TypeOK
<1>1. ASSUME NEW j \in Jobs, JobStep(j) \/ ClientStep(j) \/ StreamFails(j) \/ IoFails(j),
             NEW k \in Jobs
      PROVE  SentBy(k)'
  <2>0. SentBy(k)
    BY DEF Sending
  <2>1. CASE k # j
    <3>1. pc'[k] = pc[k] /\ accepted'[k] = accepted[k] /\ arriving'[k] = arriving[k]
      BY <1>0, <1>1, <2>1 DEF JobStep, ClientStep, StreamFails, IoFails, CreateFile, FillFile,
         ResumePush, ResumeFinish, CreatePending, FillPending, RenamePending, Reply, Start,
         Append_, CutSegment, Reject, Finish, bufVars
    <3> QED
      BY <2>0, <3>1, SendingKept
  <2>2. CASE k = j /\ \E n \in BatchRows : CutSegment(j, n)
    BY <1>0, <2>2 DEF CutSegment, SentBy
  <2>3. CASE k = j /\ pc'[j] \notin {"idle", "flush"}
    BY <2>3 DEF SentBy
  <2>4. CASE CreateFile(j) \/ FillFile(j) \/ \E n \in BatchRows : Append_(j, n)
    <3>1. CASE k = j /\ (CreateFile(j) \/ FillFile(j))
      BY <2>0, <3>1, SendingKept DEF CreateFile, FillFile, bufVars
    <3>2. CASE k = j /\ \E n \in BatchRows : Append_(j, n)
      BY <3>2 DEF Append_, SentBy
    <3> QED
      BY <2>1, <2>4, <3>1, <3>2
  <2>5. ~ (CreateFile(j) \/ FillFile(j) \/ \E n \in BatchRows : CutSegment(j, n) \/ Append_(j, n))
           => pc'[j] \notin {"idle", "flush"}
    BY <1>0, <1>1 DEF JobStep, ClientStep, StreamFails, IoFails, ResumePush, ResumeFinish,
       CreatePending, FillPending, RenamePending, Reply, Start, Reject, Finish
  <2> QED
    BY <2>1, <2>2, <2>3, <2>4, <2>5
<1>2. ASSUME (\E r \in Readers : ReaderStep(r)) \/ Crash \/ UNCHANGED vars, NEW k \in Jobs
      PROVE  SentBy(k)'
  <2>0. SentBy(k)
    BY DEF Sending
  <2>1. CASE \E r \in Readers : ReaderStep(r)
    BY <2>0, <2>1, ReaderLeaves, SendingKept
  <2>2. CASE Crash
    BY <1>0, <2>0, <2>2, SendingKept DEF Crash, bufVars
  <2>3. CASE UNCHANGED vars
    BY <2>0, <2>3, SendingKept DEF vars
  <2> QED
    BY <1>2, <2>1, <2>2, <2>3
<1> QED
  BY <1>1, <1>2 DEF Next, Sending

-----------------------------------------------------------------------------
(* Steps of the shard.                                                     *)

ToldNow == {j \in Jobs : pc[j] = "done"}
AnswersNow == [r \in Readers |-> AnswerOf(r)]

(* Initially there is no shard, and nobody has sent, been told or answered. *)
LEMMA InitImplements == Init => AbstractShard!Init
<1> SUFFICES ASSUME Init PROVE AbstractShard!Init
  OBVIOUS
<1>1. OnDisk = [job |-> Absent, rows |-> 0]
  BY NothingOnDisk DEF Init
<1>2. accepted = [j \in Jobs |-> 0] /\ ToldNow = {}
  BY DEF Init, ToldNow
<1>3. AnswersNow = [r \in Readers |-> Absent]
  BY DEF Init, AnswersNow, AnswerOf
<1> QED
  BY <1>1, <1>2, <1>3 DEF AbstractShard!Init, AbstractShard!NoShard, ToldNow, AnswersNow

(* A reader that does not move keeps its answer, a type conflict included: the
   files it is about are frozen. *)
LEMMA SameAnswer ==
    ASSUME IInv, Trusted, [Next]_vars, NEW r \in Readers,
           rpc'[r] = rpc[r], seen'[r] = seen[r], got'[r] = got[r]
    PROVE  AnswerOf(r)' = AnswerOf(r)
<1>1. CASE rpc[r] = "error"
  <2>1. commit # Absent
    BY <1>1 DEF IInv, Following, FollowedBy
  <2>2. dir' = dir
    BY <2>1, Frozen DEF IInv
  <2>3. SameTypes(seen[r])' = SameTypes(seen[r])
    BY <2>2 DEF SameTypes, TypesOf
  <2> QED
    BY <1>1, <2>3 DEF AnswerOf, Unreadable, TypeConflict
<1>2. CASE rpc[r] # "error"
  BY <1>2 DEF AnswerOf, ContentOf, Unreadable
<1> QED
  BY <1>1, <1>2

LEMMA SameAnswers ==
    ASSUME IInv, Trusted, [Next]_vars, UNCHANGED readerVars PROVE AnswersNow' = AnswersNow
BY SameAnswer DEF readerVars, AnswersNow

(* A read that fails is refused for its types, and there is a shard. *)
LEMMA AnswersRefused ==
    ASSUME IInv, NEW r \in Readers, rpc[r] = "error"
    PROVE  AnswerOf(r) = TypeConflict /\ OnDisk # AbstractShard!NoShard
<1>1. seen[r] = commit /\ commit # Absent /\ ~SameTypes(commit)
  BY DEF IInv, Following, FollowedBy, Typing, TypedBy
<1>2. AnswerOf(r) = TypeConflict
  BY <1>1 DEF AnswerOf
<1>3. OnDisk.job \in Jobs
  BY <1>1, CommitOnDisk, CommitFlushed DEF IInv
<1> QED
  BY <1>2, <1>3, AbsentAssumption DEF AbstractShard!NoShard

(* So is one that has just failed. *)
LEMMA AnswersRefusedNext ==
    ASSUME NEW r \in Readers
    PROVE  (IInv /\ rpc[r] = "error"
              => AnswerOf(r) = TypeConflict /\ OnDisk # AbstractShard!NoShard)'
<1>1. IInv /\ rpc[r] = "error"
        => AnswerOf(r) = TypeConflict /\ OnDisk # AbstractShard!NoShard
  BY AnswersRefused
<1> QED
  BY <1>1, PTL

(* A step that takes no row, commits nothing, and neither acknowledges a job
   nor answers a read, changes nothing of the shard. *)
LEMMA Stutters ==
    ASSUME IInv, Trusted, [Next]_vars, accepted' = accepted, commit' = commit,
           \A k \in Jobs : pc'[k] = "done" <=> pc[k] = "done",
           AnswersNow' = AnswersNow
    PROVE  UNCHANGED AbstractShard!vars
<1>1. OnDisk' = OnDisk
  BY SameOnDisk
<1>2. ToldNow' = ToldNow
  BY DEF ToldNow
<1> QED
  BY <1>1, <1>2 DEF AbstractShard!vars, ToldNow, AnswersNow

(* A push of n rows by a job that has not committed. *)
LEMMA Taking ==
    ASSUME IInv, Trusted, [Next]_vars, NEW j \in Jobs, NEW n \in BatchRows, ~Committed(j),
           accepted' = [accepted EXCEPT ![j] = @ + n], commit' = commit,
           \A k \in Jobs : pc'[k] = "done" <=> pc[k] = "done",
           UNCHANGED readerVars
    PROVE  AbstractShard!Take(j)
<1>1. OnDisk' = OnDisk /\ AnswersNow' = AnswersNow
  BY SameOnDisk, SameAnswers
<1>2. ToldNow' = ToldNow
  BY DEF ToldNow
<1>3. OnDisk.job # j
  <2>1. CASE commit = Absent
    BY <2>1, NothingOnDisk, AbsentAssumption
  <2>2. CASE commit # Absent
    BY <2>2, CommitOnDisk DEF IInv, Committed
  <2> QED
    BY <2>1, <2>2
<1> QED
  BY <1>1, <1>2, <1>3 DEF AbstractShard!Take, ToldNow, AnswersNow

(* The rename makes the rows of its job readable. *)
LEMMA Publishing ==
    ASSUME IInv, IInv', Trusted, [Next]_vars, NEW j \in Jobs, RenamePending(j),
           pending # Absent
    PROVE  AbstractShard!Publish(j)
<1>1. pc[j] = "rename" /\ commit' = pending /\ accepted' = accepted
  BY DEF RenamePending, bufVars
<1>2. commit = Absent /\ pending = CommitOf(j, TRUE)
  BY <1>1 DEF IInv, Writing, Protocol, InProgress, Committing
<1>3. OnDisk = AbstractShard!NoShard
  BY <1>2, NothingOnDisk DEF AbstractShard!NoShard
<1>4. accepted[j] > 0
  <2>1. written[j] \in Nat /\ docs[j] \in Nat /\ accepted[j] \in Nat
    BY DEF IInv, TInv, TypeOK
  <2>2. written[j] > 0 /\ written[j] + docs[j] <= accepted[j]
    BY <1>1 DEF IInv, TInv, Counting, CountsOf, Committing
  <2> QED
    BY <2>1, <2>2
<1>5. OnDisk' = [job |-> j, rows |-> accepted[j]]
  <2>1. commit' # Absent /\ commit'.job = j
    BY <1>1, <1>2 DEF CommitOf
  <2>2. TInv' /\ Writing'
    BY DEF IInv
  <2>3. OnDisk' = [job |-> commit'.job, rows |-> accepted'[commit'.job]]
    BY <2>1, <2>2, CommitOnDiskNext
  <2> QED
    BY <1>1, <2>1, <2>3
<1>6. ToldNow' = ToldNow
  BY DEF RenamePending, ToldNow, IInv, TInv, TypeOK
<1>7. AnswersNow' = AnswersNow
  BY SameAnswers DEF RenamePending
<1> QED
  BY <1>1, <1>3, <1>4, <1>5, <1>6, <1>7 DEF AbstractShard!Publish, ToldNow, AnswersNow

(* The answer of do_put acknowledges the job whose rows are on disk. *)
LEMMA Telling ==
    ASSUME IInv, Trusted, [Next]_vars, NEW j \in Jobs, Reply(j)
    PROVE  AbstractShard!Tell(j)
<1>1. pc[j] = "reply" /\ pc' = [pc EXCEPT ![j] = "done"] /\ accepted' = accepted
      /\ dir' = dir /\ commit' = commit
  BY DEF Reply, bufVars, dirVars
<1>2. commit # Absent /\ commit.job = j
  BY <1>1 DEF IInv, Writing, Protocol, Committed
<1>3. OnDisk.job = j
  BY <1>2, CommitOnDisk DEF IInv
<1>4. OnDisk' = OnDisk
  BY <1>1 DEF OnDisk, HasId, ContentOf, Unreadable
<1>5. ToldNow' = ToldNow \cup {j}
  BY <1>1 DEF ToldNow, IInv, TInv, TypeOK
<1>6. AnswersNow' = AnswersNow
  BY SameAnswers DEF Reply
<1> QED
  BY <1>1, <1>3, <1>4, <1>5, <1>6 DEF AbstractShard!Tell, ToldNow, AnswersNow

(* What a reader answers, it answers with the shard, and only once. *)
LEMMA Answering ==
    ASSUME IInv, IInv', Trusted, [Next]_vars, NEW r \in Readers, ReaderStep(r)
    PROVE  AbstractShard!Answer(r) \/ UNCHANGED AbstractShard!vars
<1>1. UNCHANGED <<dir, pending, commit, pc, accepted>>
  BY ReaderLeaves
<1>2. OnDisk' = OnDisk /\ ToldNow' = ToldNow /\ accepted' = accepted
  BY <1>1, SameOnDisk DEF ToldNow
<1>3. ASSUME NEW k \in Readers, k # r PROVE AnswerOf(k)' = AnswerOf(k)
  <2>1. rpc'[k] = rpc[k] /\ seen'[k] = seen[k] /\ got'[k] = got[k]
    BY <1>3 DEF ReaderStep, OpenCommit, ReadSi, ReadFnm, Plan, Decode, Advance, ReadFails,
       IInv, TInv, TypeOK
  <2> QED
    BY <2>1, SameAnswer
<1>4. rpc[r] \in {"idle"} \cup Reading
  BY DEF ReaderStep, OpenCommit, ReadSi, ReadFnm, Plan, Decode, Reading
<1>5. AnswerOf(r) = Absent
  BY <1>4 DEF AnswerOf, Reading
<1>6. CASE rpc'[r] \in Reading
  <2>1. AnswerOf(r)' = Absent
    BY <1>6 DEF AnswerOf, Reading
  <2>2. AnswersNow' = AnswersNow
    BY <1>3, <1>5, <2>1 DEF AnswersNow
  <2> QED
    BY <1>2, <2>2 DEF AbstractShard!vars, ToldNow, AnswersNow
<1>7. CASE rpc'[r] \in {"no_commit", "ok"}
  <2>1. AnswerOf(r)' = OnDisk'
    <3>1. CASE rpc'[r] = "ok"
      BY <3>1, AnswersWithShardNext
    <3>2. CASE rpc'[r] = "no_commit"
      <4>1. commit = Absent
        BY <1>4, <3>2 DEF ReaderStep, OpenCommit, ReadSi, ReadFnm, Plan, Decode, Advance,
           ReadFails, IInv, TInv, TypeOK
      <4> QED
        BY <1>2, <3>2, <4>1, NothingOnDisk DEF AnswerOf
    <3> QED
      BY <1>7, <3>1, <3>2
  <2>2. AnswersNow' = [AnswersNow EXCEPT ![r] = OnDisk]
    BY <1>2, <1>3, <2>1 DEF AnswersNow
  <2>3. AnswersNow[r] = Absent
    BY <1>5 DEF AnswersNow
  <2> QED
    BY <1>2, <2>2, <2>3 DEF AbstractShard!Answer, ToldNow, AnswersNow
<1>8. CASE rpc'[r] = "error"
  <2>1. AnswerOf(r)' = TypeConflict /\ OnDisk # AbstractShard!NoShard
    BY <1>2, <1>8, AnswersRefusedNext DEF AbstractShard!NoShard
  <2>2. TypeConflict' = TypeConflict
    BY DEF TypeConflict
  <2>3. AnswersNow' = [AnswersNow EXCEPT ![r] = TypeConflict]
    BY <1>3, <2>1, <2>2 DEF AnswersNow
  <2>4. AnswersNow[r] = Absent
    BY <1>5 DEF AnswersNow
  <2> QED
    BY <1>2, <2>1, <2>3, <2>4 DEF AbstractShard!Answer, ToldNow, AnswersNow
<1>9. rpc'[r] \in Reading \cup {"no_commit", "ok", "error"}
  BY DEF ReaderStep, OpenCommit, ReadSi, ReadFnm, Plan, Decode, Advance, ReadFails,
     Reading, IInv, TInv, TypeOK
<1> QED
  BY <1>6, <1>7, <1>8, <1>9

(* In a trusted environment the file a job is about to rename is its own. *)
LEMMA PendingIsThere ==
    ASSUME IInv, NEW j \in Jobs, pc[j] \in {"fill", "rename"}
    PROVE  pending # Absent /\ commit = Absent
<1>1. \E full \in BOOLEAN : pending = CommitOf(j, full)
  BY DEF IInv, Writing, Protocol
<1>2. pending \in Commit
  BY <1>1, Written DEF IInv, Committing
<1>3. commit = Absent
  BY DEF IInv, Writing, Protocol, InProgress, Committing
<1> QED
  BY <1>2, <1>3, ConstantsAssumption

(* A step of a job. *)
LEMMA JobImplements ==
    ASSUME RInv, IInv', Trusted, [Next]_vars, NEW j \in Jobs,
           JobStep(j) \/ ClientStep(j) \/ StreamFails(j) \/ IoFails(j)
    PROVE  AbstractShard!Next \/ UNCHANGED AbstractShard!vars
<1>0. /\ IInv /\ SentBy(j) /\ UNCHANGED readerVars /\ AnswersNow' = AnswersNow
      /\ pc \in [Jobs -> {"idle"} \cup InProgress \cup Ended]
      /\ accepted \in [Jobs -> Nat] /\ BatchRows \subseteq Nat
  <2>1. IInv /\ UNCHANGED readerVars
    BY JobLeaves DEF RInv
  <2>2. AnswersNow' = AnswersNow
    BY <2>1, SameAnswers
  <2> QED
    BY <2>1, <2>2, ConstantsAssumption DEF RInv, Sending, IInv, TInv, TypeOK
<1>1. ASSUME NEW n \in BatchRows, Start(j, n) \/ Append_(j, n)
      PROVE  AbstractShard!Take(j)
  <2>1. /\ pc[j] \in {"idle", "open"} /\ pc'[j] = "open" /\ commit' = commit
        /\ \A k \in Jobs : k # j => pc'[k] = pc[k]
    BY <1>0, <1>1 DEF Start, Append_, dirVars
  <2>2. commit = Absent
    BY <1>0, <1>1 DEF Start, DirIsEmpty, Append_, IInv, Writing, Protocol, InProgress
  <2>3. accepted' = [accepted EXCEPT ![j] = @ + n]
    BY <1>0, <1>1 DEF Start, Append_, SentBy
  <2>4. \A k \in Jobs : pc'[k] = "done" <=> pc[k] = "done"
    BY <2>1
  <2> QED
    BY <1>0, <2>1, <2>2, <2>3, <2>4, Taking DEF Committed
<1>2. CASE ResumePush(j)
  <2>1. /\ pc[j] = "flush" /\ pc'[j] = "open" /\ commit' = commit
        /\ \A k \in Jobs : k # j => pc'[k] = pc[k]
        /\ accepted' = [accepted EXCEPT ![j] = @ + arriving[j]]
    BY <1>0, <1>2 DEF ResumePush, dirVars
  <2>2. commit = Absent /\ arriving[j] \in BatchRows
    BY <1>0, <2>1 DEF SentBy, IInv, Writing, Protocol, InProgress, Flushing
  <2>3. \A k \in Jobs : pc'[k] = "done" <=> pc[k] = "done"
    BY <2>1
  <2>4. AbstractShard!Take(j)
    BY <1>0, <2>1, <2>2, <2>3, Taking DEF Committed
  <2> QED
    BY <2>4 DEF AbstractShard!Next
<1>3. CASE RenamePending(j)
  <2>1. pending # Absent
    BY <1>0, <1>3, PendingIsThere DEF RenamePending
  <2> QED
    BY <1>0, <1>3, <2>1, Publishing DEF AbstractShard!Next
<1>4. CASE Reply(j)
  BY <1>0, <1>4, Telling DEF AbstractShard!Next
<1>5. CASE \/ CreateFile(j) \/ FillFile(j) \/ ResumeFinish(j) \/ CreatePending(j)
           \/ FillPending(j) \/ Reject(j) \/ Finish(j) \/ StreamFails(j) \/ IoFails(j)
           \/ \E n \in BatchRows : CutSegment(j, n)
  <2>1. commit' = commit
    <3>1. CASE FillPending(j)
      BY <1>0, <3>1, PendingIsThere DEF FillPending
    <3>2. CASE ~FillPending(j)
      BY <1>5, <3>2 DEF CreateFile, FillFile, ResumeFinish, CreatePending, Reject, Finish,
         StreamFails, IoFails, CutSegment, dirVars
    <3> QED
      BY <3>1, <3>2
  <2>2. accepted' = accepted
    BY <1>5 DEF CreateFile, FillFile, ResumeFinish, CreatePending, FillPending, Reject,
       Finish, StreamFails, IoFails, CutSegment, bufVars
  <2>3. \A k \in Jobs : pc'[k] = "done" <=> pc[k] = "done"
    BY <1>0, <1>5 DEF CreateFile, FillFile, ResumeFinish, CreatePending, FillPending, Reject,
       Finish, StreamFails, IoFails, CutSegment, Flushing, Committing
  <2> QED
    BY <1>0, <2>1, <2>2, <2>3, Stutters
<1> QED
  BY <1>1, <1>2, <1>3, <1>4, <1>5 DEF JobStep, ClientStep, AbstractShard!Next

(* A crash of the server: unfinished jobs and reads are lost, the shard is not. *)
LEMMA CrashImplements ==
    ASSUME IInv, Trusted, [Next]_vars, Crash PROVE UNCHANGED AbstractShard!vars
<1>1. accepted' = accepted /\ commit' = commit
  BY DEF Crash, bufVars, dirVars
<1>2. \A k \in Jobs : pc'[k] = "done" <=> pc[k] = "done"
  BY DEF Crash, InProgress, Flushing, Committing
<1>3. ASSUME NEW r \in Readers PROVE AnswerOf(r)' = AnswerOf(r)
  <2>1. /\ seen'[r] = seen[r] /\ got'[r] = got[r]
        /\ \/ rpc'[r] = rpc[r]
           \/ rpc[r] \in Reading /\ rpc'[r] = "lost"
    BY DEF Crash
  <2>2. CASE rpc'[r] = rpc[r]
    BY <2>1, <2>2, SameAnswer
  <2>3. CASE rpc[r] \in Reading /\ rpc'[r] = "lost"
    BY <2>3 DEF AnswerOf, Reading
  <2> QED
    BY <2>1, <2>2, <2>3
<1>4. AnswersNow' = AnswersNow
  BY <1>3 DEF AnswersNow
<1> QED
  BY <1>1, <1>2, <1>4, Stutters

-----------------------------------------------------------------------------
(* Whatever number of jobs ask for the directory and whatever fails or dies
   on the way, what the files on disk hold and what the server answers is a
   shard that appears at once, whole, and is never added to (SPEC 10.1). *)
THEOREM ShardImplemented == ASSUME Trusted PROVE Spec => ImplementsShard
<1>1. Init => RInv /\ AbstractShard!Init
  BY InitIInv, InitSending, InitImplements DEF RInv
<1>2. RInv /\ [Next]_vars => RInv'
  BY NextIInv, NextSending DEF RInv, IInv, TInv
<1>3. RInv /\ RInv' /\ [Next]_vars => [AbstractShard!Next]_(AbstractShard!vars)
  <2> SUFFICES ASSUME RInv, RInv', [Next]_vars
               PROVE  AbstractShard!Next \/ UNCHANGED AbstractShard!vars
    BY Zenon
  <2>0. IInv /\ IInv'
    BY DEF RInv
  <2>1. ASSUME NEW j \in Jobs, JobStep(j) \/ ClientStep(j) \/ StreamFails(j) \/ IoFails(j)
        PROVE  AbstractShard!Next \/ UNCHANGED AbstractShard!vars
    BY <2>0, <2>1, JobImplements
  <2>2. ASSUME NEW r \in Readers, ReaderStep(r)
        PROVE  AbstractShard!Next \/ UNCHANGED AbstractShard!vars
    BY <2>0, <2>2, Answering DEF AbstractShard!Next
  <2>3. CASE Crash
    BY <2>0, <2>3, CrashImplements
  <2>4. CASE UNCHANGED vars
    <3>1. AnswersNow' = AnswersNow
      BY <2>0, <2>4, SameAnswers DEF vars, readerVars
    <3> QED
      BY <2>0, <2>4, <3>1, Stutters DEF vars
  <2> QED
    BY <2>1, <2>2, <2>3, <2>4 DEF Next
<1> QED
  BY <1>1, <1>2, <1>3, PTL DEF Spec, ImplementsShard, AbstractShard!Spec
=============================================================================
