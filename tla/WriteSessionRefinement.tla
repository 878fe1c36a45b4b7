----------------------- MODULE WriteSessionRefinement -----------------------
(***************************************************************************)
(* WriteSession implements Shard: what a reader could decode from the      *)
(* files on disk is the shard's content.                                   *)
(***************************************************************************)
EXTENDS WriteSession

\* A shard that is not there is nobody's.
ASSUME AbsentAssumption == Absent \notin Jobs

\* An error that is nobody's fault but the files', and the error of a shard
\* whose segments disagree on a type.
Unreadable == [job |-> Absent, rows |-> 1]
TypeConflict == [job |-> Absent, rows |-> 2]

\* The rows a list of decoded segments stands for.
ContentOf(segs, job) ==
    IF /\ Len(segs) > 0
       /\ \A i \in 1 .. Len(segs) : segs[i] # Absent /\ segs[i].whole /\ segs[i].job = job
       /\ segs[1].lo = 0
       /\ \A i \in 1 .. Len(segs) - 1 : segs[i].hi = segs[i + 1].lo
    THEN [job |-> job, rows |-> segs[Len(segs)].hi]
    ELSE Unreadable

\* What the directory holds, read from the disk and from nothing else.
OnDisk ==
    IF commit = Absent THEN [job |-> Absent, rows |-> 0]
    ELSE IF \E s \in 0 .. commit.segs - 1, e \in Exts : ~HasId(dir[s][e], commit, s)
    THEN Unreadable
    ELSE ContentOf([i \in 1 .. commit.segs |-> dir[i - 1]["dvd"]], commit.job)

AnswerOf(r) ==
    CASE rpc[r] = "no_commit" -> [job |-> Absent, rows |-> 0]
      [] rpc[r] = "ok" -> ContentOf(got[r], seen[r].job)
      [] rpc[r] = "error" -> IF SameTypes(seen[r]) THEN Unreadable ELSE TypeConflict
      [] OTHER -> Absent

AbstractShard == INSTANCE Shard WITH
    Nothing <- Absent,
    Refused <- TypeConflict,
    sent <- accepted,
    shard <- OnDisk,
    told <- {j \in Jobs : pc[j] = "done"},
    answer <- [r \in Readers |-> AnswerOf(r)]

\* One writer at a time, and no flush error swallowed: the rows of a job
\* become readable all at once, in the rename of segments_1, and every answer
\* of the server is about all of them, the refusal of a shard whose segments
\* disagree on a type included.
ImplementsShard == AbstractShard!Spec
=============================================================================
