-------------------------- MODULE FlightReadProofs --------------------------
(***************************************************************************)
(* Proofs about FlightRead, for any fields, segments, requests and bounds. *)
(* The argument: the writer only ever adds to what a reader has opened     *)
(* (Keeps), so the view of a call is fixed from the moment it opened a     *)
(* commit; and every pass of a loop extends what the passes before it have *)
(* built by exactly the part of its segment (the Built... invariants).     *)
(* The last part is about Hydrate: the rows fetched so far and the columns *)
(* built so far are those of the documents asked for.                      *)
(***************************************************************************)
EXTENDS FlightRead, Hydrate, ListingsProofs

-----------------------------------------------------------------------------
(* The inductive invariant.                                                *)

Shapes == {f.shapes : f \in Flushes}
ShapeNames == UNION {{f.shapes[n] : n \in ToSet(FieldNames)} : f \in Flushes}
Segment == [rows : Seq(1 .. MaxRows), shapes : Shapes]
Generations == Seq(SUBSET Nat)
Entry == [name : Nat, del_gen : Nat]
Listing == Seq(Entry)

\* The entries a commit may list: their segment and their .liv were written.
Filed == {e \in Entry : e.name \in 1 .. Len(segs) /\ e.del_gen <= Len(dels[e.name])}

DirOK ==
    /\ segs \in Seq(Segment)
    /\ dels \in Seq(Generations) /\ Len(dels) = Len(segs)
    /\ commits \in Seq(Listing)
    /\ \A c \in DOMAIN commits : commits[c] \in Seq(Filed)
    /\ oldest \in 1 .. Len(commits)

ReaderOK ==
    /\ pc \in {"idle", "open", "plan", "batch", "done", "failed"}
    /\ call \in {"info", "get"} /\ request \in Requests
    /\ seen \in 0 .. Len(commits) /\ next \in Nat /\ doc_base \in Nat
    /\ pc \in {"idle", "open"} => schema = <<>>
    /\ pc \in {"idle", "open", "plan"} => out = <<>> /\ doc_base = 0
    /\ pc = "open" /\ seen # 0 => next >= 1 /\ Understood
    /\ pc \in {"plan", "batch", "done"} => seen # 0 /\ AllNamed /\ Understood
    /\ pc \in {"plan", "batch"} => next \in 1 .. Len(Selected) + 1

\* The reconciled fields come from segments the request selects.
FieldEntry == ToSet(FieldNames) \X ShapeNames
SchemaOK ==
    /\ schema \in Seq(FieldEntry)
    /\ \A e \in ToSet(schema) :
          /\ e[2] # NoShape /\ seen # 0
          /\ \E i \in ToSet(Selected) : i \in DOMAIN Snapshot /\ Shape(i, e[1]) = e[2]

\* What a call sees of the segments of its commit.
View == [i \in DOMAIN Snapshot |->
            [rows |-> segs[Snapshot[i].name].rows, shapes |-> segs[Snapshot[i].name].shapes,
             deleted |-> Deleted(Snapshot[i])]]

\* The fields reconciled are those the first n segments have, and no other.
Covers(view, selected, wanted, fields, n) ==
    \A f \in ToSet(FieldNames) :
        (\E e \in fields : e[1] = f)
            <=> (f \in wanted /\ \E k \in 1 .. n : view[selected[k]].shapes[f] # NoShape)
Wanted == {f \in ToSet(FieldNames) : Wants(f)}
BuiltSchema ==
    /\ pc = "plan" => Covers(View, Selected, Wanted, ToSet(schema), next - 1)
    /\ pc \in {"batch", "done"} => Covers(View, Selected, Wanted, ToSet(schema), Len(Selected))

\* What the first n segments of a request ask for.
DocsAsked(view, mode, i) ==
    {d \in 0 .. Len(view[i].rows) - 1 : mode = "positional" \/ d \notin view[i].deleted}
AskedIn(view, mode, i) ==
    LET docs == InOrder(DocsAsked(view, mode, i)) IN [k \in DOMAIN docs |-> <<i, docs[k]>>]
AskedUpTo(view, mode, selected, n) ==
    FlattenSeq([k \in 1 .. n |-> AskedIn(view, mode, selected[k])])

IsDocument(view, row, p) ==
    /\ "_seg" \in DOMAIN row => row["_seg"] = p[1] - 1
    /\ "_doc" \in DOMAIN row => row["_doc"] = p[2]
    /\ "_live" \in DOMAIN row => (row["_live"] <=> p[2] \notin view[p[1]].deleted)
    /\ \A f \in ToSet(FieldNames) \cap DOMAIN row :
          row[f] = IF view[p[1]].shapes[f] = NoShape THEN Null ELSE view[p[1]].rows[p[2] + 1]
Answers(view, answer, asked) ==
    Len(answer) = Len(asked) /\ \A k \in DOMAIN answer : IsDocument(view, answer[k], asked[k])
BuiltRows ==
    /\ pc = "batch" => Answers(View, FlattenSeq(out),
                               AskedUpTo(View, request.row_mode, Selected, next - 1))
    /\ Got => Answers(View, FlattenSeq(out),
                      AskedUpTo(View, request.row_mode, Selected, Len(Selected)))

\* Rows have the columns of the answer, and a _global_doc below the next base.
Placed(answer, columns, base, mode) ==
    /\ \A k \in DOMAIN answer :
          /\ DOMAIN answer[k] = columns
          /\ "_global_doc" \in columns =>
                /\ answer[k]["_global_doc"] \in 0 .. base - 1
                /\ mode = "positional" => answer[k]["_global_doc"] = k - 1
    /\ "_global_doc" \in columns =>
          \A k \in 1 .. Len(answer) - 1 : answer[k]["_global_doc"] < answer[k + 1]["_global_doc"]
    /\ mode = "positional" => Len(answer) = base
BuiltGlobals == Placed(FlattenSeq(out), ToSet(Columns), doc_base, request.row_mode)

OutIsRows == \E S : out \in Seq(Seq(S))

ReadIInv ==
    /\ DirOK /\ ReaderOK /\ SchemaOK /\ BuiltSchema /\ FailsForAReason
    /\ BuiltRows /\ BuiltGlobals /\ BatchesAreSegmentScoped /\ OutIsRows
-----------------------------------------------------------------------------
(* The writer only adds.                                                   *)

Keeps ==
    /\ \A s \in 1 .. Len(segs) : s \in 1 .. Len(segs') /\ segs'[s] = segs[s]
    /\ \A s \in 1 .. Len(dels) :
          /\ s \in 1 .. Len(dels')
          /\ Len(dels[s]) <= Len(dels'[s])
          /\ \A g \in 1 .. Len(dels[s]) : dels'[s][g] = dels[s][g]
    /\ \A c \in 1 .. Len(commits) : c \in 1 .. Len(commits') /\ commits'[c] = commits[c]
    /\ Len(commits) <= Len(commits') /\ oldest <= oldest' /\ oldest' \in Nat

LEMMA FiledSegments ==
    ASSUME DirOK, NEW e \in Filed
    PROVE  /\ e.name \in 1 .. Len(segs) /\ e.del_gen \in Nat /\ e.del_gen <= Len(dels[e.name])
           /\ segs[e.name] \in Segment /\ dels[e.name] \in Generations
           /\ segs[e.name].rows \in Seq(1 .. MaxRows) /\ segs[e.name].shapes \in Shapes
           /\ Deleted(e) \in SUBSET Nat
<1>1. /\ e.name \in 1 .. Len(segs) /\ e.del_gen \in Nat /\ e.del_gen <= Len(dels[e.name])
  BY DEF Filed, Entry
<1>2. segs[e.name] \in Segment
  BY <1>1, ElementOfSeq DEF DirOK
<1>3. dels[e.name] \in Generations
  BY <1>1, ElementOfSeq DEF DirOK
<1>4. Deleted(e) \in SUBSET Nat
  <2>1. CASE e.del_gen = 0
    BY <2>1 DEF Deleted
  <2>2. CASE e.del_gen # 0
    <3>1. dels[e.name] \in Seq(SUBSET Nat) /\ e.del_gen \in 1 .. Len(dels[e.name])
      BY <1>1, <1>3, <2>2 DEF Generations
    <3>2. dels[e.name][e.del_gen] \in SUBSET Nat
      BY <3>1, ElementOfSeq
    <3>3. QED
      BY <2>2, <3>2 DEF Deleted
  <2>3. QED
    BY <2>1, <2>2
<1>5. QED
  BY <1>1, <1>2, <1>3, <1>4 DEF Segment

\* What a writer step that commits has to show.
LEMMA CommitKeeps ==
    ASSUME DirOK, NEW seg \in Segment, NEW c, Commit(c),
           segs' = segs \/ segs' = Append(segs, seg),
           dels' \in Seq(Generations), Len(dels') = Len(segs'),
           \A s \in 1 .. Len(dels) :
              /\ s \in 1 .. Len(dels') /\ Len(dels[s]) <= Len(dels'[s])
              /\ \A g \in 1 .. Len(dels[s]) : dels'[s][g] = dels[s][g],
           c \in Seq(Filed')
    PROVE  DirOK' /\ Keeps
<1>1. /\ segs' \in Seq(Segment)
      /\ \A s \in 1 .. Len(segs) : s \in 1 .. Len(segs') /\ segs'[s] = segs[s]
  <2>1. segs \in Seq(Segment)
    BY DEF DirOK
  <2>2. CASE segs' = segs
    BY <2>1, <2>2
  <2>3. CASE segs' = Append(segs, seg)
    BY <2>1, <2>3, AppendExtends
  <2>4. QED
    BY <2>2, <2>3
<1>2. Filed \subseteq Filed' /\ Filed' \subseteq Entry
  <2>1. SUFFICES ASSUME NEW e \in Filed PROVE e \in Filed'
    BY DEF Filed
  <2>2. /\ e \in Entry /\ e.name \in 1 .. Len(segs) /\ e.del_gen \in Nat
        /\ e.del_gen <= Len(dels[e.name])
    BY DEF Filed, Entry
  <2>3. e.name \in 1 .. Len(segs') /\ Len(dels[e.name]) <= Len(dels'[e.name])
    BY <1>1, <2>2 DEF DirOK
  <2>4. Len(dels[e.name]) \in Nat /\ Len(dels'[e.name]) \in Nat
    <3>1. dels[e.name] \in Seq(SUBSET Nat) /\ dels'[e.name] \in Seq(SUBSET Nat)
      BY <2>2, <2>3, ElementOfSeq DEF DirOK, Generations
    <3>2. QED
      BY <3>1
  <2>5. QED
    BY <2>2, <2>3, <2>4 DEF Filed
<1>3. c \in Listing
  BY <1>2, SeqGrows DEF Listing
<1>4. /\ commits' \in Seq(Listing) /\ Len(commits') = Len(commits) + 1 /\ Len(commits) \in Nat
      /\ DOMAIN commits' = 1 .. Len(commits) + 1 /\ DOMAIN commits = 1 .. Len(commits)
      /\ commits'[Len(commits) + 1] = c
      /\ \A i \in 1 .. Len(commits) : commits'[i] = commits[i]
  BY <1>3, AppendExtends DEF DirOK, Commit
<1>5. \A i \in DOMAIN commits' : commits'[i] \in Seq(Filed')
  <2>1. \A i \in 1 .. Len(commits) : commits[i] \in Seq(Filed')
    BY <1>2, <1>4, SeqGrows DEF DirOK
  <2>2. QED
    BY <1>4, <2>1
<1>6. oldest' = oldest /\ oldest \in 1 .. Len(commits)
  BY DEF DirOK, Commit
<1>7. DirOK'
  BY <1>1, <1>4, <1>5, <1>6 DEF DirOK
<1>8. Keeps
  BY <1>1, <1>4, <1>6 DEF Keeps
<1>9. QED
  BY <1>7, <1>8

LEMMA LatestFiled == DirOK => Latest \in Seq(Filed) /\ Latest \in Listing
<1> SUFFICES ASSUME DirOK PROVE Latest \in Seq(Filed) /\ Latest \in Listing
  OBVIOUS
<1>1. Len(commits) \in 1 .. Len(commits) /\ DOMAIN commits = 1 .. Len(commits)
  BY DEF DirOK
<1>2. QED
  BY <1>1, ElementOfSeq DEF DirOK, Latest

LEMMA RowsWrittenBounded == DirOK /\ ConstantsAssumption => RowsWritten \in 0 .. MaxRows
<1> SUFFICES ASSUME DirOK, ConstantsAssumption PROVE RowsWritten \in 0 .. MaxRows
  OBVIOUS
<1> DEFINE T == {0} \cup UNION {ToSet(segs[s].rows) : s \in DOMAIN segs}
<1>1. MaxRows \in Nat
  BY DEF ConstantsAssumption
<1>2. ASSUME NEW s \in DOMAIN segs PROVE ToSet(segs[s].rows) \in SUBSET (0 .. MaxRows)
  <2>1. segs[s] \in Segment
    BY ElementOfSeq DEF DirOK
  <2>2. PICK r \in Seq(1 .. MaxRows) : r = segs[s].rows
    BY <2>1 DEF Segment
  <2>3. \A k \in DOMAIN r : r[k] \in 0 .. MaxRows
    BY <1>1, <2>2, ElementOfSeq
  <2>4. QED
    BY <2>2, <2>3 DEF ToSet
<1>3. T \in SUBSET (0 .. MaxRows) /\ T # {}
  BY <1>1, <1>2
<1>4. RowsWritten = Max(T)
  BY DEF RowsWritten
<1> HIDE DEF T
<1>5. QED
  BY <1>1, <1>3, <1>4, MaxIsGreatest

LEMMA FlushKeeps ==
    ASSUME ConstantsAssumption, DirOK, NEW f \in Flushes, Flush(f) PROVE DirOK' /\ Keeps
<1> DEFINE ids == [d \in 1 .. f.size |-> RowsWritten + d]
<1> DEFINE seg == [rows |-> ids, shapes |-> f.shapes]
<1> DEFINE e == [name |-> Len(segs) + 1, del_gen |-> 0]
<1>1. RowsWritten \in 0 .. MaxRows /\ MaxRows \in Nat /\ f.size \in 1 .. MaxRows
      /\ RowsWritten + f.size <= MaxRows
  BY RowsWrittenBounded DEF ConstantsAssumption, Flush
<1>2. ids \in [1 .. f.size -> 1 .. MaxRows]
  BY <1>1
<1>3. ids \in Seq(1 .. MaxRows)
  BY <1>1, <1>2, FunctionIsSeq
<1> HIDE DEF ids
<1>4. seg \in Segment
  BY <1>3 DEF Segment, Shapes
<1>5. segs' = Append(segs, seg) /\ dels' = Append(dels, <<>>) /\ Commit(Append(Latest, e))
  BY DEF Flush, ids
<1> HIDE DEF seg
<1>6. <<>> \in Generations
  BY EmptySeq DEF Generations
<1>7. /\ Len(segs') = Len(segs) + 1 /\ Len(segs) \in Nat
      /\ dels' \in Seq(Generations) /\ Len(dels') = Len(segs') /\ Len(dels) = Len(segs)
      /\ dels'[Len(segs) + 1] = <<>> /\ \A s \in 1 .. Len(dels) : dels'[s] = dels[s]
  <2>1. segs \in Seq(Segment) /\ dels \in Seq(Generations) /\ Len(dels) = Len(segs)
    BY DEF DirOK
  <2>2. Len(segs') = Len(segs) + 1 /\ Len(segs) \in Nat
    BY <1>4, <1>5, <2>1, AppendExtends
  <2>3. /\ dels' \in Seq(Generations) /\ Len(dels') = Len(dels) + 1
        /\ dels'[Len(dels) + 1] = <<>> /\ \A s \in 1 .. Len(dels) : dels'[s] = dels[s]
    BY <1>5, <1>6, <2>1, AppendExtends
  <2>4. QED
    BY <2>1, <2>2, <2>3
<1>8. \A s \in 1 .. Len(dels) :
         /\ s \in 1 .. Len(dels') /\ Len(dels[s]) <= Len(dels'[s])
         /\ \A g \in 1 .. Len(dels[s]) : dels'[s][g] = dels[s][g]
  <2>1. \A s \in 1 .. Len(dels) : Len(dels[s]) \in Nat
    <3>1. \A s \in 1 .. Len(dels) : dels[s] \in Seq(SUBSET Nat)
      BY ElementOfSeq DEF DirOK, Generations
    <3>2. QED
      BY <3>1
  <2>2. QED
    BY <1>7, <2>1
<1>9. Filed \subseteq Filed' /\ e \in Filed'
  <2>1. e \in Entry /\ e.name = Len(segs) + 1 /\ e.del_gen = 0
    BY <1>7 DEF Entry
  <2>2. Len(dels'[e.name]) = 0 /\ e.name \in 1 .. Len(segs')
    BY <1>7, <2>1, EmptySeq
  <2>3. e \in Filed'
    BY <2>1, <2>2 DEF Filed
  <2>4. \A x \in Filed : x.name \in 1 .. Len(segs) /\ dels'[x.name] = dels[x.name]
    BY <1>7 DEF Filed
  <2>5. Filed \subseteq Filed'
    BY <1>7, <2>4 DEF Filed
  <2>6. QED
    BY <2>3, <2>5
<1>10. Append(Latest, e) \in Seq(Filed')
  <2>1. Latest \in Seq(Filed')
    BY <1>9, LatestFiled, SeqGrows
  <2>2. QED
    BY <1>9, <2>1, AppendExtends
<1>11. QED
  BY <1>4, <1>5, <1>7, <1>8, <1>10, CommitKeeps

LEMMA DeleteKeeps ==
    ASSUME DirOK, NEW i \in 1 .. Len(Latest), NEW d \in Docs(Latest[i]), Delete(i, d)
    PROVE  DirOK' /\ Keeps
<1>1. PICK e \in Filed : e = Latest[i]
  BY LatestFiled, ElementOfSeq
<1> DEFINE gone == Deleted(e) \cup {d}
<1> DEFINE listed == [Latest EXCEPT ![i].del_gen = Len(dels[e.name]) + 1]
<1>2. /\ e.name \in 1 .. Len(segs) /\ segs[e.name] \in Segment
      /\ e.del_gen \in Nat /\ e.del_gen <= Len(dels[e.name]) /\ dels[e.name] \in Generations
      /\ Deleted(e) \in SUBSET Nat /\ segs[e.name].rows \in Seq(1 .. MaxRows)
  BY FiledSegments
<1>3. gone \in SUBSET Nat
  <2>1. d \in Nat
    BY <1>1, <1>2 DEF Docs
  <2>2. QED
    BY <1>2, <2>1
<1> HIDE DEF gone
<1>4. /\ dels' = [dels EXCEPT ![e.name] = Append(@, gone)] /\ segs' = segs
      /\ Commit(listed)
  BY <1>1 DEF Delete, gone
<1>5. PICK more \in Generations :
         /\ more = Append(dels[e.name], gone) /\ Len(more) = Len(dels[e.name]) + 1
         /\ Len(dels[e.name]) \in Nat /\ \A g \in 1 .. Len(dels[e.name]) : more[g] = dels[e.name][g]
  <2>1. PICK old \in Seq(SUBSET Nat) : old = dels[e.name]
    BY <1>2 DEF Generations
  <2>2. /\ Append(old, gone) \in Seq(SUBSET Nat) /\ Len(Append(old, gone)) = Len(old) + 1
        /\ Len(old) \in Nat /\ \A g \in 1 .. Len(old) : Append(old, gone)[g] = old[g]
    BY <1>3, AppendExtends
  <2>3. QED
    BY <2>1, <2>2 DEF Generations
<1>6. /\ dels \in Seq(Generations) /\ Len(dels) = Len(segs) /\ Len(segs) \in Nat
      /\ \A s \in 1 .. Len(dels) : dels[s] \in Seq(SUBSET Nat)
  BY ElementOfSeq DEF DirOK, Generations
<1>7. /\ dels' \in Seq(Generations) /\ Len(dels') = Len(dels) /\ dels'[e.name] = more
      /\ \A s \in 1 .. Len(dels) : s # e.name => dels'[s] = dels[s]
  BY <1>2, <1>4, <1>5, <1>6
<1>8. \A s \in 1 .. Len(dels) :
         /\ s \in 1 .. Len(dels') /\ Len(dels[s]) <= Len(dels'[s])
         /\ \A g \in 1 .. Len(dels[s]) : dels'[s][g] = dels[s][g]
  <2> SUFFICES ASSUME NEW s \in 1 .. Len(dels)
               PROVE  /\ Len(dels[s]) <= Len(dels'[s])
                      /\ \A g \in 1 .. Len(dels[s]) : dels'[s][g] = dels[s][g]
    BY <1>7
  <2>1. CASE s = e.name
    BY <1>5, <1>7, <2>1
  <2>2. CASE s # e.name
    BY <1>6, <1>7, <2>2
  <2>3. QED
    BY <2>1, <2>2
<1>9. Filed \subseteq Filed'
  <2> SUFFICES ASSUME NEW x \in Filed PROVE x \in Filed'
    OBVIOUS
  <2>1. /\ x \in Entry /\ x.name \in 1 .. Len(segs) /\ x.del_gen \in Nat
        /\ x.del_gen <= Len(dels[x.name])
    BY DEF Filed, Entry
  <2>2. Len(dels[x.name]) \in Nat /\ Len(dels'[x.name]) \in Nat /\ Len(dels[x.name]) <= Len(dels'[x.name])
    <3>1. dels[x.name] \in Seq(SUBSET Nat) /\ dels'[x.name] \in Seq(SUBSET Nat)
      BY <1>6, <1>7, <2>1, ElementOfSeq DEF Generations
    <3>2. QED
      BY <1>6, <1>8, <2>1, <3>1
  <2>3. QED
    BY <1>4, <2>1, <2>2 DEF Filed
<1>10. listed \in Seq(Filed')
  <2>1. PICK s \in Seq(Filed') : s = Latest
    BY <1>9, LatestFiled, SeqGrows
  <2>2. PICK x : x = [e EXCEPT !.del_gen = Len(dels[e.name]) + 1]
    OBVIOUS
  <2>3. x \in Filed'
    <3>1. e \in Entry
      BY DEF Filed
    <3>2. x \in Entry /\ x.name = e.name /\ x.del_gen = Len(dels[e.name]) + 1
      BY <1>5, <2>2, <3>1 DEF Entry
    <3>3. QED
      BY <1>2, <1>4, <1>5, <1>7, <3>2 DEF Filed
  <2>4. listed = [s EXCEPT ![i] = x]
    BY <1>1, <2>1, <2>2
  <2>5. QED
    BY <2>1, <2>3, <2>4
<1>11. QED
  BY <1>2, <1>4, <1>6, <1>7, <1>8, <1>10, CommitKeeps

\* The positions of a segment's live documents are positions of its rows.
LEMMA LiveRowsAreRows == ASSUME DirOK, NEW e \in Filed PROVE LiveRows(e) \in Seq(1 .. MaxRows)
<1>1. PICK r \in Seq(1 .. MaxRows) : r = segs[e.name].rows
  BY FiledSegments
<1> DEFINE At == {d + 1 : d \in Live(e)}
<1>2. At \in SUBSET (DOMAIN r)
  BY <1>1 DEF Live, Docs
<1>3. LiveRows(e) = Chosen(r, At)
  BY <1>1 DEF LiveRows
<1> HIDE DEF At
<1>4. QED
  BY <1>2, <1>3, ChosenAreChosen

LEMMA MergeKeeps ==
    ASSUME DirOK, NEW i \in 1 .. Len(Latest) - 1, Merge(i) PROVE DirOK' /\ Keeps
<1>1. Latest \in Seq(Filed) /\ Len(Latest) \in Nat
  BY LatestFiled
<1>2. PICK a \in Filed, b \in Filed : a = Latest[i] /\ b = Latest[i + 1]
  BY <1>1, ElementOfSeq
<1> DEFINE seg == [rows |-> LiveRows(a) \o LiveRows(b), shapes |-> segs[a.name].shapes]
<1> DEFINE e == [name |-> Len(segs) + 1, del_gen |-> 0]
<1> DEFINE c == SubSeq(Latest, 1, i - 1) \o <<e>> \o SubSeq(Latest, i + 2, Len(Latest))
<1>3. seg \in Segment
  <2>1. LiveRows(a) \o LiveRows(b) \in Seq(1 .. MaxRows)
    BY LiveRowsAreRows, ConcatProperties
  <2>2. segs[a.name].shapes \in Shapes
    BY FiledSegments
  <2>3. QED
    BY <2>1, <2>2 DEF Segment
<1>4. segs' = Append(segs, seg) /\ dels' = Append(dels, <<>>) /\ Commit(c)
  BY <1>2 DEF Merge
<1> HIDE DEF seg
<1>5. <<>> \in Generations
  BY EmptySeq DEF Generations
<1>6. /\ Len(segs') = Len(segs) + 1 /\ Len(segs) \in Nat
      /\ dels' \in Seq(Generations) /\ Len(dels') = Len(segs') /\ Len(dels) = Len(segs)
      /\ dels'[Len(segs) + 1] = <<>> /\ \A s \in 1 .. Len(dels) : dels'[s] = dels[s]
  <2>1. segs \in Seq(Segment) /\ dels \in Seq(Generations) /\ Len(dels) = Len(segs)
    BY DEF DirOK
  <2>2. Len(segs') = Len(segs) + 1 /\ Len(segs) \in Nat
    BY <1>3, <1>4, <2>1, AppendExtends
  <2>3. /\ dels' \in Seq(Generations) /\ Len(dels') = Len(dels) + 1
        /\ dels'[Len(dels) + 1] = <<>> /\ \A s \in 1 .. Len(dels) : dels'[s] = dels[s]
    BY <1>4, <1>5, <2>1, AppendExtends
  <2>4. QED
    BY <2>1, <2>2, <2>3
<1>7. \A s \in 1 .. Len(dels) :
         /\ s \in 1 .. Len(dels') /\ Len(dels[s]) <= Len(dels'[s])
         /\ \A g \in 1 .. Len(dels[s]) : dels'[s][g] = dels[s][g]
  <2>1. \A s \in 1 .. Len(dels) : Len(dels[s]) \in Nat
    <3>1. \A s \in 1 .. Len(dels) : dels[s] \in Seq(SUBSET Nat)
      BY ElementOfSeq DEF DirOK, Generations
    <3>2. QED
      BY <3>1
  <2>2. QED
    BY <1>6, <2>1
<1>8. Filed \subseteq Filed' /\ e \in Filed'
  <2>1. e \in Entry /\ e.name = Len(segs) + 1 /\ e.del_gen = 0
    BY <1>6 DEF Entry
  <2>2. Len(dels'[e.name]) = 0 /\ e.name \in 1 .. Len(segs')
    BY <1>6, <2>1, EmptySeq
  <2>3. e \in Filed'
    BY <2>1, <2>2 DEF Filed
  <2>4. \A x \in Filed : x.name \in 1 .. Len(segs) /\ dels'[x.name] = dels[x.name]
    BY <1>6 DEF Filed
  <2>5. Filed \subseteq Filed'
    BY <1>6, <2>4 DEF Filed
  <2>6. QED
    BY <2>3, <2>5
<1>9. c \in Seq(Filed')
  <2>1. PICK s \in Seq(Filed') : s = Latest
    BY <1>1, <1>8, SeqGrows
  <2>2. \A k \in 1 .. Len(s) : s[k] \in Filed'
    BY <2>1, ElementOfSeq
  <2>3. SubSeq(s, 1, i - 1) \in Seq(Filed')
    BY <1>1, <2>1, <2>2, SubSeqProperties
  <2>4. SubSeq(s, i + 2, Len(s)) \in Seq(Filed')
    BY <1>1, <2>1, <2>2, SubSeqProperties
  <2>5. <<e>> \in Seq(Filed')
    BY <1>8
  <2>6. QED
    BY <2>1, <2>3, <2>4, <2>5, ConcatProperties
<1> HIDE DEF c
<1>10. QED
  BY <1>3, <1>4, <1>6, <1>7, <1>9, CommitKeeps

LEMMA SameDirKeeps == DirOK /\ UNCHANGED <<segs, dels, commits>>
                         /\ oldest <= oldest' /\ oldest' \in 1 .. Len(commits) => DirOK' /\ Keeps
<1> SUFFICES ASSUME DirOK, UNCHANGED <<segs, dels, commits>>, oldest <= oldest',
                    oldest' \in 1 .. Len(commits)
             PROVE  DirOK' /\ Keeps
  OBVIOUS
<1>1. Filed' = Filed
  BY DEF Filed
<1>2. DirOK'
  BY <1>1 DEF DirOK
<1>3. Len(commits) \in Nat /\ \A s \in 1 .. Len(dels) : Len(dels[s]) \in Nat
  <2>1. \A s \in 1 .. Len(dels) : dels[s] \in Seq(SUBSET Nat)
    BY ElementOfSeq DEF DirOK, Generations
  <2>2. QED
    BY <2>1 DEF DirOK
<1>4. Keeps
  BY <1>3 DEF Keeps
<1>5. QED
  BY <1>2, <1>4

LEMMA NextKeeps == ConstantsAssumption /\ DirOK /\ [Next]_vars => DirOK' /\ Keeps
<1> SUFFICES ASSUME ConstantsAssumption, DirOK, [Next]_vars PROVE DirOK' /\ Keeps
  OBVIOUS
<1>1. CASE Writer
  <2>1. ASSUME NEW f \in Flushes, Flush(f) PROVE DirOK' /\ Keeps
    BY <2>1, FlushKeeps
  <2>2. ASSUME NEW i \in 1 .. Len(Latest), NEW d \in Docs(Latest[i]), Delete(i, d)
        PROVE  DirOK' /\ Keeps
    BY <2>2, DeleteKeeps
  <2>3. ASSUME NEW i \in 1 .. Len(Latest) - 1, Merge(i) PROVE DirOK' /\ Keeps
    BY <2>3, MergeKeeps
  <2>4. CASE Prune
    <3>1. Len(commits) \in 1 .. Len(commits) /\ oldest <= Len(commits)
      BY DEF DirOK
    <3>2. QED
      BY <2>4, <3>1, SameDirKeeps DEF Prune
  <2>5. QED
    BY <1>1, <2>1, <2>2, <2>3, <2>4 DEF Writer
<1>2. CASE ~Writer
  <2>1. UNCHANGED dir
    BY <1>2 DEF Next, vars, Begin, Server, OpenCommit, OpenSegment, Select, PlanSegment,
                Resolved, SegmentBatches, Streamed, Refuse, Fail
  <2>2. oldest <= oldest /\ oldest \in 1 .. Len(commits)
    BY DEF DirOK
  <2>3. QED
    BY <2>1, <2>2, SameDirKeeps DEF dir
<1>3. QED
  BY <1>1, <1>2

-----------------------------------------------------------------------------
(* What a call sees stays as it is.                                        *)

LEMMA SnapshotTyped ==
    ASSUME DirOK, seen \in 1 .. Len(commits)
    PROVE  /\ Snapshot \in Seq(Filed) /\ DOMAIN Snapshot = 1 .. Len(Snapshot) /\ Len(Snapshot) \in Nat
           /\ \A i \in DOMAIN Snapshot : Snapshot[i] \in Filed
<1>1. Snapshot \in Seq(Filed)
  BY DEF DirOK, Snapshot
<1>2. QED
  BY <1>1, ElementOfSeq

LEMMA SelectedTyped ==
    ASSUME ConstantsAssumption, DirOK, seen \in 1 .. Len(commits), request \in Requests, AllNamed
    PROVE  /\ Selected \in Seq(DOMAIN Snapshot) /\ Len(Selected) \in Nat
           /\ DOMAIN Selected = 1 .. Len(Selected)
           /\ \A k \in 1 .. Len(Selected) : Selected[k] \in DOMAIN Snapshot
<1>1. DOMAIN Snapshot = 1 .. Len(Snapshot) /\ Len(Snapshot) \in Nat
  BY SnapshotTyped
<1>2. Selected \in Seq(DOMAIN Snapshot)
  <2>1. CASE request.all
    <3>1. Selected = [i \in 1 .. Len(Snapshot) |-> i]
      BY <1>1, <2>1 DEF Selected
    <3>2. Selected \in [1 .. Len(Snapshot) -> DOMAIN Snapshot]
      BY <1>1, <3>1
    <3>3. QED
      BY <1>1, <3>2, FunctionIsSeq
  <2>2. CASE ~request.all
    <3>1. PICK names \in Seq(Nat) : names = request.names
      BY DEF ConstantsAssumption
    <3>2. DOMAIN names = 1 .. Len(names) /\ Len(names) \in Nat
      OBVIOUS
    <3>3. ASSUME NEW k \in 1 .. Len(names) PROVE Min(Named(names[k])) \in DOMAIN Snapshot
      <4>1. Named(names[k]) \in SUBSET (DOMAIN Snapshot) /\ Named(names[k]) # {}
        BY <2>2, <3>1, <3>2 DEF Named, AllNamed
      <4>2. Named(names[k]) \in SUBSET Nat
        BY <1>1, <4>1
      <4>3. Min(Named(names[k])) \in Named(names[k])
        BY <4>1, <4>2, MinIsLeast
      <4>4. QED
        BY <4>1, <4>3
    <3>4. Selected = [k \in 1 .. Len(names) |-> Min(Named(names[k]))]
      BY <2>2, <3>1, <3>2 DEF Selected
    <3>5. Selected \in [1 .. Len(names) -> DOMAIN Snapshot]
      BY <3>3, <3>4
    <3>6. QED
      BY <3>2, <3>5, FunctionIsSeq
  <2>3. QED
    BY <2>1, <2>2
<1>3. QED
  BY <1>2, ElementOfSeq

LEMMA ViewTyped ==
    ASSUME DirOK, seen \in 1 .. Len(commits), NEW i \in DOMAIN Snapshot
    PROVE  /\ View[i].rows = segs[Snapshot[i].name].rows /\ View[i].rows \in Seq(1 .. MaxRows)
           /\ View[i].shapes = segs[Snapshot[i].name].shapes /\ View[i].shapes \in Shapes
           /\ View[i].deleted = Deleted(Snapshot[i]) /\ View[i].deleted \in SUBSET Nat
<1>1. PICK e \in Filed : e = Snapshot[i]
  BY SnapshotTyped
<1>2. /\ segs[e.name].rows \in Seq(1 .. MaxRows) /\ segs[e.name].shapes \in Shapes
      /\ Deleted(e) \in SUBSET Nat
  BY FiledSegments
<1>3. /\ View[i].rows = segs[Snapshot[i].name].rows
      /\ View[i].shapes = segs[Snapshot[i].name].shapes
      /\ View[i].deleted = Deleted(Snapshot[i])
  BY DEF View
<1>4. QED
  BY <1>1, <1>2, <1>3

LEMMA ViewKept ==
    ASSUME DirOK, Keeps, seen \in 1 .. Len(commits), seen' = seen, request' = request
    PROVE  /\ Snapshot' = Snapshot /\ View' = View
           /\ Selected' = Selected /\ (AllNamed' <=> AllNamed)
           /\ \A i \in DOMAIN Snapshot : segs'[Snapshot[i].name] = segs[Snapshot[i].name]
<1>1. Snapshot' = Snapshot
  BY DEF Keeps, Snapshot
<1>2. \A i \in DOMAIN Snapshot : /\ Snapshot[i].name \in 1 .. Len(segs)
                                 /\ Snapshot[i].del_gen # 0 =>
                                       /\ Snapshot[i].name \in 1 .. Len(dels)
                                       /\ Snapshot[i].del_gen \in 1 .. Len(dels[Snapshot[i].name])
  <2> SUFFICES ASSUME NEW i \in DOMAIN Snapshot
               PROVE  /\ Snapshot[i].name \in 1 .. Len(segs)
                      /\ Snapshot[i].del_gen # 0 =>
                            /\ Snapshot[i].name \in 1 .. Len(dels)
                            /\ Snapshot[i].del_gen \in 1 .. Len(dels[Snapshot[i].name])
    OBVIOUS
  <2>1. PICK e \in Filed : e = Snapshot[i]
    BY SnapshotTyped
  <2>2. /\ e.name \in 1 .. Len(segs) /\ e.del_gen \in Nat /\ e.del_gen <= Len(dels[e.name])
        /\ dels[e.name] \in Seq(SUBSET Nat)
    BY FiledSegments DEF Generations
  <2>3. Len(dels) = Len(segs)
    BY DEF DirOK
  <2>4. QED
    BY <2>1, <2>2, <2>3
<1>3. \A i \in DOMAIN Snapshot : segs'[Snapshot[i].name] = segs[Snapshot[i].name]
  BY <1>2 DEF Keeps
<1>4. \A i \in DOMAIN Snapshot : Snapshot[i].del_gen # 0 =>
          dels'[Snapshot[i].name][Snapshot[i].del_gen] = dels[Snapshot[i].name][Snapshot[i].del_gen]
  BY <1>2 DEF Keeps
<1>5. View' = View
  BY <1>1, <1>3, <1>4 DEF View, Deleted
<1>6. Selected' = Selected
  BY <1>1 DEF Selected, Named
<1>7. AllNamed' <=> AllNamed
  BY <1>1 DEF AllNamed, Named
<1>8. QED
  BY <1>1, <1>3, <1>5, <1>6, <1>7

-----------------------------------------------------------------------------
(* A step of the writer disturbs nothing of a call.                        *)

\* What is left of the invariant when the directory is in order.
CallOK == ReaderOK /\ SchemaOK /\ BuiltSchema /\ FailsForAReason
             /\ BuiltRows /\ BuiltGlobals /\ BatchesAreSegmentScoped /\ OutIsRows

\* Parts that only what the call has built decides.
LEMMA BuiltKept ==
    ASSUME BuiltGlobals, BatchesAreSegmentScoped, OutIsRows,
           UNCHANGED <<request, schema, doc_base, out>>
    PROVE  BuiltGlobals' /\ BatchesAreSegmentScoped' /\ OutIsRows'
<1>1. Columns' = Columns
  BY DEF Columns, Wants
<1>2. BuiltGlobals'
  BY <1>1 DEF BuiltGlobals
<1>3. BatchesAreSegmentScoped'
  BY DEF BatchesAreSegmentScoped, BatchRows
<1>4. OutIsRows'
  BY DEF OutIsRows
<1>5. QED
  BY <1>2, <1>3, <1>4

LEMMA SchemaKept ==
    ASSUME DirOK, Keeps, SchemaOK, seen \in 0 .. Len(commits), UNCHANGED <<seen, request, schema>>
    PROVE  SchemaOK'
<1>1. CASE seen = 0
  <2>1. ToSet(schema) = {}
    BY <1>1 DEF SchemaOK
  <2>2. QED
    BY <2>1 DEF SchemaOK
<1>2. CASE seen # 0
  <2>1. seen \in 1 .. Len(commits)
    BY <1>2 DEF DirOK
  <2>2. /\ Snapshot' = Snapshot /\ Selected' = Selected
        /\ \A i \in DOMAIN Snapshot : segs'[Snapshot[i].name] = segs[Snapshot[i].name]
    BY <2>1, ViewKept
  <2>3. ASSUME NEW e \in ToSet(schema)
        PROVE  /\ e[2] # NoShape
               /\ \E i \in ToSet(Selected) :
                     i \in DOMAIN Snapshot /\ segs'[Snapshot'[i].name].shapes[e[1]] = e[2]
    BY <2>2, <2>3 DEF SchemaOK, Shape
  <2>4. QED
    BY <1>2, <2>2, <2>3 DEF SchemaOK, Shape
<1>3. QED
  BY <1>1, <1>2

\* Why a read fails: two selected segments disagree about the shape of a field
\* it wants, one of them has terms that are not UTF-8, or one of the rest.
Disagreement ==
    \E i, j \in ToSet(Selected) : \E f \in ToSet(FieldNames) :
        /\ Wants(f) /\ NoShape \notin {Shape(i, f), Shape(j, f)}
        /\ Shape(i, f) # Shape(j, f)
NotAsDeclared == \E i \in ToSet(Selected) : ~DecodesAsDeclared(i)
Reason ==
    \/ ~Understood
    \/ seen # 0 /\ (~AllNamed \/ ~Executable \/ Columns = <<>> \/ oldest > seen
                     \/ NotAsDeclared \/ Disagreement)

LEMMA ReasonIsReason == FailsForAReason <=> (pc = "failed" => Reason)
BY DEF FailsForAReason, Reason, NotAsDeclared, Disagreement

\* A reason stays one: what a call has opened does not change.
LEMMA ReasonKept ==
    ASSUME ConstantsAssumption, DirOK, Keeps, request \in Requests, seen \in 0 .. Len(commits),
           UNCHANGED <<seen, request, schema>>, Reason
    PROVE  Reason'
<1>1. Understood' <=> Understood
  BY DEF Understood
<1> SUFFICES ASSUME Understood PROVE Reason'
  BY <1>1 DEF Reason
<1>2. seen \in 1 .. Len(commits) /\ seen' # 0
  BY DEF Reason, DirOK
<1>3. /\ Snapshot' = Snapshot /\ Selected' = Selected /\ (AllNamed' <=> AllNamed)
      /\ \A i \in DOMAIN Snapshot : segs'[Snapshot[i].name] = segs[Snapshot[i].name]
  BY <1>2, ViewKept
<1>4. Columns' = Columns
  BY DEF Columns, Wants
<1>5. Executable' <=> Executable
  BY DEF Executable
<1>6. CASE ~AllNamed \/ ~Executable \/ Columns = <<>>
  BY <1>2, <1>3, <1>4, <1>5, <1>6 DEF Reason
<1>7. CASE oldest > seen
  <2>1. oldest \in Nat /\ oldest' \in Nat /\ oldest <= oldest' /\ seen \in Nat
    BY <1>2 DEF DirOK, Keeps
  <2>2. oldest' > seen'
    BY <1>7, <2>1
  <2>3. QED
    BY <1>2, <2>2 DEF Reason
<1>8. CASE AllNamed /\ (NotAsDeclared \/ Disagreement)
  <2>1. \A i \in ToSet(Selected) : i \in DOMAIN Snapshot
    BY <1>2, <1>8, SelectedTyped DEF ToSet
  <2>2. \A i \in ToSet(Selected) : segs'[Snapshot'[i].name] = segs[Snapshot[i].name]
    BY <1>3, <2>1
  <2>3. \A f : Wants(f)' <=> Wants(f)
    BY DEF Wants
  <2>4. CASE Disagreement
    <3>1. Disagreement'
      BY <1>3, <2>2, <2>3, <2>4 DEF Disagreement, Shape, Wants
    <3>2. QED
      BY <1>2, <3>1 DEF Reason
  <2>5. CASE NotAsDeclared
    <3>1. PICK i \in ToSet(Selected) : ~DecodesAsDeclared(i)
      BY <2>5 DEF NotAsDeclared
    <3>2. ~DecodesAsDeclared(i)'
      BY <2>2, <3>1 DEF DecodesAsDeclared, Scans, Shape, Wants
    <3>3. NotAsDeclared'
      BY <1>3, <3>2 DEF NotAsDeclared
    <3>4. QED
      BY <1>2, <3>3 DEF Reason
  <2>6. QED
    BY <1>8, <2>4, <2>5
<1>9. QED
  BY <1>6, <1>7, <1>8 DEF Reason

LEMMA FailedKept ==
    ASSUME ConstantsAssumption, DirOK, Keeps, FailsForAReason, request \in Requests,
           seen \in 0 .. Len(commits), UNCHANGED <<pc, seen, request, schema>>
    PROVE  FailsForAReason'
<1>1. pc = "failed" => Reason
  BY ReasonIsReason
<1>2. pc' = "failed" => Reason'
  BY <1>1, ReasonKept
<1>3. QED
  BY <1>2 DEF FailsForAReason, Reason, NotAsDeclared, Disagreement

LEMMA WriterKeepsCall ==
    ASSUME ConstantsAssumption, DirOK, Keeps, CallOK, UNCHANGED reader PROVE CallOK'
<1>1. seen \in 0 .. Len(commits) /\ request \in Requests
      /\ UNCHANGED <<pc, call, request, seen, next, schema, doc_base, out>>
  BY DEF CallOK, ReaderOK, reader
<1>2. CASE seen = 0
  <2>1. pc \in {"idle", "open", "failed"}
    BY <1>2 DEF CallOK, ReaderOK
  <2>2. ReaderOK'
    <3>1. 0 \in 0 .. Len(commits')
      BY DEF DirOK, Keeps
    <3>2. QED
      BY <1>1, <1>2, <2>1, <3>1 DEF CallOK, ReaderOK
  <2>3. BuiltSchema' /\ BuiltRows'
    BY <1>1, <2>1 DEF BuiltSchema, BuiltRows, Got
  <2>4. QED
    BY <1>1, <2>2, <2>3, BuiltKept, SchemaKept, FailedKept DEF CallOK
<1>3. CASE seen # 0
  <2>1. seen \in 1 .. Len(commits)
    BY <1>1, <1>3 DEF DirOK
  <2>2. /\ View' = View /\ Selected' = Selected /\ (AllNamed' <=> AllNamed)
    BY <1>1, <2>1, ViewKept
  <2>3. ReaderOK'
    <3>1. seen \in 0 .. Len(commits')
      BY <1>1 DEF DirOK, Keeps
    <3>2. Understood' <=> Understood
      BY <1>1 DEF Understood
    <3>3. QED
      BY <1>1, <2>2, <3>1, <3>2 DEF CallOK, ReaderOK
  <2>4. Wanted' = Wanted
    BY <1>1 DEF Wanted, Wants
  <2>5. BuiltSchema'
    BY <1>1, <2>2, <2>4 DEF CallOK, BuiltSchema
  <2>6. BuiltRows'
    BY <1>1, <2>2 DEF CallOK, BuiltRows, Got
  <2>7. QED
    BY <1>1, <2>3, <2>5, <2>6, BuiltKept, SchemaKept, FailedKept DEF CallOK
<1>4. QED
  BY <1>2, <1>3

-----------------------------------------------------------------------------
(* The steps of a call, before it reads rows.                              *)

LEMMA NothingPlaced == ASSUME NEW C, NEW mode PROVE Placed(FlattenSeq(<<>>), C, 0, mode)
<1>1. Len(<<>>) = 0 /\ DOMAIN <<>> = {}
  OBVIOUS
<1>2. QED
  BY <1>1, FlattenEmpty DEF Placed

LEMMA BeginKeepsCall == ASSUME DirOK, CallOK, Begin PROVE CallOK'
<1>1. /\ pc' = "open" /\ call' \in {"info", "get"} /\ seen' = 0 /\ next' = 0 /\ schema' = <<>>
      /\ doc_base' = 0 /\ out' = <<>> /\ request' = request /\ commits' = commits
  BY DEF Begin, dir
<1>2. DOMAIN <<>> = {} /\ ToSet(<<>>) = {}
  BY DEF ToSet
<1>3. ReaderOK'
  <2>1. 0 \in 0 .. Len(commits)
    BY DEF DirOK
  <2>2. QED
    BY <1>1, <2>1 DEF ReaderOK, CallOK
<1>4. SchemaOK'
  <2>1. <<>> \in Seq(FieldEntry)
    BY EmptySeq
  <2>2. QED
    BY <1>1, <1>2, <2>1 DEF SchemaOK
<1>5. BuiltSchema' /\ FailsForAReason' /\ BuiltRows'
  BY <1>1 DEF BuiltSchema, FailsForAReason, BuiltRows, Got
<1>6. BuiltGlobals'
  BY <1>1, NothingPlaced DEF BuiltGlobals
<1>7. BatchesAreSegmentScoped'
  BY <1>1, <1>2 DEF BatchesAreSegmentScoped
<1>8. OutIsRows'
  <2>1. <<>> \in Seq(Seq({}))
    BY EmptySeq
  <2>2. QED
    BY <1>1, <2>1 DEF OutIsRows
<1>9. QED
  BY <1>3, <1>4, <1>5, <1>6, <1>7, <1>8 DEF CallOK

LEMMA OpenKeepsCall ==
    ASSUME DirOK, Keeps, CallOK, OpenCommit \/ OpenSegment PROVE CallOK'
<1>1. /\ pc = "open" /\ pc' = "open" /\ seen' \in 1 .. Len(commits) /\ next' \in Nat /\ next' >= 1
      /\ Understood /\ Understood'
      /\ UNCHANGED <<call, request, schema, doc_base, out, commits>>
  <2>1. Len(commits) \in 1 .. Len(commits)
    BY DEF DirOK
  <2>2. CASE OpenCommit
    BY <2>1, <2>2 DEF OpenCommit, dir, Understood
  <2>3. CASE OpenSegment
    <3>1. next \in Nat /\ seen \in 1 .. Len(commits) /\ Understood
      BY <2>1, <2>3 DEF OpenSegment, CallOK, ReaderOK
    <3>2. QED
      BY <2>3, <3>1 DEF OpenSegment, dir, Understood
  <2>4. QED
    BY <2>2, <2>3
<1>2. schema = <<>> /\ out = <<>> /\ doc_base = 0
  BY <1>1 DEF CallOK, ReaderOK
<1>3. ReaderOK'
  BY <1>1, <1>2 DEF CallOK, ReaderOK
<1>4. SchemaOK'
  <2>1. ToSet(<<>>) = {} /\ <<>> \in Seq(FieldEntry)
    BY EmptySeq DEF ToSet
  <2>2. QED
    BY <1>1, <1>2, <2>1 DEF SchemaOK
<1>5. BuiltSchema' /\ FailsForAReason' /\ BuiltRows'
  BY <1>1 DEF BuiltSchema, FailsForAReason, BuiltRows, Got
<1>6. QED
  BY <1>1, <1>3, <1>4, <1>5, BuiltKept DEF CallOK

LEMMA SelectKeepsCall ==
    ASSUME ConstantsAssumption, DirOK, Keeps, CallOK, Select PROVE CallOK'
<1>1. /\ pc = "open" /\ pc' = "plan" /\ seen # 0 /\ AllNamed /\ next' = 1
      /\ UNCHANGED <<call, request, seen, schema, doc_base, out, commits>>
  BY DEF Select, dir
<1>0. Understood
  BY <1>1 DEF CallOK, ReaderOK
<1>2. schema = <<>> /\ out = <<>> /\ doc_base = 0 /\ request \in Requests /\ seen \in 1 .. Len(commits)
  BY <1>1 DEF CallOK, ReaderOK, DirOK
<1>3. View' = View /\ Selected' = Selected /\ AllNamed' /\ Len(Selected) \in Nat
  BY <1>1, <1>2, ViewKept, SelectedTyped
<1>4. ReaderOK'
  <2>1. Understood'
    BY <1>0, <1>1 DEF Understood
  <2>2. 1 \in 1 .. Len(Selected) + 1
    BY <1>3
  <2>3. QED
    BY <1>1, <1>2, <1>3, <2>1, <2>2 DEF CallOK, ReaderOK
<1>5. BuiltSchema'
  <2>1. ToSet(schema') = {}
    BY <1>1, <1>2 DEF ToSet
  <2>2. Covers(View', Selected', Wanted', {}, next' - 1)
    BY <1>1 DEF Covers
  <2>3. QED
    BY <1>1, <2>1, <2>2 DEF BuiltSchema
<1>6. FailsForAReason' /\ BuiltRows'
  BY <1>1 DEF FailsForAReason, BuiltRows, Got
<1>7. QED
  BY <1>1, <1>2, <1>4, <1>5, <1>6, BuiltKept, SchemaKept DEF CallOK

LEMMA ResolvedKeepsCall ==
    ASSUME ConstantsAssumption, DirOK, Keeps, CallOK, Resolved PROVE CallOK'
<1>1. /\ pc = "plan" /\ AllVisited
      /\ \/ call = "info" /\ pc' = "done" /\ next' = next
         \/ call # "info" /\ pc' = "batch" /\ next' = 1
      /\ UNCHANGED <<call, request, seen, schema, doc_base, out, commits>>
  BY DEF Resolved, dir
<1>2. /\ seen \in 1 .. Len(commits) /\ AllNamed /\ Understood /\ next \in 1 .. Len(Selected) + 1
      /\ out = <<>> /\ doc_base = 0 /\ request \in Requests
  BY <1>1 DEF CallOK, ReaderOK, DirOK
<1>3. View' = View /\ Selected' = Selected /\ AllNamed' /\ Len(Selected) \in Nat
  BY <1>1, <1>2, ViewKept, SelectedTyped
<1>4. next - 1 = Len(Selected) /\ next \in Nat
  BY <1>1, <1>2, <1>3 DEF AllVisited
<1>5. ReaderOK'
  <2>1. Understood'
    BY <1>1, <1>2 DEF Understood
  <2>2. 1 \in 1 .. Len(Selected) + 1
    BY <1>3
  <2>3. QED
    BY <1>1, <1>2, <1>3, <1>4, <2>1, <2>2 DEF CallOK, ReaderOK
<1>6. BuiltSchema'
  <2>1. Wanted' = Wanted
    BY <1>1 DEF Wanted, Wants
  <2>2. QED
    BY <1>1, <1>3, <1>4, <2>1 DEF CallOK, BuiltSchema
<1>7. BuiltRows'
  <2>1. AskedUpTo(View, request.row_mode, Selected, 0) = <<>>
    <3>1. [k \in 1 .. 0 |-> AskedIn(View, request.row_mode, Selected[k])] = <<>>
      OBVIOUS
    <3>2. QED
      BY <3>1, FlattenEmpty DEF AskedUpTo
  <2>2. Answers(View, FlattenSeq(<<>>), <<>>)
    BY FlattenEmpty DEF Answers
  <2>3. pc' = "batch" => /\ out' = <<>> /\ next' - 1 = 0
                         /\ View' = View /\ Selected' = Selected /\ request' = request
    BY <1>1, <1>2, <1>3
  <2>4. ~Got'
    BY <1>1 DEF Got
  <2>5. QED
    BY <2>1, <2>2, <2>3, <2>4 DEF BuiltRows
<1>8. FailsForAReason'
  BY <1>1 DEF FailsForAReason
<1>9. QED
  BY <1>1, <1>2, <1>5, <1>6, <1>7, <1>8, BuiltKept, SchemaKept DEF CallOK

LEMMA StreamedKeepsCall ==
    ASSUME ConstantsAssumption, DirOK, Keeps, CallOK, Streamed PROVE CallOK'
<1>1. /\ pc = "batch" /\ AllVisited /\ pc' = "done"
      /\ UNCHANGED <<call, request, seen, next, schema, doc_base, out, commits>>
  BY DEF Streamed, dir
<1>2. /\ seen \in 1 .. Len(commits) /\ AllNamed /\ Understood /\ next \in 1 .. Len(Selected) + 1
      /\ request \in Requests
  BY <1>1 DEF CallOK, ReaderOK, DirOK
<1>3. View' = View /\ Selected' = Selected /\ AllNamed' /\ Len(Selected) \in Nat
  BY <1>1, <1>2, ViewKept, SelectedTyped
<1>4. next - 1 = Len(Selected) /\ next \in Nat
  BY <1>1, <1>2, <1>3 DEF AllVisited
<1>5. ReaderOK'
  <2>1. Understood'
    BY <1>1, <1>2 DEF Understood
  <2>2. QED
    BY <1>1, <1>2, <1>3, <1>4, <2>1 DEF CallOK, ReaderOK
<1>6. BuiltSchema'
  <2>1. Wanted' = Wanted
    BY <1>1 DEF Wanted, Wants
  <2>2. QED
    BY <1>1, <1>3, <2>1 DEF CallOK, BuiltSchema
<1>7. BuiltRows'
  BY <1>1, <1>3, <1>4 DEF CallOK, BuiltRows, Got
<1>8. FailsForAReason'
  BY <1>1 DEF FailsForAReason
<1>9. QED
  BY <1>1, <1>2, <1>5, <1>6, <1>7, <1>8, BuiltKept, SchemaKept DEF CallOK

LEMMA CommitOnDisk ==
    ASSUME DirOK, seen \in 1 .. Len(commits), ~(oldest > seen), NEW i \in DOMAIN Snapshot
    PROVE  SegmentOnDisk(Snapshot[i].name) /\ LivOnDisk(Snapshot[i])
<1>1. seen \in oldest .. Len(commits)
  BY DEF DirOK
<1>2. Snapshot[i] \in ToSet(Snapshot)
  BY DEF ToSet
<1>3. QED
  BY <1>1, <1>2 DEF SegmentOnDisk, LivOnDisk, Snapshot

LEMMA ConflictIsDisagreement ==
    ASSUME SchemaOK, NEW i \in ToSet(Selected), TypeConflict(i) PROVE Disagreement
<1>1. PICK k \in DOMAIN schema : Scans(i, schema[k][1]) /\ schema[k][2] # Shape(i, schema[k][1])
  BY DEF TypeConflict
<1>2. PICK e : e = schema[k]
  OBVIOUS
<1>3. e \in ToSet(schema) /\ e \in FieldEntry
  BY <1>2, ElementOfSeq DEF ToSet, SchemaOK
<1>4. e[1] \in ToSet(FieldNames) /\ e[2] # NoShape
  BY <1>3 DEF FieldEntry, SchemaOK
<1>5. PICK j \in ToSet(Selected) : Shape(j, e[1]) = e[2]
  BY <1>3 DEF SchemaOK
<1>6. Wants(e[1]) /\ Shape(i, e[1]) # NoShape /\ Shape(i, e[1]) # Shape(j, e[1])
  BY <1>1, <1>2, <1>5 DEF Scans
<1>7. QED
  BY <1>4, <1>5, <1>6 DEF Disagreement

LEMMA RefuseHasReason ==
    ASSUME ConstantsAssumption, DirOK, CallOK, Refuse PROVE Reason
<1> SUFFICES ASSUME Understood, seen # 0, AllNamed, Executable, Columns # <<>>,
                    ~(oldest > seen), ~NotAsDeclared
             PROVE  Disagreement
  <2>1. seen = 0 => ~Understood
    BY DEF Refuse, CallOK, ReaderOK
  <2>2. QED
    BY <2>1 DEF Reason
<1>1. seen \in 1 .. Len(commits) /\ request \in Requests
  BY DEF CallOK, ReaderOK, DirOK
<1>2. DOMAIN Snapshot = 1 .. Len(Snapshot)
  BY <1>1, SnapshotTyped
<1>3. \A i \in DOMAIN Snapshot : SegmentOnDisk(Snapshot[i].name) /\ LivOnDisk(Snapshot[i])
  BY <1>1, CommitOnDisk
<1>4. ASSUME pc = "open", next <= Len(Snapshot), ~SegmentOnDisk(Snapshot[next].name) PROVE FALSE
  <2>1. next \in DOMAIN Snapshot
    BY <1>2, <1>4 DEF CallOK, ReaderOK
  <2>2. QED
    BY <1>3, <1>4, <2>1
<1>5. ASSUME pc \in {"plan", "batch"}, next <= Len(Selected)
      PROVE  Selected[next] \in DOMAIN Snapshot /\ Selected[next] \in ToSet(Selected)
  <2>1. next \in 1 .. Len(Selected)
    BY <1>1, <1>5, SelectedTyped DEF CallOK, ReaderOK
  <2>2. QED
    BY <1>1, <2>1, SelectedTyped DEF ToSet
<1>6. ASSUME pc = "batch", next <= Len(Selected) PROVE Readable(Selected[next])
  BY <1>3, <1>5, <1>6 DEF Readable, NotAsDeclared
<1>7. pc = "plan" /\ next <= Len(Selected) /\ TypeConflict(Selected[next])
  BY <1>3, <1>4, <1>5, <1>6 DEF Refuse
<1>8. QED
  BY <1>5, <1>7, ConflictIsDisagreement DEF CallOK

LEMMA RefuseKeepsCall ==
    ASSUME ConstantsAssumption, DirOK, Keeps, CallOK, Refuse PROVE CallOK'
<1>1. /\ pc' = "failed"
      /\ UNCHANGED <<call, request, seen, next, schema, doc_base, out>>
      /\ UNCHANGED <<segs, commits, oldest>>
  BY DEF Refuse, Fail, dir
<1>2. ReaderOK'
  BY <1>1 DEF CallOK, ReaderOK
<1>3. BuiltSchema' /\ BuiltRows'
  BY <1>1 DEF BuiltSchema, BuiltRows, Got
<1>4. request \in Requests /\ seen \in 0 .. Len(commits)
  BY DEF CallOK, ReaderOK
<1>a. Reason'
  BY <1>1, <1>4, RefuseHasReason, ReasonKept
<1>5. FailsForAReason'
  BY <1>a DEF FailsForAReason, Reason, NotAsDeclared, Disagreement
<1>6. SchemaOK'
  <2>1. seen \in 0 .. Len(commits)
    BY DEF CallOK, ReaderOK
  <2>2. QED
    BY <1>1, <2>1, SchemaKept DEF CallOK
<1>7. QED
  BY <1>1, <1>2, <1>3, <1>5, <1>6, BuiltKept DEF CallOK

-----------------------------------------------------------------------------
(* Planning a segment adds its fields.                                     *)

Fresh(i) == {f \in ToSet(FieldNames) : Scans(i, f) /\ ~Known(f)}

LEMMA KnownFields == ASSUME NEW f PROVE Known(f) <=> \E e \in ToSet(schema) : e[1] = f
  BY DEF Known, ToSet

LEMMA ReconciledAdds ==
    ASSUME ConstantsAssumption, DirOK, seen \in 1 .. Len(commits), schema \in Seq(FieldEntry),
           NEW i \in DOMAIN Snapshot
    PROVE  /\ Reconciled(i) \in Seq(FieldEntry)
           /\ ToSet(Reconciled(i)) = ToSet(schema) \cup {<<f, Shape(i, f)>> : f \in Fresh(i)}
<1> DEFINE At == {n \in DOMAIN FieldNames : Scans(i, FieldNames[n]) /\ ~Known(FieldNames[n])}
<1> DEFINE fresh == Chosen(FieldNames, At)
<1> DEFINE added == [j \in DOMAIN fresh |-> <<fresh[j], Shape(i, fresh[j])>>]
<1>1. FieldNames \in Seq(ToSet(FieldNames))
  BY DEF ConstantsAssumption
<1>2. /\ fresh \in Seq(ToSet(FieldNames)) /\ Len(fresh) \in Nat /\ DOMAIN fresh = 1 .. Len(fresh)
      /\ \A j \in DOMAIN fresh : \E n \in At : fresh[j] = FieldNames[n]
      /\ \A n \in At : \E j \in DOMAIN fresh : fresh[j] = FieldNames[n]
  <2>1. At \in SUBSET (DOMAIN FieldNames)
    OBVIOUS
  <2> HIDE DEF At
  <2>2. QED
    BY <1>1, <2>1, ChosenAreChosen
<1>3. Reconciled(i) = schema \o added
  BY DEF Reconciled
<1> HIDE DEF fresh
<1>4. \A j \in DOMAIN fresh : fresh[j] \in Fresh(i)
  <2>1. \A n \in At : FieldNames[n] \in Fresh(i)
    BY DEF Fresh, ToSet
  <2> HIDE DEF At
  <2>2. QED
    BY <1>2, <2>1
<1>5. \A f \in Fresh(i) : \E j \in DOMAIN fresh : fresh[j] = f
  <2>1. \A f \in Fresh(i) : \E n \in At : FieldNames[n] = f
    BY DEF Fresh, ToSet
  <2> HIDE DEF At
  <2>2. QED
    BY <1>2, <2>1
<1>6. \A f \in ToSet(FieldNames) : Shape(i, f) \in ShapeNames
  <2>1. PICK g \in Flushes : g.shapes = segs[Snapshot[i].name].shapes
    BY ViewTyped DEF Shapes
  <2>2. QED
    BY <2>1 DEF Shape, ShapeNames
<1>7. added \in [1 .. Len(fresh) -> FieldEntry]
  <2>1. \A j \in DOMAIN fresh : fresh[j] \in ToSet(FieldNames)
    BY <1>4 DEF Fresh
  <2>2. QED
    BY <1>2, <1>6, <2>1 DEF FieldEntry
<1>8. added \in Seq(FieldEntry) /\ DOMAIN added = DOMAIN fresh
  BY <1>2, <1>7, FunctionIsSeq
<1>9. ToSet(added) = {<<f, Shape(i, f)>> : f \in Fresh(i)}
  <2>1. \A j \in DOMAIN fresh : added[j] \in {<<f, Shape(i, f)>> : f \in Fresh(i)}
    BY <1>4
  <2>2. \A f \in Fresh(i) : \E j \in DOMAIN fresh : added[j] = <<f, Shape(i, f)>>
    BY <1>5
  <2> HIDE DEF added
  <2>3. QED
    BY <1>8, <2>1, <2>2 DEF ToSet
<1> HIDE DEF added
<1>10. QED
  BY <1>3, <1>8, <1>9, ConcatProperties, ConcatElements

LEMMA PlanKeepsCall ==
    ASSUME ConstantsAssumption, DirOK, Keeps, CallOK, PlanSegment PROVE CallOK'
<1> DEFINE i == Selected[next]
<1>1. /\ pc = "plan" /\ pc' = "plan" /\ next <= Len(Selected) /\ next' = next + 1
      /\ schema' = Reconciled(i)
      /\ UNCHANGED <<call, request, seen, doc_base, out, commits, segs>>
  BY DEF PlanSegment, dir
<1>2. /\ seen \in 1 .. Len(commits) /\ AllNamed /\ Understood /\ next \in 1 .. Len(Selected) + 1
      /\ out = <<>> /\ doc_base = 0 /\ request \in Requests /\ schema \in Seq(FieldEntry)
  BY <1>1 DEF CallOK, ReaderOK, SchemaOK, DirOK
<1>3. Len(Selected) \in Nat /\ next \in 1 .. Len(Selected) /\ i \in DOMAIN Snapshot
  <2>1. Len(Selected) \in Nat
    BY <1>2, SelectedTyped
  <2>2. next \in 1 .. Len(Selected)
    BY <1>1, <1>2, <2>1
  <2>3. QED
    BY <1>2, <2>1, <2>2, SelectedTyped
<1>4. View' = View /\ Selected' = Selected /\ AllNamed' /\ Snapshot' = Snapshot
  BY <1>1, <1>2, ViewKept
<1>5. ReaderOK'
  <2>1. Understood'
    BY <1>1, <1>2 DEF Understood
  <2>2. QED
    BY <1>1, <1>2, <1>3, <1>4, <2>1 DEF CallOK, ReaderOK
<1>6. /\ schema' \in Seq(FieldEntry)
      /\ ToSet(schema') = ToSet(schema) \cup {<<f, Shape(i, f)>> : f \in Fresh(i)}
  BY <1>1, <1>2, <1>3, ReconciledAdds
<1> HIDE DEF i
<1>7. SchemaOK'
  <2> DEFINE From(e) == \E j \in ToSet(Selected) : j \in DOMAIN Snapshot /\ Shape(j, e[1]) = e[2]
  <2>1. \A e \in ToSet(schema) : e[2] # NoShape /\ From(e)
    BY DEF CallOK, SchemaOK
  <2>a. i \in ToSet(Selected)
    BY <1>2, <1>3, SelectedTyped DEF ToSet, i
  <2>2. \A f \in Fresh(i) : Shape(i, f) # NoShape
    BY DEF Fresh, Scans
  <2>3. \A e \in ToSet(schema') : e[2] # NoShape /\ From(e)
    <3>1. \A f \in Fresh(i) : From(<<f, Shape(i, f)>>)
      BY <1>3, <2>a
    <3> HIDE DEF From
    <3>2. QED
      BY <1>6, <2>1, <2>2, <3>1
  <2>4. QED
    BY <1>1, <1>2, <1>4, <1>6, <2>3 DEF SchemaOK, Shape
<1>8. BuiltSchema'
  <2>1. Covers(View, Selected, Wanted, ToSet(schema), next - 1)
    BY <1>1 DEF CallOK, BuiltSchema
  <2>2. View[i].shapes = segs[Snapshot[i].name].shapes
    BY <1>2, <1>3, ViewTyped
  <2>3. Covers(View, Selected, Wanted, ToSet(schema'), next)
    <3> SUFFICES ASSUME NEW f \in ToSet(FieldNames)
                 PROVE  (\E e \in ToSet(schema') : e[1] = f)
                           <=> (f \in Wanted /\ \E k \in 1 .. next : View[Selected[k]].shapes[f] # NoShape)
      BY DEF Covers
    <3>1. (\E e \in ToSet(schema) : e[1] = f)
             <=> (f \in Wanted /\ \E k \in 1 .. next - 1 : View[Selected[k]].shapes[f] # NoShape)
      BY <2>1 DEF Covers
    <3>2. (\E e \in ToSet(schema') : e[1] = f) <=> (\E e \in ToSet(schema) : e[1] = f) \/ f \in Fresh(i)
      <4>1. ASSUME NEW e \in ToSet(schema'), e[1] = f
            PROVE  e \in ToSet(schema) \/ f \in Fresh(i)
        <5>1. e \in ToSet(schema) \/ \E g \in Fresh(i) : e = <<g, Shape(i, g)>>
          BY <1>6
        <5>2. QED
          BY <4>1, <5>1
      <4>2. ASSUME f \in Fresh(i) PROVE \E e \in ToSet(schema') : e[1] = f
        <5>1. <<f, Shape(i, f)>> \in ToSet(schema')
          BY <1>6, <4>2
        <5>2. QED
          BY <5>1
      <4>3. \A e \in ToSet(schema) : e \in ToSet(schema')
        BY <1>6
      <4>4. QED
        BY <4>1, <4>2, <4>3
    <3>3. f \in Fresh(i) <=> (View[i].shapes[f] # NoShape /\ f \in Wanted
                                 /\ ~ \E e \in ToSet(schema) : e[1] = f)
      BY <2>2, KnownFields DEF Fresh, Scans, Shape, Wanted
    <3>4. (\E k \in 1 .. next : View[Selected[k]].shapes[f] # NoShape)
             <=> \/ \E k \in 1 .. next - 1 : View[Selected[k]].shapes[f] # NoShape
                 \/ View[i].shapes[f] # NoShape
      <4>1. \A k \in 1 .. next : k \in 1 .. next - 1 \/ k = next
        BY <1>3
      <4>2. next \in 1 .. next /\ \A k \in 1 .. next - 1 : k \in 1 .. next
        BY <1>3
      <4>3. QED
        BY <4>1, <4>2 DEF i
    <3>5. QED
      BY <3>1, <3>2, <3>3, <3>4
  <2>4. Wanted' = Wanted /\ next' - 1 = next
    BY <1>1, <1>3 DEF Wanted, Wants
  <2>5. QED
    BY <1>1, <1>4, <2>3, <2>4 DEF BuiltSchema
<1>9. FailsForAReason' /\ BuiltRows'
  BY <1>1 DEF FailsForAReason, BuiltRows, Got
<1>10. BuiltGlobals' /\ BatchesAreSegmentScoped' /\ OutIsRows'
  <2>1. BuiltGlobals'
    BY <1>1, <1>2, NothingPlaced DEF BuiltGlobals
  <2>2. BatchesAreSegmentScoped' /\ OutIsRows'
    BY <1>1 DEF CallOK, BatchesAreSegmentScoped, BatchRows, OutIsRows
  <2>3. QED
    BY <2>1, <2>2
<1>11. QED
  BY <1>5, <1>7, <1>8, <1>9, <1>10 DEF CallOK

-----------------------------------------------------------------------------
(* The rows of a segment are the documents asked of it.                    *)

LEMMA BatchRowsPositive ==
    ConstantsAssumption /\ request \in Requests => BatchRows \in Nat /\ BatchRows >= 1
<1> SUFFICES ASSUME ConstantsAssumption, request \in Requests PROVE BatchRows \in Nat /\ BatchRows >= 1
  OBVIOUS
<1>1. PICK n \in Nat : n = request.batch_rows
  BY DEF ConstantsAssumption
<1>2. {n, 1} \in SUBSET (0 .. n + 1) /\ {n, 1} # {} /\ n + 1 \in Nat
  OBVIOUS
<1>3. Max({n, 1}) \in {n, 1} /\ \A k \in {n, 1} : k <= Max({n, 1})
  BY <1>2, MaxIsGreatest
<1>4. QED
  BY <1>1, <1>3 DEF BatchRows

LEMMA RowIsDocument ==
    ASSUME ConstantsAssumption, DirOK, seen \in 1 .. Len(commits),
           NEW i \in DOMAIN Snapshot, NEW d \in Docs(Snapshot[i])
    PROVE  /\ DOMAIN Row(i, d) = ToSet(Columns)
           /\ IsDocument(View, Row(i, d), <<i, d>>)
           /\ "_seg" \in ToSet(Columns) => Row(i, d)["_seg"] = i - 1
           /\ "_doc" \in ToSet(Columns) => Row(i, d)["_doc"] = d
           /\ "_global_doc" \in ToSet(Columns) => Row(i, d)["_global_doc"] = doc_base + d
<1>1. /\ View[i].rows = segs[Snapshot[i].name].rows
      /\ View[i].shapes = segs[Snapshot[i].name].shapes
      /\ View[i].deleted = Deleted(Snapshot[i])
  BY ViewTyped
<1>2. DOMAIN Row(i, d) = ToSet(Columns) /\ \A c \in ToSet(Columns) : Row(i, d)[c] = Cell(i, d, c)
  BY DEF Row
<1>3. /\ Cell(i, d, "_seg") = i - 1 /\ Cell(i, d, "_doc") = d
      /\ Cell(i, d, "_global_doc") = doc_base + d
      /\ Cell(i, d, "_live") = (d \in Live(Snapshot[i]))
  BY DEF Cell
<1>4. d \in Live(Snapshot[i]) <=> d \notin View[i].deleted
  BY <1>1 DEF Live
<1>5. ASSUME NEW f \in ToSet(FieldNames)
      PROVE  Cell(i, d, f) = IF View[i].shapes[f] = NoShape THEN Null ELSE View[i].rows[d + 1]
  <2>1. f # "_seg" /\ f # "_doc" /\ f # "_global_doc" /\ f # "_live"
    BY DEF ConstantsAssumption, SystemNames
  <2>2. Cell(i, d, f) = IF segs[Snapshot[i].name].shapes[f] = NoShape THEN Null
                        ELSE segs[Snapshot[i].name].rows[d + 1]
    BY <2>1 DEF Cell
  <2>3. QED
    BY <1>1, <2>2
<1>6. IsDocument(View, Row(i, d), <<i, d>>)
  BY <1>2, <1>3, <1>4, <1>5 DEF IsDocument
<1>7. QED
  BY <1>2, <1>3, <1>6

LEMMA SegmentRowsAsked ==
    ASSUME DirOK, seen \in 1 .. Len(commits), Understood, NEW i \in DOMAIN Snapshot
    PROVE  \E n \in Nat : \E docs \in [1 .. n -> Docs(Snapshot[i])] :
              /\ SegmentRows(i) = [k \in 1 .. n |-> Row(i, docs[k])]
              /\ AskedIn(View, request.row_mode, i) = [k \in 1 .. n |-> <<i, docs[k]>>]
              /\ \A j, k \in 1 .. n : j < k => docs[j] < docs[k]
              /\ request.row_mode = "positional" => n = MaxDoc(i) /\ \A k \in 1 .. n : docs[k] = k - 1
<1>1. /\ View[i].rows = segs[Snapshot[i].name].rows /\ View[i].rows \in Seq(1 .. MaxRows)
      /\ View[i].deleted = Deleted(Snapshot[i])
  BY ViewTyped
<1>2. MaxDoc(i) \in Nat /\ Docs(Snapshot[i]) = 0 .. MaxDoc(i) - 1 /\ MaxDoc(i) = Len(View[i].rows)
  BY <1>1 DEF Docs, MaxDoc
<1> DEFINE S == Kept(i)
<1>3. S = DocsAsked(View, request.row_mode, i)
  BY <1>1, <1>2 DEF Kept, Live, DocsAsked, Understood
<1>4. S \in SUBSET Docs(Snapshot[i]) /\ (request.row_mode = "positional" => S = Docs(Snapshot[i]))
  BY <1>1, <1>2 DEF Kept, Live
<1> HIDE DEF S
<1>5. IsFiniteSet(S) /\ S \in SUBSET Nat
  <2>1. PICK m \in Int : m = MaxDoc(i) - 1
    BY <1>2
  <2>2. IsFiniteSet(0 .. m)
    BY <2>1, FS_Interval
  <2>3. QED
    BY <1>2, <1>4, <2>1, <2>2, FS_Subset
<1>6. PICK n \in Nat : n = Cardinality(S)
  BY <1>5, FS_CardinalityType
<1>7. PICK docs : docs = InOrder(S)
  OBVIOUS
<1>8. /\ docs \in Seq(S) /\ DOMAIN docs = 1 .. n
      /\ \A j, k \in 1 .. n : j < k => docs[j] < docs[k]
  BY <1>5, <1>6, <1>7, InOrderIsOrdered
<1>9. docs \in [1 .. n -> Docs(Snapshot[i])]
  BY <1>4, <1>8, ElementOfSeq
<1>10. SegmentRows(i) = [k \in 1 .. n |-> Row(i, docs[k])]
  BY <1>7, <1>8 DEF SegmentRows, S
<1>11. AskedIn(View, request.row_mode, i) = [k \in 1 .. n |-> <<i, docs[k]>>]
  BY <1>3, <1>7, <1>8 DEF AskedIn
<1>12. ASSUME request.row_mode = "positional"
       PROVE  n = MaxDoc(i) /\ \A k \in 1 .. n : docs[k] = k - 1
  <2>1. PICK m \in Nat : m = MaxDoc(i)
    BY <1>2
  <2>2. S = 0 .. m - 1
    BY <1>2, <1>4, <1>12, <2>1
  <2>3. Cardinality(0 .. m - 1) = m
    BY <2>1, FS_Interval
  <2>4. \A k \in 1 .. m : InOrder(0 .. m - 1)[k] = k - 1
    BY <2>1, InOrderInterval
  <2>5. QED
    BY <1>6, <1>7, <2>1, <2>2, <2>3, <2>4
<1>13. QED
  BY <1>8, <1>9, <1>10, <1>11, <1>12

LEMMA AskedTyped ==
    ASSUME DirOK, seen \in 1 .. Len(commits), Understood, NEW D, D = DOMAIN Snapshot, NEW j \in D
    PROVE  AskedIn(View, request.row_mode, j) \in Seq(D \X Nat)
<1>1. PICK m \in Nat : \E at \in [1 .. m -> Docs(Snapshot[j])] :
         AskedIn(View, request.row_mode, j) = [k \in 1 .. m |-> <<j, at[k]>>]
  BY SegmentRowsAsked
<1>2. PICK at \in [1 .. m -> Docs(Snapshot[j])] :
         AskedIn(View, request.row_mode, j) = [k \in 1 .. m |-> <<j, at[k]>>]
  BY <1>1
<1>3. Docs(Snapshot[j]) \subseteq Nat
  BY ViewTyped DEF Docs
<1>4. \A k \in 1 .. m : <<j, at[k]>> \in D \X Nat
  BY <1>3
<1>5. [k \in 1 .. m |-> <<j, at[k]>>] \in [1 .. m -> D \X Nat]
  BY <1>4
<1>6. QED
  BY <1>2, <1>5, FunctionIsSeq

LEMMA AskedGrows ==
    ASSUME NEW T, NEW view, NEW mode, NEW selected, NEW n \in Nat,
           \A k \in 1 .. n + 1 : AskedIn(view, mode, selected[k]) \in Seq(T)
    PROVE  /\ AskedUpTo(view, mode, selected, n + 1)
                 = AskedUpTo(view, mode, selected, n) \o AskedIn(view, mode, selected[n + 1])
           /\ AskedUpTo(view, mode, selected, n) \in Seq(T)
<1> DEFINE upto == [k \in 1 .. n |-> AskedIn(view, mode, selected[k])]
<1> DEFINE more == [k \in 1 .. n + 1 |-> AskedIn(view, mode, selected[k])]
<1> DEFINE x == AskedIn(view, mode, selected[n + 1])
<1>1. x \in Seq(T) /\ n + 1 \in Nat
  OBVIOUS
<1>2. upto \in Seq(Seq(T)) /\ Len(upto) = n
  <2>1. upto \in [1 .. n -> Seq(T)]
    OBVIOUS
  <2>2. QED
    BY <2>1, FunctionIsSeq
<1>3. more \in Seq(Seq(T)) /\ Len(more) = n + 1
  <2>1. more \in [1 .. n + 1 -> Seq(T)]
    OBVIOUS
  <2>2. QED
    BY <1>1, <2>1, FunctionIsSeq
<1>4. \A k \in 1 .. n : upto[k] = more[k]
  OBVIOUS
<1>5. more[n + 1] = x
  OBVIOUS
<1>6. AskedUpTo(view, mode, selected, n + 1) = FlattenSeq(more)
      /\ AskedUpTo(view, mode, selected, n) = FlattenSeq(upto)
  BY DEF AskedUpTo
<1> HIDE DEF upto, more, x
<1>7. more = Append(upto, x)
  <2>1. PICK L : L = Seq(T)
    OBVIOUS
  <2>2. upto \in Seq(L) /\ x \in L /\ more \in Seq(L)
    BY <1>1, <1>2, <1>3, <2>1
  <2>3. /\ Append(upto, x) \in Seq(L) /\ Len(Append(upto, x)) = n + 1
        /\ \A k \in 1 .. n : Append(upto, x)[k] = upto[k]
        /\ Append(upto, x)[n + 1] = x
    <3>1. PICK u \in Seq(L), y \in L : u = upto /\ y = x /\ Len(u) = n
      BY <1>2, <2>2
    <3>2. QED
      BY <3>1, AppendExtends
  <2>4. \A k \in 1 .. n + 1 : more[k] = Append(upto, x)[k]
    BY <1>4, <1>5, <2>3
  <2>5. QED
    BY <1>3, <2>2, <2>3, <2>4, SeqEqual
<1>8. FlattenSeq(more) = FlattenSeq(upto) \o x
  BY <1>1, <1>2, <1>7, FlattenAppend
<1>9. FlattenSeq(upto) \in Seq(T)
  BY <1>2, FlattenType
<1>10. QED
  BY <1>6, <1>8, <1>9 DEF x

LEMMA AnswersConcat ==
    ASSUME NEW view, NEW S, NEW T, NEW f \in Seq(S), NEW r \in Seq(S), NEW g \in Seq(T),
           NEW a \in Seq(T), Answers(view, f, g), Answers(view, r, a)
    PROVE  Answers(view, f \o r, g \o a)
<1>1. /\ Len(f) \in Nat /\ Len(r) \in Nat /\ Len(g) = Len(f) /\ Len(a) = Len(r)
      /\ DOMAIN f = 1 .. Len(f) /\ DOMAIN r = 1 .. Len(r)
  BY DEF Answers
<1>2. /\ f \o r \in Seq(S) /\ Len(f \o r) = Len(f) + Len(r)
      /\ \A k \in 1 .. Len(f) + Len(r) :
            (f \o r)[k] = IF k <= Len(f) THEN f[k] ELSE r[k - Len(f)]
  BY ConcatProperties
<1>3. /\ Len(g \o a) = Len(f) + Len(r)
      /\ \A k \in 1 .. Len(f) + Len(r) :
            (g \o a)[k] = IF k <= Len(f) THEN g[k] ELSE a[k - Len(f)]
  <2>1. /\ Len(g \o a) = Len(g) + Len(a)
        /\ \A k \in 1 .. Len(g) + Len(a) :
              (g \o a)[k] = IF k <= Len(g) THEN g[k] ELSE a[k - Len(g)]
    BY ConcatProperties
  <2>2. QED
    BY <1>1, <2>1
<1>4. DOMAIN (f \o r) = 1 .. Len(f) + Len(r)
  BY <1>2
<1>5. ASSUME NEW k \in 1 .. Len(f) + Len(r) PROVE IsDocument(view, (f \o r)[k], (g \o a)[k])
  <2>1. CASE k <= Len(f)
    <3>1. k \in DOMAIN f
      BY <1>1, <2>1
    <3>2. QED
      BY <1>2, <1>3, <2>1, <3>1 DEF Answers
  <2>2. CASE ~(k <= Len(f))
    <3>1. k - Len(f) \in DOMAIN r
      BY <1>1, <2>2
    <3>2. QED
      BY <1>2, <1>3, <2>2, <3>1 DEF Answers
  <2>3. QED
    BY <2>1, <2>2
<1>6. QED
  BY <1>2, <1>3, <1>4, <1>5 DEF Answers

LEMMA PlacedConcat ==
    ASSUME NEW S, NEW f \in Seq(S), NEW r \in Seq(S), NEW C, NEW base \in Nat, NEW more \in Nat,
           NEW mode, Placed(f, C, base, mode),
           \A k \in 1 .. Len(r) :
              /\ DOMAIN r[k] = C
              /\ "_global_doc" \in C =>
                    /\ r[k]["_global_doc"] \in base .. base + more - 1
                    /\ mode = "positional" => r[k]["_global_doc"] = base + k - 1,
           "_global_doc" \in C =>
              \A k \in 1 .. Len(r) - 1 : r[k]["_global_doc"] < r[k + 1]["_global_doc"],
           mode = "positional" => Len(r) = more
    PROVE  Placed(f \o r, C, base + more, mode)
<1>1. PICK n \in Nat, m \in Nat : n = Len(f) /\ m = Len(r)
  OBVIOUS
<1>2. DOMAIN f = 1 .. n /\ DOMAIN (f \o r) = 1 .. n + m /\ Len(f \o r) = n + m
  BY <1>1, ConcatProperties
<1> DEFINE all == f \o r
<1>3. /\ \A k \in 1 .. n : all[k] = f[k]
      /\ \A k \in 1 .. n + m : ~(k <= n) => k - n \in 1 .. m /\ all[k] = r[k - n]
  BY <1>1, ConcatProperties
<1> HIDE DEF all
<1>4. ASSUME NEW k \in 1 .. n + m
      PROVE  /\ DOMAIN all[k] = C
             /\ "_global_doc" \in C =>
                   /\ all[k]["_global_doc"] \in 0 .. base + more - 1
                   /\ k <= n => all[k]["_global_doc"] \in 0 .. base - 1
                   /\ ~(k <= n) => all[k]["_global_doc"] \in base .. base + more - 1
                   /\ mode = "positional" => all[k]["_global_doc"] = k - 1
  <2>1. CASE k <= n
    <3>1. k \in 1 .. n /\ all[k] = f[k]
      BY <1>3, <2>1
    <3>2. /\ DOMAIN f[k] = C
          /\ "_global_doc" \in C =>
                /\ f[k]["_global_doc"] \in 0 .. base - 1
                /\ mode = "positional" => f[k]["_global_doc"] = k - 1
      BY <1>2, <3>1 DEF Placed
    <3>3. QED
      BY <2>1, <3>1, <3>2
  <2>2. CASE ~(k <= n)
    <3>1. k - n \in 1 .. m /\ all[k] = r[k - n]
      BY <1>3, <2>2
    <3>2. mode = "positional" => base = n
      BY <1>1 DEF Placed
    <3>3. PICK j \in 1 .. m : j = k - n
      BY <3>1
    <3>4. /\ DOMAIN r[j] = C
          /\ "_global_doc" \in C =>
                /\ r[j]["_global_doc"] \in base .. base + more - 1
                /\ mode = "positional" => r[j]["_global_doc"] = base + j - 1
      BY <1>1
    <3>5. all[k] = r[j] /\ (mode = "positional" => base + j - 1 = k - 1)
      BY <3>1, <3>2, <3>3
    <3>6. QED
      BY <2>2, <3>4, <3>5
  <2>3. QED
    BY <2>1, <2>2
<1>5. ASSUME "_global_doc" \in C, NEW k \in 1 .. n + m - 1
      PROVE  all[k]["_global_doc"] < all[k + 1]["_global_doc"]
  <2>1. CASE k < n
    <3>1. k \in 1 .. n - 1 /\ all[k] = f[k] /\ all[k + 1] = f[k + 1]
      BY <1>3, <2>1
    <3>2. QED
      BY <1>1, <1>5, <3>1 DEF Placed
  <2>2. CASE k = n
    <3>1. k \in 1 .. n + m /\ k + 1 \in 1 .. n + m /\ k <= n /\ ~(k + 1 <= n)
      BY <2>2
    <3>2. all[k]["_global_doc"] \in 0 .. base - 1 /\ all[k + 1]["_global_doc"] \in base .. base + more - 1
      BY <1>4, <1>5, <3>1
    <3>3. \A x \in 0 .. base - 1, y \in base .. base + more - 1 : x < y
      OBVIOUS
    <3>4. QED
      BY <3>2, <3>3
  <2>3. CASE k > n
    <3>1. k - n \in 1 .. m - 1 /\ ~(k <= n) /\ ~(k + 1 <= n) /\ k \in 1 .. n + m /\ k + 1 \in 1 .. n + m
      BY <2>3
    <3>2. PICK j \in 1 .. m - 1 : j = k - n
      BY <3>1
    <3>3. all[k] = r[j] /\ all[k + 1] = r[j + 1]
      <4>1. k + 1 - n = j + 1
        BY <3>2
      <4>2. all[k] = r[k - n]
        BY <1>3, <3>1
      <4>3. PICK h \in 1 .. n + m : h = k + 1 /\ ~(h <= n)
        BY <3>1
      <4>4. all[h] = r[h - n]
        BY <1>3, <4>3
      <4>5. QED
        BY <3>2, <4>1, <4>2, <4>3, <4>4
    <3>4. QED
      BY <1>1, <1>5, <3>2, <3>3
  <2>4. QED
    BY <2>1, <2>2, <2>3
<1>6. mode = "positional" => n + m = base + more
  BY <1>1 DEF Placed
<1>7. DOMAIN all = 1 .. n + m /\ Len(all) = n + m
  BY <1>2 DEF all
<1>8. Placed(all, C, base + more, mode)
  BY <1>4, <1>5, <1>6, <1>7 DEF Placed
<1>9. QED
  BY <1>8 DEF all

\* What BatchesAreSegmentScoped says of a batch.
InStep(row, following) ==
    /\ "_seg" \in DOMAIN row => row["_seg"] = following["_seg"]
    /\ "_doc" \in DOMAIN row => row["_doc"] < following["_doc"]
Scoped(answer, size) ==
    Len(answer) \in 1 .. size /\ \A k \in 1 .. Len(answer) - 1 : InStep(answer[k], answer[k + 1])

LEMMA PartsAreScoped ==
    ASSUME NEW S, NEW r \in Seq(S), NEW size \in Nat \ {0},
           \A k \in 1 .. Len(r) - 1 : InStep(r[k], r[k + 1])
    PROVE  \A c \in 1 .. Len(Chunks(r, size)) : Scoped(Chunks(r, size)[c], size)
<1> SUFFICES ASSUME NEW c \in 1 .. Len(Chunks(r, size)) PROVE Scoped(Chunks(r, size)[c], size)
  OBVIOUS
<1>1. PICK n \in Nat : n = Len(r)
  OBVIOUS
<1>2. PICK part : part = Chunks(r, size)[c]
  OBVIOUS
<1>3. PICK a \in Nat : /\ Len(part) \in 1 .. size /\ a + Len(part) <= n
                       /\ \A k \in 1 .. Len(part) : part[k] = r[a + k]
  <2>1. Window(part, r, size)
    BY <1>2, ChunksAreParts
  <2>2. QED
    BY <1>1, <2>1 DEF Window
<1>4. ASSUME NEW k \in 1 .. Len(part) - 1 PROVE InStep(part[k], part[k + 1])
  <2>1. k \in 1 .. Len(part) /\ k + 1 \in 1 .. Len(part) /\ a + k \in 1 .. n - 1
    BY <1>3
  <2>2. part[k] = r[a + k] /\ part[k + 1] = r[a + (k + 1)]
    BY <1>3, <2>1
  <2>3. a + (k + 1) = a + k + 1
    BY <2>1
  <2>4. PICK j \in 1 .. n - 1 : j = a + k
    BY <2>1
  <2>5. InStep(r[j], r[j + 1])
    BY <1>1
  <2>6. QED
    BY <2>2, <2>3, <2>4, <2>5
<1>5. QED
  BY <1>2, <1>3, <1>4 DEF Scoped

LEMMA BatchKeepsCall ==
    ASSUME ConstantsAssumption, DirOK, Keeps, CallOK, SegmentBatches PROVE CallOK'
<1>1. PICK i : i = Selected[next]
  OBVIOUS
<1>2. PICK R : R = SegmentRows(i)
  OBVIOUS
<1>3. /\ pc = "batch" /\ pc' = "batch" /\ next <= Len(Selected) /\ next' = next + 1
      /\ out' = out \o Chunks(R, BatchRows) /\ doc_base' = doc_base + MaxDoc(i)
      /\ UNCHANGED <<call, request, seen, schema, commits, segs>>
  BY <1>1, <1>2 DEF SegmentBatches, dir, Sliced, NextBase
<1>4. /\ seen \in 1 .. Len(commits) /\ AllNamed /\ Understood /\ next \in 1 .. Len(Selected) + 1
      /\ request \in Requests /\ doc_base \in Nat
  BY <1>3 DEF CallOK, ReaderOK, DirOK
<1>5. /\ Len(Selected) \in Nat /\ next \in 1 .. Len(Selected) /\ i \in DOMAIN Snapshot
      /\ \A k \in 1 .. Len(Selected) : Selected[k] \in DOMAIN Snapshot
  <2>1. /\ Len(Selected) \in Nat
        /\ \A k \in 1 .. Len(Selected) : Selected[k] \in DOMAIN Snapshot
    BY <1>4, SelectedTyped
  <2>2. next \in 1 .. Len(Selected)
    BY <1>3, <1>4, <2>1
  <2>3. QED
    BY <1>1, <2>1, <2>2
<1>6. View' = View /\ Selected' = Selected /\ AllNamed' /\ Snapshot' = Snapshot
  BY <1>3, <1>4, ViewKept
<1>7. Columns' = Columns /\ BatchRows' = BatchRows /\ BatchRows \in Nat \ {0}
  <2>1. Columns' = Columns
    BY <1>3 DEF Columns, Wants
  <2>2. BatchRows' = BatchRows
    BY <1>3 DEF BatchRows
  <2>3. BatchRows \in Nat /\ BatchRows >= 1
    BY <1>4, BatchRowsPositive
  <2>4. QED
    BY <2>1, <2>2, <2>3
<1>8. PICK more \in Nat : more = MaxDoc(i) /\ Docs(Snapshot[i]) = 0 .. more - 1
  BY <1>4, <1>5, ViewTyped DEF MaxDoc, Docs
<1>9. PICK n \in Nat : \E docs \in [1 .. n -> Docs(Snapshot[i])] :
         /\ R = [k \in 1 .. n |-> Row(i, docs[k])]
         /\ AskedIn(View, request.row_mode, i) = [k \in 1 .. n |-> <<i, docs[k]>>]
         /\ \A j, k \in 1 .. n : j < k => docs[j] < docs[k]
         /\ request.row_mode = "positional" => n = MaxDoc(i) /\ \A k \in 1 .. n : docs[k] = k - 1
  BY <1>2, <1>4, <1>5, SegmentRowsAsked
<1>d. PICK docs \in [1 .. n -> Docs(Snapshot[i])] :
         /\ R = [k \in 1 .. n |-> Row(i, docs[k])]
         /\ AskedIn(View, request.row_mode, i) = [k \in 1 .. n |-> <<i, docs[k]>>]
         /\ \A j, k \in 1 .. n : j < k => docs[j] < docs[k]
         /\ request.row_mode = "positional" => n = MaxDoc(i) /\ \A k \in 1 .. n : docs[k] = k - 1
  BY <1>9
<1>10. PICK a : a = AskedIn(View, request.row_mode, i)
  OBVIOUS
<1>11. PICK S0 : out \in Seq(Seq(S0))
  BY DEF CallOK, OutIsRows
<1>12. PICK S : S = S0 \cup {Row(i, d) : d \in Nat}
  OBVIOUS
<1>13. R \in Seq(S) /\ Len(R) = n
  <2>1. \A k \in 1 .. n : docs[k] \in Nat
    BY <1>8
  <2>2. R \in [1 .. n -> S]
    BY <1>d, <1>12, <2>1
  <2>3. QED
    BY <2>2, FunctionIsSeq
<1>14. out \in Seq(Seq(S))
  <2>1. Seq(S0) \subseteq Seq(S)
    BY <1>12, SeqGrows
  <2>2. QED
    BY <1>11, <2>1, SeqGrows
<1>15. /\ Chunks(R, BatchRows) \in Seq(Seq(S)) /\ FlattenSeq(Chunks(R, BatchRows)) = R
  BY <1>7, <1>13, ChunksAreParts, FlattenChunks
<1>16. PICK L : L = Seq(S)
  OBVIOUS
<1>17. PICK parts \in Seq(L) : parts = Chunks(R, BatchRows)
  BY <1>15, <1>16
<1>18. /\ out \in Seq(L) /\ out \o parts \in Seq(L) /\ Len(out \o parts) = Len(out) + Len(parts)
       /\ \A b \in 1 .. Len(out) + Len(parts) :
             (out \o parts)[b] = IF b <= Len(out) THEN out[b] ELSE parts[b - Len(out)]
  <2>1. out \in Seq(L)
    BY <1>14, <1>16
  <2>2. QED
    BY <2>1, ConcatProperties
<1>19. PICK flat \in Seq(S) : flat = FlattenSeq(out)
  BY <1>14, FlattenType
<1>20. FlattenSeq(out') = flat \o R
  BY <1>3, <1>14, <1>15, <1>19, FlattenConcat
<1>21. ReaderOK'
  <2>1. Understood'
    BY <1>3, <1>4 DEF Understood
  <2>2. doc_base' \in Nat
    BY <1>3, <1>4, <1>8
  <2>3. QED
    BY <1>3, <1>4, <1>5, <1>6, <2>1, <2>2 DEF CallOK, ReaderOK
<1>22. SchemaOK'
  BY <1>3, <1>4, SchemaKept DEF CallOK, ReaderOK
<1>23. BuiltSchema'
  <2>1. Wanted' = Wanted
    BY <1>3 DEF Wanted, Wants
  <2>2. QED
    BY <1>3, <1>6, <2>1 DEF CallOK, BuiltSchema
<1>24. FailsForAReason'
  BY <1>3 DEF FailsForAReason
<1>25. BuiltRows'
  <2>1. ASSUME NEW k \in 1 .. n
        PROVE  IsDocument(View, Row(i, docs[k]), <<i, docs[k]>>)
    BY <1>4, <1>5, RowIsDocument
  <2>2. PICK D : D = DOMAIN Snapshot
    OBVIOUS
  <2>3. PICK T : T = D \X Nat
    OBVIOUS
  <2>4. next - 1 \in Nat /\ next - 1 + 1 = next
    BY <1>5
  <2>5. ASSUME NEW k \in 1 .. next PROVE AskedIn(View, request.row_mode, Selected[k]) \in Seq(T)
    <3>1. k \in 1 .. Len(Selected)
      BY <1>5
    <3>2. PICK j \in D : j = Selected[k]
      BY <1>5, <2>2, <3>1
    <3>3. AskedIn(View, request.row_mode, j) \in Seq(D \X Nat)
      BY <1>4, <2>2, AskedTyped
    <3>4. QED
      BY <2>3, <3>2, <3>3
  <2>6. PICK g \in Seq(T) : g = AskedUpTo(View, request.row_mode, Selected, next - 1)
    BY <2>4, <2>5, AskedGrows
  <2>7. AskedUpTo(View, request.row_mode, Selected, next) = g \o a
    <3>1. PICK m \in Nat : m = next - 1 /\ m + 1 = next
      BY <2>4
    <3>2. \A k \in 1 .. m + 1 : AskedIn(View, request.row_mode, Selected[k]) \in Seq(T)
      BY <2>5, <3>1
    <3>3. AskedUpTo(View, request.row_mode, Selected, m + 1)
             = AskedUpTo(View, request.row_mode, Selected, m)
                  \o AskedIn(View, request.row_mode, Selected[m + 1])
      BY <3>2, AskedGrows
    <3>4. QED
      BY <1>1, <1>10, <2>6, <3>1, <3>3
  <2>8. a \in Seq(T)
    BY <1>4, <1>5, <1>10, <2>2, <2>3, AskedTyped
  <2>9. Answers(View, R, a)
    <3>1. Len(R) = n /\ DOMAIN R = 1 .. n
      BY <1>d, <1>13
    <3>2. Len(a) = n /\ \A k \in 1 .. n : a[k] = <<i, docs[k]>>
      BY <1>d, <1>10, <2>8
    <3>3. \A k \in 1 .. n : R[k] = Row(i, docs[k])
      BY <1>d
    <3>4. QED
      BY <2>1, <3>1, <3>2, <3>3 DEF Answers
  <2>10. Answers(View, flat, g)
    BY <1>3, <1>19, <2>6 DEF CallOK, BuiltRows
  <2>11. Answers(View, flat \o R, g \o a)
    BY <1>13, <2>8, <2>9, <2>10, AnswersConcat
  <2>12. next' - 1 = next
    BY <1>3, <1>5
  <2>13. QED
    BY <1>3, <1>6, <1>20, <2>7, <2>11, <2>12 DEF BuiltRows, Got
<1>26. BuiltGlobals'
  <2>1. PICK C : C = ToSet(Columns)
    OBVIOUS
  <2>2. PICK mode : mode = request.row_mode
    OBVIOUS
  <2>3. ASSUME NEW k \in 1 .. n
        PROVE  /\ DOMAIN R[k] = C
               /\ "_global_doc" \in C => R[k]["_global_doc"] = doc_base + docs[k]
    BY <1>4, <1>5, <1>d, <2>1, RowIsDocument
  <2>4. \A k \in 1 .. n : docs[k] \in 0 .. more - 1
    BY <1>8
  <2>5. ASSUME NEW k \in 1 .. Len(R)
        PROVE  /\ DOMAIN R[k] = C
               /\ "_global_doc" \in C =>
                     /\ R[k]["_global_doc"] \in doc_base .. doc_base + more - 1
                     /\ mode = "positional" => R[k]["_global_doc"] = doc_base + k - 1
    <3>1. k \in 1 .. n
      BY <1>13
    <3>2. PICK d \in 0 .. more - 1 : d = docs[k]
      BY <2>4, <3>1
    <3>3. mode = "positional" => d = k - 1
      BY <1>d, <2>2, <3>1, <3>2
    <3>4. doc_base + d \in doc_base .. doc_base + more - 1
          /\ (mode = "positional" => doc_base + d = doc_base + k - 1)
      BY <1>4, <3>1, <3>3
    <3>5. QED
      BY <2>3, <3>1, <3>2, <3>4
  <2>6. ASSUME "_global_doc" \in C, NEW k \in 1 .. Len(R) - 1
        PROVE  R[k]["_global_doc"] < R[k + 1]["_global_doc"]
    <3>1. k \in 1 .. n /\ k + 1 \in 1 .. n /\ k < k + 1
      BY <1>13
    <3>2. docs[k] < docs[k + 1] /\ docs[k] \in Nat /\ docs[k + 1] \in Nat
      BY <1>d, <2>4, <3>1
    <3>3. R[k]["_global_doc"] = doc_base + docs[k] /\ R[k + 1]["_global_doc"] = doc_base + docs[k + 1]
      BY <2>3, <2>6, <3>1
    <3>4. doc_base \in Nat
      BY <1>4
    <3>5. PICK d \in Nat, e \in Nat : d = docs[k] /\ e = docs[k + 1] /\ d < e
      BY <3>2
    <3>6. doc_base + d < doc_base + e
      BY <3>4, <3>5
    <3>7. QED
      BY <3>3, <3>5, <3>6
  <2>7. mode = "positional" => Len(R) = more
    BY <1>8, <1>d, <1>13, <2>2
  <2>8. Placed(flat, C, doc_base, mode)
    BY <1>19, <2>1, <2>2 DEF CallOK, BuiltGlobals
  <2>9. Placed(flat \o R, C, doc_base + more, mode)
    BY <1>4, <1>13, <2>5, <2>6, <2>7, <2>8, PlacedConcat
  <2>10. QED
    BY <1>3, <1>7, <1>8, <1>20, <2>1, <2>2, <2>9 DEF BuiltGlobals
<1>27. BatchesAreSegmentScoped'
  <2>1. \A k \in 1 .. Len(R) - 1 : InStep(R[k], R[k + 1])
    <3> SUFFICES ASSUME NEW k \in 1 .. Len(R) - 1 PROVE InStep(R[k], R[k + 1])
      OBVIOUS
    <3>1. k \in 1 .. n /\ k + 1 \in 1 .. n /\ k < k + 1
      BY <1>13
    <3>2. docs[k] < docs[k + 1]
      BY <1>d, <3>1
    <3>3. R[k] = Row(i, docs[k]) /\ R[k + 1] = Row(i, docs[k + 1])
      BY <1>d, <3>1
    <3>4. /\ DOMAIN Row(i, docs[k]) = ToSet(Columns)
          /\ "_seg" \in ToSet(Columns) => Row(i, docs[k])["_seg"] = Row(i, docs[k + 1])["_seg"]
          /\ "_doc" \in ToSet(Columns) => /\ Row(i, docs[k])["_doc"] = docs[k]
                                          /\ Row(i, docs[k + 1])["_doc"] = docs[k + 1]
      <4>1. PICK d \in Docs(Snapshot[i]), e \in Docs(Snapshot[i]) : d = docs[k] /\ e = docs[k + 1]
        BY <3>1
      <4>2. \A x \in Docs(Snapshot[i]) :
               /\ DOMAIN Row(i, x) = ToSet(Columns)
               /\ "_seg" \in ToSet(Columns) => Row(i, x)["_seg"] = i - 1
               /\ "_doc" \in ToSet(Columns) => Row(i, x)["_doc"] = x
        BY <1>4, <1>5, RowIsDocument
      <4>3. QED
        BY <4>1, <4>2
    <3>5. QED
      BY <3>2, <3>3, <3>4 DEF InStep
  <2>2. \A c \in 1 .. Len(parts) : Scoped(parts[c], BatchRows)
    BY <1>7, <1>13, <1>17, <2>1, PartsAreScoped
  <2>3. \A b \in 1 .. Len(out) : Scoped(out[b], BatchRows)
    <3> SUFFICES ASSUME NEW b \in 1 .. Len(out) PROVE Scoped(out[b], BatchRows)
      OBVIOUS
    <3>1. BatchesAreSegmentScoped /\ b \in DOMAIN out
      BY <1>18 DEF CallOK
    <3>2. Len(out[b]) \in 1 .. BatchRows
      BY <3>1 DEF BatchesAreSegmentScoped
    <3>3. \A k \in 1 .. Len(out[b]) - 1 : InStep(out[b][k], out[b][k + 1])
      BY <3>1 DEF BatchesAreSegmentScoped, InStep
    <3>4. QED
      BY <3>2, <3>3 DEF Scoped
  <2>4. ASSUME NEW b \in DOMAIN out' PROVE Scoped(out'[b], BatchRows)
    <3>1. b \in 1 .. Len(out) + Len(parts) /\ Len(out) \in Nat /\ Len(parts) \in Nat
      BY <1>3, <1>17, <1>18, <2>4
    <3>2. CASE b <= Len(out)
      <4>1. b \in 1 .. Len(out) /\ out'[b] = out[b]
        BY <1>3, <1>17, <1>18, <3>1, <3>2
      <4>2. QED
        BY <2>3, <4>1
    <3>3. CASE ~(b <= Len(out))
      <4>1. b - Len(out) \in 1 .. Len(parts) /\ out'[b] = parts[b - Len(out)]
        BY <1>3, <1>17, <1>18, <3>1, <3>3
      <4>2. QED
        BY <2>2, <4>1
    <3>4. QED
      BY <3>2, <3>3
  <2>5. QED
    BY <1>7, <2>4 DEF BatchesAreSegmentScoped, Scoped, InStep
<1>28. OutIsRows'
  <2>1. out' \in Seq(Seq(S))
    BY <1>3, <1>16, <1>17, <1>18
  <2>2. QED
    BY <2>1 DEF OutIsRows
<1>29. QED
  BY <1>21, <1>22, <1>23, <1>24, <1>25, <1>26, <1>27, <1>28 DEF CallOK

-----------------------------------------------------------------------------
(* The invariant holds.                                                    *)

LEMMA InitHolds == ConstantsAssumption /\ Init => ReadIInv
<1> SUFFICES ASSUME ConstantsAssumption, Init PROVE ReadIInv
  OBVIOUS
<1>1. PICK f \in Flushes : segs = <<[rows |-> [d \in 1 .. f.size |-> d], shapes |-> f.shapes]>>
  BY DEF Init
<1>2. /\ dels = <<<<>>>> /\ commits = <<<<[name |-> 1, del_gen |-> 0]>>>> /\ oldest = 1
      /\ pc = "idle" /\ call = "info" /\ request \in Requests
      /\ seen = 0 /\ next = 0 /\ schema = <<>> /\ doc_base = 0 /\ out = <<>>
  BY DEF Init
<1>3. DirOK
  <2>1. f.size \in 1 .. MaxRows /\ MaxRows \in Nat
    BY DEF ConstantsAssumption
  <2>2. [d \in 1 .. f.size |-> d] \in Seq(1 .. MaxRows)
    <3>1. [d \in 1 .. f.size |-> d] \in [1 .. f.size -> 1 .. MaxRows] /\ f.size \in Nat
      BY <2>1
    <3>2. QED
      BY <3>1, FunctionIsSeq
  <2>3. PICK seg \in Segment : seg = [rows |-> [d \in 1 .. f.size |-> d], shapes |-> f.shapes]
    BY <2>2 DEF Segment, Shapes
  <2>4. segs \in Seq(Segment) /\ Len(segs) = 1
    BY <1>1, <2>3
  <2>5. <<>> \in Generations
    BY EmptySeq DEF Generations
  <2>6. dels \in Seq(Generations) /\ Len(dels) = 1 /\ dels[1] = <<>>
    <3>1. PICK g \in Generations : g = <<>>
      BY <2>5
    <3>2. dels = <<g>>
      BY <1>2, <3>1
    <3>3. QED
      BY <3>1, <3>2
  <2>7. PICK e : e = [name |-> 1, del_gen |-> 0]
    OBVIOUS
  <2>8. e \in Filed
    <3>1. Len(dels[1]) = 0
      BY <2>6, EmptySeq
    <3>2. QED
      BY <2>4, <2>7, <3>1 DEF Filed, Entry
  <2>9. <<e>> \in Seq(Filed)
    BY <2>8
  <2>10. <<e>> \in Listing
    BY <2>8 DEF Listing, Filed
  <2>11. commits = <<<<e>>>>
    BY <1>2, <2>7
  <2>12. /\ commits \in Seq(Listing) /\ Len(commits) = 1 /\ DOMAIN commits = {1}
         /\ commits[1] = <<e>>
    <3>1. PICK c \in Listing : c = <<e>>
      BY <2>10
    <3>2. commits = <<c>>
      BY <2>11, <3>1
    <3>3. QED
      BY <3>1, <3>2
  <2>13. \A c \in DOMAIN commits : commits[c] \in Seq(Filed)
    BY <2>9, <2>12
  <2>14. oldest \in 1 .. Len(commits) /\ Len(dels) = Len(segs)
    BY <1>2, <2>4, <2>6, <2>12
  <2>15. commits \in Seq(Listing)
    BY <2>12
  <2>16. segs \in Seq(Segment) /\ dels \in Seq(Generations)
    BY <2>4, <2>6
  <2>17. QED
    BY <2>13, <2>14, <2>15, <2>16 DEF DirOK
<1>4. ReaderOK
  <2>1. Len(commits) = 1
    BY <1>2
  <2>2. QED
    BY <1>2, <2>1 DEF ReaderOK
<1>5. SchemaOK
  <2>1. <<>> \in Seq(FieldEntry) /\ ToSet(<<>>) = {}
    BY EmptySeq DEF ToSet
  <2>2. QED
    BY <1>2, <2>1 DEF SchemaOK
<1>6. BuiltSchema /\ FailsForAReason /\ BuiltRows
  BY <1>2 DEF BuiltSchema, FailsForAReason, BuiltRows, Got
<1>7. BuiltGlobals
  BY <1>2, NothingPlaced DEF BuiltGlobals
<1>8. BatchesAreSegmentScoped /\ OutIsRows
  <2>1. \A S : <<>> \in Seq(Seq(S))
    BY EmptySeq
  <2>2. DOMAIN <<>> = {}
    OBVIOUS
  <2>3. QED
    BY <1>2, <2>1, <2>2 DEF BatchesAreSegmentScoped, OutIsRows
<1>9. QED
  BY <1>3, <1>4, <1>5, <1>6, <1>7, <1>8 DEF ReadIInv

LEMMA NextHolds == ConstantsAssumption /\ ReadIInv /\ [Next]_vars => ReadIInv'
<1> SUFFICES ASSUME ConstantsAssumption, ReadIInv, [Next]_vars PROVE ReadIInv'
  OBVIOUS
<1>1. DirOK /\ CallOK
  BY DEF ReadIInv, CallOK
<1>2. DirOK' /\ Keeps
  BY <1>1, NextKeeps
<1>3. ASSUME Writer \/ UNCHANGED vars PROVE CallOK'
  <2>1. UNCHANGED reader
    BY <1>3 DEF Writer, Flush, Delete, Merge, Prune, Commit, vars
  <2>2. QED
    BY <1>1, <1>2, <2>1, WriterKeepsCall
<1>4. ASSUME Begin PROVE CallOK'
  BY <1>1, <1>4, BeginKeepsCall
<1>5. ASSUME Server PROVE CallOK'
  BY <1>1, <1>2, <1>5, OpenKeepsCall, SelectKeepsCall, PlanKeepsCall, ResolvedKeepsCall,
     BatchKeepsCall, StreamedKeepsCall, RefuseKeepsCall DEF Server
<1>6. CallOK'
  BY <1>3, <1>4, <1>5 DEF Next
<1>7. QED
  BY <1>2, <1>6 DEF ReadIInv, CallOK

\* The invariant holds of every directory, request and writer.
THEOREM ReadInvariant == ASSUME ConstantsAssumption PROVE Spec => []ReadIInv
  BY InitHolds, NextHolds, PTL DEF Spec

-----------------------------------------------------------------------------
(* The results.                                                            *)

\* What a commit lists has been written, and the reconciled fields are fields
\* of the index that a column holds.
THEOREM TypeCorrect == ASSUME ConstantsAssumption PROVE Spec => []TypeOK
<1>1. ReadIInv => TypeOK
  <2> SUFFICES ASSUME ReadIInv PROVE TypeOK
    OBVIOUS
  <2>1. ASSUME NEW c \in DOMAIN commits, NEW i \in DOMAIN commits[c]
        PROVE  /\ commits[c][i].name \in DOMAIN segs
               /\ commits[c][i].del_gen <= Len(dels[commits[c][i].name])
    <3>1. commits[c] \in Seq(Filed) /\ DOMAIN segs = 1 .. Len(segs)
      BY DEF ReadIInv, DirOK
    <3>2. PICK listed \in Seq(Filed) : listed = commits[c]
      BY <3>1
    <3>3. i \in DOMAIN listed
      BY <2>1, <3>2
    <3>4. listed[i] \in Filed
      BY <3>3, ElementOfSeq
    <3>5. QED
      BY <3>1, <3>2, <3>4 DEF Filed
  <2>2. ASSUME NEW k \in DOMAIN schema
        PROVE  schema[k][1] \in ToSet(FieldNames) /\ schema[k][2] # NoShape
    <3>1. schema \in Seq(FieldEntry) /\ schema[k] \in ToSet(schema)
      BY DEF ReadIInv, SchemaOK, ToSet
    <3>2. schema[k] \in FieldEntry
      BY <3>1, ElementOfSeq
    <3>3. QED
      BY <3>1, <3>2 DEF ReadIInv, SchemaOK, FieldEntry
  <2>3. oldest \in DOMAIN commits
    BY DEF ReadIInv, DirOK
  <2>4. QED
    BY <2>1, <2>2, <2>3 DEF ReadIInv, ReaderOK, TypeOK
<1>2. QED
  BY <1>1, ReadInvariant, PTL

LEMMA AskedIsView ==
    ASSUME DirOK, seen \in 1 .. Len(commits), NEW i \in DOMAIN Snapshot
    PROVE  AskedOf(i) = AskedIn(View, request.row_mode, i)
<1>1. View[i].rows = segs[Snapshot[i].name].rows /\ View[i].deleted = Deleted(Snapshot[i])
  BY ViewTyped
<1>2. {d \in Docs(Snapshot[i]) : \/ request.row_mode = "positional"
                                 \/ d \notin Deleted(Snapshot[i])}
         = DocsAsked(View, request.row_mode, i)
  BY <1>1 DEF Docs, DocsAsked
<1>3. QED
  BY <1>2 DEF AskedOf, AskedIn

\* Whatever the writer commits, deletes, merges and removes while a do_get runs,
\* in whatever order with its steps: the answer has the documents of the one
\* commit it opened, each once, in order, with its own address, liveness and
\* values (segment_batches over the readers resolve has opened).
THEOREM RowsDelivered == ASSUME ConstantsAssumption PROVE Spec => []RowsOfOneCommit
<1>1. ConstantsAssumption /\ ReadIInv => RowsOfOneCommit
  <2> SUFFICES ASSUME ConstantsAssumption, ReadIInv, Got PROVE RowsOfOneCommit
    BY DEF RowsOfOneCommit
  <2>1. /\ seen \in 1 .. Len(commits) /\ AllNamed /\ Understood /\ DirOK /\ request \in Requests
    BY DEF ReadIInv, ReaderOK, DirOK, Got
  <2>2. PICK n \in Nat : n = Len(Selected) /\ DOMAIN Selected = 1 .. n
                         /\ \A k \in 1 .. n : Selected[k] \in DOMAIN Snapshot
    BY <2>1, SelectedTyped
  <2>3. PICK D : D = DOMAIN Snapshot
    OBVIOUS
  <2>4. PICK T : T = D \X Nat
    OBVIOUS
  <2>5. Asked = AskedUpTo(View, request.row_mode, Selected, n)
    <3>1. \A k \in 1 .. n : AskedOf(Selected[k]) = AskedIn(View, request.row_mode, Selected[k])
      BY <2>1, <2>2, AskedIsView
    <3>2. [k \in 1 .. n |-> AskedOf(Selected[k])]
             = [k \in 1 .. n |-> AskedIn(View, request.row_mode, Selected[k])]
      BY <3>1
    <3>3. QED
      BY <2>2, <3>2 DEF Asked, AskedUpTo
  <2>6. Asked \in Seq(T)
    <3>1. \A k \in 1 .. n : AskedIn(View, request.row_mode, Selected[k]) \in Seq(T)
      BY <2>1, <2>2, <2>3, <2>4, AskedTyped
    <3>2. [k \in 1 .. n |-> AskedIn(View, request.row_mode, Selected[k])] \in [1 .. n -> Seq(T)]
      BY <3>1
    <3>3. [k \in 1 .. n |-> AskedIn(View, request.row_mode, Selected[k])] \in Seq(Seq(T))
      BY <3>2, FunctionIsSeq
    <3>4. QED
      BY <2>5, <3>3, FlattenType DEF AskedUpTo
  <2>7. PICK S : out \in Seq(Seq(S))
    BY DEF ReadIInv, OutIsRows
  <2>8. PICK answer \in Seq(S) : answer = FlattenSeq(out)
    BY <2>7, FlattenType
  <2>9. PICK asked \in Seq(T) : asked = Asked
    BY <2>6
  <2>10. Answers(View, answer, asked)
    BY <2>2, <2>5, <2>8, <2>9 DEF ReadIInv, BuiltRows
  <2>11. Len(answer) = Len(asked) /\ DOMAIN answer = DOMAIN asked
    BY <2>10 DEF Answers
  <2>12. ASSUME NEW k \in DOMAIN answer
         PROVE  /\ "_seg" \in DOMAIN answer[k] => answer[k]["_seg"] = asked[k][1] - 1
                /\ "_doc" \in DOMAIN answer[k] => answer[k]["_doc"] = asked[k][2]
                /\ "_live" \in DOMAIN answer[k] =>
                      (answer[k]["_live"] <=> asked[k][2] \notin Deleted(Snapshot[asked[k][1]]))
                /\ \A f \in ToSet(FieldNames) \cap DOMAIN answer[k] : answer[k][f] = ValueAt(asked[k], f)
    <3>1. asked[k] \in T
      BY <2>11, ElementOfSeq
    <3>2. PICK p : p = asked[k]
      OBVIOUS
    <3>3. p[1] \in DOMAIN Snapshot
      BY <2>3, <2>4, <3>1, <3>2
    <3>4. /\ View[p[1]].rows = segs[Snapshot[p[1]].name].rows
          /\ View[p[1]].shapes = segs[Snapshot[p[1]].name].shapes
          /\ View[p[1]].deleted = Deleted(Snapshot[p[1]])
      BY <2>1, <3>3, ViewTyped
    <3>5. IsDocument(View, answer[k], p)
      BY <2>10, <3>2 DEF Answers
    <3>6. /\ "_seg" \in DOMAIN answer[k] => answer[k]["_seg"] = p[1] - 1
          /\ "_doc" \in DOMAIN answer[k] => answer[k]["_doc"] = p[2]
          /\ "_live" \in DOMAIN answer[k] =>
                (answer[k]["_live"] <=> p[2] \notin View[p[1]].deleted)
      BY <3>5 DEF IsDocument
    <3>7. ASSUME NEW f \in ToSet(FieldNames) \cap DOMAIN answer[k] PROVE answer[k][f] = ValueAt(p, f)
      <4>1. answer[k][f] = IF View[p[1]].shapes[f] = NoShape THEN Null
                         ELSE View[p[1]].rows[p[2] + 1]
        BY <3>5 DEF IsDocument
      <4>2. ValueAt(p, f) = IF View[p[1]].shapes[f] = NoShape THEN Null
                            ELSE View[p[1]].rows[p[2] + 1]
        BY <3>4 DEF ValueAt
      <4>3. QED
        BY <4>1, <4>2
    <3>8. QED
      BY <3>2, <3>4, <3>6, <3>7
  <2>13. QED
    BY <2>8, <2>9, <2>11, <2>12 DEF RowsOfOneCommit
<1>2. QED
  BY <1>1, ReadInvariant, PTL

\* Reconciling the segments one after the other, in the order of the request,
\* misses no field any of them has and adds none (resolve).
THEOREM EveryFieldReconciled == ASSUME ConstantsAssumption PROVE Spec => []HasEveryField
<1>1. ConstantsAssumption /\ ReadIInv => HasEveryField
  <2> SUFFICES ASSUME ConstantsAssumption, ReadIInv, Got, NEW f \in ToSet(FieldNames)
               PROVE  Known(f) <=> (Wants(f) /\ \E k \in DOMAIN Selected :
                                                    Shape(Selected[k], f) # NoShape)
    BY DEF HasEveryField
  <2>1. /\ seen \in 1 .. Len(commits) /\ AllNamed /\ DirOK /\ request \in Requests
    BY DEF ReadIInv, ReaderOK, DirOK, Got
  <2>2. /\ DOMAIN Selected = 1 .. Len(Selected)
        /\ \A k \in 1 .. Len(Selected) : Selected[k] \in DOMAIN Snapshot
    BY <2>1, SelectedTyped
  <2>3. (\E e \in ToSet(schema) : e[1] = f)
           <=> (f \in Wanted /\ \E k \in 1 .. Len(Selected) : View[Selected[k]].shapes[f] # NoShape)
    BY DEF ReadIInv, BuiltSchema, Covers, Got
  <2>4. \A k \in 1 .. Len(Selected) : View[Selected[k]].shapes[f] = Shape(Selected[k], f)
    <3> SUFFICES ASSUME NEW k \in 1 .. Len(Selected)
                 PROVE  View[Selected[k]].shapes[f] = Shape(Selected[k], f)
      OBVIOUS
    <3>1. PICK i \in DOMAIN Snapshot : i = Selected[k]
      BY <2>2
    <3>2. View[i].shapes = segs[Snapshot[i].name].shapes
      BY <2>1, ViewTyped
    <3>3. QED
      BY <3>1, <3>2 DEF Shape
  <2>5. QED
    BY <2>2, <2>3, <2>4, KnownFields DEF Wanted
<1>2. QED
  BY <1>1, ReadInvariant, PTL

\* No batch mixes segments, loses docid order, is empty or passes batch_rows,
\* at any segment size and any batch_rows, zero included (segment_batches).
THEOREM BatchesScoped == ASSUME ConstantsAssumption PROVE Spec => []BatchesAreSegmentScoped
<1>1. ReadIInv => BatchesAreSegmentScoped
  BY DEF ReadIInv
<1>2. QED
  BY <1>1, ReadInvariant, PTL

\* An answer is one commit's: its rows, its fields and nothing else, batch by
\* batch, whatever the writer does to the directory during the call.
THEOREM OneCommitDelivered == ASSUME ConstantsAssumption PROVE Spec => []DeliversOneCommit
<1>1. RowsOfOneCommit /\ HasEveryField /\ BatchesAreSegmentScoped => DeliversOneCommit
  BY DEF DeliversOneCommit
<1>2. QED
  BY <1>1, RowsDelivered, EveryFieldReconciled, BatchesScoped, PTL

\* _global_doc grows along every answer, across batches, segments and deleted
\* documents, and has no gaps in a positional one (segment_batches).
THEOREM GlobalDocsGrow == ASSUME ConstantsAssumption PROVE Spec => []GlobalDocsIncrease
<1>1. ReadIInv => GlobalDocsIncrease
  <2> SUFFICES ASSUME ReadIInv PROVE GlobalDocsIncrease
    OBVIOUS
  <2>1. PICK S : out \in Seq(Seq(S))
    BY DEF ReadIInv, OutIsRows
  <2>2. PICK answer \in Seq(S) : answer = FlattenSeq(out)
    BY <2>1, FlattenType
  <2>3. PICK C : C = ToSet(Columns)
    OBVIOUS
  <2>4. Placed(answer, C, doc_base, request.row_mode)
    BY <2>2, <2>3 DEF ReadIInv, BuiltGlobals
  <2>5. ASSUME NEW k \in 1 .. Len(answer) - 1, "_global_doc" \in DOMAIN answer[k]
        PROVE  /\ answer[k]["_global_doc"] < answer[k + 1]["_global_doc"]
               /\ request.row_mode = "positional" =>
                     answer[k]["_global_doc"] + 1 = answer[k + 1]["_global_doc"]
    <3>1. k \in DOMAIN answer /\ k + 1 \in DOMAIN answer /\ k \in Nat
      OBVIOUS
    <3>2. "_global_doc" \in C
      BY <2>4, <2>5, <3>1 DEF Placed
    <3>3. answer[k]["_global_doc"] < answer[k + 1]["_global_doc"]
      BY <2>4, <3>2 DEF Placed
    <3>4. ASSUME request.row_mode = "positional"
          PROVE  answer[k]["_global_doc"] + 1 = answer[k + 1]["_global_doc"]
      <4>1. answer[k]["_global_doc"] = k - 1 /\ answer[k + 1]["_global_doc"] = k + 1 - 1
        BY <2>4, <3>1, <3>2, <3>4 DEF Placed
      <4>2. QED
        BY <3>1, <4>1
    <3>5. QED
      BY <3>3, <3>4
  <2>6. QED
    BY <2>2, <2>5 DEF GlobalDocsIncrease
<1>2. QED
  BY <1>1, ReadInvariant, PTL

\* A read fails only for what it asks for, for files the writer has removed, for
\* terms that are not UTF-8, or for a field of different shapes in the segments
\* it asks for (open, resolve and segment_batches).
THEOREM FailuresHaveReasons == ASSUME ConstantsAssumption PROVE Spec => []FailsForAReason
<1>1. ReadIInv => FailsForAReason
  BY DEF ReadIInv
<1>2. QED
  BY <1>1, ReadInvariant, PTL

-----------------------------------------------------------------------------
(* What the flight info says of the stream: the two calls go over the same *)
(* segments with the same loops, so they end with the same columns, and    *)
(* what the answer lacks of the promised rows are the deleted documents.   *)

\* The documents a .liv deletes are documents of its segment.
DelsInRange ==
    \A s \in 1 .. Len(dels) : \A g \in 1 .. Len(dels[s]) :
        dels[s][g] \subseteq 0 .. Len(segs[s].rows) - 1

LEMMA DeletedInRange ==
    ASSUME DirOK, DelsInRange, NEW e \in Filed
    PROVE  Deleted(e) \subseteq 0 .. Len(segs[e.name].rows) - 1
<1>1. CASE e.del_gen = 0
  BY <1>1 DEF Deleted
<1>2. CASE e.del_gen # 0
  <2>1. /\ e.name \in 1 .. Len(dels) /\ e.del_gen \in Nat
        /\ e.del_gen <= Len(dels[e.name]) /\ dels[e.name] \in Seq(SUBSET Nat)
    BY FiledSegments DEF DirOK, Generations
  <2>2. e.del_gen \in 1 .. Len(dels[e.name])
    BY <1>2, <2>1
  <2>3. QED
    BY <1>2, <2>1, <2>2 DEF Deleted, DelsInRange
<1>3. QED
  BY <1>1, <1>2

LEMMA DelsStayInRange == ASSUME DirOK, Keeps, DelsInRange, [Next]_vars PROVE DelsInRange'
<1>1. /\ segs \in Seq(Segment) /\ dels \in Seq(Generations) /\ Len(dels) = Len(segs)
      /\ Len(segs) \in Nat
  BY DEF DirOK
<1>2. \A s \in 1 .. Len(segs) : segs'[s] = segs[s]
  BY DEF Keeps
<1>3. ASSUME NEW seg, segs' = Append(segs, seg), dels' = Append(dels, <<>>) PROVE DelsInRange'
  <2>1. /\ Len(dels') = Len(dels) + 1 /\ dels'[Len(dels) + 1] = <<>>
        /\ \A s \in 1 .. Len(dels) : dels'[s] = dels[s]
    <3>1. <<>> \in Generations
      BY EmptySeq DEF Generations
    <3>2. QED
      BY <1>1, <1>3, <3>1, AppendExtends
  <2>2. ASSUME NEW s \in 1 .. Len(dels') PROVE \A g \in 1 .. Len(dels'[s]) :
            dels'[s][g] \subseteq 0 .. Len(segs'[s].rows) - 1
    <3>1. CASE s = Len(dels) + 1
      BY <2>1, <3>1, EmptySeq
    <3>2. CASE s # Len(dels) + 1
      <4>1. s \in 1 .. Len(dels)
        BY <1>1, <2>1, <3>2
      <4>2. QED
        BY <1>1, <1>2, <2>1, <4>1 DEF DelsInRange
    <3>3. QED
      BY <3>1, <3>2
  <2>3. QED
    BY <2>2 DEF DelsInRange
<1>4. ASSUME NEW i \in 1 .. Len(Latest), NEW d \in Docs(Latest[i]), Delete(i, d) PROVE DelsInRange'
  <2>1. PICK e \in Filed : e = Latest[i]
    BY LatestFiled, ElementOfSeq
  <2>2. PICK gone : gone = Deleted(e) \cup {d}
    OBVIOUS
  <2>3. /\ dels' = [dels EXCEPT ![e.name] = Append(@, gone)] /\ segs' = segs
        /\ e.name \in 1 .. Len(dels) /\ dels[e.name] \in Seq(SUBSET Nat)
    <3>1. dels' = [dels EXCEPT ![e.name] = Append(@, gone)] /\ segs' = segs
      BY <1>4, <2>1, <2>2 DEF Delete
    <3>2. e.name \in 1 .. Len(dels) /\ dels[e.name] \in Generations
      BY <1>1, FiledSegments
    <3>3. QED
      BY <3>1, <3>2 DEF Generations
  <2>4. gone \subseteq 0 .. Len(segs[e.name].rows) - 1 /\ gone \in SUBSET Nat
    <3>1. d \in 0 .. Len(segs[e.name].rows) - 1 /\ segs[e.name].rows \in Seq(1 .. MaxRows)
      BY <2>1, FiledSegments DEF Docs
    <3>2. QED
      BY <2>2, <3>1, DeletedInRange
  <2>5. PICK old \in Seq(SUBSET Nat) : old = dels[e.name]
    BY <2>3
  <2>6. /\ Len(Append(old, gone)) = Len(old) + 1 /\ Append(old, gone)[Len(old) + 1] = gone
        /\ Len(old) \in Nat /\ \A g \in 1 .. Len(old) : Append(old, gone)[g] = old[g]
    BY <2>4, AppendExtends
  <2>7. /\ Len(dels') = Len(dels) /\ dels'[e.name] = Append(old, gone)
        /\ \A s \in 1 .. Len(dels) : s # e.name => dels'[s] = dels[s]
    BY <1>1, <2>3, <2>5
  <2>8. ASSUME NEW s \in 1 .. Len(dels), NEW g \in 1 .. Len(dels'[s])
        PROVE  dels'[s][g] \subseteq 0 .. Len(segs[s].rows) - 1
    <3>1. CASE s # e.name
      BY <2>7, <2>8, <3>1 DEF DelsInRange
    <3>2. CASE s = e.name /\ g = Len(old) + 1
      BY <2>4, <2>6, <2>7, <3>2
    <3>3. CASE s = e.name /\ g # Len(old) + 1
      <4>1. g \in 1 .. Len(old)
        BY <2>6, <2>7, <2>8, <3>3
      <4>2. dels'[s][g] = dels[s][g] /\ g \in 1 .. Len(dels[s])
        BY <2>5, <2>6, <2>7, <3>3, <4>1
      <4>3. QED
        BY <4>2 DEF DelsInRange
    <3>4. QED
      BY <3>1, <3>2, <3>3
  <2>9. QED
    BY <2>3, <2>7, <2>8 DEF DelsInRange
<1>5. CASE UNCHANGED <<segs, dels>>
  BY <1>5 DEF DelsInRange
<1>6. CASE Writer
  BY <1>3, <1>4, <1>5, <1>6 DEF Writer, Flush, Merge, Prune
<1>7. CASE ~Writer
  BY <1>5, <1>7 DEF Next, vars, Begin, Server, OpenCommit, OpenSegment, Select, PlanSegment,
              Resolved, SegmentBatches, Streamed, Refuse, Fail, dir
<1>8. QED
  BY <1>6, <1>7

\* What a segment is asked for, and what it lacks of its documents.
LEMMA DocsCounted ==
    ASSUME NEW view, NEW mode, NEW i, NEW n \in Nat, n = Len(view[i].rows)
    PROVE  /\ IsFiniteSet(DocsAsked(view, mode, i)) /\ DocsAsked(view, mode, i) \in SUBSET Nat
           /\ Cardinality(DocsAsked(view, mode, i)) \in Nat
           /\ mode = "positional" => Cardinality(DocsAsked(view, mode, i)) = n
           /\ mode # "positional" /\ view[i].deleted \subseteq 0 .. n - 1 =>
                 /\ Cardinality(view[i].deleted) \in Nat
                 /\ n = Cardinality(DocsAsked(view, mode, i)) + Cardinality(view[i].deleted)
<1> DEFINE docs == DocsAsked(view, mode, i)
<1>1. IsFiniteSet(0 .. n - 1) /\ Cardinality(0 .. n - 1) = n
  BY FirstNumbers
<1>2. docs = IF mode = "positional" THEN 0 .. n - 1 ELSE (0 .. n - 1) \ view[i].deleted
  BY DEF DocsAsked
<1>3. docs \in SUBSET (0 .. n - 1)
  BY <1>2
<1>4. IsFiniteSet(docs) /\ Cardinality(docs) \in Nat /\ docs \in SUBSET Nat
  BY <1>1, <1>3, FS_Subset, FS_CardinalityType
<1>5. ASSUME mode # "positional", view[i].deleted \subseteq 0 .. n - 1
      PROVE  /\ Cardinality(view[i].deleted) \in Nat
             /\ n = Cardinality(docs) + Cardinality(view[i].deleted)
  <2>1. PICK gone \in SUBSET (0 .. n - 1) : gone = view[i].deleted
    BY <1>5
  <2>2. Cardinality(gone) \in Nat /\ (0 .. n - 1) \cap gone = gone
    BY <1>1, FS_Subset, FS_CardinalityType
  <2>3. Cardinality((0 .. n - 1) \ gone) = n - Cardinality(gone)
    <3>1. PICK all : all = 0 .. n - 1
      OBVIOUS
    <3>2. Cardinality(all \ gone) = Cardinality(all) - Cardinality(all \cap gone)
      BY <1>1, <2>2, <3>1, FS_Subset, FS_Difference
    <3>3. QED
      BY <1>1, <2>2, <3>1, <3>2
  <2>4. QED
    BY <1>2, <1>4, <1>5, <2>1, <2>2, <2>3
<1>6. QED
  BY <1>1, <1>2, <1>4, <1>5

LEMMA AskedInCounted ==
    ASSUME NEW view, NEW mode, NEW i, Len(view[i].rows) \in Nat
    PROVE  /\ Len(AskedIn(view, mode, i)) = Cardinality(DocsAsked(view, mode, i))
           /\ Cardinality(DocsAsked(view, mode, i)) \in Nat
<1>1. PICK n \in Nat : n = Len(view[i].rows)
  OBVIOUS
<1>2. PICK docs \in SUBSET Nat : docs = DocsAsked(view, mode, i) /\ IsFiniteSet(docs)
                                /\ Cardinality(docs) \in Nat
  BY <1>1, DocsCounted
<1>3. DOMAIN InOrder(docs) = 1 .. Cardinality(docs)
  BY <1>2, InOrderIsOrdered
<1>4. AskedIn(view, mode, i) = [k \in 1 .. Cardinality(docs) |-> <<i, InOrder(docs)[k]>>]
  BY <1>2, <1>3 DEF AskedIn
<1>5. QED
  BY <1>2, <1>4

Sized(T, view, mode, selected, n, sizes) ==
    \A k \in 1 .. n : /\ Len(view[selected[k]].rows) \in Nat
                      /\ AskedIn(view, mode, selected[k]) \in Seq(T)
                      /\ sizes[k] = Cardinality(DocsAsked(view, mode, selected[k]))

LEMMA AskedUpToCounted ==
    ASSUME NEW T, NEW view, NEW mode, NEW selected, NEW n \in Nat, NEW sizes \in [1 .. n -> Nat],
           Sized(T, view, mode, selected, n, sizes)
    PROVE  Len(AskedUpTo(view, mode, selected, n)) = Total(sizes)
<1> DEFINE Count(k) == Cardinality(DocsAsked(view, mode, selected[k]))
<1> DEFINE Right(m) == /\ AskedUpTo(view, mode, selected, m) \in Seq(T)
                       /\ Len(AskedUpTo(view, mode, selected, m)) = Total([k \in 1 .. m |-> Count(k)])
<1> DEFINE P == {m \in Nat : m <= n => Right(m)}
<1>1. 0 \in P
  <2>1. AskedUpTo(view, mode, selected, 0) = <<>>
    <3>1. [k \in 1 .. 0 |-> AskedIn(view, mode, selected[k])] = <<>>
      OBVIOUS
    <3>2. QED
      BY <3>1, FlattenEmpty DEF AskedUpTo
  <2>2. Total([k \in 1 .. 0 |-> Count(k)]) = 0
    <3>1. [k \in 1 .. 0 |-> Count(k)] \in [1 .. 0 -> Nat]
      OBVIOUS
    <3>2. QED
      BY <3>1, TotalEmpty
  <2>3. Len(<<>>) = 0 /\ <<>> \in Seq(T)
    BY EmptySeq
  <2>4. QED
    BY <2>1, <2>2, <2>3
<1>2. ASSUME NEW m \in Nat, m + 1 <= n, Right(m) PROVE Right(m + 1)
  <2>1. \A k \in 1 .. m + 1 : /\ AskedIn(view, mode, selected[k]) \in Seq(T)
                              /\ Len(AskedIn(view, mode, selected[k])) = Count(k)
                              /\ Count(k) \in Nat
    <3> SUFFICES ASSUME NEW k \in 1 .. m + 1
                 PROVE  /\ AskedIn(view, mode, selected[k]) \in Seq(T)
                        /\ Len(AskedIn(view, mode, selected[k])) = Count(k)
                        /\ Count(k) \in Nat
      OBVIOUS
    <3>1. k \in 1 .. n
      BY <1>2
    <3>2. PICK i : i = selected[k]
      OBVIOUS
    <3>3. Len(view[i].rows) \in Nat /\ AskedIn(view, mode, i) \in Seq(T)
      BY <3>1, <3>2 DEF Sized
    <3>4. /\ Len(AskedIn(view, mode, i)) = Cardinality(DocsAsked(view, mode, i))
          /\ Cardinality(DocsAsked(view, mode, i)) \in Nat
      BY <3>3, AskedInCounted
    <3>5. QED
      BY <3>2, <3>3, <3>4
  <2>2. PICK a : a = AskedIn(view, mode, selected[m + 1])
    OBVIOUS
  <2>3. PICK before : before = AskedUpTo(view, mode, selected, m)
    OBVIOUS
  <2>4. AskedUpTo(view, mode, selected, m + 1) = before \o a
    <3>1. \A k \in 1 .. m + 1 : AskedIn(view, mode, selected[k]) \in Seq(T)
      BY <2>1
    <3>2. AskedUpTo(view, mode, selected, m + 1)
             = AskedUpTo(view, mode, selected, m) \o AskedIn(view, mode, selected[m + 1])
      BY <3>1, AskedGrows
    <3>3. QED
      BY <2>2, <2>3, <3>2
  <2>5. a \in Seq(T) /\ before \in Seq(T) /\ Len(a) = Count(m + 1)
    BY <1>2, <2>1, <2>2, <2>3
  <2>6. before \o a \in Seq(T) /\ Len(before \o a) = Len(before) + Count(m + 1)
    BY <2>5, ConcatProperties
  <2>7. Total([k \in 1 .. m + 1 |-> Count(k)]) = Total([k \in 1 .. m |-> Count(k)]) + Count(m + 1)
    <3> HIDE DEF Count
    <3>1. PICK s \in [1 .. m + 1 -> Nat] : s = [k \in 1 .. m + 1 |-> Count(k)]
      BY <2>1
    <3>2. PICK r \in [1 .. m -> Nat] : r = [k \in 1 .. m |-> Count(k)]
      <4>1. \A k \in 1 .. m : k \in 1 .. m + 1
        OBVIOUS
      <4>2. \A k \in 1 .. m : Count(k) \in Nat
        BY <2>1, <4>1
      <4>3. QED
        BY <4>2
    <3>3. /\ \A k \in 1 .. m : r[k] = s[k]
          /\ s[m + 1] = Count(m + 1)
      BY <3>1, <3>2
    <3>4. Total(s) = Total(r) + s[m + 1]
      BY <3>3, TotalGrows
    <3>5. QED
      BY <3>1, <3>2, <3>3, <3>4
  <2>8. QED
    BY <1>2, <2>3, <2>4, <2>6, <2>7
<1> HIDE DEF Right
<1>3. \A m \in P : m + 1 \in P
  <2>1. \A m \in P : m \in Nat /\ m + 1 \in Nat /\ (m + 1 <= n => m <= n)
    OBVIOUS
  <2>2. QED
    BY <1>2, <2>1
<1> HIDE DEF P
<1>4. P = Nat
  BY <1>1, <1>3, NatSteps DEF P
<1>5. n \in P
  BY <1>4
<1>6. Right(n)
  BY <1>5 DEF P
<1>7. sizes = [k \in 1 .. n |-> Count(k)]
  BY DEF Sized
<1>8. QED
  BY <1>6, <1>7 DEF Right

\* The reconciled fields after one more segment, and after the first n of a
\* request, as a function of what is seen and asked alone.
ReconciledIn(view, wanted, fields, i) ==
    LET lacking == {n \in DOMAIN FieldNames :
                       /\ view[i].shapes[FieldNames[n]] # NoShape /\ FieldNames[n] \in wanted
                       /\ ~ \E k \in DOMAIN fields : fields[k][1] = FieldNames[n]}
        fresh == Chosen(FieldNames, lacking)
    IN fields \o [j \in DOMAIN fresh |-> <<fresh[j], view[i].shapes[fresh[j]]>>]
Reconciles(f, view, wanted, picked, n) ==
    f[0] = <<>> /\ \A k \in 1 .. n : f[k] = ReconciledIn(view, wanted, f[k - 1], picked[k])
Reached(view, wanted, picked, n, fields) ==
    \E f : Reconciles(f, view, wanted, picked, n) /\ f[n] = fields

LEMMA ReconciledFromView ==
    ASSUME DirOK, seen \in 1 .. Len(commits), NEW i \in DOMAIN Snapshot
    PROVE  Reconciled(i) = ReconciledIn(View, Wanted, schema, i)
<1>1. View[i].shapes = segs[Snapshot[i].name].shapes
  BY ViewTyped
<1>2. {n \in DOMAIN FieldNames : Scans(i, FieldNames[n]) /\ ~Known(FieldNames[n])}
         = {n \in DOMAIN FieldNames :
               /\ View[i].shapes[FieldNames[n]] # NoShape /\ FieldNames[n] \in Wanted
               /\ ~ \E k \in DOMAIN schema : schema[k][1] = FieldNames[n]}
  BY <1>1 DEF Scans, Shape, Known, Wanted, ToSet
<1>3. QED
  BY <1>1, <1>2 DEF Reconciled, ReconciledIn, Shape

LEMMA ReachedFirst ==
    ASSUME NEW view, NEW wanted, NEW picked PROVE Reached(view, wanted, picked, 0, <<>>)
<1>1. PICK f : f = [k \in {0} |-> <<>>]
  OBVIOUS
<1>2. f[0] = <<>>
  BY <1>1
<1>3. Reconciles(f, view, wanted, picked, 0)
  BY <1>2 DEF Reconciles
<1>4. QED
  BY <1>2, <1>3 DEF Reached

LEMMA ReachedNext ==
    ASSUME NEW view, NEW wanted, NEW picked, NEW n \in Nat, NEW fields,
           Reached(view, wanted, picked, n, fields)
    PROVE  Reached(view, wanted, picked, n + 1, ReconciledIn(view, wanted, fields, picked[n + 1]))
<1>1. PICK f : Reconciles(f, view, wanted, picked, n) /\ f[n] = fields
  BY DEF Reached
<1>2. PICK last : last = ReconciledIn(view, wanted, fields, picked[n + 1])
  OBVIOUS
<1>3. PICK g : g = [k \in 0 .. n + 1 |-> IF k = n + 1 THEN last ELSE f[k]]
  OBVIOUS
<1>4. g[n + 1] = last /\ \A k \in 0 .. n : g[k] = f[k]
  BY <1>3
<1>5. ASSUME NEW k \in 1 .. n + 1 PROVE g[k] = ReconciledIn(view, wanted, g[k - 1], picked[k])
  <2>1. CASE k = n + 1
    <3>1. k - 1 = n /\ n \in 0 .. n
      BY <2>1
    <3>2. g[k - 1] = fields
      BY <1>1, <1>4, <3>1
    <3>3. QED
      BY <1>2, <1>4, <2>1, <3>2
  <2>2. CASE k # n + 1
    <3>1. k \in 1 .. n /\ k \in 0 .. n /\ k - 1 \in 0 .. n
      BY <2>2
    <3>2. g[k] = f[k] /\ g[k - 1] = f[k - 1]
      BY <1>4, <3>1
    <3>3. QED
      BY <1>1, <3>1, <3>2 DEF Reconciles
  <2>3. QED
    BY <2>1, <2>2
<1>6. g[0] = <<>>
  BY <1>1, <1>4 DEF Reconciles
<1>7. Reconciles(g, view, wanted, picked, n + 1)
  BY <1>5, <1>6 DEF Reconciles
<1>8. QED
  BY <1>2, <1>4, <1>7 DEF Reached

LEMMA ReachedOnce ==
    ASSUME NEW view, NEW wanted, NEW picked, NEW n \in Nat, NEW a, NEW b,
           Reached(view, wanted, picked, n, a), Reached(view, wanted, picked, n, b)
    PROVE  a = b
<1>1. PICK f : Reconciles(f, view, wanted, picked, n) /\ f[n] = a
  BY DEF Reached
<1>2. PICK g : Reconciles(g, view, wanted, picked, n) /\ g[n] = b
  BY DEF Reached
<1> DEFINE P == {m \in Nat : m <= n => f[m] = g[m]}
<1>3. 0 \in P
  BY <1>1, <1>2 DEF Reconciles
<1>4. ASSUME NEW m \in P PROVE m + 1 \in P
  <2>1. m \in Nat /\ m + 1 \in Nat
    OBVIOUS
  <2>2. ASSUME m + 1 <= n PROVE f[m + 1] = g[m + 1]
    <3>1. m + 1 \in 1 .. n /\ (m + 1) - 1 = m /\ m <= n
      BY <2>1, <2>2
    <3>2. f[m] = g[m]
      BY <3>1
    <3>3. /\ f[m + 1] = ReconciledIn(view, wanted, f[m], picked[m + 1])
          /\ g[m + 1] = ReconciledIn(view, wanted, g[m], picked[m + 1])
      BY <1>1, <1>2, <3>1 DEF Reconciles
    <3>4. QED
      BY <3>2, <3>3
  <2>3. QED
    BY <2>1, <2>2
<1> HIDE DEF P
<1>5. P = Nat
  BY <1>3, <1>4, NatSteps DEF P
<1>6. n \in P
  BY <1>5
<1>7. QED
  BY <1>1, <1>2, <1>6 DEF P

\* View and Selected of the call that opens commit c.
ViewOf(c) == [i \in DOMAIN commits[c] |->
                 [rows |-> segs[commits[c][i].name].rows, shapes |-> segs[commits[c][i].name].shapes,
                  deleted |-> Deleted(commits[c][i])]]
PickedOf(c) ==
    IF request.all THEN [i \in DOMAIN commits[c] |-> i]
    ELSE [k \in DOMAIN request.names |->
             Min({i \in DOMAIN commits[c] : commits[c][i].name = request.names[k]})]

LEMMA ViewOfSeen == ViewOf(seen) = View /\ PickedOf(seen) = Selected
  BY DEF ViewOf, View, PickedOf, Selected, Snapshot, Named

LEMMA ViewOfKept ==
    ASSUME DirOK, Keeps, request' = request, NEW c \in 1 .. Len(commits)
    PROVE  ViewOf(c)' = ViewOf(c) /\ PickedOf(c)' = PickedOf(c)
<1>1. PICK listed \in Seq(Filed) : listed = commits[c] /\ listed = commits'[c]
  BY DEF DirOK, Keeps
<1>2. ASSUME NEW i \in DOMAIN listed
      PROVE  /\ segs'[listed[i].name] = segs[listed[i].name]
             /\ listed[i].del_gen # 0 =>
                   dels'[listed[i].name][listed[i].del_gen] = dels[listed[i].name][listed[i].del_gen]
  <2>1. PICK e \in Filed : e = listed[i]
    BY <1>2, ElementOfSeq
  <2>2. /\ e.name \in 1 .. Len(segs) /\ e.del_gen \in Nat /\ e.del_gen <= Len(dels[e.name])
        /\ dels[e.name] \in Seq(SUBSET Nat)
    BY FiledSegments DEF Generations
  <2>3. e.name \in 1 .. Len(dels) /\ (e.del_gen # 0 => e.del_gen \in 1 .. Len(dels[e.name]))
    BY <2>2 DEF DirOK
  <2>4. QED
    BY <2>1, <2>2, <2>3 DEF Keeps
<1>3. ViewOf(c)' = ViewOf(c)
  BY <1>1, <1>2 DEF ViewOf, Deleted
<1>4. PickedOf(c)' = PickedOf(c)
  BY <1>1 DEF PickedOf
<1>5. QED
  BY <1>3, <1>4

\* What get_flight_info says of a commit is what do_get finds in it.
ColumnsOf(fields) ==
    Chosen(SystemColumns, {n \in DOMAIN SystemColumns : Wants(SystemColumns[n])})
    \o (IF request.row_mode = "positional" /\ Wants("_live") THEN <<"_live">> ELSE <<>>)
    \o [k \in DOMAIN fields |-> fields[k][1]]
RowsOf(view, picked) == Total([k \in DOMAIN picked |-> Len(view[picked[k]].rows)])
Promised(view, picked, answer) ==
    /\ \E fields : /\ Reached(view, Wanted, picked, Len(picked), fields)
                   /\ answer.columns = ColumnsOf(fields)
    /\ answer.total = RowsOf(view, picked)

InfoOrdered ==
    /\ pc = "batch" => call = "get"
    /\ call = "get" \/ pc = "done" => info # <<>>
SchemaReached ==
    /\ pc = "plan" => Reached(View, Wanted, Selected, next - 1, schema)
    /\ pc \in {"batch", "done"} => Reached(View, Wanted, Selected, Len(Selected), schema)
InfoDescribed ==
    info # <<>> => /\ info[1].seen \in 1 .. Len(commits)
                   /\ Promised(ViewOf(info[1].seen), PickedOf(info[1].seen), info[1])

InfoIInv == DelsInRange /\ InfoOrdered /\ SchemaReached /\ InfoDescribed

LEMMA InfoKept ==
    ASSUME DirOK, Keeps, InfoDescribed, UNCHANGED <<request, info>> PROVE InfoDescribed'
<1> SUFFICES ASSUME info # <<>> PROVE InfoDescribed'
  BY DEF InfoDescribed
<1>1. PICK c \in 1 .. Len(commits) : c = info[1].seen
  BY DEF InfoDescribed
<1>2. c \in 1 .. Len(commits') /\ c = info'[1].seen
  BY <1>1 DEF Keeps
<1>3. ViewOf(c)' = ViewOf(c) /\ PickedOf(c)' = PickedOf(c)
  BY ViewOfKept
<1>4. PICK view, picked : view = ViewOf(c) /\ picked = PickedOf(c)
  OBVIOUS
<1>5. PICK fields : /\ Reached(view, Wanted, picked, Len(picked), fields)
                    /\ info[1].columns = ColumnsOf(fields)
  BY <1>1, <1>4 DEF InfoDescribed, Promised
<1>6. info[1].total = RowsOf(view, picked)
  BY <1>1, <1>4 DEF InfoDescribed, Promised
<1>7. Wanted' = Wanted /\ ColumnsOf(fields)' = ColumnsOf(fields)
  BY DEF Wanted, Wants, ColumnsOf
<1>8. ViewOf(c)' = view /\ PickedOf(c)' = picked
  BY <1>3, <1>4
<1>9. Promised(view, picked, info[1])'
  BY <1>5, <1>6, <1>7 DEF Promised
<1>10. QED
  BY <1>2, <1>8, <1>9 DEF InfoDescribed

LEMMA ReachedKept ==
    ASSUME DirOK, Keeps, ReaderOK, SchemaReached, UNCHANGED <<pc, request, seen, next, schema>>
    PROVE  SchemaReached'
<1> SUFFICES ASSUME pc \in {"plan", "batch", "done"} PROVE SchemaReached'
  BY DEF SchemaReached
<1>1. seen \in 1 .. Len(commits)
  BY DEF ReaderOK, DirOK
<1>2. View' = View /\ Selected' = Selected
  BY <1>1, ViewKept
<1>3. Wanted' = Wanted
  BY DEF Wanted, Wants
<1>4. QED
  BY <1>2, <1>3 DEF SchemaReached

LEMMA NextReaches ==
    ASSUME ConstantsAssumption, DirOK, Keeps, ReaderOK, SchemaReached, Next PROVE SchemaReached'
<1>1. CASE Writer
  <2>1. UNCHANGED reader
    BY <1>1 DEF Writer, Flush, Delete, Merge, Commit, Prune
  <2>2. QED
    BY <2>1, ReachedKept DEF reader
<1>2. CASE Begin \/ OpenCommit \/ OpenSegment \/ Refuse
  <2>1. pc' \in {"open", "failed"}
    BY <1>2 DEF Begin, OpenCommit, OpenSegment, Refuse, Fail
  <2>2. QED
    BY <2>1 DEF SchemaReached
<1>3. CASE Select \/ PlanSegment \/ Resolved \/ SegmentBatches \/ Streamed
  <2>1. /\ seen # 0 /\ pc \in {"open", "plan", "batch"} /\ UNCHANGED <<seen, request>>
    BY <1>3 DEF Select, PlanSegment, Resolved, SegmentBatches, Streamed, ReaderOK
  <2>2. seen \in 1 .. Len(commits) /\ request \in Requests /\ AllNamed
    BY <1>3, <2>1 DEF Select, PlanSegment, Resolved, SegmentBatches, Streamed, ReaderOK, DirOK
  <2>3. View' = View /\ Selected' = Selected /\ Wanted' = Wanted /\ Len(Selected) \in Nat
    BY <2>1, <2>2, ViewKept, SelectedTyped DEF Wanted, Wants
  <2>4. CASE Select
    <3>1. pc' = "plan" /\ next' - 1 = 0 /\ schema' = <<>>
      BY <2>4 DEF Select, ReaderOK
    <3>2. Reached(View, Wanted, Selected, 0, <<>>)
      BY ReachedFirst
    <3>3. QED
      BY <2>3, <3>1, <3>2 DEF SchemaReached
  <2>5. CASE PlanSegment
    <3>1. /\ pc = "plan" /\ pc' = "plan" /\ next \in 1 .. Len(Selected) /\ next' = next + 1
          /\ schema' = Reconciled(Selected[next])
      BY <2>3, <2>5 DEF PlanSegment, ReaderOK
    <3>2. PICK n \in Nat : n = next - 1 /\ next = n + 1
      BY <2>3, <3>1
    <3>3. Selected[next] \in DOMAIN Snapshot
      BY <2>2, <3>1, SelectedTyped
    <3>4. schema' = ReconciledIn(View, Wanted, schema, Selected[n + 1])
      BY <2>2, <3>1, <3>2, <3>3, ReconciledFromView
    <3>5. Reached(View, Wanted, Selected, n, schema)
      BY <3>1, <3>2 DEF SchemaReached
    <3>6. Reached(View, Wanted, Selected, n + 1, schema')
      BY <3>4, <3>5, ReachedNext
    <3>7. next' - 1 = n + 1
      BY <3>1, <3>2
    <3>8. QED
      BY <2>3, <3>1, <3>6, <3>7 DEF SchemaReached
  <2>6. CASE Resolved
    <3>1. /\ pc = "plan" /\ pc' \in {"batch", "done"} /\ next - 1 = Len(Selected) /\ schema' = schema
      BY <2>3, <2>6 DEF Resolved, ReaderOK, AllVisited
    <3>2. QED
      BY <2>3, <3>1 DEF SchemaReached
  <2>7. CASE SegmentBatches \/ Streamed
    <3>1. pc = "batch" /\ pc' \in {"batch", "done"} /\ schema' = schema
      BY <2>7 DEF SegmentBatches, Streamed
    <3>2. QED
      BY <2>3, <3>1 DEF SchemaReached
  <2>8. QED
    BY <1>3, <2>4, <2>5, <2>6, <2>7
<1>4. QED
  BY <1>1, <1>2, <1>3 DEF Next, Server

LEMMA ResolvedDescribes ==
    ASSUME ConstantsAssumption, DirOK, Keeps, ReaderOK, SchemaReached, InfoDescribed, Resolved
    PROVE  InfoDescribed'
<1>1. CASE call # "info"
  BY <1>1, InfoKept DEF Resolved
<1>2. CASE call = "info"
  <2>1. /\ pc = "plan" /\ next > Len(Selected) /\ UNCHANGED <<seen, request, schema>>
        /\ info' = <<[seen |-> seen, columns |-> Columns, total |-> TotalRecords]>>
    BY <1>2 DEF Resolved, AllVisited
  <2>2. seen \in 1 .. Len(commits) /\ request \in Requests /\ AllNamed
    BY <2>1 DEF ReaderOK, DirOK
  <2>3. PICK c \in 1 .. Len(commits) : c = seen
    BY <2>2
  <2>4. PICK view, picked : view = ViewOf(c) /\ picked = PickedOf(c)
    OBVIOUS
  <2>5. view = View /\ picked = Selected
    BY <2>3, <2>4, ViewOfSeen
  <2>6. ViewOf(c)' = view /\ PickedOf(c)' = picked /\ c \in 1 .. Len(commits')
    BY <2>1, <2>4, ViewOfKept DEF Keeps
  <2>7. /\ Len(Selected) \in Nat /\ DOMAIN Selected = 1 .. Len(Selected)
        /\ \A k \in 1 .. Len(Selected) : Selected[k] \in DOMAIN Snapshot
    BY <2>2, SelectedTyped
  <2>8. Reached(view, Wanted, picked, Len(picked), schema)
    <3>1. next - 1 = Len(Selected)
      BY <2>1, <2>7 DEF ReaderOK
    <3>2. QED
      BY <2>1, <2>5, <3>1 DEF SchemaReached
  <2>9. TotalRecords = RowsOf(view, picked)
    <3>1. \A k \in DOMAIN Selected : MaxDoc(Selected[k]) = Len(View[Selected[k]].rows)
      BY <2>2, <2>7, ViewTyped DEF MaxDoc
    <3>2. [k \in DOMAIN Selected |-> MaxDoc(Selected[k])]
             = [k \in DOMAIN Selected |-> Len(View[Selected[k]].rows)]
      BY <3>1
    <3>3. TotalRecords = Total([k \in DOMAIN Selected |-> MaxDoc(Selected[k])])
      BY DEF TotalRecords, SumOver
    <3>4. QED
      BY <2>5, <3>2, <3>3 DEF RowsOf
  <2>10. Columns = ColumnsOf(schema)
    BY DEF Columns, ColumnsOf
  <2>11. Wanted' = Wanted /\ ColumnsOf(schema)' = ColumnsOf(schema)
    BY <2>1 DEF Wanted, Wants, ColumnsOf
  <2>12. PICK fields : fields = schema /\ ColumnsOf(fields)' = ColumnsOf(schema)
    BY <2>1, <2>11
  <2>13. info' # <<>> /\ info'[1].seen = c /\ info'[1].columns = ColumnsOf(schema)
         /\ info'[1].total = RowsOf(view, picked)
    BY <2>1, <2>3, <2>9, <2>10
  <2>14. Promised(view, picked, info[1])'
    BY <2>8, <2>11, <2>12, <2>13 DEF Promised
  <2>15. QED
    BY <2>6, <2>13, <2>14 DEF InfoDescribed
<1>3. QED
  BY <1>1, <1>2

LEMMA NextOrders == ASSUME InfoOrdered, ReaderOK, Next PROVE InfoOrdered'
<1>1. CASE Writer
  <2>1. UNCHANGED reader
    BY <1>1 DEF Writer, Flush, Delete, Merge, Commit, Prune
  <2>2. QED
    BY <2>1 DEF InfoOrdered, reader
<1>2. CASE Begin
  BY <1>2 DEF Begin, InfoOrdered
<1>3. CASE Resolved
  <2>1. CASE call = "info"
    BY <1>3, <2>1 DEF Resolved, InfoOrdered
  <2>2. CASE call # "info"
    BY <1>3, <2>2 DEF Resolved, InfoOrdered, ReaderOK
  <2>3. QED
    BY <2>1, <2>2
<1>4. CASE Streamed
  BY <1>4 DEF Streamed, InfoOrdered
<1>5. CASE OpenCommit \/ OpenSegment \/ Select \/ PlanSegment \/ SegmentBatches \/ Refuse
  <2>1. UNCHANGED <<call, info>> /\ pc' # "done" /\ (pc' = "batch" => pc = "batch")
    BY <1>5 DEF OpenCommit, OpenSegment, Select, PlanSegment, SegmentBatches, Refuse, Fail
  <2>2. QED
    BY <2>1 DEF InfoOrdered
<1>6. QED
  BY <1>1, <1>2, <1>3, <1>4, <1>5 DEF Next, Server

LEMMA InfoNextHolds ==
    ConstantsAssumption /\ ReadIInv /\ InfoIInv /\ [Next]_vars => InfoIInv'
<1> SUFFICES ASSUME ConstantsAssumption, ReadIInv, InfoIInv, [Next]_vars PROVE InfoIInv'
  OBVIOUS
<1>1. DirOK /\ ReaderOK /\ Keeps
  BY NextKeeps DEF ReadIInv
<1>2. DelsInRange'
  BY <1>1, DelsStayInRange DEF InfoIInv
<1>3. CASE Next
  <2>1. SchemaReached'
    BY <1>1, <1>3, NextReaches DEF InfoIInv
  <2>2. InfoOrdered'
    BY <1>1, <1>3, NextOrders DEF InfoIInv
  <2>3. InfoDescribed'
    <3>1. CASE Resolved
      BY <1>1, <3>1, ResolvedDescribes DEF InfoIInv
    <3>2. CASE ~Resolved
      <4>1. UNCHANGED <<request, info>>
        BY <1>3, <3>2 DEF Next, Writer, Flush, Delete, Merge, Commit, Prune, reader, Begin, Server,
              OpenCommit, OpenSegment, Select, PlanSegment, SegmentBatches, Streamed, Refuse, Fail
      <4>2. QED
        BY <1>1, <4>1, InfoKept DEF InfoIInv
    <3>3. QED
      BY <3>1, <3>2
  <2>4. QED
    BY <1>2, <2>1, <2>2, <2>3 DEF InfoIInv
<1>4. CASE UNCHANGED vars
  <2>1. UNCHANGED <<pc, call, request, seen, next, schema, info>>
    BY <1>4 DEF vars, reader
  <2>2. SchemaReached' /\ InfoDescribed'
    BY <1>1, <2>1, ReachedKept, InfoKept DEF InfoIInv
  <2>3. QED
    BY <1>2, <2>1, <2>2 DEF InfoIInv, InfoOrdered
<1>5. QED
  BY <1>3, <1>4

LEMMA InfoInitHolds == ConstantsAssumption /\ Init => InfoIInv
<1> SUFFICES ASSUME Init PROVE InfoIInv
  OBVIOUS
<1>1. dels = <<<<>>>> /\ pc = "idle" /\ call = "info" /\ info = <<>>
  BY DEF Init
<1>2. DelsInRange
  <2>1. Len(dels) = 1 /\ dels[1] = <<>> /\ Len(<<>>) = 0
    BY <1>1
  <2>2. \A s \in 1 .. Len(dels) : Len(dels[s]) = 0
    BY <2>1
  <2>3. QED
    BY <2>2 DEF DelsInRange
<1>3. QED
  BY <1>1, <1>2 DEF InfoIInv, InfoOrdered, SchemaReached, InfoDescribed

\* The rows a do_get has delivered and the tombstones it has left out are the
\* documents of the segments it went over.
LEMMA RowsAndTombstones ==
    ASSUME ConstantsAssumption, ReadIInv, DelsInRange, Got
    PROVE  RowsOf(View, Selected) = Len(FlattenSeq(out))
              + (IF request.row_mode = "positional" THEN 0
                 ELSE SumOver(LAMBDA i : Cardinality(Deleted(Snapshot[i]))))
<1>1. seen \in 1 .. Len(commits) /\ AllNamed /\ Understood /\ DirOK /\ request \in Requests
  BY DEF ReadIInv, ReaderOK, DirOK, Got
<1>2. PICK n \in Nat : n = Len(Selected) /\ DOMAIN Selected = 1 .. n
                       /\ \A k \in 1 .. n : Selected[k] \in DOMAIN Snapshot
  BY <1>1, SelectedTyped
<1>3. PICK D : D = DOMAIN Snapshot
  OBVIOUS
<1>4. PICK T : T = D \X Nat
  OBVIOUS
<1>5. PICK mode : mode = request.row_mode
  OBVIOUS
<1>6. PICK view : view = View
  OBVIOUS
<1> DEFINE Size(k) == Len(view[Selected[k]].rows)
<1> DEFINE Asks(k) == Cardinality(DocsAsked(view, mode, Selected[k]))
<1> DEFINE Lost(k) == Cardinality(view[Selected[k]].deleted)
<1>7. ASSUME NEW k \in 1 .. n
      PROVE  /\ Size(k) \in Nat /\ Asks(k) \in Nat
             /\ AskedIn(view, mode, Selected[k]) \in Seq(T)
             /\ mode = "positional" => Asks(k) = Size(k)
             /\ mode # "positional" => Lost(k) \in Nat /\ Size(k) = Asks(k) + Lost(k)
             /\ Lost(k) = Cardinality(Deleted(Snapshot[Selected[k]]))
  <2>1. PICK i \in DOMAIN Snapshot : i = Selected[k]
    BY <1>2
  <2>2. view[i].rows \in Seq(1 .. MaxRows) /\ view[i].deleted = Deleted(Snapshot[i])
        /\ view[i].rows = segs[Snapshot[i].name].rows
    BY <1>1, <1>6, ViewTyped
  <2>3. PICK size \in Nat : size = Len(view[i].rows)
    BY <2>2
  <2>4. view[i].deleted \subseteq 0 .. size - 1
    <3>1. PICK e \in Filed : e = Snapshot[i]
      BY <1>1, SnapshotTyped
    <3>2. QED
      BY <1>1, <2>2, <2>3, <3>1, DeletedInRange
  <2>5. /\ Cardinality(DocsAsked(view, mode, i)) \in Nat
        /\ mode = "positional" => Cardinality(DocsAsked(view, mode, i)) = size
        /\ mode # "positional" =>
              /\ Cardinality(view[i].deleted) \in Nat
              /\ size = Cardinality(DocsAsked(view, mode, i)) + Cardinality(view[i].deleted)
    <3>1. Cardinality(DocsAsked(view, mode, i)) \in Nat
      BY <2>3, DocsCounted
    <3>2. mode = "positional" => Cardinality(DocsAsked(view, mode, i)) = size
      BY <2>3, DocsCounted
    <3>3. mode # "positional" =>
             /\ Cardinality(view[i].deleted) \in Nat
             /\ size = Cardinality(DocsAsked(view, mode, i)) + Cardinality(view[i].deleted)
      BY <2>3, <2>4, DocsCounted
    <3>4. QED
      BY <3>1, <3>2, <3>3
  <2>6. AskedIn(view, mode, i) \in Seq(T)
    BY <1>1, <1>3, <1>4, <1>5, <1>6, AskedTyped
  <2>7. QED
    BY <2>1, <2>2, <2>3, <2>5, <2>6
<1>8. PICK a \in [1 .. n -> Nat] : a = [k \in 1 .. n |-> Asks(k)]
  BY <1>7
<1>9. RowsOf(View, Selected) = Total([k \in 1 .. n |-> Size(k)])
  BY <1>2, <1>6 DEF RowsOf
<1>10. SumOver(LAMBDA i : Cardinality(Deleted(Snapshot[i]))) = Total([k \in 1 .. n |-> Lost(k)])
  <2>1. [k \in 1 .. n |-> Cardinality(Deleted(Snapshot[Selected[k]]))] = [k \in 1 .. n |-> Lost(k)]
    BY <1>7
  <2>2. QED
    BY <1>2, <2>1 DEF SumOver
<1>11. Len(FlattenSeq(out)) = Total(a)
  <2>1. Len(FlattenSeq(out)) = Len(AskedUpTo(view, mode, Selected, n))
    BY <1>2, <1>5, <1>6 DEF ReadIInv, BuiltRows, Answers
  <2>2. PICK selected : selected = Selected
    OBVIOUS
  <2>3. Sized(T, view, mode, selected, n, a)
    BY <1>7, <1>8, <2>2 DEF Sized
  <2>4. Len(AskedUpTo(view, mode, selected, n)) = Total(a)
    BY <2>3, AskedUpToCounted
  <2>5. QED
    BY <2>1, <2>2, <2>4
<1> HIDE DEF Size, Asks, Lost
<1>12. PICK s \in [1 .. n -> Nat] : s = [k \in 1 .. n |-> Size(k)]
  <2>1. \A k \in 1 .. n : Size(k) \in Nat
    BY <1>7
  <2>2. QED
    BY <2>1
<1>13. Total(a) \in Nat
  BY TotalType
<1>14. CASE mode = "positional"
  <2>1. s = a
    BY <1>7, <1>8, <1>12, <1>14
  <2>2. QED
    BY <1>5, <1>9, <1>11, <1>12, <1>13, <1>14, <2>1
<1>15. CASE mode # "positional"
  <2>1. PICK b \in [1 .. n -> Nat] : b = [k \in 1 .. n |-> Lost(k)]
    <3>1. \A k \in 1 .. n : Lost(k) \in Nat
      BY <1>7, <1>15
    <3>2. QED
      BY <3>1
  <2>2. \A k \in 1 .. n : s[k] = a[k] + b[k]
    BY <1>7, <1>8, <1>12, <1>15, <2>1
  <2>3. Total(s) = Total(a) + Total(b)
    BY <2>2, TotalAdds
  <2>4. QED
    BY <1>5, <1>9, <1>10, <1>11, <1>12, <1>15, <2>1, <2>3
<1>16. QED
  BY <1>14, <1>15

\* When both calls open the same commit, the info has the columns of the stream,
\* and its total_records are the rows of the stream and the tombstones a compact
\* answer leaves out (get_flight_info and do_get, resolve).
THEOREM InfoIsTrue == ASSUME ConstantsAssumption PROVE Spec => []InfoDescribesStream
<1>1. ConstantsAssumption /\ ReadIInv /\ InfoIInv => InfoDescribesStream
  <2> SUFFICES ASSUME ConstantsAssumption, ReadIInv, InfoIInv, Got, info[1].seen = seen
               PROVE  /\ info[1].columns = Columns
                      /\ info[1].total = Len(FlattenSeq(out))
                            + (IF request.row_mode = "positional" THEN 0
                               ELSE SumOver(LAMBDA i : Cardinality(Deleted(Snapshot[i]))))
    BY DEF InfoDescribesStream
  <2>1. info # <<>> /\ pc = "done"
    BY DEF InfoIInv, InfoOrdered, Got
  <2>2. Promised(View, Selected, info[1])
    BY <2>1, ViewOfSeen DEF InfoIInv, InfoDescribed
  <2>3. PICK fields : /\ Reached(View, Wanted, Selected, Len(Selected), fields)
                      /\ info[1].columns = ColumnsOf(fields)
    BY <2>2 DEF Promised
  <2>4. Reached(View, Wanted, Selected, Len(Selected), schema)
    BY <2>1 DEF InfoIInv, SchemaReached
  <2>5. Len(Selected) \in Nat
    <3>1. seen \in 1 .. Len(commits) /\ AllNamed /\ DirOK /\ request \in Requests
      BY DEF ReadIInv, ReaderOK, DirOK, Got
    <3>2. QED
      BY <3>1, SelectedTyped
  <2>6. fields = schema
    BY <2>3, <2>4, <2>5, ReachedOnce
  <2>7. Columns = ColumnsOf(schema)
    BY DEF Columns, ColumnsOf
  <2>8. info[1].total = RowsOf(View, Selected)
    BY <2>2 DEF Promised
  <2>9. DelsInRange
    BY DEF InfoIInv
  <2>10. QED
    BY <2>3, <2>6, <2>7, <2>8, <2>9, RowsAndTombstones
<1>2. ConstantsAssumption => (Spec => []InfoIInv)
  BY ReadInvariant, InfoInitHolds, InfoNextHolds, PTL DEF Spec
<1>3. QED
  BY <1>1, <1>2, ReadInvariant, PTL

-----------------------------------------------------------------------------
(* Hydrate.  The inductive invariant.                                      *)

Types == {"str", "bytes", "i64", "f64"}
Documents == [id : Nat \X Nat, stored : Stored]
Cells == {None} \cup [doc : Nat \X Nat, place : Nat, type : Types]

HydrateShape ==
    /\ segments \in Seq(Seq(Documents))
    /\ pairs \in Seq(Nat \X Nat)
    /\ by_seg \in SUBSET Nat
    /\ stage \in {"called", "fetch", "build", "done", "failed"}
    /\ buf \in [type : Types \cup {"unknown"}, cells : Seq(Cells)]
    /\ arrays \in Seq([type : Types, cells : Seq(Cells)])
    /\ stage # "called" => rows \in [DOMAIN pairs -> [ToSet(AskedColumns) -> Cells]]

Located(p) == p[1] < Len(segments) /\ p[2] < Len(segments[p[1] + 1])

(* A pair whose segment is no longer waited for has its document's row. *)
HasRow(i) == Located(pairs[i]) /\ rows[i] = Inserted(DocAt(pairs[i]))
RowsFetched ==
    /\ stage = "fetch" => by_seg \subseteq {pairs[i][1] : i \in DOMAIN pairs}
    /\ stage = "fetch" => \A i \in DOMAIN pairs : pairs[i][1] \notin by_seg => HasRow(i)
    /\ stage \in {"build", "done"} => \A i \in DOMAIN pairs : HasRow(i)

(* The cells of a column are the rows', its values all of its own type. *)
Holds(b, c) == \A k \in DOMAIN b.cells :
    b.cells[k] = rows[k][c] /\ (b.cells[k] # None => b.cells[k].type = b.type)

ArraysHold ==
    /\ Len(arrays) <= Len(AskedColumns)
    /\ \A a \in DOMAIN arrays :
          Len(arrays[a].cells) = Len(pairs) /\ Holds(arrays[a], AskedColumns[a])

(* The column being built is a prefix of the rows; a type it has was seen. *)
BufHolds ==
    /\ Len(buf.cells) <= Len(pairs)
    /\ Len(arrays) < Len(AskedColumns) => Holds(buf, Column)
    /\ buf.type # "unknown" => \E k \in DOMAIN buf.cells :
                                  buf.cells[k] # None /\ buf.cells[k].type = buf.type

Stages ==
    /\ stage \in {"called", "fetch"} =>
          arrays = <<>> /\ buf = [type |-> "unknown", cells |-> <<>>]
    /\ stage = "done" => Len(arrays) = Len(AskedColumns)
    /\ stage = "failed" => Refusable

IInv == HydrateShape /\ RowsFetched /\ ArraysHold /\ BufHolds /\ Stages

-----------------------------------------------------------------------------
(* What a row and the state give.                                          *)

LEMMA StoredIsFinite ==
    ASSUME HydrateAssumption, NEW doc \in Documents, NEW c
    PROVE  /\ Len(doc.stored) \in Nat
           /\ ValuesOf(doc, c) \in SUBSET (1 .. Len(doc.stored))
           /\ \A k \in DOMAIN doc.stored : doc.stored[k].type \in Types
BY DEF HydrateAssumption, Documents, ValuesOf, Types

(* The last value a document stores of a column, or None. *)
LEMMA InsertedIsLast ==
    ASSUME HydrateAssumption, NEW doc \in Documents, NEW c \in ToSet(AskedColumns)
    PROVE  /\ Inserted(doc)[c] \in Cells
           /\ Inserted(doc)[c] = None <=> ValuesOf(doc, c) = {}
           /\ ValuesOf(doc, c) # {} =>
                /\ Inserted(doc)[c] = [doc |-> doc.id, place |-> Max(ValuesOf(doc, c)),
                                        type |-> doc.stored[Max(ValuesOf(doc, c))].type]
                /\ Inserted(doc)[c].type \in Types
                /\ \A k \in ValuesOf(doc, c) : k <= Inserted(doc)[c].place
<1> DEFINE values == ValuesOf(doc, c)
<1>1. CASE values = {}
  BY <1>1 DEF Inserted, ValuesOf, Cells
<1>2. CASE values # {}
  <2>1. Max(values) \in values /\ \A k \in values : k <= Max(values)
    <3>1. PICK n \in Nat : n = Len(doc.stored)
      BY StoredIsFinite
    <3>2. values \in SUBSET (1 .. n)
      BY <3>1, StoredIsFinite
    <3>3. values \in SUBSET (0 .. n)
      BY <3>2
    <3>4. QED
      BY <1>2, <3>3, MaxIsGreatest
  <2>2. Inserted(doc)[c] = [doc |-> doc.id, place |-> Max(values), type |-> doc.stored[Max(values)].type]
    BY <1>2 DEF Inserted, ValuesOf
  <2>3. Max(values) \in Nat /\ doc.stored[Max(values)].type \in Types
    <3>1. Len(doc.stored) \in Nat /\ values \in SUBSET (1 .. Len(doc.stored))
      BY StoredIsFinite
    <3>2. values \subseteq DOMAIN doc.stored
      BY DEF ValuesOf
    <3>3. QED
      BY <2>1, <3>1, <3>2, StoredIsFinite
  <2>4. doc.id \in Nat \X Nat
    BY DEF Documents
  <2>5. Inserted(doc)[c] \in Cells /\ Inserted(doc)[c] # None
    <3>1. Inserted(doc)[c].type # None.type
      BY <2>2, <2>3 DEF None, Types
    <3>2. QED
      BY <2>2, <2>3, <2>4, <3>1 DEF Cells
  <2>6. QED
    BY <1>2, <2>1, <2>2, <2>3, <2>5
<1>3. QED
  BY <1>1, <1>2

LEMMA InsertedRow ==
    ASSUME HydrateAssumption, NEW doc \in Documents
    PROVE  Inserted(doc) \in [ToSet(AskedColumns) -> Cells]
<1>1. \A c \in ToSet(AskedColumns) : Inserted(doc)[c] \in Cells
  BY InsertedIsLast
<1>2. QED
  BY <1>1 DEF Inserted

LEMMA ColumnsAreColumns ==
    ASSUME HydrateAssumption, NEW k \in 1 .. Len(AskedColumns) PROVE AskedColumns[k] \in ToSet(AskedColumns)
BY DEF HydrateAssumption, ToSet

(* An address in the commit is a document; NoDoc is none. *)
LEMMA DocAtIsDoc ==
    ASSUME HydrateShape, NEW p \in Nat \X Nat
    PROVE  /\ Located(p) => DocAt(p) \in Documents /\ DocAt(p) # NoDoc
           /\ ~Located(p) => DocAt(p) = NoDoc
<1>1. CASE Located(p)
  <2>1. p[1] + 1 \in 1 .. Len(segments) /\ segments[p[1] + 1] \in Seq(Documents)
    BY <1>1, ElementOfSeq DEF Located, HydrateShape
  <2>2. segments[p[1] + 1][p[2] + 1] \in Documents
    BY <1>1, <2>1 DEF Located
  <2>3. NoDoc \notin Documents
    BY DEF NoDoc, Documents
  <2>4. QED
    BY <1>1, <2>2, <2>3 DEF Located, DocAt
<1>2. QED
  BY <1>1 DEF Located, DocAt

(* A finished array has a cell for each pair. *)
LEMMA ArraysOfPairs ==
    ASSUME HydrateAssumption, HydrateShape, ArraysHold, NEW a \in DOMAIN arrays
    PROVE  DOMAIN arrays[a].cells = DOMAIN pairs /\ a \in 1 .. Len(AskedColumns)
<1>1. PICK T : T = [type : Types, cells : Seq(Cells)]
  OBVIOUS
<1>2. arrays \in Seq(T)
  BY <1>1 DEF HydrateShape
<1>3. arrays[a] \in T /\ a \in 1 .. Len(arrays) /\ Len(arrays) \in Nat
  BY <1>2, ElementOfSeq
<1>4. PICK cells \in Seq(Cells) : cells = arrays[a].cells
  BY <1>1, <1>3
<1>5. Len(cells) = Len(pairs) /\ Len(arrays) <= Len(AskedColumns)
  BY <1>4 DEF ArraysHold
<1>6. DOMAIN cells = 1 .. Len(cells)
  OBVIOUS
<1>7. DOMAIN pairs = 1 .. Len(pairs)
  BY DEF HydrateShape
<1>8. Len(AskedColumns) \in Nat
  BY DEF HydrateAssumption
<1>9. QED
  BY <1>3, <1>4, <1>5, <1>6, <1>7, <1>8

LEMMA PairsAreAddresses ==
    ASSUME HydrateShape, NEW i \in DOMAIN pairs PROVE pairs[i] \in Nat \X Nat
BY ElementOfSeq DEF HydrateShape

-----------------------------------------------------------------------------
(* The initial states.                                                     *)

LEMMA InitInv == ASSUME HydrateAssumption PROVE HydrateInit => IInv
<1> SUFFICES ASSUME HydrateInit PROVE IInv
  OBVIOUS
<1>1. segments \in Seq(Seq(Documents))
  <2>1. PICK c \in [Scanned -> Stored] :
          segments = [s \in 1 .. Len(Sizes) |-> [d \in 1 .. Sizes[s] |-> ScannedDoc(c, s, d)]]
    BY DEF HydrateInit
  <2>2. Len(Sizes) \in Nat /\ \A s \in 1 .. Len(Sizes) : Sizes[s] \in Nat
    BY DEF HydrateAssumption
  <2>3. ASSUME NEW s \in 1 .. Len(Sizes), NEW d \in 1 .. Sizes[s]
        PROVE  ScannedDoc(c, s, d) \in Documents
    <3>1. s - 1 \in Nat /\ d - 1 \in 0 .. Sizes[s] - 1 /\ d - 1 \in Nat
      BY <2>2
    <3>2. s \in DOMAIN Sizes
      BY DEF HydrateAssumption
    <3>3. <<s - 1, d - 1>> \in Scanned
      BY <3>1, <3>2 DEF Scanned
    <3>4. QED
      BY <3>1, <3>3 DEF ScannedDoc, Documents
  <2>4. ASSUME NEW s \in 1 .. Len(Sizes)
        PROVE  [d \in 1 .. Sizes[s] |-> ScannedDoc(c, s, d)] \in Seq(Documents)
    BY <2>2, <2>3, SeqDef
  <2>5. QED
    BY <2>1, <2>2, <2>4, SeqDef
<1>2. pairs \in Seq(Nat \X Nat)
  <2>1. Addresses \subseteq Nat \X Nat
    BY DEF Addresses, HydrateAssumption
  <2>2. PICK m \in 0 .. MaxPairs : pairs \in [1 .. m -> Addresses]
    BY DEF HydrateInit, SeqOf
  <2>3. m \in Nat
    BY DEF HydrateAssumption
  <2>4. QED
    BY <2>1, <2>2, <2>3, SeqDef
<1>3. HydrateShape
  BY <1>1, <1>2 DEF HydrateShape, HydrateInit
<1>4. ArraysHold /\ BufHolds
  <2>1. Len(AskedColumns) \in Nat /\ Len(pairs) \in Nat
    BY <1>2 DEF HydrateAssumption
  <2>2. QED
    BY <2>1 DEF HydrateInit, ArraysHold, BufHolds, Holds
<1>5. QED
  BY <1>3, <1>4 DEF HydrateInit, IInv, RowsFetched, Stages

-----------------------------------------------------------------------------
(* The steps.  What a pair refers to changes with a merge only, and that    *)
(* comes before the call.                                                   *)

LEMMA SameRefusals ==
    ASSUME segments' = segments, pairs' = pairs PROVE Refusable' = Refusable
BY DEF Refusable, Mixed, LastType, ValuesOf, DocAt

LEMMA SameRows ==
    ASSUME segments' = segments, pairs' = pairs, rows' = rows, NEW i
    PROVE  HasRow(i)' = HasRow(i)
BY DEF HasRow, Located, DocAt, Inserted

LEMMA NewRow ==
    ASSUME segments' = segments, pairs' = pairs, NEW i,
           Located(pairs[i]), rows'[i] = Inserted(DocAt(pairs[i]))
    PROVE  HasRow(i)'
<1>1. DocAt(pairs[i])' = DocAt(pairs[i]) /\ Located(pairs[i])'
  BY DEF Located, DocAt
<1>2. Inserted(DocAt(pairs[i]))' = Inserted(DocAt(pairs[i]))
  BY <1>1
<1>3. QED
  BY <1>1, <1>2 DEF HasRow

LEMMA SameArrays ==
    ASSUME ArraysHold, pairs' = pairs, rows' = rows, arrays' = arrays PROVE ArraysHold'
BY DEF ArraysHold, Holds

LEMMA SameBuf ==
    ASSUME BufHolds, pairs' = pairs, rows' = rows, arrays' = arrays, buf' = buf PROVE BufHolds'
BY DEF BufHolds, Holds, Column

LEMMA MergeInv == ASSUME HydrateAssumption, IInv, MergeFirst PROVE IInv'
<1>1. segments' \in Seq(Seq(Documents))
  <2>1. segments \in Seq(Seq(Documents)) /\ Len(segments) > 1
    BY DEF IInv, HydrateShape, MergeFirst
  <2>2. segments[1] \in Seq(Documents) /\ segments[2] \in Seq(Documents)
    BY <2>1, ElementOfSeq
  <2>3. segments[1] \o segments[2] \in Seq(Documents)
    BY <2>2, ConcatProperties
  <2>4. SubSeq(segments, 3, Len(segments)) \in Seq(Seq(Documents))
    BY <2>1, ElementOfSeq, SubSeqProperties
  <2>5. QED
    BY <2>3, <2>4 DEF MergeFirst
<1>2. HydrateShape'
  BY <1>1 DEF IInv, HydrateShape, MergeFirst
<1>3. ArraysHold' /\ BufHolds'
  BY SameArrays, SameBuf DEF IInv, MergeFirst
<1>4. QED
  BY <1>2, <1>3 DEF IInv, MergeFirst, RowsFetched, Stages

LEMMA OpenInv == ASSUME HydrateAssumption, IInv, Open PROVE IInv'
<1>1. rows' \in [DOMAIN pairs -> [ToSet(AskedColumns) -> Cells]]
  BY DEF Open, Cells
<1>2. by_seg' \in SUBSET Nat
  BY PairsAreAddresses DEF IInv, Open
<1>3. HydrateShape'
  BY <1>1, <1>2 DEF IInv, HydrateShape, Open
<1>4. arrays = <<>> /\ buf = [type |-> "unknown", cells |-> <<>>]
  BY DEF IInv, Stages, Open
<1>5. ArraysHold' /\ BufHolds'
  BY <1>4 DEF IInv, Open, ArraysHold, BufHolds, Holds
<1>6. QED
  BY <1>3, <1>4, <1>5 DEF IInv, Open, RowsFetched, Stages

(* Every pair of the segment fetched is located, and its row is complete:   *)
(* a segment is fetched once, with all its pairs.                           *)
LEMMA FetchInv == ASSUME HydrateAssumption, IInv, Fetch PROVE IInv'
<1> DEFINE ord == Ord
<1>1. ord \in by_seg /\ ord \in Nat
  BY MinIsLeast DEF IInv, HydrateShape, Fetch, Ord
<1>2. ASSUME NEW i \in DOMAIN pairs, pairs[i][1] = ord PROVE Located(pairs[i])
  BY <1>2 DEF Fetch, InBounds, PairsOf, Located
<1>3. ASSUME NEW i \in DOMAIN pairs
      PROVE  /\ i \in PairsOf(ord) => rows'[i] = Inserted(DocAt(pairs[i]))
             /\ i \notin PairsOf(ord) => rows'[i] = rows[i]
  <2>1. i \in DOMAIN rows
    BY DEF IInv, HydrateShape, Fetch
  <2>2. i \in PairsOf(ord) => DocAt(pairs[i]) = segments[ord + 1][pairs[i][2] + 1]
    BY <1>2 DEF PairsOf, DocAt, Located
  <2>3. QED
    BY <2>1, <2>2 DEF Fetch
<1> HIDE DEF ord
<1>4. rows' \in [DOMAIN pairs -> [ToSet(AskedColumns) -> Cells]]
  <2>1. ASSUME NEW i \in DOMAIN pairs PROVE rows'[i] \in [ToSet(AskedColumns) -> Cells]
    <3>1. CASE i \in PairsOf(ord)
      BY <1>2, <1>3, <3>1, DocAtIsDoc, PairsAreAddresses, InsertedRow DEF IInv, PairsOf
    <3>2. CASE i \notin PairsOf(ord)
      BY <1>3, <3>2 DEF IInv, HydrateShape, Fetch
    <3>3. QED
      BY <3>1, <3>2
  <2>2. DOMAIN rows' = DOMAIN pairs
    BY DEF IInv, HydrateShape, Fetch
  <2>3. rows' = [i \in DOMAIN pairs |-> rows'[i]]
    BY <2>2 DEF Fetch, IInv, HydrateShape
  <2>4. QED
    BY <2>1, <2>3
<1>5. HydrateShape'
  BY <1>4 DEF IInv, HydrateShape, Fetch
<1>6. RowsFetched'
  <2>1. ASSUME NEW i \in DOMAIN pairs, pairs[i][1] \notin by_seg' PROVE HasRow(i)'
    <3>1. CASE pairs[i][1] = ord
      <4>1. Located(pairs[i]) /\ rows'[i] = Inserted(DocAt(pairs[i]))
        BY <3>1, <1>2, <1>3 DEF PairsOf
      <4>2. QED
        BY <4>1, NewRow DEF Fetch
    <3>2. CASE pairs[i][1] # ord
      <4>1. pairs[i][1] \notin by_seg
        BY <2>1, <3>2 DEF Fetch, ord
      <4>2. Located(pairs[i]) /\ rows'[i] = Inserted(DocAt(pairs[i]))
        BY <3>2, <4>1, <1>3 DEF IInv, RowsFetched, HasRow, Fetch, PairsOf
      <4>3. QED
        BY <4>2, NewRow DEF Fetch
    <3>3. QED
      BY <3>1, <3>2
  <2>2. QED
    BY <2>1 DEF IInv, RowsFetched, Fetch
<1>7. arrays = <<>> /\ buf = [type |-> "unknown", cells |-> <<>>]
  BY DEF IInv, Stages, Fetch
<1>8. ArraysHold' /\ BufHolds'
  BY <1>7 DEF IInv, Fetch, ArraysHold, BufHolds, Holds
<1>9. QED
  BY <1>5, <1>6, <1>7, <1>8 DEF IInv, Fetch, Stages

LEMMA FetchedInv == ASSUME HydrateAssumption, IInv, Fetched PROVE IInv'
<1>1. \A i \in DOMAIN pairs : HasRow(i)'
  BY SameRows DEF IInv, RowsFetched, Fetched
<1>2. ArraysHold' /\ BufHolds'
  BY SameArrays, SameBuf DEF IInv, Fetched
<1>3. QED
  BY <1>1, <1>2 DEF IInv, HydrateShape, RowsFetched, Stages, Fetched

(* While the columns are built the rows are complete and do not change. *)
LEMMA BuildKeepsRows ==
    ASSUME IInv, stage = "build", UNCHANGED <<segments, pairs, by_seg, rows>>,
           stage' \in {"build", "done", "failed"}
    PROVE  RowsFetched'
BY SameRows DEF IInv, RowsFetched

LEMMA CellOfRow ==
    ASSUME HydrateAssumption, HydrateShape, NEW i \in DOMAIN pairs, HasRow(i), NEW c \in ToSet(AskedColumns)
    PROVE  /\ rows[i][c] \in Cells
           /\ rows[i][c] = None <=> ValuesOf(DocAt(pairs[i]), c) = {}
           /\ rows[i][c] # None =>
                /\ rows[i][c].type = LastType(i, c) /\ rows[i][c].type \in Types
                /\ rows[i][c] = [doc |-> DocAt(pairs[i]).id, place |-> rows[i][c].place,
                                  type |-> rows[i][c].type]
                /\ \A k \in ValuesOf(DocAt(pairs[i]), c) : k <= rows[i][c].place
<1> DEFINE doc == DocAt(pairs[i])
<1>1. doc \in Documents
  BY PairsAreAddresses, DocAtIsDoc DEF HasRow
<1>2. rows[i] = Inserted(doc)
  BY DEF HasRow
<1>3. LastType(i, c) = doc.stored[Max(ValuesOf(doc, c))].type
  BY DEF LastType
<1> HIDE DEF doc
<1>4. rows[i][c] = None <=> ValuesOf(doc, c) = {}
  BY <1>1, <1>2, InsertedIsLast
<1>5. CASE ValuesOf(doc, c) # {}
  <2>1. rows[i][c] = [doc |-> doc.id, place |-> Max(ValuesOf(doc, c)), type |-> LastType(i, c)]
    BY <1>1, <1>2, <1>3, <1>5, InsertedIsLast
  <2>2. rows[i][c] = [doc |-> doc.id, place |-> rows[i][c].place, type |-> rows[i][c].type]
    BY <2>1
  <2>3. rows[i][c].type = LastType(i, c)
    BY <2>1
  <2>4. QED
    BY <1>1, <1>2, <1>4, <1>5, <2>2, <2>3, InsertedIsLast DEF doc
<1>6. CASE ValuesOf(doc, c) = {}
  BY <1>1, <1>2, <1>4, <1>6, InsertedIsLast DEF doc
<1>7. QED
  BY <1>5, <1>6

LEMMA BuildingColumn ==
    ASSUME HydrateAssumption, IInv, Building
    PROVE  /\ Len(arrays) + 1 \in 1 .. Len(AskedColumns) /\ Column = AskedColumns[Len(arrays) + 1]
           /\ Column \in ToSet(AskedColumns)
           /\ DOMAIN pairs = 1 .. Len(pairs) /\ Len(pairs) \in Nat
           /\ Len(rows) = Len(pairs)
           /\ \A i \in DOMAIN pairs : HasRow(i)
<1>1. Len(arrays) + 1 \in 1 .. Len(AskedColumns)
  BY DEF Building, IInv, HydrateShape, HydrateAssumption
<1>2. Column \in ToSet(AskedColumns)
  BY <1>1, ColumnsAreColumns DEF Column
<1>3. DOMAIN pairs = 1 .. Len(pairs) /\ Len(pairs) \in Nat
  BY DEF IInv, HydrateShape
<1>4. rows \in [1 .. Len(pairs) -> [ToSet(AskedColumns) -> Cells]]
  BY <1>3 DEF IInv, HydrateShape, Building
<1>5. QED
  BY <1>1, <1>2, <1>3, <1>4 DEF Column, IInv, RowsFetched, Building

(* A column without a type has no values yet: replaying nulls loses none. *)
LEMMA TypedKeepsCells ==
    ASSUME HydrateAssumption, IInv, Building, ~ColumnFull
    PROVE  /\ TypedFor(NextCell).cells = buf.cells
           /\ TypedFor(NextCell).type =
                IF buf.type = "unknown" /\ NextCell # None THEN NextCell.type ELSE buf.type
           /\ TypedFor(NextCell) = [type |-> TypedFor(NextCell).type, cells |-> TypedFor(NextCell).cells]
<1>1. CASE buf.type = "unknown" /\ NextCell # None
  <2>1. buf.cells \in Seq(Cells) /\ Len(buf.cells) <= Len(pairs) /\ Holds(buf, Column)
    BY DEF IInv, HydrateShape, BufHolds, Building
  <2>2. ASSUME NEW k \in DOMAIN buf.cells PROVE buf.cells[k] = None
    <3>1. k \in DOMAIN pairs
      BY <2>1, BuildingColumn
    <3>2. rows[k][Column] # None => rows[k][Column].type \in Types
      BY <3>1, BuildingColumn, CellOfRow DEF IInv
    <3>3. QED
      BY <1>1, <2>1, <3>2 DEF Holds, Types
  <2>3. buf.cells = [k \in DOMAIN buf.cells |-> None]
    BY <2>1, <2>2
  <2>4. QED
    BY <1>1, <2>3 DEF TypedFor, Promoted
<1>2. QED
  BY <1>1 DEF TypedFor, IInv, HydrateShape

LEMMA AppendCellInv == ASSUME HydrateAssumption, IInv, AppendCell PROVE IInv'
<1> DEFINE n == Len(buf.cells) + 1
<1> DEFINE type == TypedFor(NextCell).type
<1>1. Building /\ ~ColumnFull
  BY DEF AppendCell
<1>2. buf.cells \in Seq(Cells) /\ buf.type \in Types \cup {"unknown"} /\ Holds(buf, Column)
  BY <1>1 DEF IInv, HydrateShape, BufHolds, Building
<1>3. n \in DOMAIN pairs /\ NextCell = rows[n][Column]
  BY <1>1, <1>2, BuildingColumn DEF ColumnFull, NextCell
<1>4. NextCell \in Cells /\ (NextCell # None => NextCell.type \in Types)
  BY <1>1, <1>3, BuildingColumn, CellOfRow DEF IInv
<1>5. type = IF buf.type = "unknown" /\ NextCell # None THEN NextCell.type ELSE buf.type
  BY <1>1, TypedKeepsCells
<1>6. NextCell = None \/ NextCell.type = type
  BY DEF AppendCell, Fits
<1>7. buf' = [type |-> type, cells |-> Append(buf.cells, NextCell)]
  BY <1>1, TypedKeepsCells DEF AppendCell
<1> HIDE DEF type
<1>8. HydrateShape'
  <2>1. Append(buf.cells, NextCell) \in Seq(Cells)
    BY <1>2, <1>4, AppendProperties
  <2>2. type \in Types \cup {"unknown"}
    BY <1>2, <1>4, <1>5
  <2>3. buf' \in [type : Types \cup {"unknown"}, cells : Seq(Cells)]
    BY <1>7, <2>1, <2>2
  <2>4. QED
    BY <2>3 DEF IInv, HydrateShape, AppendCell
<1>9. /\ buf'.type = type /\ Len(buf'.cells) = n /\ DOMAIN buf'.cells = 1 .. n
      /\ \A k \in 1 .. n - 1 : buf'.cells[k] = buf.cells[k]
      /\ buf'.cells[n] = NextCell
  BY <1>2, <1>4, <1>7
<1>10. ASSUME NEW k \in 1 .. n
       PROVE  buf'.cells[k] = rows[k][Column] /\ (buf'.cells[k] # None => buf'.cells[k].type = type)
  <2>1. CASE k = n
    BY <1>3, <1>6, <1>9, <2>1
  <2>2. CASE k # n
    <3>1. k \in DOMAIN buf.cells /\ k \in 1 .. n - 1
      BY <1>2, <2>2
    <3>2. buf'.cells[k] = rows[k][Column] /\ (buf'.cells[k] # None => buf'.cells[k].type = buf.type)
      BY <1>2, <1>9, <3>1 DEF Holds
    <3>3. k \in DOMAIN pairs
      BY <1>1, <1>2, <1>3, <3>1, BuildingColumn
    <3>4. rows[k][Column] # None => rows[k][Column].type \in Types
      BY <1>1, <3>3, BuildingColumn, CellOfRow DEF IInv
    <3>5. QED
      BY <1>5, <3>2, <3>4 DEF Types
  <2>3. QED
    BY <2>1, <2>2
<1>11. type # "unknown" => \E k \in 1 .. n : buf'.cells[k] # None /\ buf'.cells[k].type = type
  <2>1. CASE buf.type = "unknown"
    BY <1>2, <1>5, <1>9, <2>1
  <2>2. CASE buf.type # "unknown"
    <3>1. PICK k \in DOMAIN buf.cells : buf.cells[k] # None /\ buf.cells[k].type = buf.type
      BY <2>2 DEF IInv, BufHolds
    <3>2. k \in 1 .. n - 1 /\ k \in 1 .. n
      BY <1>2
    <3>3. QED
      BY <1>5, <1>9, <2>2, <3>1, <3>2
  <2>3. QED
    BY <2>1, <2>2
<1>12. BufHolds'
  <2>1. n <= Len(pairs)
    BY <1>1, <1>3, BuildingColumn
  <2>2. Holds(buf, Column)'
    BY <1>9, <1>10 DEF Holds, Column, AppendCell
  <2>3. QED
    BY <1>9, <1>11, <2>1, <2>2 DEF BufHolds, AppendCell
<1>13. RowsFetched' /\ ArraysHold'
  BY <1>1, BuildKeepsRows, SameArrays DEF IInv, AppendCell, Building
<1>14. Stages'
  BY <1>1 DEF Stages, AppendCell, Building
<1>15. QED
  BY <1>8, <1>12, <1>13, <1>14 DEF IInv

LEMMA FinishColumnInv == ASSUME HydrateAssumption, IInv, FinishColumn PROVE IInv'
<1> DEFINE built == IF buf.type = "unknown" THEN [buf EXCEPT !.type = "str"] ELSE buf
<1>1. Building /\ ColumnFull
  BY DEF FinishColumn
<1>2. /\ buf.cells \in Seq(Cells) /\ buf.type \in Types \cup {"unknown"}
      /\ Holds(buf, Column) /\ Len(buf.cells) = Len(pairs)
  BY <1>1, BuildingColumn DEF IInv, HydrateShape, BufHolds, Building, ColumnFull
<1>3. /\ built \in [type : Types, cells : Seq(Cells)] /\ built.cells = buf.cells
      /\ buf.type # "unknown" => built.type = buf.type
  BY <1>2 DEF Types, IInv, HydrateShape
<1>4. Holds(built, Column)
  <2>1. ASSUME NEW k \in DOMAIN buf.cells, buf.cells[k] # None PROVE buf.type # "unknown"
    <3>1. k \in DOMAIN pairs
      BY <1>1, <1>2, BuildingColumn
    <3>2. rows[k][Column] # None => rows[k][Column].type \in Types
      BY <1>1, <3>1, BuildingColumn, CellOfRow DEF IInv
    <3>3. QED
      BY <1>2, <2>1, <3>2 DEF Holds, Types
  <2>2. QED
    BY <1>2, <1>3, <2>1 DEF Holds
<1>5. arrays' = Append(arrays, built) /\ buf' = [type |-> "unknown", cells |-> <<>>]
  BY DEF FinishColumn
<1> HIDE DEF built
<1>6. arrays \in Seq([type : Types, cells : Seq(Cells)])
  BY DEF IInv, HydrateShape
<1>7. HydrateShape'
  BY <1>3, <1>5, <1>6 DEF IInv, HydrateShape, FinishColumn
<1>8. /\ Len(arrays') = Len(arrays) + 1 /\ DOMAIN arrays' = 1 .. Len(arrays) + 1
      /\ DOMAIN arrays = 1 .. Len(arrays)
      /\ \A a \in 1 .. Len(arrays) : arrays'[a] = arrays[a]
      /\ arrays'[Len(arrays) + 1] = built
  BY <1>3, <1>5, <1>6
<1>9. ArraysHold'
  <2>1. Len(arrays') <= Len(AskedColumns)
    BY <1>1, <1>8, BuildingColumn
  <2>2. ASSUME NEW a \in DOMAIN arrays'
        PROVE  Len(arrays'[a].cells) = Len(pairs) /\ Holds(arrays'[a], AskedColumns[a])
    <3>1. CASE a = Len(arrays) + 1
      BY <1>1, <1>2, <1>3, <1>4, <1>8, <3>1, BuildingColumn
    <3>2. CASE a # Len(arrays) + 1
      <4>1. a \in DOMAIN arrays /\ a \in 1 .. Len(arrays)
        BY <1>6, <1>8, <3>2
      <4>2. QED
        BY <1>8, <4>1 DEF IInv, ArraysHold
    <3>3. QED
      BY <3>1, <3>2
  <2>3. QED
    BY <2>1, <2>2 DEF ArraysHold, Holds, FinishColumn
<1>10. BufHolds'
  BY <1>1, <1>5, BuildingColumn DEF BufHolds, Holds, FinishColumn
<1>11. RowsFetched' /\ Stages'
  BY <1>1, BuildKeepsRows DEF IInv, FinishColumn, Building, Stages
<1>12. QED
  BY <1>7, <1>9, <1>10, <1>11 DEF IInv

LEMMA FinishInv == ASSUME HydrateAssumption, IInv, Finish PROVE IInv'
<1>1. RowsFetched' /\ ArraysHold' /\ BufHolds'
  BY BuildKeepsRows, SameArrays, SameBuf DEF IInv, Finish
<1>2. QED
  BY <1>1 DEF IInv, Finish, HydrateShape, Stages

(* A refusal has its reason: an address that is not in the commit, or two   *)
(* rows whose values of the column have different types.                    *)
LEMMA RefuseInv == ASSUME HydrateAssumption, IInv, RefuseHydrate PROVE IInv'
<1>1. CASE stage = "fetch" /\ by_seg # {} /\ ~InBounds(Ord)
  <2>1. Ord \in by_seg
    BY <1>1, MinIsLeast DEF IInv, HydrateShape, Ord
  <2>2. PICK i \in DOMAIN pairs : pairs[i][1] = Ord
    BY <1>1, <2>1 DEF IInv, RowsFetched
  <2>3. \E k \in DOMAIN pairs : ~Located(pairs[k])
    BY <1>1, <2>2 DEF InBounds, PairsOf, Located
  <2>4. Refusable
    BY <2>3, PairsAreAddresses, DocAtIsDoc DEF IInv, Refusable
  <2>5. ArraysHold' /\ BufHolds' /\ Refusable'
    BY <2>4, SameArrays, SameBuf, SameRefusals DEF IInv, RefuseHydrate
  <2>6. QED
    BY <1>1, <2>5 DEF IInv, RefuseHydrate, HydrateShape, RowsFetched, Stages
<1>2. CASE Building /\ ~ColumnFull /\ ~Fits(TypedFor(NextCell), NextCell)
  <2> DEFINE n == Len(buf.cells) + 1
  <2>1. n \in DOMAIN pairs /\ NextCell = rows[n][Column]
    BY <1>2, BuildingColumn DEF ColumnFull, NextCell, IInv, HydrateShape
  <2>2. NextCell # None /\ NextCell.type # buf.type /\ buf.type # "unknown"
    BY <1>2, TypedKeepsCells DEF Fits
  <2>3. PICK k \in DOMAIN buf.cells : buf.cells[k] # None /\ buf.cells[k].type = buf.type
    BY <2>2 DEF IInv, BufHolds
  <2>4. k \in DOMAIN pairs /\ buf.cells[k] = rows[k][Column]
    <3>1. /\ DOMAIN buf.cells = 1 .. Len(buf.cells) /\ Len(buf.cells) \in Nat
          /\ DOMAIN pairs = 1 .. Len(pairs) /\ Len(pairs) \in Nat
      BY ElementOfSeq DEF IInv, HydrateShape
    <3>2. Len(buf.cells) <= Len(pairs) /\ Holds(buf, Column)
      BY <1>2 DEF IInv, BufHolds, Building
    <3>3. QED
      BY <3>1, <3>2 DEF Holds
  <2>5. ASSUME NEW i \in DOMAIN pairs, rows[i][Column] # None
        PROVE  /\ DocAt(pairs[i]) # NoDoc /\ ValuesOf(DocAt(pairs[i]), Column) # {}
               /\ LastType(i, Column) = rows[i][Column].type
    BY <1>2, <2>5, BuildingColumn, CellOfRow, PairsAreAddresses, DocAtIsDoc DEF IInv, HasRow
  <2>6. Mixed(Column)
    BY <2>1, <2>2, <2>3, <2>4, <2>5 DEF Mixed
  <2>7. Refusable
    BY <1>2, <2>6, BuildingColumn DEF Refusable, HydrateAssumption
  <2>8. RowsFetched' /\ ArraysHold' /\ BufHolds' /\ Refusable'
    BY <1>2, <2>7, BuildKeepsRows, SameArrays, SameBuf, SameRefusals DEF IInv, RefuseHydrate, Building
  <2>9. QED
    BY <1>2, <2>8 DEF IInv, RefuseHydrate, HydrateShape, Stages
<1>3. QED
  BY <1>1, <1>2 DEF RefuseHydrate

LEMMA NextInv == ASSUME HydrateAssumption, IInv, [HydrateNext]_hydrateVars PROVE IInv'
<1>1. CASE UNCHANGED hydrateVars
  <2>1. ArraysHold' /\ BufHolds' /\ Refusable' = Refusable
    BY <1>1, SameArrays, SameBuf, SameRefusals DEF IInv, hydrateVars
  <2>2. \A i : HasRow(i)' = HasRow(i)
    BY <1>1, SameRows DEF hydrateVars
  <2>3. HydrateShape'
    BY <1>1 DEF IInv, HydrateShape, hydrateVars
  <2>4. QED
    BY <1>1, <2>1, <2>2, <2>3 DEF IInv, hydrateVars, RowsFetched, Stages
<1>2. QED
  BY <1>1, MergeInv, OpenInv, FetchInv, FetchedInv, AppendCellInv, FinishColumnInv,
     FinishInv, RefuseInv DEF HydrateNext, HydrateStep

THEOREM Invariant == ASSUME HydrateAssumption PROVE HydrateSpec => []IInv
  BY InitInv, NextInv, PTL DEF HydrateSpec

-----------------------------------------------------------------------------
(* The results.                                                            *)

(* The columns built never outgrow the request: one cell per pair in each. *)
THEOREM HydrateTypeCorrect == ASSUME HydrateAssumption PROVE HydrateSpec => []HydrateTypeOK
<1>1. IInv => HydrateTypeOK
  BY DEF IInv, HydrateShape, ArraysHold, BufHolds, HydrateTypeOK
<1>2. QED
  BY <1>1, Invariant, PTL

(* An answer has the values of the pairs' documents, each row its own, and  *)
(* every cell in the type of its column (hydrate, stored_documents).        *)
LEMMA AnswerFollows == ASSUME HydrateAssumption, IInv PROVE RowsFollowPairs
<1> SUFFICES ASSUME stage = "done", NEW a \in DOMAIN arrays, NEW i \in DOMAIN pairs
             PROVE  LET values == ValuesOf(DocAt(pairs[i]), AskedColumns[a])
                        cell == arrays[a].cells[i]
                    IN IF values = {} THEN cell = None
                       ELSE /\ cell = [doc |-> DocAt(pairs[i]).id, place |-> cell.place,
                                       type |-> arrays[a].type]
                            /\ \A k \in values : k <= cell.place
  BY DEF RowsFollowPairs
<1>1. HasRow(i)
  BY DEF IInv, RowsFetched
<1>a. /\ arrays \in Seq([type : Types, cells : Seq(Cells)]) /\ pairs \in Seq(Nat \X Nat)
      /\ Len(arrays) <= Len(AskedColumns) /\ Len(arrays[a].cells) = Len(pairs)
  BY DEF IInv, HydrateShape, ArraysHold
<1>2. AskedColumns[a] \in ToSet(AskedColumns)
  <2>1. a \in 1 .. Len(arrays) /\ Len(AskedColumns) \in Nat
    BY <1>a DEF HydrateAssumption
  <2>2. a \in 1 .. Len(AskedColumns)
    BY <1>a, <2>1
  <2>3. QED
    BY <2>2, ColumnsAreColumns
<1>3. i \in DOMAIN arrays[a].cells
  <2>1. arrays[a] \in [type : Types, cells : Seq(Cells)]
    <3>1. PICK T : T = [type : Types, cells : Seq(Cells)]
      OBVIOUS
    <3>2. PICK built \in Seq(T) : built = arrays
      BY <1>a, <3>1
    <3>3. a \in 1 .. Len(built)
      BY <3>2
    <3>4. built[a] \in T
      BY <3>3, ElementOfSeq
    <3>5. QED
      BY <3>1, <3>2, <3>4
  <2>2. PICK cells \in Seq(Cells) : cells = arrays[a].cells
    BY <2>1
  <2>3. PICK n \in Nat : n = Len(pairs) /\ DOMAIN pairs = 1 .. n
    BY <1>a
  <2>4. QED
    BY <1>a, <2>2, <2>3
<1>4. arrays[a].cells[i] = rows[i][AskedColumns[a]]
      /\ (arrays[a].cells[i] # None => arrays[a].cells[i].type = arrays[a].type)
  BY <1>3 DEF IInv, ArraysHold, Holds
<1> DEFINE cell == arrays[a].cells[i]
<1>5. CASE ValuesOf(DocAt(pairs[i]), AskedColumns[a]) = {}
  <2>1. cell = None
    BY <1>1, <1>2, <1>4, <1>5, CellOfRow DEF IInv
  <2>2. QED
    BY <1>5, <2>1
<1>6. CASE ValuesOf(DocAt(pairs[i]), AskedColumns[a]) # {}
  <2>1. rows[i][AskedColumns[a]] # None
    BY <1>1, <1>2, <1>6, CellOfRow DEF IInv
  <2>2. cell = rows[i][AskedColumns[a]] /\ cell.type = arrays[a].type
    BY <1>4, <2>1
  <2>3. cell = [doc |-> DocAt(pairs[i]).id, place |-> cell.place, type |-> cell.type]
    BY <1>1, <1>2, <2>1, <2>2, CellOfRow DEF IInv
  <2>4. \A k \in ValuesOf(DocAt(pairs[i]), AskedColumns[a]) : k <= cell.place
    BY <1>1, <1>2, <2>1, <2>2, CellOfRow DEF IInv
  <2>5. QED
    BY <1>6, <2>2, <2>3, <2>4
<1>7. QED
  BY <1>5, <1>6

LEMMA RefusedForCause == ASSUME HydrateAssumption, IInv PROVE FailsExactlyWhenRefusable
<1> SUFFICES ASSUME stage = "done" PROVE ~Refusable
  BY DEF FailsExactlyWhenRefusable, IInv, Stages
<1>1. ASSUME NEW i \in DOMAIN pairs PROVE HasRow(i) /\ DocAt(pairs[i]) # NoDoc
  BY PairsAreAddresses, DocAtIsDoc DEF IInv, RowsFetched, HasRow
<1>2. ASSUME NEW a \in DOMAIN AskedColumns PROVE ~Mixed(AskedColumns[a])
  <2>1. a \in DOMAIN arrays /\ AskedColumns[a] \in ToSet(AskedColumns)
    BY ColumnsAreColumns DEF IInv, HydrateShape, Stages, HydrateAssumption
  <2>2. ASSUME NEW i \in DOMAIN pairs, ValuesOf(DocAt(pairs[i]), AskedColumns[a]) # {}
        PROVE  LastType(i, AskedColumns[a]) = arrays[a].type
    <3>1. i \in DOMAIN arrays[a].cells
      BY <2>1, ArraysOfPairs DEF IInv
    <3>2. rows[i][AskedColumns[a]] # None => rows[i][AskedColumns[a]].type = arrays[a].type
      BY <2>1, <3>1 DEF IInv, ArraysHold, Holds
    <3>3. QED
      BY <1>1, <2>1, <2>2, <3>2, CellOfRow DEF IInv
  <2>3. QED
    BY <2>2 DEF Mixed
<1>3. QED
  BY <1>1, <1>2 DEF Refusable

(* For every commit, request and merge: the rows of an answer follow the    *)
(* pairs, and the call fails exactly on an unknown address or mixed types.  *)
THEOREM HydrateIsExact == ASSUME HydrateAssumption PROVE HydrateSpec => []HydrateAnswers
<1>1. HydrateAssumption /\ IInv => HydrateAnswers
  BY AnswerFollows, RefusedForCause DEF HydrateAnswers
<1>2. QED
  BY <1>1, Invariant, PTL

-----------------------------------------------------------------------------
(* Without a merge a document stays at the address it was scanned at.      *)

InPlace == \A s \in DOMAIN segments : \A d \in DOMAIN segments[s] :
               segments[s][d].id = <<s - 1, d - 1>>

LEMMA StaysInPlace ==
    ASSUME HydrateAssumption, MayMerge = FALSE
    PROVE  (HydrateInit => InPlace) /\ (InPlace /\ [HydrateNext]_hydrateVars => InPlace')
<1>1. ASSUME HydrateInit PROVE InPlace
  <2>1. PICK c \in [Scanned -> Stored] :
          segments = [s \in 1 .. Len(Sizes) |-> [d \in 1 .. Sizes[s] |-> ScannedDoc(c, s, d)]]
    BY <1>1 DEF HydrateInit
  <2>2. \A s, d : ScannedDoc(c, s, d).id = <<s - 1, d - 1>>
    BY DEF ScannedDoc
  <2>3. QED
    BY <2>1, <2>2 DEF InPlace
<1>2. ASSUME InPlace, [HydrateNext]_hydrateVars PROVE InPlace'
  <2>1. segments' = segments
    BY <1>2 DEF HydrateNext, hydrateVars, MergeFirst, HydrateStep, Open, Fetch, Fetched,
                AppendCell, FinishColumn, Finish, RefuseHydrate
  <2>2. QED
    BY <1>2, <2>1 DEF InPlace
<1>3. QED
  BY <1>1, <1>2

LEMMA PlaceOfDoc ==
    ASSUME HydrateShape, InPlace, NEW p \in Nat \X Nat, Located(p) PROVE DocAt(p).id = p
<1> DEFINE s == p[1] + 1
<1> DEFINE d == p[2] + 1
<1>1. p[1] \in Nat /\ p[2] \in Nat /\ p = <<p[1], p[2]>>
  OBVIOUS
<1>2. s \in 1 .. Len(segments) /\ segments \in Seq(Seq(Documents))
  BY <1>1 DEF Located, HydrateShape
<1>3. segments[s] \in Seq(Documents) /\ s \in DOMAIN segments
  BY <1>2, ElementOfSeq
<1>4. d \in DOMAIN segments[s]
  BY <1>1, <1>3 DEF Located
<1>5. segments[s][d].id = <<s - 1, d - 1>>
  BY <1>3, <1>4 DEF InPlace
<1>6. s - 1 = p[1] /\ d - 1 = p[2]
  BY <1>1
<1>7. DocAt(p) = segments[s][d]
  BY DEF DocAt, Located
<1>8. QED
  BY <1>1, <1>5, <1>6, <1>7

(* "(_seg,_doc) is the stable row address for hydration" (SPEC 7.1) holds   *)
(* of every commit and request as long as no merge comes between the scan   *)
(* and the call: the merge is the only thing that breaks it.                *)
THEOREM StableWithoutMerge ==
    ASSUME HydrateAssumption, MayMerge = FALSE PROVE HydrateSpec => []AddressIsStable
<1>1. ASSUME IInv, InPlace PROVE AddressIsStable
  <2> SUFFICES ASSUME stage = "done", NEW a \in DOMAIN arrays, NEW i \in DOMAIN pairs,
                      arrays[a].cells[i] # None
               PROVE  arrays[a].cells[i].doc = pairs[i]
    BY DEF AddressIsStable
  <2>1. HasRow(i)
    BY <1>1 DEF IInv, RowsFetched
  <2>2. DocAt(pairs[i]).id = pairs[i]
    BY <1>1, <2>1, PairsAreAddresses, PlaceOfDoc DEF IInv, HasRow
  <2>3. AskedColumns[a] \in ToSet(AskedColumns) /\ i \in DOMAIN arrays[a].cells
    <3>1. DOMAIN arrays[a].cells = DOMAIN pairs /\ a \in 1 .. Len(AskedColumns)
      BY <1>1, ArraysOfPairs DEF IInv
    <3>2. QED
      BY <3>1, ColumnsAreColumns
  <2>4. arrays[a].cells[i] = rows[i][AskedColumns[a]]
    BY <1>1, <2>3 DEF IInv, ArraysHold, Holds
  <2>5. rows[i][AskedColumns[a]] = [doc |-> DocAt(pairs[i]).id, place |-> rows[i][AskedColumns[a]].place,
                               type |-> rows[i][AskedColumns[a]].type]
    BY <1>1, <2>1, <2>3, <2>4, CellOfRow DEF IInv
  <2>6. QED
    BY <2>2, <2>4, <2>5
<1>2. QED
  BY <1>1, StaysInPlace, Invariant, PTL DEF HydrateSpec
=============================================================================
