------------------------------ MODULE Hydrate ------------------------------
(***************************************************************************)
(* DoAction "hydrate": stored fields for the (_seg, _doc) addresses a      *)
(* client took from a scan, as one batch with a column per requested field *)
(* (crates/flight/src/hydrate.rs, stored_documents of                      *)
(* crates/codec/src/segment.rs).                                           *)
(*                                                                         *)
(* A document is the address it was scanned at and a sequence of stored    *)
(* values; a value is its document, its place among the stored values and  *)
(* its type.                                                               *)
(***************************************************************************)
EXTENDS Integers, Sequences, FiniteSets, SequencesExt, FiniteSetsExt

CONSTANTS
    Stored,     \* the sequences of [field, type] a document may store
    Sizes,      \* Sizes[s]: the documents of segment s of the scanned commit
    AskedColumns, \* the requested columns, a sequence
    MaxPairs,   \* bound: addresses of a request
    MayMerge    \* an IndexWriter may merge between the scan and the call

HydrateAssumption ==
    /\ \A s \in Stored :
          /\ s \in Seq(ToSet(s))
          /\ \A i \in DOMAIN s : s[i].type \in {"str", "bytes", "i64", "f64"}
    /\ Sizes \in Seq(Nat)
    /\ AskedColumns \in Seq(ToSet(AskedColumns))
    /\ MaxPairs \in Nat /\ MayMerge \in BOOLEAN

None == [doc |-> <<>>, place |-> 0, type |-> "none"]
NoDoc == [id |-> <<>>, stored |-> <<>>]

VARIABLES
    segments,  \* the latest commit: each segment a sequence of documents
    pairs,     \* the addresses, from 0
    stage,     \* where the call is
    by_seg,    \* the ordinals whose pairs are still to be fetched
    rows,      \* rows[i][c]: the value of column c for pair i, or None
    buf,       \* the column being built: its type and its cells
    arrays     \* the columns built
hydrateVars == <<segments, pairs, stage, by_seg, rows, buf, arrays>>

\* The addresses of the scanned commit, and those just past a segment or past
\* the segments.
Scanned == UNION {{s - 1} \X (0 .. Sizes[s] - 1) : s \in DOMAIN Sizes}
Addresses == {<<Len(Sizes), 0>>} \cup UNION {{s - 1} \X (0 .. Sizes[s]) : s \in DOMAIN Sizes}

ScannedDoc(c, s, d) == [id |-> <<s - 1, d - 1>>, stored |-> c[<<s - 1, d - 1>>]]

HydrateInit ==
    /\ \E c \in [Scanned -> Stored] :
          segments = [s \in 1 .. Len(Sizes) |-> [d \in 1 .. Sizes[s] |-> ScannedDoc(c, s, d)]]
    /\ pairs \in SeqOf(Addresses, MaxPairs)
    /\ stage = "called" /\ by_seg = {} /\ rows = <<>> /\ arrays = <<>>
    /\ buf = [type |-> "unknown", cells |-> <<>>]

\* The first two segments become one; the ordinals after them move.
MergeFirst ==
    /\ MayMerge /\ stage = "called" /\ Len(segments) > 1
    /\ segments' = <<segments[1] \o segments[2]>> \o SubSeq(segments, 3, Len(segments))
    /\ UNCHANGED <<pairs, stage, by_seg, rows, buf, arrays>>

\* SegmentDirectory::open takes the latest commit; pairs are grouped by segment.
Open ==
    /\ stage = "called"
    /\ by_seg' = {pairs[i][1] : i \in DOMAIN pairs}
    /\ rows' = [i \in DOMAIN pairs |-> [c \in ToSet(AskedColumns) |-> None]]
    /\ stage' = "fetch"
    /\ UNCHANGED <<segments, pairs, buf, arrays>>

Ord == Min(by_seg)
PairsOf(ord) == {i \in DOMAIN pairs : pairs[i][1] = ord}

InBounds(ord) ==
    ord < Len(segments) /\ \A i \in PairsOf(ord) : pairs[i][2] < Len(segments[ord + 1])

\* The values of a document go into the row in stored order: the last wins.
Inserted(doc) ==
    [c \in ToSet(AskedColumns) |->
        LET at == {k \in DOMAIN doc.stored : doc.stored[k].field = c}
        IN IF at = {} THEN None
           ELSE [doc |-> doc.id, place |-> Max(at), type |-> doc.stored[Max(at)].type]]

Fetch ==
    /\ stage = "fetch" /\ by_seg # {} /\ InBounds(Ord)
    /\ rows' = [i \in DOMAIN rows |->
                  IF i \in PairsOf(Ord) THEN Inserted(segments[Ord + 1][pairs[i][2] + 1])
                  ELSE rows[i]]
    /\ by_seg' = by_seg \ {Ord}
    /\ UNCHANGED <<segments, pairs, stage, buf, arrays>>

Fetched ==
    /\ stage = "fetch" /\ by_seg = {}
    /\ stage' = "build"
    /\ UNCHANGED <<segments, pairs, by_seg, rows, buf, arrays>>

-----------------------------------------------------------------------------
(* One column after the other, one row after the other (ColBuf).           *)

Column == AskedColumns[Len(arrays) + 1]
Building == stage = "build" /\ Len(arrays) < Len(AskedColumns)
NextCell == rows[Len(buf.cells) + 1][Column]

\* Mutant of Promoted: the nulls seen before the first value are forgotten.
PromotedEmpty(b, type) == [type |-> type, cells |-> <<>>]

\* The first value fixes the type; the nulls before it are replayed.
Promoted(b, type) == [type |-> type, cells |-> [k \in DOMAIN b.cells |-> None]]

TypedFor(cell) == IF buf.type = "unknown" /\ cell # None THEN Promoted(buf, cell.type) ELSE buf

Fits(b, cell) == cell = None \/ cell.type = b.type

ColumnFull == Len(buf.cells) >= Len(rows)

AppendCell ==
    /\ Building /\ ~ColumnFull
    /\ Fits(TypedFor(NextCell), NextCell)
    /\ buf' = [TypedFor(NextCell) EXCEPT !.cells = Append(@, NextCell)]
    /\ UNCHANGED <<segments, pairs, stage, by_seg, rows, arrays>>

\* A column without a value is an all-null Utf8.
FinishColumn ==
    /\ Building /\ ColumnFull
    /\ arrays' = Append(arrays, IF buf.type = "unknown" THEN [buf EXCEPT !.type = "str"] ELSE buf)
    /\ buf' = [type |-> "unknown", cells |-> <<>>]
    /\ UNCHANGED <<segments, pairs, stage, by_seg, rows>>

Finish ==
    /\ stage = "build" /\ Len(arrays) = Len(AskedColumns)
    /\ stage' = "done"
    /\ UNCHANGED <<segments, pairs, by_seg, rows, buf, arrays>>

RefuseHydrate ==
    /\ \/ stage = "fetch" /\ by_seg # {} /\ ~InBounds(Ord)
       \/ Building /\ ~ColumnFull /\ ~Fits(TypedFor(NextCell), NextCell)
    /\ stage' = "failed"
    /\ UNCHANGED <<segments, pairs, by_seg, rows, buf, arrays>>

HydrateStep == Open \/ Fetch \/ Fetched \/ AppendCell \/ FinishColumn \/ Finish
                  \/ RefuseHydrate

HydrateNext == MergeFirst \/ HydrateStep

HydrateSpec == HydrateInit /\ [][HydrateNext]_hydrateVars /\ WF_hydrateVars(HydrateStep)

-----------------------------------------------------------------------------
(* Properties.                                                             *)

HydrateTypeOK ==
    /\ stage \in {"called", "fetch", "build", "done", "failed"}
    /\ Len(buf.cells) <= Len(pairs)
    /\ Len(arrays) <= Len(AskedColumns)
    /\ \A a \in DOMAIN arrays : Len(arrays[a].cells) = Len(pairs)

\* What the address refers to in the commit that was opened, or NoDoc.
DocAt(p) ==
    IF p[1] < Len(segments) /\ p[2] < Len(segments[p[1] + 1])
    THEN segments[p[1] + 1][p[2] + 1] ELSE NoDoc

ValuesOf(doc, c) == {k \in DOMAIN doc.stored : doc.stored[k].field = c}

\* Each row of the answer holds the values of its own pair, in the caller's
\* order, at any grouping by segment, with repeated pairs, and with nulls
\* before and after the value that fixes a column's type.
RowsFollowPairs ==
    stage = "done" =>
        \A a \in DOMAIN arrays : \A i \in DOMAIN pairs :
            LET values == ValuesOf(DocAt(pairs[i]), AskedColumns[a])
                cell == arrays[a].cells[i]
            IN IF values = {} THEN cell = None
               ELSE /\ cell = [doc |-> DocAt(pairs[i]).id, place |-> cell.place, type |-> arrays[a].type]
                    /\ \A k \in values : k <= cell.place

\* "a column's type is fixed by its first non-null value" (hydrate.rs): the
\* call fails when the rows mix types in a column or an address is not in the
\* commit, and for no other reason.
LastType(i, c) == LET at == ValuesOf(DocAt(pairs[i]), c)
                  IN DocAt(pairs[i]).stored[Max(at)].type
Mixed(c) == \E i, j \in DOMAIN pairs :
    /\ DocAt(pairs[i]) # NoDoc /\ DocAt(pairs[j]) # NoDoc
    /\ ValuesOf(DocAt(pairs[i]), c) # {} /\ ValuesOf(DocAt(pairs[j]), c) # {}
    /\ LastType(i, c) # LastType(j, c)
Refusable ==
    \/ \E i \in DOMAIN pairs : DocAt(pairs[i]) = NoDoc
    \/ \E k \in DOMAIN AskedColumns : Mixed(AskedColumns[k])
FailsExactlyWhenRefusable == (stage = "failed" => Refusable) /\ (stage = "done" => ~Refusable)

\* Both: what the client is told of the commit the call opened.
HydrateAnswers == RowsFollowPairs /\ FailsExactlyWhenRefusable

\* "(_seg,_doc) is the stable row address for hydration" (SPEC 7.1): hydration
\* returns the rows that were scanned.  The address is looked up in whatever
\* commit is the latest at the time of the call.
AddressIsStable ==
    stage = "done" =>
        \A a \in DOMAIN arrays : \A i \in DOMAIN pairs :
            (pairs[i] \in Scanned /\ arrays[a].cells[i] # None) => arrays[a].cells[i].doc = pairs[i]
=============================================================================
