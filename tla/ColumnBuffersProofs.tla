------------------------- MODULE ColumnBuffersProofs -------------------------
(***************************************************************************)
(* Proofs about ColumnBuffers, for any schemas, rows of a batch, batches   *)
(* and threshold.  The argument: a buffer, in either lane, stands for one  *)
(* slot per document of the segment that is built (Holds); appending a     *)
(* batch appends its slots, demotion keeps them, and what the encoder      *)
(* makes of the buffer decodes to them.                                    *)
(***************************************************************************)
EXTENDS ColumnBuffers, ListingsProofs

(* A document has a value or none. *)
Slot == {<<>>} \cup {<<c>> : c \in SentCell}

(* The dense lane: a value for every document. *)
Fills(flat, n, v) == Len(v) = n /\ Len(flat) = n /\ \A d \in 1 .. n : v[d] = <<flat[d]>>

(* The materialized lanes: values at the documents of an increasing list. *)
Rising(docs) == \A i, j \in 1 .. Len(docs) : i < j => docs[i] < docs[j]

Scatters(docs, values, n, v) ==
    /\ Len(v) = n
    /\ Len(docs) = Len(values)
    /\ Rising(docs)
    /\ \A i \in 1 .. Len(docs) : docs[i] < n /\ v[docs[i] + 1] = <<values[i]>>
    /\ \A d \in 1 .. n : (\A i \in 1 .. Len(docs) : docs[i] # d - 1) => v[d] = <<>>

Holds(b, n, v) ==
    IF b.lane = "dense" THEN Fills(FlattenSeq(b.chunks), n, v)
                        ELSE Scatters(b.docs, b.values, n, v)

-----------------------------------------------------------------------------
(* append_column.                                                          *)

LEMMA ConcatSplits ==
    ASSUME NEW S, NEW s \in Seq(S), NEW t \in Seq(S)
    PROVE  /\ s \o t \in Seq(S) /\ Len(s \o t) = Len(s) + Len(t)
           /\ Len(s) \in Nat /\ Len(t) \in Nat
           /\ \A i \in 1 .. Len(s) : (s \o t)[i] = s[i]
           /\ \A i \in 1 .. Len(t) : (s \o t)[Len(s) + i] = t[i]
<1>1. /\ s \o t \in Seq(S) /\ Len(s \o t) = Len(s) + Len(t)
      /\ \A i \in 1 .. Len(s) + Len(t) :
            (s \o t)[i] = IF i <= Len(s) THEN s[i] ELSE t[i - Len(s)]
  BY ConcatProperties
<1>2. Len(s) \in Nat /\ Len(t) \in Nat
  OBVIOUS
<1>3. ASSUME NEW i \in 1 .. Len(t) PROVE (s \o t)[Len(s) + i] = t[i]
  <2>1. /\ Len(s) + i \in 1 .. Len(s) + Len(t) /\ ~(Len(s) + i <= Len(s))
        /\ Len(s) + i - Len(s) = i
    BY <1>2
  <2> QED
    BY <1>1, <2>1
<1>4. ASSUME NEW i \in 1 .. Len(s) PROVE (s \o t)[i] = s[i]
  <2>1. i \in 1 .. Len(s) + Len(t) /\ i <= Len(s)
    BY <1>2
  <2> QED
    BY <1>1, <2>1
<1> QED
  BY <1>1, <1>2, <1>3, <1>4

LEMMA SlotsType ==
    ASSUME NEW cells \in Seq(SentCell)
    PROVE  /\ Slots(cells) \in Seq(Slot) /\ Len(Slots(cells)) = Len(cells) /\ Len(cells) \in Nat
           /\ \A i \in 1 .. Len(cells) :
                 Slots(cells)[i] = IF Present(cells[i]) THEN <<cells[i]>> ELSE <<>>
<1>1. DOMAIN cells = 1 .. Len(cells) /\ Len(cells) \in Nat
  OBVIOUS
<1>2. \A i \in 1 .. Len(cells) : cells[i] \in SentCell
  BY ElementOfSeq
<1>3. Slots(cells) = [i \in 1 .. Len(cells) |-> IF Present(cells[i]) THEN <<cells[i]>> ELSE <<>>]
  BY <1>1 DEF Slots, Present
<1>4. \A i \in 1 .. Len(cells) : (IF Present(cells[i]) THEN <<cells[i]>> ELSE <<>>) \in Slot
  BY <1>2 DEF Slot
<1>5. Slots(cells) \in [1 .. Len(cells) -> Slot]
  BY <1>3, <1>4
<1> QED
  BY <1>1, <1>3, <1>5, FunctionIsSeq

(* The docids and values a batch adds: those of its present cells, in order. *)
LEMMA AddedInOrder ==
    ASSUME NEW cells \in Seq(SentCell), NEW base \in Nat
    PROVE  \E at \in Seq(1 .. Len(cells)) :
              /\ DocsOf(cells, base) \in Seq(Nat)
              /\ Chosen(cells, PresentAt(cells)) \in Seq(SentCell)
              /\ Len(DocsOf(cells, base)) = Len(at)
              /\ Len(Chosen(cells, PresentAt(cells))) = Len(at)
              /\ \A i \in 1 .. Len(at) :
                    /\ Present(cells[at[i]])
                    /\ DocsOf(cells, base)[i] = base + at[i] - 1
                    /\ Chosen(cells, PresentAt(cells))[i] = cells[at[i]]
              /\ Rising(at)
              /\ \A p \in 1 .. Len(cells) : Present(cells[p]) => \E i \in 1 .. Len(at) : at[i] = p
<1> DEFINE S == PresentAt(cells)
<1> DEFINE at == InOrder(S)
<1>1. DOMAIN cells = 1 .. Len(cells) /\ Len(cells) \in Nat
  OBVIOUS
<1>2. S \in SUBSET (1 .. Len(cells)) /\ \A p \in 1 .. Len(cells) : p \in S <=> Present(cells[p])
  BY <1>1 DEF PresentAt
<1>3. IsFiniteSet(S) /\ S \in SUBSET Nat
  <2>1. IsFiniteSet(1 .. Len(cells))
    BY <1>1, FS_Interval
  <2> QED
    BY <1>2, <2>1, FS_Subset
<1> HIDE DEF S
<1>4. /\ at \in Seq(S) /\ DOMAIN at = 1 .. Len(at) /\ Len(at) \in Nat
      /\ \A x \in S : \E k \in 1 .. Len(at) : at[k] = x
      /\ \A j, k \in 1 .. Len(at) : j < k => at[j] < at[k]
  BY <1>3, InOrderIsOrdered
<1>5. DocsOf(cells, base) = [k \in DOMAIN at |-> base + at[k] - 1]
  BY DEF DocsOf, S
<1>6. Chosen(cells, PresentAt(cells)) = [k \in DOMAIN at |-> cells[at[k]]]
  BY DEF Chosen, S
<1> HIDE DEF at
<1>7. \A k \in 1 .. Len(at) : at[k] \in S /\ at[k] \in 1 .. Len(cells)
  BY <1>2, <1>4, ElementOfSeq
<1>8. at \in Seq(1 .. Len(cells))
  BY <1>2, <1>4, SeqGrows
<1>9. /\ DocsOf(cells, base) \in Seq(Nat) /\ Len(DocsOf(cells, base)) = Len(at)
      /\ \A i \in 1 .. Len(at) : DocsOf(cells, base)[i] = base + at[i] - 1
  <2>1. \A k \in 1 .. Len(at) : base + at[k] - 1 \in Nat
    BY <1>7
  <2>2. DocsOf(cells, base) \in [1 .. Len(at) -> Nat]
    BY <1>4, <1>5, <2>1
  <2> QED
    BY <1>4, <1>5, <2>2, FunctionIsSeq
<1>10. /\ Chosen(cells, PresentAt(cells)) \in Seq(SentCell)
       /\ Len(Chosen(cells, PresentAt(cells))) = Len(at)
       /\ \A i \in 1 .. Len(at) : Chosen(cells, PresentAt(cells))[i] = cells[at[i]]
  <2>1. \A k \in 1 .. Len(at) : cells[at[k]] \in SentCell
    BY <1>7, ElementOfSeq
  <2>2. Chosen(cells, PresentAt(cells)) \in [1 .. Len(at) -> SentCell]
    BY <1>4, <1>6, <2>1
  <2> QED
    BY <1>4, <1>6, <2>2, FunctionIsSeq
<1>11. Rising(at)
  BY <1>4 DEF Rising
<1>12. \A i \in 1 .. Len(at) : Present(cells[at[i]])
  BY <1>2, <1>7
<1>13. \A p \in 1 .. Len(cells) : Present(cells[p]) => \E i \in 1 .. Len(at) : at[i] = p
  BY <1>2, <1>4
<1> QED
  BY <1>8, <1>9, <1>10, <1>11, <1>12, <1>13

(* The columns so far are a prefix, the present cells of the batch follow. *)
Prefixed(D, V, docs, values, l) == \A i \in 1 .. l : D[i] = docs[i] /\ V[i] = values[i]
Placed(D, V, at, cells, l, m, n) ==
    \A i \in 1 .. m : D[l + i] = n + at[i] - 1 /\ V[l + i] = cells[at[i]]
Picks(at, m, cells, c) ==
    /\ \A i \in 1 .. m : at[i] \in 1 .. c /\ Present(cells[at[i]])
    /\ \A i, j \in 1 .. m : i < j => at[i] < at[j]
    /\ \A p \in 1 .. c : Present(cells[p]) => \E i \in 1 .. m : at[i] = p
Slotted(W, v, cells, n, c) ==
    /\ \A d \in 1 .. n : W[d] = v[d]
    /\ \A d \in 1 .. c : W[n + d] = IF Present(cells[d]) THEN <<cells[d]>> ELSE <<>>
Naturals(docs, l) == \A i \in 1 .. l : docs[i] \in Nat
Long(s, n) == Len(s) = n

LEMMA ScatterJoin ==
    ASSUME NEW l \in Nat, NEW m \in Nat, NEW n \in Nat, NEW c \in Nat,
           NEW docs, NEW values, NEW v, NEW at, NEW cells, NEW D, NEW V, NEW W,
           Scatters(docs, values, n, v), Long(docs, l), Naturals(docs, l),
           Long(D, l + m), Long(V, l + m), Long(W, n + c),
           Prefixed(D, V, docs, values, l), Placed(D, V, at, cells, l, m, n),
           Picks(at, m, cells, c), Slotted(W, v, cells, n, c)
    PROVE  Scatters(D, V, n + c, W)
<1>1. \A k \in 1 .. l + m : k \in 1 .. l \/ \E i \in 1 .. m : k = l + i
  <2> SUFFICES ASSUME NEW k \in 1 .. l + m, k \notin 1 .. l PROVE \E i \in 1 .. m : k = l + i
    OBVIOUS
  <2>1. k - l \in 1 .. m /\ k = l + (k - l)
    OBVIOUS
  <2> QED
    BY <2>1
<1>2. ASSUME NEW k \in 1 .. l
      PROVE  D[k] \in Nat /\ D[k] < n /\ D[k] = docs[k] /\ V[k] = values[k]
             /\ v[D[k] + 1] = <<V[k]>>
  BY DEF Scatters, Naturals, Prefixed, Long
<1>3. ASSUME NEW i \in 1 .. m
      PROVE  /\ at[i] \in 1 .. c /\ at[i] \in Nat /\ D[l + i] = n + at[i] - 1
             /\ D[l + i] \in Nat /\ V[l + i] = cells[at[i]] /\ Present(cells[at[i]])
  BY DEF Placed, Picks
<1>4. Rising(D)
  <2> SUFFICES ASSUME NEW j \in 1 .. l + m, NEW k \in 1 .. l + m, j < k PROVE D[j] < D[k]
    BY DEF Rising, Long
  <2>1. CASE k \in 1 .. l
    <3>1. j \in 1 .. l
      BY <2>1
    <3>2. docs[j] < docs[k]
      BY <2>1, <3>1 DEF Scatters, Rising, Long
    <3> QED
      BY <1>2, <2>1, <3>1, <3>2
  <2>2. CASE k \notin 1 .. l
    <3>1. PICK i \in 1 .. m : k = l + i
      BY <1>1, <2>2
    <3>2. CASE j \in 1 .. l
      BY <1>2, <1>3, <3>1, <3>2
    <3>3. CASE j \notin 1 .. l
      <4>1. PICK h \in 1 .. m : j = l + h
        BY <1>1, <3>3
      <4>2. at[h] < at[i]
        BY <3>1, <4>1 DEF Picks
      <4> QED
        BY <1>3, <3>1, <4>1, <4>2
    <3> QED
      BY <3>2, <3>3
  <2> QED
    BY <2>1, <2>2
<1>5. ASSUME NEW k \in 1 .. l + m PROVE D[k] < n + c /\ W[D[k] + 1] = <<V[k]>>
  <2>1. CASE k \in 1 .. l
    <3>1. PICK d \in 1 .. n : d = D[k] + 1
      BY <1>2, <2>1
    <3>2. W[d] = v[d]
      BY DEF Slotted
    <3>3. v[d] = <<V[k]>> /\ D[k] < n + c
      BY <1>2, <2>1, <3>1
    <3> QED
      BY <3>1, <3>2, <3>3
  <2>2. CASE k \notin 1 .. l
    <3>1. PICK i \in 1 .. m : k = l + i
      BY <1>1, <2>2
    <3>2. D[k] + 1 = n + at[i] /\ D[k] < n + c
      BY <1>3, <3>1
    <3>3. W[n + at[i]] = <<cells[at[i]]>>
      BY <1>3 DEF Slotted
    <3> QED
      BY <1>3, <3>1, <3>2, <3>3
  <2> QED
    BY <2>1, <2>2
<1>6. ASSUME NEW d \in 1 .. n + c, \A k \in 1 .. l + m : D[k] # d - 1 PROVE W[d] = <<>>
  <2>1. CASE d \in 1 .. n
    <3>1. \A k \in 1 .. l : docs[k] # d - 1
      BY <1>2, <1>6
    <3>2. v[d] = <<>>
      BY <2>1, <3>1 DEF Scatters, Long
    <3> QED
      BY <2>1, <3>2 DEF Slotted
  <2>2. CASE d \notin 1 .. n
    <3>1. PICK p \in 1 .. c : d = n + p
      <4>1. d - n \in 1 .. c /\ d = n + (d - n)
        BY <2>2
      <4> QED
        BY <4>1
    <3>2. ASSUME Present(cells[p]) PROVE FALSE
      <4>1. PICK i \in 1 .. m : at[i] = p
        BY <3>2 DEF Picks
      <4>2. l + i \in 1 .. l + m /\ D[l + i] = d - 1
        BY <1>3, <3>1, <4>1
      <4> QED
        BY <1>6, <4>2
    <3> QED
      BY <3>1, <3>2 DEF Slotted
  <2> QED
    BY <2>1, <2>2
<1> QED
  BY <1>4, <1>5, <1>6 DEF Scatters, Long

(* Values scattered over the documents so far, and those of the batch after
   them. *)
LEMMA ScatterAppend ==
    ASSUME NEW docs \in Seq(Nat), NEW values \in Seq(SentCell), NEW n \in Nat,
           NEW v \in Seq(Slot), Scatters(docs, values, n, v), NEW cells \in Seq(SentCell)
    PROVE  /\ docs \o DocsOf(cells, n) \in Seq(Nat)
           /\ values \o Chosen(cells, PresentAt(cells)) \in Seq(SentCell)
           /\ Scatters(docs \o DocsOf(cells, n), values \o Chosen(cells, PresentAt(cells)),
                       n + Len(cells), v \o Slots(cells))
<1>1. PICK at \in Seq(1 .. Len(cells)) :
              /\ DocsOf(cells, n) \in Seq(Nat)
              /\ Chosen(cells, PresentAt(cells)) \in Seq(SentCell)
              /\ Len(DocsOf(cells, n)) = Len(at)
              /\ Len(Chosen(cells, PresentAt(cells))) = Len(at)
              /\ \A i \in 1 .. Len(at) :
                    /\ Present(cells[at[i]])
                    /\ DocsOf(cells, n)[i] = n + at[i] - 1
                    /\ Chosen(cells, PresentAt(cells))[i] = cells[at[i]]
              /\ Rising(at)
              /\ \A p \in 1 .. Len(cells) : Present(cells[p]) => \E i \in 1 .. Len(at) : at[i] = p
  BY AddedInOrder
<1>2. PICK nd \in Seq(Nat) : nd = DocsOf(cells, n)
  BY <1>1
<1>3. PICK nv \in Seq(SentCell) : nv = Chosen(cells, PresentAt(cells))
  BY <1>1
<1>4. PICK sl \in Seq(Slot) :
         /\ sl = Slots(cells) /\ Len(sl) = Len(cells) /\ Len(cells) \in Nat
         /\ \A i \in 1 .. Len(cells) : sl[i] = IF Present(cells[i]) THEN <<cells[i]>> ELSE <<>>
  BY SlotsType
<1>5. Picks(at, Len(at), cells, Len(cells)) /\ Len(at) \in Nat
  <2>1. \A i \in 1 .. Len(at) : at[i] \in 1 .. Len(cells)
    BY ElementOfSeq
  <2> QED
    BY <1>1, <2>1 DEF Picks, Rising
<1>6. /\ docs \o nd \in Seq(Nat) /\ Len(docs \o nd) = Len(docs) + Len(nd)
      /\ Len(docs) \in Nat /\ Len(nd) \in Nat
      /\ \A i \in 1 .. Len(docs) : (docs \o nd)[i] = docs[i]
      /\ \A i \in 1 .. Len(nd) : (docs \o nd)[Len(docs) + i] = nd[i]
  BY ConcatSplits
<1>7. /\ values \o nv \in Seq(SentCell) /\ Len(values \o nv) = Len(values) + Len(nv)
      /\ \A i \in 1 .. Len(values) : (values \o nv)[i] = values[i]
      /\ \A i \in 1 .. Len(nv) : (values \o nv)[Len(values) + i] = nv[i]
  BY ConcatSplits
<1>8. /\ Len(v \o sl) = Len(v) + Len(sl)
      /\ \A i \in 1 .. Len(v) : (v \o sl)[i] = v[i]
      /\ \A i \in 1 .. Len(sl) : (v \o sl)[Len(v) + i] = sl[i]
  BY ConcatSplits
<1>9. Len(values) = Len(docs) /\ Len(v) = n
  BY DEF Scatters
<1>10. Len(nd) = Len(at) /\ Len(nv) = Len(at)
  BY <1>1, <1>2, <1>3
<1>11. Prefixed(docs \o nd, values \o nv, docs, values, Len(docs))
  BY <1>6, <1>7, <1>9 DEF Prefixed
<1>12. Placed(docs \o nd, values \o nv, at, cells, Len(docs), Len(at), n)
  <2>1. \A i \in 1 .. Len(at) : nd[i] = n + at[i] - 1 /\ nv[i] = cells[at[i]]
    BY <1>1, <1>2, <1>3
  <2>2. \A i \in 1 .. Len(at) : (docs \o nd)[Len(docs) + i] = nd[i]
    BY <1>6, <1>10
  <2>3. \A i \in 1 .. Len(at) : (values \o nv)[Len(docs) + i] = nv[i]
    BY <1>7, <1>9, <1>10
  <2> QED
    BY <2>1, <2>2, <2>3 DEF Placed
<1>13. Slotted(v \o sl, v, cells, n, Len(cells))
  BY <1>4, <1>8, <1>9 DEF Slotted
<1>14. Naturals(docs, Len(docs))
  BY ElementOfSeq DEF Naturals
<1>15. Scatters(docs \o nd, values \o nv, n + Len(cells), v \o sl)
  <2>1. /\ Long(docs \o nd, Len(docs) + Len(at)) /\ Long(values \o nv, Len(docs) + Len(at))
        /\ Long(v \o sl, n + Len(cells)) /\ Long(docs, Len(docs))
    BY <1>4, <1>6, <1>7, <1>8, <1>9, <1>10 DEF Long
  <2> QED
    BY <1>4, <1>5, <1>6, <1>11, <1>12, <1>13, <1>14, <2>1, ScatterJoin
<1> QED
  BY <1>2, <1>3, <1>4, <1>6, <1>7, <1>15

(* Demote replays the chunks so far: all their documents have values. *)
LEMMA ReplayScatters ==
    ASSUME NEW flat \in Seq(SentCell), NEW n \in Nat, NEW v \in Seq(Slot),
           Fills(flat, n, v)
    PROVE  /\ [d \in 1 .. Len(flat) |-> d - 1] \in Seq(Nat)
           /\ Scatters([d \in 1 .. Len(flat) |-> d - 1], flat, n, v)
<1> DEFINE docs == [d \in 1 .. Len(flat) |-> d - 1]
<1>1. Len(v) = n /\ Len(flat) = n /\ \A d \in 1 .. n : v[d] = <<flat[d]>>
  BY DEF Fills
<1>2. docs \in [1 .. n -> Nat]
  BY <1>1
<1>3. docs \in Seq(Nat) /\ Len(docs) = n
  BY <1>2, FunctionIsSeq
<1>4. \A i \in 1 .. n : docs[i] = i - 1
  BY <1>1
<1> HIDE DEF docs
<1>5. Rising(docs)
  BY <1>3, <1>4 DEF Rising
<1>6. \A i \in 1 .. n : docs[i] < n /\ docs[i] + 1 = i
  BY <1>4
<1>7. \A d \in 1 .. n : ~\A i \in 1 .. n : docs[i] # d - 1
  BY <1>4
<1>8. Scatters(docs, flat, n, v)
  BY <1>1, <1>3, <1>5, <1>6, <1>7 DEF Scatters
<1> QED
  BY <1>3, <1>8 DEF docs

LEMMA BufferFields ==
    ASSUME NEW b \in Dense \cup Sparse
    PROVE  /\ b.lane = "dense" => b \in Dense /\ b.chunks \in Seq(Seq(SentCell))
           /\ b.lane # "dense" => /\ b \in Sparse /\ b.lane = "sparse"
                                  /\ b.docs \in Seq(Nat) /\ b.values \in Seq(SentCell)
  BY DEF Dense, Sparse

(* A batch in any lane: what the buffer holds is followed by its slots. *)
LEMMA ColumnAppends ==
    ASSUME NEW b \in Dense \cup Sparse, NEW n \in Nat, NEW v \in Seq(Slot), Holds(b, n, v),
           NEW cells \in Seq(SentCell)
    PROVE  /\ AppendColumn(b, cells, n) \in Dense \cup Sparse
           /\ Holds(AppendColumn(b, cells, n), n + Len(cells), v \o Slots(cells))
<1>1. CASE b.lane # "dense"
  <2>1. /\ b \in Sparse /\ b.lane = "sparse" /\ b.docs \in Seq(Nat) /\ b.values \in Seq(SentCell)
        /\ Scatters(b.docs, b.values, n, v)
    BY <1>1, BufferFields DEF Holds
  <2>2. AppendColumn(b, cells, n) =
           [b EXCEPT !.docs = b.docs \o DocsOf(cells, n),
                     !.values = b.values \o Chosen(cells, PresentAt(cells))]
    BY <2>1 DEF AppendColumn, AppendSparse
  <2>3. /\ b.docs \o DocsOf(cells, n) \in Seq(Nat)
        /\ b.values \o Chosen(cells, PresentAt(cells)) \in Seq(SentCell)
        /\ Scatters(b.docs \o DocsOf(cells, n), b.values \o Chosen(cells, PresentAt(cells)),
                    n + Len(cells), v \o Slots(cells))
    BY <2>1, ScatterAppend
  <2>4. PICK d \in Seq(Nat) : d = b.docs \o DocsOf(cells, n)
    BY <2>3
  <2>5. PICK w \in Seq(SentCell) : w = b.values \o Chosen(cells, PresentAt(cells))
    BY <2>3
  <2>6. /\ AppendColumn(b, cells, n) \in Sparse
        /\ AppendColumn(b, cells, n).lane = "sparse"
        /\ AppendColumn(b, cells, n).docs = d /\ AppendColumn(b, cells, n).values = w
    BY <2>1, <2>2, <2>4, <2>5 DEF Sparse
  <2> QED
    BY <2>3, <2>4, <2>5, <2>6 DEF Holds
<1>2. CASE b.lane = "dense"
  <2>1. b \in Dense /\ b.chunks \in Seq(Seq(SentCell)) /\ Fills(FlattenSeq(b.chunks), n, v)
    BY <1>2, BufferFields DEF Holds
  <2>2. PICK flat \in Seq(SentCell) : flat = FlattenSeq(b.chunks)
    BY <2>1, FlattenType
  <2>3. DOMAIN cells = 1 .. Len(cells) /\ Len(cells) \in Nat
    OBVIOUS
  <2>4. CASE \A i \in DOMAIN cells : Present(cells[i])
    <3>1. AppendColumn(b, cells, n) = [b EXCEPT !.chunks = Append(b.chunks, cells)]
      BY <1>2, <2>4 DEF AppendColumn
    <3>2. PICK more \in Seq(Seq(SentCell)) : more = Append(b.chunks, cells)
      BY <2>1, AppendProperties
    <3>3. /\ AppendColumn(b, cells, n) \in Dense /\ AppendColumn(b, cells, n).lane = "dense"
          /\ AppendColumn(b, cells, n).chunks = more
      BY <2>1, <3>1, <3>2 DEF Dense
    <3>4. FlattenSeq(more) = flat \o cells
      BY <2>1, <2>2, <3>2, FlattenAppend
    <3>5. Fills(flat \o cells, n + Len(cells), v \o Slots(cells))
      <4>1. /\ Len(flat \o cells) = Len(flat) + Len(cells)
            /\ \A i \in 1 .. Len(flat) : (flat \o cells)[i] = flat[i]
            /\ \A i \in 1 .. Len(cells) : (flat \o cells)[Len(flat) + i] = cells[i]
        BY ConcatSplits
      <4>2. PICK sl \in Seq(Slot) :
               /\ sl = Slots(cells) /\ Len(sl) = Len(cells)
               /\ \A i \in 1 .. Len(cells) :
                     sl[i] = IF Present(cells[i]) THEN <<cells[i]>> ELSE <<>>
        BY SlotsType
      <4>3. /\ Len(v \o sl) = Len(v) + Len(sl)
            /\ \A i \in 1 .. Len(v) : (v \o sl)[i] = v[i]
            /\ \A i \in 1 .. Len(sl) : (v \o sl)[Len(v) + i] = sl[i]
        BY ConcatSplits
      <4>4. Len(v) = n /\ Len(flat) = n /\ \A d \in 1 .. n : v[d] = <<flat[d]>>
        BY <2>1, <2>2 DEF Fills
      <4>5. ASSUME NEW d \in 1 .. n + Len(cells) PROVE (v \o sl)[d] = <<(flat \o cells)[d]>>
        <5>1. CASE d \in 1 .. n
          BY <4>1, <4>3, <4>4, <5>1
        <5>2. CASE d \notin 1 .. n
          <6>1. d - n \in 1 .. Len(cells) /\ d = n + (d - n)
            BY <2>3, <5>2
          <6>2. PICK i \in 1 .. Len(cells) : d = n + i
            BY <6>1
          <6>3. (v \o sl)[n + i] = sl[i] /\ (flat \o cells)[n + i] = cells[i]
            BY <4>1, <4>2, <4>3, <4>4
          <6>4. sl[i] = <<cells[i]>>
            BY <2>3, <2>4, <4>2
          <6> QED
            BY <6>2, <6>3, <6>4
        <5> QED
          BY <5>1, <5>2
      <4>6. Len(v \o sl) = n + Len(cells) /\ Len(flat \o cells) = n + Len(cells)
        BY <4>1, <4>2, <4>3, <4>4
      <4> QED
        BY <4>2, <4>5, <4>6 DEF Fills
    <3> QED
      BY <3>3, <3>4, <3>5 DEF Holds
  <2>5. CASE ~\A i \in DOMAIN cells : Present(cells[i])
    <3> DEFINE replay == [d \in 1 .. Len(flat) |-> d - 1]
    <3>1. replay \in Seq(Nat) /\ Scatters(replay, flat, n, v)
      BY <2>1, <2>2, ReplayScatters
    <3>2. AppendColumn(b, cells, n) =
             [lane |-> "sparse", docs |-> replay \o DocsOf(cells, n),
              values |-> flat \o Chosen(cells, PresentAt(cells))]
      BY <1>2, <2>2, <2>5 DEF AppendColumn, Demote, AppendSparse
    <3> HIDE DEF replay
    <3>3. /\ replay \o DocsOf(cells, n) \in Seq(Nat)
          /\ flat \o Chosen(cells, PresentAt(cells)) \in Seq(SentCell)
          /\ Scatters(replay \o DocsOf(cells, n), flat \o Chosen(cells, PresentAt(cells)),
                      n + Len(cells), v \o Slots(cells))
      BY <3>1, ScatterAppend
    <3>4. PICK d \in Seq(Nat) : d = replay \o DocsOf(cells, n)
      BY <3>3
    <3>5. PICK w \in Seq(SentCell) : w = flat \o Chosen(cells, PresentAt(cells))
      BY <3>3
    <3>6. /\ AppendColumn(b, cells, n) \in Sparse
          /\ AppendColumn(b, cells, n).lane = "sparse"
          /\ AppendColumn(b, cells, n).docs = d /\ AppendColumn(b, cells, n).values = w
      BY <3>2, <3>4, <3>5 DEF Sparse
    <3> QED
      BY <3>3, <3>4, <3>5, <3>6 DEF Holds
  <2> QED
    BY <2>4, <2>5
<1> QED
  BY <1>1, <1>2

-----------------------------------------------------------------------------
(* flush_segment, and DoGet on the segment.                                *)

(* n increasing docids below n are all of them. *)
LEMMA FullIsEveryDoc ==
    ASSUME NEW n \in Nat, NEW docs, Naturals(docs, n), Long(docs, n), Rising(docs),
           \A i \in 1 .. n : docs[i] < n
    PROVE  \A i \in 1 .. n : docs[i] = i - 1
<1>1. \A i \in 1 .. n : docs[i] \in Nat
  BY DEF Naturals
<1>2. \A i, j \in 1 .. n : i < j => docs[i] < docs[j]
  BY DEF Rising, Long
<1> DEFINE P == {m \in Nat : m + 1 <= n => m <= docs[m + 1]}
<1>3. 0 \in P
  BY <1>1
<1>4. ASSUME NEW m \in P PROVE m + 1 \in P
  <2>1. m \in Nat
    OBVIOUS
  <2>2. ASSUME m + 2 <= n PROVE m + 1 <= docs[m + 2]
    <3>1. m + 1 \in 1 .. n /\ m + 2 \in 1 .. n /\ m <= docs[m + 1]
      BY <2>1, <2>2
    <3>2. docs[m + 1] < docs[m + 2] /\ docs[m + 1] \in Nat /\ docs[m + 2] \in Nat
      BY <1>1, <1>2, <2>1, <3>1
    <3> QED
      BY <2>1, <3>1, <3>2
  <2>3. (m + 1) + 1 = m + 2
    BY <2>1
  <2> QED
    BY <2>1, <2>2, <2>3
<1> DEFINE Q == {m \in Nat : m < n => docs[n - m] <= n - 1 - m}
<1>5. 0 \in Q
  <2>1. ASSUME 0 < n PROVE docs[n] <= n - 1
    <3>1. n \in 1 .. n
      BY <2>1
    <3>2. docs[n] < n /\ docs[n] \in Nat
      BY <1>1, <3>1
    <3> QED
      BY <3>2
  <2> QED
    BY <2>1
<1>6. ASSUME NEW m \in Q PROVE m + 1 \in Q
  <2>1. m \in Nat
    OBVIOUS
  <2>2. ASSUME m + 1 < n PROVE docs[n - (m + 1)] <= n - 1 - (m + 1)
    <3>1. n - m \in 1 .. n /\ n - (m + 1) \in 1 .. n /\ docs[n - m] <= n - 1 - m
          /\ n - (m + 1) < n - m
      BY <2>1, <2>2
    <3>2. /\ docs[n - (m + 1)] < docs[n - m] /\ docs[n - (m + 1)] \in Nat
          /\ docs[n - m] \in Nat
      BY <1>1, <1>2, <3>1
    <3> QED
      BY <2>1, <3>1, <3>2
  <2> QED
    BY <2>1, <2>2
<1> HIDE DEF P, Q
<1>7. P = Nat
  BY <1>3, <1>4, NatSteps DEF P
<1>8. Q = Nat
  BY <1>5, <1>6, NatSteps DEF Q
<1>9. ASSUME NEW i \in 1 .. n PROVE docs[i] = i - 1
  <2>1. PICK m \in Nat : m = i - 1
    OBVIOUS
  <2>2. m \in P /\ m + 1 = i
    BY <1>7, <2>1
  <2>3. i - 1 <= docs[i]
    BY <2>1, <2>2 DEF P
  <2>4. PICK k \in Nat : k = n - i
    OBVIOUS
  <2>5. k \in Q /\ n - k = i /\ k < n
    BY <1>8, <2>4
  <2>6. docs[i] <= n - 1 - k
    BY <2>5 DEF Q
  <2> QED
    BY <1>1, <2>3, <2>4, <2>6
<1> QED
  BY <1>9

(* The rank of a document in the docs bitmap is the position of its value. *)
LEMMA RankIsPosition ==
    ASSUME NEW docs \in Seq(Nat), Rising(docs), NEW i \in 1 .. Len(docs)
    PROVE  RankOf(docs, docs[i]) = i - 1
<1>1. Len(docs) \in Nat /\ i \in Nat /\ \A k \in 1 .. Len(docs) : docs[k] \in Nat
  BY ElementOfSeq
<1>2. ASSUME NEW k \in 1 .. Len(docs) PROVE docs[k] < docs[i] <=> k < i
  <2>1. CASE k < i
    BY <2>1 DEF Rising
  <2>2. CASE k = i
    BY <1>1, <2>2
  <2>3. CASE i < k
    <3>1. docs[i] < docs[k]
      BY <2>3 DEF Rising
    <3> QED
      BY <1>1, <2>3, <3>1
  <2> QED
    BY <1>1, <2>1, <2>2, <2>3
<1>3. {k \in 1 .. Len(docs) : docs[k] < docs[i]} = 1 .. i - 1
  BY <1>1, <1>2
<1>4. Cardinality(1 .. i - 1) = i - 1
  <2>1. i - 1 \in Nat
    BY <1>1
  <2> QED
    BY <2>1, FS_Interval
<1> QED
  BY <1>3, <1>4 DEF RankOf

(* What the encoder makes of a buffer decodes to what the buffer holds. *)
LEMMA DecodesWhatItHolds ==
    ASSUME NEW f, NEW b \in Dense \cup Sparse, NEW n \in Nat \ {0}, NEW v \in Seq(Slot),
           Holds(b, n, v)
    PROVE  Encode(f, b, n) \in EncodedColumn /\ Decode(Encode(f, b, n), n) = v
<1> DEFINE col == Encode(f, b, n)
<1>0. Len(v) = n /\ v = [d \in 1 .. n |-> v[d]]
  <2>1. Len(v) = n
    BY DEF Holds, Fills, Scatters
  <2> QED
    BY <2>1
<1>1. CASE b.lane = "dense"
  <2>1. b.chunks \in Seq(Seq(SentCell)) /\ Fills(FlattenSeq(b.chunks), n, v)
    BY <1>1, BufferFields DEF Holds
  <2>2. PICK flat \in Seq(SentCell) : flat = FlattenSeq(b.chunks)
    BY <2>1, FlattenType
  <2>3. col = [coverage |-> "all", docs |-> <<>>, values |-> flat, multi |-> IsMulti(f, flat)]
    BY <1>1, <2>2 DEF Encode
  <2>4. col \in EncodedColumn
    BY <2>3 DEF EncodedColumn, IsMulti
  <2>5. Decode(col, n) = [d \in 1 .. n |-> <<flat[d]>>]
    BY <2>3 DEF Decode
  <2>6. \A d \in 1 .. n : <<flat[d]>> = v[d]
    BY <2>1, <2>2 DEF Fills
  <2> QED
    BY <1>0, <2>4, <2>5, <2>6
<1>2. CASE b.lane # "dense"
  <2>1. /\ b.docs \in Seq(Nat) /\ b.values \in Seq(SentCell)
        /\ Scatters(b.docs, b.values, n, v)
    BY <1>2, BufferFields DEF Holds
  <2>2. PICK docs \in Seq(Nat) : docs = b.docs
    BY <2>1
  <2>3. PICK values \in Seq(SentCell) : values = b.values
    BY <2>1
  <2>4. Scatters(docs, values, n, v)
    BY <2>1, <2>2, <2>3
  <2> DEFINE cov == CoverageOf(docs, n)
  <2>5. col = [coverage |-> cov, docs |-> IF cov = "some" THEN docs ELSE <<>>,
               values |-> values, multi |-> IsMulti(f, values)]
    BY <1>2, <2>2, <2>3 DEF Encode
  <2>6. cov = IF Len(docs) = 0 THEN "none" ELSE IF Len(docs) = n THEN "all" ELSE "some"
    BY DEF CoverageOf
  <2> HIDE DEF cov
  <2>7. <<>> \in Seq(Nat)
    OBVIOUS
  <2>8. col \in EncodedColumn
    BY <2>5, <2>6, <2>7 DEF EncodedColumn, IsMulti
  <2> HIDE DEF col
  <2>9. col.coverage = cov /\ col.values = values /\ (cov = "some" => col.docs = docs)
    BY <2>5
  <2>10. \A i \in 1 .. Len(docs) : docs[i] \in Nat /\ docs[i] < n /\ v[docs[i] + 1] = <<values[i]>>
    BY <2>4, ElementOfSeq DEF Scatters
  <2>11. Rising(docs) /\ Len(docs) \in Nat
    BY <2>4 DEF Scatters
  <2>12. CASE Len(docs) = 0
    <3>1. Decode(col, n) = [d \in 1 .. n |-> <<>>]
      BY <2>6, <2>9, <2>12 DEF Decode
    <3>2. \A d \in 1 .. n : v[d] = <<>>
      BY <2>4, <2>12 DEF Scatters
    <3> QED
      BY <1>0, <2>8, <3>1, <3>2 DEF col
  <2>13. CASE Len(docs) = n
    <3>1. Decode(col, n) = [d \in 1 .. n |-> <<values[d]>>]
      BY <2>6, <2>9, <2>13 DEF Decode
    <3>2. \A i \in 1 .. n : docs[i] = i - 1
      <4>1. Naturals(docs, n) /\ Long(docs, n) /\ \A i \in 1 .. n : docs[i] < n
        BY <2>10, <2>13 DEF Naturals, Long
      <4> QED
        BY <2>11, <4>1, FullIsEveryDoc
    <3>3. ASSUME NEW d \in 1 .. n PROVE v[d] = <<values[d]>>
      <4>1. docs[d] + 1 = d /\ d \in 1 .. Len(docs)
        BY <2>13, <3>2
      <4> QED
        BY <2>10, <4>1
    <3> QED
      BY <1>0, <2>8, <3>1, <3>3 DEF col
  <2>14. CASE Len(docs) # 0 /\ Len(docs) # n
    <3>1. Decode(col, n) =
             [d \in 1 .. n |-> IF \E i \in 1 .. Len(docs) : docs[i] = d - 1
                               THEN <<values[RankOf(docs, d - 1) + 1]>> ELSE <<>>]
      BY <2>6, <2>9, <2>14 DEF Decode
    <3>2. ASSUME NEW d \in 1 .. n
          PROVE  v[d] = IF \E i \in 1 .. Len(docs) : docs[i] = d - 1
                        THEN <<values[RankOf(docs, d - 1) + 1]>> ELSE <<>>
      <4>1. ASSUME NEW i \in 1 .. Len(docs), docs[i] = d - 1
            PROVE  v[d] = <<values[RankOf(docs, d - 1) + 1]>>
        <5>1. RankOf(docs, docs[i]) = i - 1
          BY <2>11, RankIsPosition
        <5>2. RankOf(docs, d - 1) + 1 = i
          BY <4>1, <5>1
        <5>3. docs[i] + 1 = d
          BY <4>1
        <5> QED
          BY <2>10, <5>2, <5>3
      <4>2. ASSUME \A i \in 1 .. Len(docs) : docs[i] # d - 1 PROVE v[d] = <<>>
        BY <2>4, <4>2 DEF Scatters
      <4> QED
        BY <4>1, <4>2
    <3> QED
      BY <1>0, <2>8, <3>1, <3>2 DEF col
  <2> QED
    BY <2>12, <2>13, <2>14
<1> QED
  BY <1>1, <1>2

-----------------------------------------------------------------------------
(* The invariant: what the clients sent is what the segments decode to,    *)
(* followed by what the buffers hold; the segments end where a batch does; *)
(* and the threshold was reached by all but the last.                      *)

DiskOf(w, f) == FlattenSeq([k \in 1 .. Len(w) |-> Decode(w[k].columns[f], w[k].max_doc)])
SentIn(a, f) == FlattenSeq([k \in 1 .. Len(a) |-> Slots(a[k][f])])

Typed(F, bufs, n, w, a) ==
    /\ bufs \in [F -> Dense \cup Sparse] /\ n \in Nat
    /\ w \in Seq([max_doc : Nat, columns : [F -> EncodedColumn]])
    /\ a \in Seq([F -> Seq(SentCell)])

Readable(F, w) ==
    \A k \in 1 .. Len(w) : \A f \in F : Decode(w[k].columns[f], w[k].max_doc) \in Seq(Slot)

Told(F, bufs, n, w, a) ==
    \A f \in F : \E v \in Seq(Slot) : Holds(bufs[f], n, v) /\ SentIn(a, f) = DiskOf(w, f) \o v

SegmentsUpTo(w, k) == Total([i \in 1 .. k |-> w[i].max_doc])
BatchesUpTo(F, a, k) == Total([i \in 1 .. k |-> Len(a[i][CHOOSE f \in F : TRUE])])

Cut(F, n, w, a) ==
    /\ SegmentsUpTo(w, Len(w)) + n = BatchesUpTo(F, a, Len(a))
    /\ \A s \in 1 .. Len(w) : \E b \in 0 .. Len(a) : SegmentsUpTo(w, s) = BatchesUpTo(F, a, b)

Sized(n, w, fin) ==
    /\ n < SegmentMaxDocs + MaxBatchRows
    /\ \A s \in 1 .. Len(w) :
          /\ 0 < w[s].max_doc /\ w[s].max_doc < SegmentMaxDocs + MaxBatchRows
          /\ (s < Len(w) \/ ~fin) => w[s].max_doc >= SegmentMaxDocs

Parts(F, bufs, n, w, a) ==
    /\ Typed(F, bufs, n, w, a) /\ Readable(F, w)
    /\ Told(F, bufs, n, w, a) /\ Cut(F, n, w, a)

JobIInv ==
    /\ kind \in Schemas /\ finished \in BOOLEAN
    /\ Parts(Fields, buffers, docs_in_segment, written, arrived)
    /\ Sized(docs_in_segment, written, finished)

-----------------------------------------------------------------------------
(* A listing that grows by one part.                                       *)

LEMMA FlattenMore ==
    ASSUME NEW S, NEW n \in Nat, NEW g \in [1 .. n + 1 -> Seq(S)], NEW h \in [1 .. n -> Seq(S)],
           \A k \in 1 .. n : g[k] = h[k]
    PROVE  FlattenSeq(g) = FlattenSeq(h) \o g[n + 1] /\ FlattenSeq(h) \in Seq(S)
<1>1. PICK T : T = Seq(S)
  OBVIOUS
<1>2. h \in [1 .. n -> T] /\ g \in [1 .. n + 1 -> T] /\ n + 1 \in Nat
  BY <1>1
<1>3. h \in Seq(T) /\ Len(h) = n
  BY <1>2, FunctionIsSeq
<1>4. g \in Seq(T) /\ Len(g) = n + 1
  BY <1>2, FunctionIsSeq
<1>5. PICK x \in T : x = g[n + 1]
  BY <1>2
<1>6. /\ Append(h, x) \in Seq(T) /\ Len(Append(h, x)) = Len(h) + 1
      /\ Append(h, x)[Len(h) + 1] = x /\ \A i \in 1 .. Len(h) : Append(h, x)[i] = h[i]
  BY <1>3, AppendExtends
<1>7. \A i \in 1 .. n + 1 : g[i] = Append(h, x)[i]
  BY <1>3, <1>5, <1>6
<1>8. g = Append(h, x)
  BY <1>3, <1>4, <1>6, <1>7, SeqEqual
<1>9. h \in Seq(Seq(S)) /\ x \in Seq(S)
  BY <1>1, <1>3, <1>5
<1>10. FlattenSeq(h) \in Seq(S)
  BY <1>9, FlattenType
<1>11. FlattenSeq(Append(h, x)) = FlattenSeq(h) \o x
  BY <1>9, FlattenAppend
<1> QED
  BY <1>5, <1>8, <1>10, <1>11

LEMMA DiskType ==
    ASSUME NEW F, NEW w, Len(w) \in Nat, Readable(F, w), NEW f \in F PROVE DiskOf(w, f) \in Seq(Slot)
<1>1. PICK n \in Nat : n = Len(w)
  OBVIOUS
<1>2. PICK T : T = Seq(Slot)
  OBVIOUS
<1> DEFINE g == [k \in 1 .. n |-> Decode(w[k].columns[f], w[k].max_doc)]
<1>3. g \in [1 .. n -> T]
  BY <1>1, <1>2 DEF Readable
<1>4. DiskOf(w, f) = FlattenSeq(g)
  BY <1>1 DEF DiskOf
<1> HIDE DEF g
<1>5. g \in Seq(T)
  BY <1>3, FunctionIsSeq
<1>6. g \in Seq(Seq(Slot))
  BY <1>2, <1>5
<1> QED
  BY <1>4, <1>6, FlattenType

OneMore(w, u) == Len(w) \in Nat /\ Len(u) = Len(w) + 1 /\ \A k \in 1 .. Len(w) : u[k] = w[k]

LEMMA DiskMore ==
    ASSUME NEW F, NEW w, Readable(F, w), NEW f \in F, NEW u, Readable(F, u), OneMore(w, u)
    PROVE  DiskOf(u, f) = DiskOf(w, f) \o Decode(u[Len(w) + 1].columns[f], u[Len(w) + 1].max_doc)
<1>1. PICK n \in Nat : n = Len(w) /\ Len(u) = n + 1 /\ \A k \in 1 .. n : u[k] = w[k]
  BY DEF OneMore
<1> DEFINE g == [k \in 1 .. n + 1 |-> Decode(u[k].columns[f], u[k].max_doc)]
<1> DEFINE h == [k \in 1 .. n |-> Decode(w[k].columns[f], w[k].max_doc)]
<1>2. DiskOf(u, f) = FlattenSeq(g) /\ DiskOf(w, f) = FlattenSeq(h)
  BY <1>1 DEF DiskOf
<1>3. g \in [1 .. n + 1 -> Seq(Slot)] /\ h \in [1 .. n -> Seq(Slot)]
  BY <1>1 DEF Readable
<1>4. \A k \in 1 .. n : g[k] = h[k]
  BY <1>1
<1>5. g[n + 1] = Decode(u[n + 1].columns[f], u[n + 1].max_doc)
  OBVIOUS
<1> HIDE DEF g, h
<1>6. FlattenSeq(g) = FlattenSeq(h) \o g[n + 1]
  BY <1>3, <1>4, FlattenMore
<1> QED
  BY <1>1, <1>2, <1>5, <1>6

LEMMA SentMore ==
    ASSUME NEW F, NEW a \in Seq([F -> Seq(SentCell)]), NEW batch \in [F -> Seq(SentCell)],
           NEW f \in F
    PROVE  SentIn(Append(a, batch), f) = SentIn(a, f) \o Slots(batch[f]) /\ SentIn(a, f) \in Seq(Slot)
<1>1. PICK B : B = [F -> Seq(SentCell)]
  OBVIOUS
<1>2. a \in Seq(B) /\ batch \in B
  BY <1>1
<1>3. PICK u \in Seq(B) :
         /\ u = Append(a, batch) /\ Len(u) = Len(a) + 1 /\ u[Len(a) + 1] = batch
         /\ Len(a) \in Nat /\ \A k \in 1 .. Len(a) : u[k] = a[k]
  <2>1. /\ Append(a, batch) \in Seq(B) /\ Len(Append(a, batch)) = Len(a) + 1
        /\ Append(a, batch)[Len(a) + 1] = batch
        /\ \A k \in 1 .. Len(a) : Append(a, batch)[k] = a[k]
    BY <1>2, AppendExtends
  <2>2. Len(a) \in Nat
    BY <1>2
  <2> QED
    BY <2>1, <2>2
<1>4. PICK n \in Nat : n = Len(a)
  BY <1>3
<1> DEFINE g == [k \in 1 .. n + 1 |-> Slots(u[k][f])]
<1> DEFINE h == [k \in 1 .. n |-> Slots(a[k][f])]
<1>5. SentIn(u, f) = FlattenSeq(g) /\ SentIn(a, f) = FlattenSeq(h)
  BY <1>3, <1>4 DEF SentIn
<1>6. /\ \A k \in 1 .. n + 1 : u[k][f] \in Seq(SentCell)
      /\ \A k \in 1 .. n : a[k][f] \in Seq(SentCell)
  <2>1. \A k \in 1 .. n + 1 : u[k] \in B
    BY <1>3, <1>4, ElementOfSeq
  <2>2. \A k \in 1 .. n : a[k] \in B
    BY <1>2, <1>4, ElementOfSeq
  <2> QED
    BY <1>1, <2>1, <2>2
<1>7. \A k \in 1 .. n + 1 : Slots(u[k][f]) \in Seq(Slot)
  BY <1>6, SlotsType
<1>8. \A k \in 1 .. n : Slots(a[k][f]) \in Seq(Slot)
  BY <1>6, SlotsType
<1>9. g \in [1 .. n + 1 -> Seq(Slot)] /\ h \in [1 .. n -> Seq(Slot)]
  BY <1>7, <1>8
<1>10. (\A k \in 1 .. n : g[k] = h[k]) /\ g[n + 1] = Slots(batch[f])
  BY <1>3, <1>4
<1> HIDE DEF g, h
<1>11. FlattenSeq(g) = FlattenSeq(h) \o g[n + 1] /\ FlattenSeq(h) \in Seq(Slot)
  BY <1>9, <1>10, FlattenMore
<1> QED
  BY <1>3, <1>5, <1>10, <1>11

-----------------------------------------------------------------------------
(* Rows of the segments and of the batches.                                *)

Counted(w, k) == \A i \in 1 .. k : w[i].max_doc \in Nat
Rows(F, batch, m) == \A f \in F : Len(batch[f]) = m
Agree(u, w, k) == \A i \in 1 .. k : u[i] = w[i]
Columns(F, a, k) == \A i \in 1 .. k : a[i] \in [F -> Seq(SentCell)]

LEMMA SegmentsGrow ==
    ASSUME NEW w, NEW k \in Nat, Counted(w, k + 1)
    PROVE  /\ SegmentsUpTo(w, k + 1) = SegmentsUpTo(w, k) + w[k + 1].max_doc
           /\ SegmentsUpTo(w, k) \in Nat
<1> DEFINE s == [i \in 1 .. k + 1 |-> w[i].max_doc]
<1> DEFINE r == [i \in 1 .. k |-> w[i].max_doc]
<1>1. s \in [1 .. k + 1 -> Nat] /\ r \in [1 .. k -> Nat]
  BY DEF Counted
<1>2. (\A i \in 1 .. k : r[i] = s[i]) /\ s[k + 1] = w[k + 1].max_doc
  OBVIOUS
<1>3. SegmentsUpTo(w, k + 1) = Total(s) /\ SegmentsUpTo(w, k) = Total(r)
  BY DEF SegmentsUpTo
<1> HIDE DEF s, r
<1>4. Total(s) = Total(r) + s[k + 1] /\ Total(r) \in Nat
  BY <1>1, <1>2, TotalGrows
<1> QED
  BY <1>2, <1>3, <1>4

LEMMA SegmentsType == ASSUME NEW w, NEW k \in Nat, Counted(w, k) PROVE SegmentsUpTo(w, k) \in Nat
<1>1. [i \in 1 .. k |-> w[i].max_doc] \in [1 .. k -> Nat]
  BY DEF Counted
<1> QED
  BY <1>1, TotalType DEF SegmentsUpTo

LEMMA SegmentsSame ==
    ASSUME NEW w, NEW u, NEW k \in Nat, \A i \in 1 .. k : u[i] = w[i]
    PROVE  SegmentsUpTo(u, k) = SegmentsUpTo(w, k)
<1>1. [i \in 1 .. k |-> u[i].max_doc] = [i \in 1 .. k |-> w[i].max_doc]
  OBVIOUS
<1> QED
  BY <1>1 DEF SegmentsUpTo

LEMMA BatchesGrow ==
    ASSUME NEW F, F # {}, NEW a, NEW k \in Nat, NEW j \in Nat, j = k + 1,
           Columns(F, a, j), NEW n, Rows(F, a[j], n)
    PROVE  BatchesUpTo(F, a, j) = BatchesUpTo(F, a, k) + n
<1>1. PICK g \in F : g = CHOOSE f \in F : TRUE
  OBVIOUS
<1> DEFINE s == [i \in 1 .. j |-> Len(a[i][g])]
<1> DEFINE r == [i \in 1 .. k |-> Len(a[i][g])]
<1>2. \A i \in 1 .. j : a[i][g] \in Seq(SentCell)
  BY DEF Columns
<1>3. s \in [1 .. j -> Nat] /\ r \in [1 .. k -> Nat]
  BY <1>2
<1>4. (\A i \in 1 .. k : r[i] = s[i]) /\ s[j] = n
  BY DEF Rows
<1>5. BatchesUpTo(F, a, j) = Total(s) /\ BatchesUpTo(F, a, k) = Total(r)
  BY <1>1 DEF BatchesUpTo
<1> HIDE DEF s, r
<1>6. Total(s) = Total(r) + s[j]
  BY <1>3, <1>4, TotalGrows
<1> QED
  BY <1>4, <1>5, <1>6

LEMMA BatchesType ==
    ASSUME NEW F, F # {}, NEW a, NEW k \in Nat, Columns(F, a, k)
    PROVE  BatchesUpTo(F, a, k) \in Nat
<1>1. PICK g \in F : g = CHOOSE f \in F : TRUE
  OBVIOUS
<1> DEFINE r == [i \in 1 .. k |-> Len(a[i][g])]
<1>2. \A i \in 1 .. k : a[i][g] \in Seq(SentCell)
  BY DEF Columns
<1>3. r \in [1 .. k -> Nat]
  BY <1>2
<1>4. BatchesUpTo(F, a, k) = Total(r)
  BY <1>1 DEF BatchesUpTo
<1> HIDE DEF r
<1> QED
  BY <1>3, <1>4, TotalType

LEMMA BatchesSame ==
    ASSUME NEW F, NEW a, NEW u, NEW k \in Nat, Agree(u, a, k)
    PROVE  BatchesUpTo(F, u, k) = BatchesUpTo(F, a, k)
<1>1. [i \in 1 .. k |-> Len(u[i][CHOOSE f \in F : TRUE])]
        = [i \in 1 .. k |-> Len(a[i][CHOOSE f \in F : TRUE])]
  BY DEF Agree
<1> QED
  BY <1>1 DEF BatchesUpTo

-----------------------------------------------------------------------------
(* flush_segment.                                                          *)

LEMMA ClearedIsEmpty ==
    ASSUME NEW b \in Dense \cup Sparse
    PROVE  Cleared(b) \in Dense \cup Sparse /\ Holds(Cleared(b), 0, <<>>)
<1>1. <<>> \in Seq(Seq(SentCell)) /\ <<>> \in Seq(Nat) /\ <<>> \in Seq(SentCell)
  OBVIOUS
<1>2. CASE b.lane = "dense"
  <2>1. Cleared(b) = [lane |-> "dense", chunks |-> <<>>]
    BY <1>2 DEF Cleared, Dense, Sparse
  <2>2. Cleared(b) \in Dense /\ Cleared(b).lane = "dense" /\ Cleared(b).chunks = <<>>
    BY <1>1, <2>1 DEF Dense
  <2>3. Len(<<>>) = 0
    OBVIOUS
  <2>4. Fills(<<>>, 0, <<>>)
    BY <2>3 DEF Fills
  <2> QED
    BY <2>2, <2>4, FlattenEmpty DEF Holds
<1>3. CASE b.lane # "dense"
  <2>1. Cleared(b) = [lane |-> "sparse", docs |-> <<>>, values |-> <<>>]
    BY <1>3 DEF Cleared, Dense, Sparse
  <2>2. /\ Cleared(b) \in Sparse /\ Cleared(b).lane = "sparse"
        /\ Cleared(b).docs = <<>> /\ Cleared(b).values = <<>>
    BY <1>1, <2>1 DEF Sparse
  <2>3. Scatters(<<>>, <<>>, 0, <<>>)
    BY DEF Scatters, Rising
  <2> QED
    BY <2>2, <2>3 DEF Holds
<1> QED
  BY <1>2, <1>3

Emptied(F, bufs, B) == B = [f \in F |-> Cleared(bufs[f])]
SegmentOf(F, bufs, n) == [max_doc |-> n, columns |-> [f \in F |-> Encode(f, bufs[f], n)]]

LEMMA FlushKeeps ==
    ASSUME NEW F, NEW bufs, NEW n \in Nat \ {0}, NEW w, NEW a, Parts(F, bufs, n, w, a),
           NEW B, Emptied(F, bufs, B), NEW seg, seg = SegmentOf(F, bufs, n),
           NEW u, u = Append(w, seg)
    PROVE  Parts(F, B, 0, u, a)
<1>1. /\ bufs \in [F -> Dense \cup Sparse] /\ a \in Seq([F -> Seq(SentCell)])
      /\ \A f \in F : \E v \in Seq(Slot) : Holds(bufs[f], n, v) /\ SentIn(a, f) = DiskOf(w, f) \o v
  BY DEF Parts, Typed, Told
<1>2. PICK E : E = [max_doc : Nat, columns : [F -> EncodedColumn]]
  OBVIOUS
<1>3. w \in Seq(E)
  BY <1>2 DEF Parts, Typed
<1>4. \A f \in F : /\ Encode(f, bufs[f], n) \in EncodedColumn
                   /\ Decode(Encode(f, bufs[f], n), n) \in Seq(Slot)
  <2> TAKE f \in F
  <2>1. PICK b \in Dense \cup Sparse : b = bufs[f]
    BY <1>1
  <2>2. PICK v \in Seq(Slot) : Holds(b, n, v)
    BY <1>1, <2>1
  <2> QED
    BY <2>1, <2>2, DecodesWhatItHolds
<1>5. seg \in E /\ seg.max_doc = n /\ \A f \in F : seg.columns[f] = Encode(f, bufs[f], n)
  BY <1>2, <1>4 DEF SegmentOf
<1>6. /\ u \in Seq(E) /\ Len(u) = Len(w) + 1 /\ Len(w) \in Nat /\ u[Len(w) + 1] = seg
      /\ \A k \in 1 .. Len(w) : u[k] = w[k]
  BY <1>3, <1>5, AppendExtends
<1>7. /\ B \in [F -> Dense \cup Sparse] /\ \A f \in F : Holds(B[f], 0, <<>>)
  <2>1. \A f \in F : bufs[f] \in Dense \cup Sparse
    BY <1>1
  <2>2. \A f \in F : Cleared(bufs[f]) \in Dense \cup Sparse /\ Holds(Cleared(bufs[f]), 0, <<>>)
    BY <2>1, ClearedIsEmpty
  <2> QED
    BY <2>2 DEF Emptied
<1>8. Typed(F, B, 0, u, a)
  BY <1>1, <1>2, <1>6, <1>7 DEF Typed
<1>9. PICK m \in Nat : m = Len(w)
  BY <1>6
<1>10. Readable(F, u)
  <2> SUFFICES ASSUME NEW k \in 1 .. m + 1, NEW f \in F
               PROVE  Decode(u[k].columns[f], u[k].max_doc) \in Seq(Slot)
    BY <1>6, <1>9 DEF Readable
  <2>1. CASE k \in 1 .. m
    BY <1>6, <1>9, <2>1 DEF Parts, Readable
  <2>2. CASE k = m + 1
    BY <1>4, <1>5, <1>6, <1>9, <2>2
  <2>3. k \in 1 .. m \/ k = m + 1
    OBVIOUS
  <2> QED
    BY <2>1, <2>2, <2>3
<1>11. Told(F, B, 0, u, a)
  <2> SUFFICES ASSUME NEW f \in F
               PROVE  Holds(B[f], 0, <<>>) /\ SentIn(a, f) = DiskOf(u, f) \o <<>>
    <3>1. <<>> \in Seq(Slot)
      OBVIOUS
    <3> QED
      BY <3>1 DEF Told
  <2>1. PICK v \in Seq(Slot) : Holds(bufs[f], n, v) /\ SentIn(a, f) = DiskOf(w, f) \o v
    BY <1>1
  <2>2. PICK b \in Dense \cup Sparse : b = bufs[f]
    BY <1>1
  <2>3. Decode(Encode(f, b, n), n) = v
    BY <2>1, <2>2, DecodesWhatItHolds
  <2>4. DiskOf(u, f) = DiskOf(w, f) \o Decode(u[Len(w) + 1].columns[f], u[Len(w) + 1].max_doc)
    <3>1. Readable(F, w)
      BY DEF Parts
    <3>2. OneMore(w, u)
      BY <1>6 DEF OneMore
    <3> QED
      BY <1>10, <3>1, <3>2, DiskMore
  <2>5. Decode(u[Len(w) + 1].columns[f], u[Len(w) + 1].max_doc) = v
    BY <1>5, <1>6, <2>2, <2>3
  <2>6. DiskOf(u, f) \in Seq(Slot)
    BY <1>6, <1>10, DiskType
  <2>7. PICK d \in Seq(Slot) : d = DiskOf(u, f)
    BY <2>6
  <2>8. d \o <<>> = d
    OBVIOUS
  <2> QED
    BY <1>7, <2>1, <2>4, <2>5, <2>7, <2>8
<1>12. Cut(F, 0, u, a)
  <2>1. \A i \in 1 .. m + 1 : u[i] \in E
    BY <1>6, <1>9, ElementOfSeq
  <2>2. Counted(u, m + 1)
    BY <1>2, <2>1 DEF Counted
  <2>3. SegmentsUpTo(u, m + 1) = SegmentsUpTo(u, m) + n /\ SegmentsUpTo(u, m) \in Nat
    <3>1. /\ SegmentsUpTo(u, m + 1) = SegmentsUpTo(u, m) + u[m + 1].max_doc
          /\ SegmentsUpTo(u, m) \in Nat
      BY <2>2, SegmentsGrow
    <3> QED
      BY <1>5, <1>6, <1>9, <3>1
  <2>4. \A s \in 1 .. m : SegmentsUpTo(u, s) = SegmentsUpTo(w, s)
    <3> TAKE s \in 1 .. m
    <3>1. s \in Nat /\ \A i \in 1 .. s : u[i] = w[i]
      BY <1>6, <1>9
    <3> QED
      BY <3>1, SegmentsSame
  <2>5. SegmentsUpTo(u, m) = SegmentsUpTo(w, m)
    <3>1. \A i \in 1 .. m : u[i] = w[i]
      BY <1>6, <1>9
    <3> QED
      BY <3>1, SegmentsSame
  <2>6. SegmentsUpTo(u, m + 1) = BatchesUpTo(F, a, Len(a))
    BY <1>9, <2>3, <2>5 DEF Parts, Cut
  <2>7. Len(a) \in 0 .. Len(a)
    BY <1>1
  <2>8. \A s \in 1 .. m + 1 : \E b \in 0 .. Len(a) : SegmentsUpTo(u, s) = BatchesUpTo(F, a, b)
    <3> TAKE s \in 1 .. m + 1
    <3>1. CASE s \in 1 .. m
      BY <1>9, <2>4, <3>1 DEF Parts, Cut
    <3>2. CASE s = m + 1
      BY <2>6, <2>7, <3>2
    <3> QED
      BY <3>1, <3>2
  <2>9. SegmentsUpTo(u, m + 1) + 0 = BatchesUpTo(F, a, Len(a))
    BY <2>3, <2>6
  <2> QED
    BY <1>6, <1>9, <2>8, <2>9 DEF Cut
<1> QED
  BY <1>8, <1>10, <1>11, <1>12 DEF Parts

-----------------------------------------------------------------------------
(* push appends a batch.                                                   *)

IsBatch(F, batch, m) == batch \in [F -> Seq(SentCell)] /\ Rows(F, batch, m)
Arrives(a, batch, c) == c = Append(a, batch)
Filled(F, bufs, batch, n, B) == B = [f \in F |-> AppendColumn(bufs[f], batch[f], n)]

Associates(s, t, u) == (s \o t) \o u = s \o (t \o u)

LEMMA ConcatAssociates ==
    ASSUME NEW S, NEW s \in Seq(S), NEW t \in Seq(S), NEW u \in Seq(S) PROVE Associates(s, t, u)
BY ConcatAssociative DEF Associates

LEMMA AppendKeeps ==
    ASSUME NEW F, F # {}, NEW bufs, NEW n \in Nat, NEW w, NEW a, Parts(F, bufs, n, w, a),
           NEW m \in Nat, NEW batch, IsBatch(F, batch, m),
           NEW B, Filled(F, bufs, batch, n, B), NEW c, Arrives(a, batch, c)
    PROVE  Parts(F, B, n + m, w, c)
<1>1. /\ bufs \in [F -> Dense \cup Sparse]
      /\ \A f \in F : \E v \in Seq(Slot) : Holds(bufs[f], n, v) /\ SentIn(a, f) = DiskOf(w, f) \o v
  BY DEF Parts, Typed, Told
<1>2. PICK T : T = [F -> Seq(SentCell)]
  OBVIOUS
<1>3. a \in Seq(T) /\ batch \in T
  BY <1>2 DEF Parts, Typed, IsBatch
<1>4. /\ c \in Seq(T) /\ Len(c) = Len(a) + 1 /\ Len(a) \in Nat /\ c[Len(a) + 1] = batch
      /\ \A k \in 1 .. Len(a) : c[k] = a[k]
  <2>1. c = Append(a, batch)
    BY DEF Arrives
  <2> QED
    BY <1>3, <2>1, AppendExtends
<1>5. Readable(F, w)
  BY DEF Parts
<1>6. \A f \in F : /\ B[f] \in Dense \cup Sparse
                   /\ \E v \in Seq(Slot) : Holds(B[f], n + m, v) /\ SentIn(c, f) = DiskOf(w, f) \o v
  <2> TAKE f \in F
  <2>1. PICK v \in Seq(Slot) : Holds(bufs[f], n, v) /\ SentIn(a, f) = DiskOf(w, f) \o v
    BY <1>1
  <2>2. PICK b \in Dense \cup Sparse : b = bufs[f]
    BY <1>1
  <2>3. PICK cells \in Seq(SentCell) : cells = batch[f] /\ Len(cells) = m
    BY DEF IsBatch, Rows
  <2>4. /\ AppendColumn(b, cells, n) \in Dense \cup Sparse
        /\ Holds(AppendColumn(b, cells, n), n + Len(cells), v \o Slots(cells))
    BY <2>1, <2>2, ColumnAppends
  <2>5. B[f] = AppendColumn(b, cells, n)
    BY <2>2, <2>3 DEF Filled
  <2>6. PICK sl \in Seq(Slot) : sl = Slots(cells)
    BY SlotsType
  <2>7. PICK d \in Seq(Slot) : d = DiskOf(w, f)
    <3>1. Len(w) \in Nat
      BY DEF Parts, Typed
    <3> QED
      BY <1>5, <3>1, DiskType
  <2>8. SentIn(c, f) = SentIn(a, f) \o Slots(batch[f])
    <3>1. a \in Seq([F -> Seq(SentCell)])
      BY <1>2, <1>3
    <3> QED
      BY <3>1, SentMore DEF IsBatch, Arrives
  <2>9. SentIn(c, f) = (d \o v) \o sl
    BY <2>1, <2>3, <2>6, <2>7, <2>8
  <2>10. PICK x \in Seq(Slot) : x = v \o sl
    BY ConcatSplits
  <2>11. (d \o v) \o sl = d \o x
    <3>1. Associates(d, v, sl)
      BY ConcatAssociates
    <3> QED
      BY <2>10, <3>1 DEF Associates
  <2>12. Holds(B[f], n + m, x)
    BY <2>3, <2>4, <2>5, <2>6, <2>10
  <2>13. SentIn(c, f) = DiskOf(w, f) \o x
    BY <2>7, <2>9, <2>11
  <2> QED
    BY <2>4, <2>5, <2>12, <2>13
<1>7. Typed(F, B, n + m, w, c)
  <2>1. B \in [F -> Dense \cup Sparse]
    BY <1>6 DEF Filled
  <2> QED
    BY <1>2, <1>4, <2>1 DEF Typed, Parts
<1>8. Told(F, B, n + m, w, c)
  BY <1>6 DEF Told
<1>9. PICK l \in Nat : l = Len(a)
  BY <1>4
<1>10. Columns(F, c, l + 1) /\ Columns(F, a, l)
  <2>1. \A i \in 1 .. l + 1 : c[i] \in T
    BY <1>4, <1>9, ElementOfSeq
  <2>2. \A i \in 1 .. l : a[i] \in T
    BY <1>3, <1>9, ElementOfSeq
  <2> QED
    BY <1>2, <2>1, <2>2 DEF Columns
<1>11. \A b \in 0 .. l : BatchesUpTo(F, c, b) = BatchesUpTo(F, a, b)
  <2> TAKE b \in 0 .. l
  <2>1. b \in Nat /\ Agree(c, a, b)
    BY <1>4, <1>9 DEF Agree
  <2> QED
    BY <2>1, BatchesSame
<1>12. BatchesUpTo(F, c, l + 1) = BatchesUpTo(F, a, l) + m
  <2>1. Rows(F, c[l + 1], m)
    BY <1>4, <1>9 DEF IsBatch
  <2>2. BatchesUpTo(F, c, l + 1) = BatchesUpTo(F, c, l) + m
    <3>1. PICK j \in Nat : j = l + 1
      OBVIOUS
    <3>2. Columns(F, c, j) /\ Rows(F, c[j], m)
      BY <1>10, <2>1, <3>1
    <3>3. BatchesUpTo(F, c, j) = BatchesUpTo(F, c, l) + m
      BY <3>1, <3>2, BatchesGrow
    <3> QED
      BY <3>1, <3>3
  <2>3. l \in 0 .. l
    OBVIOUS
  <2> QED
    BY <1>11, <2>2, <2>3
<1>13. Cut(F, n + m, w, c)
  <2>1. /\ SegmentsUpTo(w, Len(w)) + n = BatchesUpTo(F, a, l)
        /\ \A s \in 1 .. Len(w) : \E b \in 0 .. l : SegmentsUpTo(w, s) = BatchesUpTo(F, a, b)
    BY <1>9 DEF Parts, Cut
  <2>2. SegmentsUpTo(w, Len(w)) \in Nat
    <3>1. PICK E : E = [max_doc : Nat, columns : [F -> EncodedColumn]]
      OBVIOUS
    <3>2. w \in Seq(E)
      BY <3>1 DEF Parts, Typed
    <3>3. Len(w) \in Nat /\ \A i \in 1 .. Len(w) : w[i] \in E
      BY <3>2, ElementOfSeq
    <3>4. Counted(w, Len(w))
      BY <3>1, <3>3 DEF Counted
    <3> QED
      BY <3>3, <3>4, SegmentsType
  <2>3. SegmentsUpTo(w, Len(w)) + (n + m) = BatchesUpTo(F, c, l + 1)
    BY <1>12, <2>1, <2>2
  <2>4. \A s \in 1 .. Len(w) : \E b \in 0 .. l + 1 : SegmentsUpTo(w, s) = BatchesUpTo(F, c, b)
    <3> TAKE s \in 1 .. Len(w)
    <3>1. PICK b \in 0 .. l : SegmentsUpTo(w, s) = BatchesUpTo(F, a, b)
      BY <2>1
    <3>2. b \in 0 .. l + 1 /\ BatchesUpTo(F, c, b) = BatchesUpTo(F, a, b)
      BY <1>11
    <3> QED
      BY <3>1, <3>2
  <2> QED
    BY <1>4, <1>9, <2>3, <2>4 DEF Cut
<1> QED
  BY <1>5, <1>7, <1>8, <1>13 DEF Parts

-----------------------------------------------------------------------------
(* The steps.                                                              *)

Flushes(w, u, n, fin) ==
    /\ OneMore(w, u) /\ u[Len(w) + 1].max_doc = n
    /\ n \in Nat \ {0} /\ fin \in BOOLEAN
    /\ Sized(n, w, FALSE) /\ (fin \/ n >= SegmentMaxDocs)

LEMMA SizedGrows ==
    ASSUME JobAssumption, NEW w, NEW u, NEW n, NEW fin, Flushes(w, u, n, fin)
    PROVE  Sized(0, u, fin)
<1>1. PICK m \in Nat : m = Len(w) /\ Len(u) = m + 1 /\ \A k \in 1 .. m : u[k] = w[k]
  BY DEF OneMore, Flushes
<1>2. SegmentMaxDocs \in Nat \ {0} /\ MaxBatchRows \in Nat
  BY DEF JobAssumption
<1>3. n < SegmentMaxDocs + MaxBatchRows /\ n \in Nat \ {0} /\ (fin \/ n >= SegmentMaxDocs)
  BY DEF Sized, Flushes
<1>4. \A s \in 1 .. m : /\ 0 < w[s].max_doc /\ w[s].max_doc < SegmentMaxDocs + MaxBatchRows
                        /\ w[s].max_doc >= SegmentMaxDocs
  BY <1>1 DEF Sized, Flushes
<1>5. \A s \in 1 .. m + 1 : /\ 0 < u[s].max_doc /\ u[s].max_doc < SegmentMaxDocs + MaxBatchRows
                            /\ (s < m + 1 \/ ~fin) => u[s].max_doc >= SegmentMaxDocs
  <2> TAKE s \in 1 .. m + 1
  <2>1. CASE s \in 1 .. m
    BY <1>1, <1>4, <2>1
  <2>2. CASE s = m + 1
    <3>1. u[s].max_doc = n
      BY <1>1, <2>2 DEF Flushes
    <3> QED
      BY <1>3, <2>2, <3>1
  <2>3. s \in 1 .. m \/ s = m + 1
    OBVIOUS
  <2> QED
    BY <2>1, <2>2, <2>3
<1> QED
  BY <1>1, <1>2, <1>5 DEF Sized

LEMMA JobHasColumns == ASSUME JobAssumption, kind \in Schemas PROVE Fields # {}
BY DEF JobAssumption, Fields

LEMMA BatchesAreBatches ==
    ASSUME JobAssumption, JobIInv, NEW m \in Nat, NEW batch \in Batches(m)
    PROVE  IsBatch(Fields, batch, m)
<1>1. Fields # {}
  BY JobHasColumns DEF JobIInv
<1>2. PICK T : T = [Fields -> Seq(SentCell)]
  OBVIOUS
<1>3. arrived \in Seq(T)
  BY <1>2 DEF JobIInv, Parts, Typed
<1>4. Len(arrived) \in Nat /\ \A i \in 1 .. Len(arrived) : arrived[i] \in T
  BY <1>3, ElementOfSeq
<1>5. Columns(Fields, arrived, Len(arrived))
  BY <1>2, <1>4 DEF Columns
<1>6. RowCount \in Nat
  <2>1. BatchesUpTo(Fields, arrived, Len(arrived)) \in Nat
    BY <1>1, <1>4, <1>5, BatchesType
  <2>2. RowCount = BatchesUpTo(Fields, arrived, Len(arrived))
    BY DEF RowCount, RowsOfBatches, RowsInBatch, BatchesUpTo
  <2> QED
    BY <2>1, <2>2
<1>7. PICK s \in [Fields -> [1 .. m -> Shapes]] :
         batch = [f \in Fields |-> [i \in 1 .. m |-> [row |-> RowCount + i - 1, shape |-> s[f][i]]]]
  BY DEF Batches
<1>8. \A f \in Fields : batch[f] \in Seq(SentCell) /\ Len(batch[f]) = m
  <2> TAKE f \in Fields
  <2>1. \A i \in 1 .. m : [row |-> RowCount + i - 1, shape |-> s[f][i]] \in SentCell
    BY <1>6 DEF SentCell
  <2>2. batch[f] \in [1 .. m -> SentCell]
    BY <1>7, <2>1
  <2> QED
    BY <2>2, FunctionIsSeq
<1> QED
  BY <1>7, <1>8 DEF IsBatch, Rows

(* What flush_segment leaves, at the threshold or at the end. *)
LEMMA FlushedKeeps ==
    ASSUME JobAssumption, JobIInv, ~finished, NEW fin \in BOOLEAN, fin \/ SegmentFull
    PROVE  /\ Parts(Fields, Flushed.buffers, 0, Flushed.written, arrived) /\ Flushed.docs = 0
           /\ Sized(0, Flushed.written, fin)
<1>1. SegmentMaxDocs \in Nat \ {0} /\ MaxBatchRows \in Nat
  BY DEF JobAssumption
<1>2. /\ docs_in_segment \in Nat
      /\ Parts(Fields, buffers, docs_in_segment, written, arrived)
      /\ Sized(docs_in_segment, written, FALSE)
  BY DEF JobIInv, Parts, Typed
<1>3. CASE docs_in_segment = 0
  <2>1. Flushed.buffers = buffers /\ Flushed.docs = 0 /\ Flushed.written = written
    BY <1>3 DEF Flushed
  <2>2. fin = TRUE
    BY <1>1, <1>3 DEF SegmentFull
  <2>3. Sized(0, written, TRUE)
    BY <1>1, <1>2 DEF Sized
  <2> QED
    BY <1>2, <1>3, <2>1, <2>2, <2>3
<1>4. CASE docs_in_segment # 0
  <2>1. PICK seg : seg = SegmentOf(Fields, buffers, docs_in_segment)
    OBVIOUS
  <2>2. PICK B : Emptied(Fields, buffers, B)
    BY DEF Emptied
  <2>3. PICK u : u = Append(written, seg)
    OBVIOUS
  <2>4. Flushed.buffers = B /\ Flushed.docs = 0 /\ Flushed.written = u
    BY <1>4, <2>1, <2>2, <2>3 DEF Flushed, Emptied, SegmentOf, DocsToFlush
  <2>5. Parts(Fields, B, 0, u, arrived)
    BY <1>2, <1>4, <2>1, <2>2, <2>3, FlushKeeps
  <2>6. PICK E : E = [max_doc : Nat, columns : [Fields -> EncodedColumn]]
    OBVIOUS
  <2>7. written \in Seq(E) /\ u \in Seq(E)
    BY <1>2, <2>5, <2>6 DEF Parts, Typed
  <2>8. OneMore(written, u) /\ u[Len(written) + 1].max_doc = docs_in_segment
    BY <2>1, <2>3, <2>7 DEF OneMore, SegmentOf
  <2>9. Flushes(written, u, docs_in_segment, fin)
    BY <1>2, <1>4, <2>8 DEF Flushes, SegmentFull
  <2>10. Sized(0, u, fin)
    BY <2>9, SizedGrows
  <2> QED
    BY <2>4, <2>5, <2>10
<1> QED
  BY <1>3, <1>4

LEMMA JobStarts == ASSUME JobAssumption, JobInit PROVE JobIInv
<1>1. <<>> \in Seq(Seq(SentCell)) /\ <<>> \in Seq(Nat) /\ <<>> \in Seq(SentCell)
  OBVIOUS
<1>2. \A f \in Fields : /\ EmptyBuffer(f) \in Dense \cup Sparse
                        /\ Cleared(EmptyBuffer(f)) = EmptyBuffer(f)
  <2> TAKE f \in Fields
  <2>1. EmptyBuffer(f) \in Dense \cup Sparse
    BY <1>1 DEF EmptyBuffer, Dense, Sparse
  <2>2. Cleared(EmptyBuffer(f)) = EmptyBuffer(f)
    <3>1. CASE kind[f] = "int64"
      BY <3>1 DEF EmptyBuffer, Cleared
    <3>2. CASE kind[f] # "int64"
      <4>1. EmptyBuffer(f) = [lane |-> "sparse", docs |-> <<>>, values |-> <<>>]
        BY <3>2 DEF EmptyBuffer
      <4>2. EmptyBuffer(f) \in Sparse /\ EmptyBuffer(f).lane = "sparse"
        BY <1>1, <4>1 DEF Sparse
      <4>3. PICK b \in Sparse : b = EmptyBuffer(f)
        BY <4>2
      <4>4. Cleared(b) = [lane |-> "sparse", docs |-> <<>>, values |-> <<>>]
        BY <4>2, <4>3 DEF Cleared, Sparse
      <4> QED
        BY <4>1, <4>3, <4>4
    <3> QED
      BY <3>1, <3>2
  <2> QED
    BY <2>1, <2>2
<1>3. \A f \in Fields : Holds(EmptyBuffer(f), 0, <<>>)
  BY <1>2, ClearedIsEmpty
<1>4. Typed(Fields, buffers, 0, written, arrived)
  BY <1>2 DEF JobInit, Typed
<1>5. Readable(Fields, written)
  BY DEF JobInit, Readable
<1>6. Told(Fields, buffers, 0, written, arrived)
  <2> SUFFICES ASSUME NEW f \in Fields
               PROVE  Holds(buffers[f], 0, <<>>) /\ SentIn(arrived, f) = DiskOf(written, f) \o <<>>
    <3>1. <<>> \in Seq(Slot)
      OBVIOUS
    <3> QED
      BY <3>1 DEF Told
  <2>1. SentIn(arrived, f) = <<>> /\ DiskOf(written, f) = <<>>
    <3>1. arrived = <<>> /\ written = <<>>
      BY DEF JobInit
    <3>2. /\ [k \in 1 .. Len(arrived) |-> Slots(arrived[k][f])] = <<>>
          /\ [k \in 1 .. Len(written) |-> Decode(written[k].columns[f], written[k].max_doc)] = <<>>
      BY <3>1
    <3> QED
      BY <3>2, FlattenEmpty DEF SentIn, DiskOf
  <2> QED
    BY <1>3, <2>1 DEF JobInit
<1>7. Cut(Fields, 0, written, arrived)
  <2>1. /\ [i \in 1 .. 0 |-> written[i].max_doc] \in [1 .. 0 -> Nat]
        /\ [i \in 1 .. 0 |-> Len(arrived[i][CHOOSE f \in Fields : TRUE])] \in [1 .. 0 -> Nat]
    OBVIOUS
  <2>2. SegmentsUpTo(written, 0) = 0 /\ BatchesUpTo(Fields, arrived, 0) = 0
    BY <2>1, TotalEmpty DEF SegmentsUpTo, BatchesUpTo
  <2>3. Len(written) = 0 /\ Len(arrived) = 0
    BY DEF JobInit
  <2> QED
    BY <2>2, <2>3 DEF Cut
<1>8. Sized(0, written, finished)
  BY DEF JobInit, Sized, JobAssumption
<1> QED
  BY <1>4, <1>5, <1>6, <1>7, <1>8 DEF JobInit, JobIInv, Parts

LEMMA PushKeeps ==
    ASSUME JobAssumption, JobIInv, NEW m \in 0 .. MaxBatchRows, NEW batch \in Batches(m),
           Push(batch, m)
    PROVE  JobIInv'
<1>1. SegmentMaxDocs \in Nat \ {0} /\ MaxBatchRows \in Nat /\ m \in Nat
  BY DEF JobAssumption
<1>2. Fields # {} /\ IsBatch(Fields, batch, m)
  BY <1>1, JobHasColumns, BatchesAreBatches DEF JobIInv
<1>3. PICK bufs, n, w :
         /\ Parts(Fields, bufs, n, w, arrived) /\ n \in Nat
         /\ Sized(n, w, FALSE) /\ n < SegmentMaxDocs
         /\ Filled(Fields, bufs, batch, n, buffers')
         /\ docs_in_segment' = n + m /\ written' = w
  <2>1. CASE SegmentFull
    <3>1. /\ Parts(Fields, Flushed.buffers, 0, Flushed.written, arrived) /\ Flushed.docs = 0
          /\ Sized(0, Flushed.written, FALSE)
      BY <2>1, FlushedKeeps DEF Push
    <3>2. /\ Filled(Fields, Flushed.buffers, batch, 0, buffers')
          /\ docs_in_segment' = 0 + m /\ written' = Flushed.written
      BY <2>1, <3>1 DEF Push, Filled
    <3>3. 0 \in Nat /\ 0 < SegmentMaxDocs
      BY <1>1
    <3> QED
      BY <3>1, <3>2, <3>3
  <2>2. CASE ~SegmentFull
    <3>1. /\ Filled(Fields, buffers, batch, docs_in_segment, buffers')
          /\ docs_in_segment' = docs_in_segment + m /\ written' = written
      BY <2>2 DEF Push, Filled
    <3>2. /\ Parts(Fields, buffers, docs_in_segment, written, arrived)
          /\ docs_in_segment \in Nat /\ Sized(docs_in_segment, written, FALSE)
      BY DEF JobIInv, Parts, Typed, Push
    <3>3. docs_in_segment < SegmentMaxDocs
      BY <1>1, <2>2, <3>2 DEF SegmentFull
    <3> QED
      BY <3>1, <3>2, <3>3
  <2> QED
    BY <2>1, <2>2
<1>4. Arrives(arrived, batch, arrived') /\ kind' = kind /\ finished' = FALSE /\ finished = FALSE
  BY DEF Push, Arrives, JobIInv
<1>5. Parts(Fields, buffers', n + m, w, arrived')
  BY <1>1, <1>2, <1>3, <1>4, AppendKeeps
<1>6. Sized(n + m, w, FALSE)
  BY <1>1, <1>3 DEF Sized
<1>7. Fields' = Fields /\ kind \in Schemas
  BY <1>4 DEF Fields, JobIInv
<1> QED
  BY <1>3, <1>4, <1>5, <1>6, <1>7 DEF JobIInv

LEMMA FinishKeeps == ASSUME JobAssumption, JobIInv, FinishJob PROVE JobIInv'
<1>1. /\ Parts(Fields, Flushed.buffers, 0, Flushed.written, arrived)
      /\ Sized(0, Flushed.written, TRUE)
  BY FlushedKeeps DEF FinishJob
<1>2. /\ buffers' = Flushed.buffers /\ docs_in_segment' = 0 /\ written' = Flushed.written
      /\ finished' = TRUE /\ kind' = kind /\ arrived' = arrived
  BY DEF FinishJob
<1>3. Fields' = Fields /\ kind \in Schemas
  BY <1>2 DEF Fields, JobIInv
<1> QED
  BY <1>1, <1>2, <1>3 DEF JobIInv

LEMMA PanicKeeps == ASSUME JobAssumption, JobIInv, EncoderPanics PROVE JobIInv'
<1>1. /\ kind' = kind /\ buffers' = buffers /\ docs_in_segment' = docs_in_segment
      /\ written' = written /\ finished' = TRUE /\ arrived' = arrived
  BY DEF EncoderPanics
<1>2. Fields' = Fields
  BY <1>1 DEF Fields
<1>3. Sized(docs_in_segment, written, finished) => Sized(docs_in_segment, written, TRUE)
  BY DEF Sized
<1> QED
  BY <1>1, <1>2, <1>3 DEF JobIInv

LEMMA JobStays == ASSUME JobAssumption, JobIInv, [JobNext]_jobVars PROVE JobIInv'
<1>1. CASE JobNext
  BY <1>1, PushKeeps, FinishKeeps, PanicKeeps DEF JobNext
<1>2. CASE UNCHANGED jobVars
  <2>1. /\ kind' = kind /\ buffers' = buffers /\ docs_in_segment' = docs_in_segment
        /\ written' = written /\ finished' = finished /\ arrived' = arrived
    BY <1>2 DEF jobVars
  <2>2. Fields' = Fields
    BY <2>1 DEF Fields
  <2> QED
    BY <2>1, <2>2 DEF JobIInv
<1> QED
  BY <1>1, <1>2

-----------------------------------------------------------------------------
(* The theorems.                                                           *)

LEMMA JobTyped == ASSUME JobIInv PROVE JobTypeOK
BY DEF JobIInv, Parts, Typed, JobTypeOK, Segment

LEMMA ReadsBack == ASSUME JobIInv PROVE ReadsBackWhatWasSent
<1> SUFFICES ASSUME NEW f \in Fields PROVE OnDisk(f) \o InBuffer(f) = Sent(f)
  BY DEF ReadsBackWhatWasSent
<1>1. PICK n \in Nat : n = docs_in_segment
  BY DEF JobIInv, Parts, Typed
<1>2. PICK b \in Dense \cup Sparse : b = buffers[f]
  BY DEF JobIInv, Parts, Typed
<1>3. PICK v \in Seq(Slot) : Holds(b, n, v) /\ SentIn(arrived, f) = DiskOf(written, f) \o v
  BY <1>1, <1>2 DEF JobIInv, Parts, Told
<1>4. OnDisk(f) = DiskOf(written, f) /\ Sent(f) = SentIn(arrived, f)
  BY DEF OnDisk, DiskOf, Sent, SentIn
<1>5. InBuffer(f) = v
  <2>1. CASE n = 0
    <3>1. Len(v) = 0
      BY <1>3, <2>1 DEF Holds, Fills, Scatters
    <3>2. v = <<>>
      BY <3>1, EmptySeq
    <3> QED
      BY <1>1, <2>1, <3>2 DEF InBuffer
  <2>2. CASE n # 0
    <3>1. Decode(Encode(f, b, n), n) = v
      BY <1>3, <2>2, DecodesWhatItHolds
    <3> QED
      BY <1>1, <1>2, <2>2, <3>1 DEF InBuffer
  <2> QED
    BY <2>1, <2>2
<1> QED
  BY <1>3, <1>4, <1>5

LEMMA Accepts == ASSUME JobIInv PROVE EncoderAccepts
<1> SUFFICES ASSUME NEW f \in Fields
             PROVE  IF buffers[f].lane = "dense"
                    THEN Len(FlattenSeq(buffers[f].chunks)) = docs_in_segment
                    ELSE /\ Len(buffers[f].docs) = Len(buffers[f].values)
                         /\ \A i \in 1 .. Len(buffers[f].docs) - 1 :
                               buffers[f].docs[i] < buffers[f].docs[i + 1]
                         /\ Len(buffers[f].docs) > 0 =>
                               buffers[f].docs[Len(buffers[f].docs)] < docs_in_segment
  BY DEF EncoderAccepts
<1>1. PICK n \in Nat : n = docs_in_segment
  BY DEF JobIInv, Parts, Typed
<1>2. PICK b \in Dense \cup Sparse : b = buffers[f]
  BY DEF JobIInv, Parts, Typed
<1>3. PICK v \in Seq(Slot) : Holds(b, n, v)
  BY <1>1, <1>2 DEF JobIInv, Parts, Told
<1>4. CASE b.lane = "dense"
  BY <1>1, <1>2, <1>3, <1>4 DEF Holds, Fills
<1>5. CASE b.lane # "dense"
  <2>1. Scatters(b.docs, b.values, n, v)
    BY <1>3, <1>5 DEF Holds
  <2>2. PICK docs \in Seq(Nat) : docs = b.docs
    BY <1>5, BufferFields
  <2>3. PICK l \in Nat : l = Len(docs)
    BY <2>2
  <2>4. /\ Len(b.docs) = Len(b.values) /\ \A i \in 1 .. l : docs[i] < n
        /\ \A i, j \in 1 .. l : i < j => docs[i] < docs[j]
    BY <2>1, <2>2, <2>3 DEF Scatters, Rising
  <2>5. \A i \in 1 .. l - 1 : docs[i] < docs[i + 1]
    <3> TAKE i \in 1 .. l - 1
    <3>1. i \in 1 .. l /\ i + 1 \in 1 .. l /\ i < i + 1
      BY <2>3
    <3> QED
      BY <2>4, <3>1
  <2>6. l > 0 => docs[l] < n
    BY <2>4
  <2> QED
    BY <1>1, <1>2, <1>5, <2>2, <2>3, <2>4, <2>5, <2>6
<1> QED
  BY <1>4, <1>5

LEMMA CutsBetweenBatches == ASSUME JobIInv PROVE BatchInOneSegment
<1>1. \A s \in 1 .. Len(written) : RowsOfSegments(s) = SegmentsUpTo(written, s)
  BY DEF RowsOfSegments, SegmentsUpTo
<1>2. \A b \in 0 .. Len(arrived) : RowsOfBatches(b) = BatchesUpTo(Fields, arrived, b)
  BY DEF RowsOfBatches, RowsInBatch, BatchesUpTo
<1> QED
  BY <1>1, <1>2 DEF JobIInv, Parts, Cut, BatchInOneSegment

LEMMA SizesHold == ASSUME JobIInv PROVE SegmentSizes
BY DEF JobIInv, Sized, SegmentSizes

LEMMA JobHolds == ASSUME JobAssumption PROVE JobSpec => []JobIInv
<1>1. JobInit => JobIInv
  BY JobStarts
<1>2. JobIInv /\ [JobNext]_jobVars => JobIInv'
  BY JobStays
<1> QED
  BY <1>1, <1>2, PTL DEF JobSpec

(* A job's buffers, segments and history have their types, whatever schemas, *)
(* rows of a batch and threshold.                                          *)
THEOREM JobTypeCorrect == ASSUME JobAssumption PROVE JobSpec => []JobTypeOK
<1>1. JobIInv => JobTypeOK
  BY JobTyped
<1> QED
  BY <1>1, JobHolds, PTL

(* Every value of every column is read back for the row it was sent in and no *)
(* other, over lanes, demotions and segment cuts; the encoder's preconditions *)
(* hold whenever a flush may come; segments are cut where a batch ends, and at *)
(* the threshold.                                                          *)
THEOREM JobReadsBack == ASSUME JobAssumption PROVE JobSpec => []BuffersReadBack
<1>1. JobIInv => BuffersReadBack
  BY ReadsBack, Accepts, CutsBetweenBatches, SizesHold DEF BuffersReadBack
<1> QED
  BY <1>1, JobHolds, PTL
=============================================================================
