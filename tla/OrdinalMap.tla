----------------------------- MODULE OrdinalMap -----------------------------
(***************************************************************************)
(* One dictionary for the segments of a stream (docvalues/src/ordmap.rs):  *)
(* the sorted dictionaries of the segments are merged through a heap with  *)
(* one term of each, and every segment gets a table from its ordinals to   *)
(* the global ones, which the decoders apply to its ordinals.              *)
(***************************************************************************)
EXTENDS Listings

CONSTANT Streams    \* for every segment of a stream, the terms of its documents

(* A term is a sequence of bytes. *)
Term == Seq(Nat)

ASSUME StreamsAssumption == \A st \in Streams : st \in Seq(Seq(Term))

VARIABLES
    stream,     \* the segments
    heap,       \* the entries [seg, ord] that wait
    merged,     \* the terms of the global dictionary
    remap,      \* for every segment, the global ordinals of its terms so far
    global      \* for every segment, the global ordinals of its documents

ordmapVars == <<stream, heap, merged, remap, global>>

(* encode_sorted_field: the dictionary of a segment, the ordinals, and the
   block of the plan that holds them. *)
Dict(seg) == Sorted(Range(stream[seg]), Precedes)
OrdsOf(seg) == [d \in DOMAIN stream[seg] |->
                   (CHOOSE i \in DOMAIN Dict(seg) : Dict(seg)[i] = stream[seg][d]) - 1]
OrdPlan(seg) == IF Len(Dict(seg)) = 1
                THEN [kind |-> "constant", base |-> 0, values |-> Len(stream[seg])]
                ELSE [kind |-> "direct", ords |-> OrdsOf(seg)]

TermAt(e) == Dict(e.seg)[e.ord + 1]

OrdmapInit ==
    /\ stream \in Streams
    /\ heap = {[seg |-> s, ord |-> 0] : s \in {t \in DOMAIN stream : stream[t] # <<>>}}
    /\ merged = <<>>
    /\ remap = [s \in DOMAIN stream |-> <<>>]
    /\ global = <<>>

(* HeapEntry's order: by term, then by segment. *)
Before(e, f) == \/ Precedes(TermAt(e), TermAt(f))
                \/ TermAt(e) = TermAt(f) /\ e.seg < f.seg

\* Mutant of IsDuplicate: a term is compared with the one before it in its own segment.
DuplicateInSegment(e) == e.ord > 0 /\ Dict(e.seg)[e.ord] = TermAt(e)

(* The last term emitted is this one. *)
IsDuplicate(e) == merged # <<>> /\ merged[Len(merged)] = TermAt(e)

(* One turn of the loop of build. *)
Pop == \E e \in heap :
    /\ \A f \in heap \ {e} : Before(e, f)
    /\ merged' = IF IsDuplicate(e) THEN merged ELSE Append(merged, TermAt(e))
    /\ remap' = [remap EXCEPT ![e.seg] = Append(@, Len(merged') - 1)]
    /\ heap' = (heap \ {e})
               \cup IF e.ord + 1 < Len(Dict(e.seg)) THEN {[e EXCEPT !.ord = @ + 1]} ELSE {}
    /\ UNCHANGED <<stream, global>>

(* apply_remap: the ordinals of the next segment through its table. *)
ApplyRemap ==
    /\ heap = {} /\ Len(global) < Len(stream)
    /\ LET seg == Len(global) + 1
           plan == OrdPlan(seg)
       IN  global' = Append(global,
               IF stream[seg] = <<>> THEN <<>>
               ELSE IF plan.kind = "constant"
               THEN [d \in 1 .. plan.values |-> remap[seg][plan.base + 1]]
               ELSE [d \in DOMAIN plan.ords |-> remap[seg][plan.ords[d] + 1]])
    /\ UNCHANGED <<stream, heap, merged, remap>>

OrdmapNext == Pop \/ ApplyRemap

OrdmapSpec == OrdmapInit /\ [][OrdmapNext]_ordmapVars

-----------------------------------------------------------------------------
OrdmapTypeOK ==
    /\ \A e \in heap : e.seg \in DOMAIN stream /\ e.ord \in 0 .. Len(Dict(e.seg)) - 1
    /\ DOMAIN remap = DOMAIN stream
    /\ Len(global) =< Len(stream)

(* The global dictionary is sorted and without repetition at every turn, and
   after the remap every document of every segment has its own term, so equal
   terms of two segments have one ordinal (build, apply_remap). *)
GlobalOrdsAgree ==
    /\ \A i \in 1 .. Len(merged) - 1 : Precedes(merged[i], merged[i + 1])
    /\ \A s \in DOMAIN global : \A d \in DOMAIN stream[s] :
           merged[global[s][d] + 1] = stream[s][d]
=============================================================================
