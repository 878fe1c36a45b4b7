------------------------------ MODULE Listings ------------------------------
(* Sequences as the models of encoders and decoders use them. *)
EXTENDS Integers, Sequences, FiniteSets, SequencesExt, Folds

(* A sequence, each element of which TLC computes once. *)
Listed(s) == s \o <<>>

Flatten(seqs) == FoldLeft(LAMBDA a, b : a \o b, <<>>, seqs)

(* The elements of a set in their order, a strict total one. *)
Sorted(S, Before(_, _)) ==
    Listed([k \in 1 .. Cardinality(S) |->
               CHOOSE x \in S : Cardinality({y \in S : Before(y, x)}) = k - 1])

InOrder(S) == Sorted(S, <)

(* The elements of a sequence at the positions of a set. *)
Chosen(s, At) ==
    LET at == InOrder(At) IN [k \in DOMAIN at |-> s[at[k]]]

(* The byte order of terms. *)
Precedes(s, t) ==
    \E n \in 1 .. Len(t) :
        /\ n =< Len(s) + 1
        /\ \A k \in 1 .. n - 1 : s[k] = t[k]
        /\ n =< Len(s) => s[n] < t[n]

CeilDiv(a, b) == (a + b - 1) \div b

(* The parts of a sequence, size elements each but for the last. *)
Chunks(s, size) ==
    Listed([c \in 1 .. CeilDiv(Len(s), size) |->
               SubSeq(s, (c - 1) * size + 1, IF c * size < Len(s) THEN c * size ELSE Len(s))])

Total(s) ==
    LET upto[k \in 0 .. Len(s)] == IF k = 0 THEN 0 ELSE upto[k - 1] + s[k] IN upto[Len(s)]
=============================================================================
