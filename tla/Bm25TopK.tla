------------------------------ MODULE Bm25TopK ------------------------------
(***************************************************************************)
(* The device top-k of the BM25 scorer: the CUDA kernel bm25_topk and the  *)
(* host filter of score_batch (crates/gpu/src/bm25.rs).  One block works   *)
(* on one query; every thread keeps the best k of the documents it strides *)
(* over, the lists land in shared memory, and k rounds of a block-wide     *)
(* argmax pick the winners.  The threads share nothing until their lists   *)
(* are done, so their documents are taken in one order, that of docids;    *)
(* after that every shared access is followed by a barrier, and what the   *)
(* block does between two barriers is one step.                            *)
(***************************************************************************)
EXTENDS Listings

CONSTANTS
    BlockThreads, \* blockDim.x, a power of two (256 in the code)
    ScoredDocs,   \* num_docs
    K,            \* k
    MaxScore      \* bound: scores are 0 .. MaxScore; 0 is a document no term hit

ASSUME TopAssumption ==
    /\ BlockThreads \in {1, 2, 4, 8, 16, 32, 64, 128, 256}
    /\ ScoredDocs \in Nat \ {0}
    /\ K \in 1 .. 16
    /\ MaxScore \in Nat

ThreadIds == 0 .. BlockThreads - 1
Docs == 0 .. ScoredDocs - 1
Slots == 0 .. BlockThreads * K - 1

Lowest == -1            \* -1e30f, below every score
NoDoc == -1             \* 0xffffffff

Scores == {Lowest} \cup 0 .. MaxScore
Entries == [doc : {NoDoc} \cup Docs, score : Scores]

VARIABLES
    scores,   \* the query's dense score row
    stage,    \* what the block does next
    lists,    \* the list of each thread, tv and td
    seen,     \* the documents before this one are taken
    sv, sd,   \* shared memory: the threads' lists, scores and documents
    rv,       \* shared memory: the best of each thread, rv and ri
    step,     \* of the tree
    out       \* out_docs and out_scores, round by round
topVars == <<scores, stage, lists, seen, sv, sd, rv, step, out>>

EmptyEntry == [doc |-> NoDoc, score |-> Lowest]
EmptyList == [n \in 1 .. K |-> EmptyEntry]
NoBest == [slot |-> 0, score |-> Lowest]

\* Shared memory is written before it is read; what is in it first is never seen.
TopInit ==
    /\ scores \in [Docs -> 0 .. MaxScore]
    /\ stage = "insert"
    /\ lists = [t \in ThreadIds |-> EmptyList]
    /\ seen = 0
    /\ sv = [n \in Slots |-> Lowest]
    /\ sd = [n \in Slots |-> NoDoc]
    /\ rv = [t \in ThreadIds |-> NoBest]
    /\ step = 0
    /\ out = <<>>

-----------------------------------------------------------------------------
(* A thread's list: insertion into a list of k, kept in descending order;  *)
(* of equal scores the one met first stays ahead.                          *)

\* Mutant of Insert: the tail of the list is not shifted.
InsertWithoutShift(list, d, v) ==
    IF v <= list[K].score THEN list
    ELSE LET at == CHOOSE n \in 1 .. K :
                      /\ list[n].score < v
                      /\ \A m \in 1 .. n - 1 : list[m].score >= v
         IN [list EXCEPT ![at] = [doc |-> d, score |-> v]]

Insert(list, d, v) ==
    IF v <= list[K].score THEN list
    ELSE LET at == CHOOSE n \in 1 .. K :
                      /\ list[n].score < v
                      /\ \A m \in 1 .. n - 1 : list[m].score >= v
         IN [n \in 1 .. K |-> IF n < at THEN list[n]
                              ELSE IF n = at THEN [doc |-> d, score |-> v]
                              ELSE list[n - 1]]

Take ==
    /\ stage = "insert" /\ seen < ScoredDocs
    /\ lists' = [lists EXCEPT ![seen % BlockThreads] = Insert(@, seen, scores[seen])]
    /\ seen' = seen + 1
    /\ UNCHANGED <<scores, stage, sv, sd, rv, step, out>>

Shared(n) == lists[n \div K][(n % K) + 1]

Share ==
    /\ stage = "insert" /\ seen = ScoredDocs
    /\ stage' = "scan"
    /\ sv' = [n \in Slots |-> Shared(n).score]
    /\ sd' = [n \in Slots |-> Shared(n).doc]
    /\ UNCHANGED <<scores, lists, seen, rv, step, out>>

-----------------------------------------------------------------------------
(* A round: each thread scans the slots t, t + BlockThreads, ..., the tree      *)
(* reduces the threads' bests, the winner is emitted and consumed.         *)

\* The first of the best; only a score above -1e30 replaces slot 0.
ThreadBest(t) ==
    LET own == {n \in Slots : n % BlockThreads = t /\ sv[n] > Lowest}
    IN  IF own = {} THEN NoBest
        ELSE LET best == CHOOSE n \in own :
                            \A m \in own : sv[m] < sv[n] \/ (sv[m] = sv[n] /\ n <= m)
             IN  [slot |-> best, score |-> sv[best]]

Scan ==
    /\ stage = "scan" /\ Len(out) < K
    /\ stage' = "reduce"
    /\ rv' = [t \in ThreadIds |-> ThreadBest(t)]
    /\ step' = BlockThreads \div 2
    /\ UNCHANGED <<scores, lists, seen, sv, sd, out>>

\* Thread t takes t + step's if it is better.
Reduce ==
    /\ stage = "reduce" /\ step > 0
    /\ rv' = [t \in ThreadIds |->
                 IF t < step /\ rv[t + step].score > rv[t].score THEN rv[t + step] ELSE rv[t]]
    /\ step' = step \div 2
    /\ UNCHANGED <<scores, stage, lists, seen, sv, sd, out>>

Emit ==
    /\ stage = "reduce" /\ step = 0
    /\ stage' = "scan"
    /\ out' = Append(out, [doc |-> sd[rv[0].slot], score |-> rv[0].score])
    /\ sv' = [sv EXCEPT ![rv[0].slot] = Lowest]
    /\ UNCHANGED <<scores, lists, seen, sd, rv, step>>

TopNext == Take \/ Share \/ Scan \/ Reduce \/ Emit
TopSpec == TopInit /\ [][TopNext]_topVars

\* What score_batch returns: the k pairs without the empty ones.
Hits == Chosen(out, {n \in DOMAIN out : out[n].doc # NoDoc})

-----------------------------------------------------------------------------
(* Properties.                                                             *)

TopTypeOK ==
    /\ scores \in [Docs -> 0 .. MaxScore]
    /\ stage \in {"insert", "scan", "reduce"}
    /\ lists \in [ThreadIds -> [1 .. K -> Entries]]
    /\ seen \in 0 .. ScoredDocs
    /\ sv \in [Slots -> Scores]
    /\ sd \in [Slots -> {NoDoc} \cup Docs]
    /\ rv \in [ThreadIds -> [slot : Slots, score : Scores]]
    /\ step \in 0 .. BlockThreads \div 2
    /\ out \in Seq(Entries)

\* score_batch "returns each query's top-k (doc, score) pairs": no document
\* is among them twice.
HitsAreDistinct ==
    \A m, n \in 1 .. Len(Hits) : m # n => Hits[m].doc # Hits[n].doc

\* After k rounds the pairs are the k best of the row, in descending order
\* and with their own scores: splitting the row over threads loses nothing.
BestAreHits ==
    Len(out) = K =>
        /\ Len(Hits) = K
        /\ \A n \in 1 .. K : Hits[n].score = scores[Hits[n].doc]
        /\ \A n \in 1 .. K - 1 : Hits[n].score >= Hits[n + 1].score
        /\ \A d \in Docs \ {Hits[n].doc : n \in 1 .. K} : scores[d] <= Hits[K].score

\* The hits of a query are its k best documents, each once (bm25_topk, score_batch).
HitsAreTopK == HitsAreDistinct /\ BestAreHits
=============================================================================
