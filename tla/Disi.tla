-------------------------------- MODULE Disi --------------------------------
(***************************************************************************)
(* IndexedDISI (docvalues/src/disi.rs): the documents that have a value,   *)
(* in blocks stored by their cardinality as a list, a bitmap with its      *)
(* ranks, or nothing at all, with a sentinel block and a table of jumps    *)
(* behind them.                                                            *)
(*                                                                         *)
(* A region is a sequence of numbers: shorts, words and pairs of the table *)
(* take one place each.                                                    *)
(***************************************************************************)
EXTENDS Listings

CONSTANTS
    BLOCK_SIZE,         \* documents of a block (65536 in the code)
    MAX_ARRAY_LENGTH,   \* longest block stored as a list (4095)
    WORD,               \* bits of a word (64)
    RANK_WORDS,         \* words a rank stands for (8)
    SENTINEL_BLOCK      \* the block of NO_MORE_DOCS (32767)

DisiAssumption ==
    /\ BLOCK_SIZE \in Nat \ {0} /\ WORD \in Nat \ {0} /\ RANK_WORDS \in Nat \ {0}
    /\ BLOCK_SIZE % WORD = 0
    /\ MAX_ARRAY_LENGTH \in Nat /\ SENTINEL_BLOCK \in Nat

BLOCK_WORDS == BLOCK_SIZE \div WORD

WordOfBits(S) == FoldFunctionOnSet(LAMBDA a, b : a + b, 0, [i \in S |-> 2 ^ i], S)
BitsOf(w) == {i \in 0 .. WORD - 1 : (w \div (2 ^ i)) % 2 = 1}

(* The bitmap of a block whose documents are within. *)
Words(within) ==
    Listed([w \in 1 .. BLOCK_WORDS |->
               WordOfBits({d - (w - 1) * WORD : d \in {x \in within : x \div WORD = w - 1}})])

(* The documents before each group of words. *)
create_rank(within) ==
    Listed([r \in 1 .. CeilDiv(BLOCK_WORDS, RANK_WORDS) |->
               Cardinality({d \in within : d < (r - 1) * RANK_WORDS * WORD})])

(* A block: its number and cardinality, and what its cardinality asks for. *)
flush_block(block, within) ==
    LET n == Cardinality(within)
    IN  <<block, n - 1>> \o
        (IF n =< MAX_ARRAY_LENGTH THEN Sorted(within, <)
         ELSE IF n # BLOCK_SIZE THEN create_rank(within) \o Words(within)
         ELSE <<>>)

-----------------------------------------------------------------------------
\* Mutant of add_jumps: blocks without documents keep an empty entry.
JumpsToOwnBlock(jumps, offset, index, start, end) ==
    [b \in 1 .. end |-> IF b =< Len(jumps) THEN jumps[b]
                        ELSE IF b = end THEN <<index, offset>> ELSE <<0, 0>>]

(* Blocks from start up to end lead to offset, index documents being before. *)
add_jumps(jumps, offset, index, start, end) ==
    [b \in 1 .. end |-> IF b - 1 >= start THEN <<index, offset>> ELSE jumps[b]]

(* One turn of the loop: the documents of the next block. *)
WriteBlock(s, block, docs) ==
    LET within == {d % BLOCK_SIZE : d \in {x \in docs : x \div BLOCK_SIZE = block}}
    IN  [jumps |-> Listed(add_jumps(s.jumps, Len(s.out), s.index, s.last, block + 1)),
         last |-> block + 1,
         out |-> s.out \o flush_block(block, within),
         index |-> s.index + Cardinality(within)]

(* The last jump, the sentinel block, and the table unless there is one block. *)
EndBitSet(s) ==
    LET jumps == add_jumps(s.jumps, Len(s.out), s.index, s.last, s.last + 1)
        count == IF s.last + 1 = 2 THEN 0 ELSE s.last + 1
    IN  [region |-> s.out \o flush_block(SENTINEL_BLOCK, {BLOCK_SIZE - 1})
                    \o SubSeq(jumps, 1, count),
         count |-> count,
         jumps |-> jumps]

Blocks(docs) == InOrder({d \div BLOCK_SIZE : d \in docs})
NoBlocks == [jumps |-> <<>>, last |-> 0, out |-> <<>>, index |-> 0]

(* write_bit_set: the region and the number of jumps it ends with. *)
write_bit_set(docs) ==
    LET blocks == Blocks(docs)
        turn[k \in 0 .. Len(blocks)] ==
            IF k = 0 THEN NoBlocks ELSE WriteBlock(turn[k - 1], blocks[k], docs)
    IN  EndBitSet(turn[Len(blocks)])

-----------------------------------------------------------------------------
(* The documents of the block at a place of a region, and the place after it. *)
ReadBlock(region, at) ==
    LET base == region[at] * BLOCK_SIZE
        n == region[at + 1] + 1
        body == at + 2
        ranks == CeilDiv(BLOCK_WORDS, RANK_WORDS)
    IN  IF n = BLOCK_SIZE
        THEN [docs |-> base .. base + BLOCK_SIZE - 1, next |-> body, n |-> n]
        ELSE IF n > MAX_ARRAY_LENGTH
        THEN [docs |-> UNION {{base + (w * WORD) + i : i \in BitsOf(region[body + ranks + w])} :
                                  w \in 0 .. BLOCK_WORDS - 1},
              next |-> body + ranks + BLOCK_WORDS, n |-> n]
        ELSE [docs |-> {base + region[body + k] : k \in 0 .. n - 1}, next |-> body + n, n |-> n]

Corrupt == [ok |-> FALSE]

(* decode: blocks until num_values documents have been seen. *)
decode(region, num_values, max_doc) ==
    LET turn(s, k) ==
            IF ~ s.ok \/ s.seen >= num_values THEN s
            ELSE IF s.at + 1 > Len(region) \/ region[s.at] * BLOCK_SIZE >= max_doc
            THEN [s EXCEPT !.ok = FALSE]
            ELSE LET b == ReadBlock(region, s.at)
                 IN  [ok |-> \A d \in b.docs : d < max_doc, at |-> b.next,
                      seen |-> s.seen + b.n, docs |-> s.docs \cup b.docs]
        s == FoldLeft(turn, [ok |-> TRUE, at |-> 1, seen |-> 0, docs |-> {}],
                      [k \in 1 .. Len(region) |-> k])
    IN  IF s.ok /\ s.seen = num_values THEN [ok |-> TRUE, docs |-> s.docs] ELSE Corrupt

-----------------------------------------------------------------------------
(* A reader that goes for a document by the jump table lands on the first block
   that can hold it, and knows how many documents it has passed; and within a
   bitmap the ranks count what lies before. *)
JumpLeads(docs, w, b) ==
    LET at == w.jumps[b + 1][2] + 1
        within == {d \in docs : d \div BLOCK_SIZE = b}
    IN  /\ w.jumps[b + 1][1] = Cardinality({d \in docs : d < b * BLOCK_SIZE})
        /\ w.region[at] >= b
        /\ within # {} => w.region[at] = b
        /\ Cardinality(within) > MAX_ARRAY_LENGTH /\ Cardinality(within) < BLOCK_SIZE =>
               \A r \in 0 .. CeilDiv(BLOCK_WORDS, RANK_WORDS) - 1 :
                   w.region[at + 2 + r] =
                       Cardinality({d \in within : d % BLOCK_SIZE < r * RANK_WORDS * WORD})
=============================================================================
