----------------------------- MODULE TermsDict ------------------------------
(***************************************************************************)
(* The dictionary of a SORTED or SORTED_SET field: add_terms_dict and      *)
(* write_terms_index (docvalues/src/write.rs), and the bulk reader         *)
(* materialize (docvalues/src/terms.rs).  Terms come in blocks; the first  *)
(* of a block is stored as it is, each other one as what it shares with    *)
(* the one before it and the rest.                                         *)
(*                                                                         *)
(* A length, a byte, a token and an LZ4 stream each take one place.  LZ4   *)
(* is external: a stream is opened by the dictionary it was made with.     *)
(***************************************************************************)
EXTENDS Monotonic

CONSTANTS
    TERMS_BLOCK,    \* terms of a block (64)
    REVERSE_BLOCK,  \* terms an entry of the reverse index stands for (1024)
    NIBBLE          \* longest length a half of a token tells by itself (15)

TermsDictAssumption ==
    TERMS_BLOCK \in Nat \ {0} /\ REVERSE_BLOCK \in Nat \ {0} /\ NIBBLE \in Nat \ {0}

AtMost(a, b) == IF a < b THEN a ELSE b

(* bytes_difference: the length of what two terms begin with. *)
bytes_difference(a, b) ==
    Max({n \in 0 .. AtMost(Len(a), Len(b)) : SubSeq(a, 1, n) = SubSeq(b, 1, n)})

sort_key_length(a, b) == AtMost(bytes_difference(a, b) + 1, Len(b))

(* A term after another: the token, what its halves cannot hold, the bytes. *)
Suffix(previous, term) ==
    LET p == bytes_difference(previous, term)
        s == Len(term) - p
    IN  <<[prefix |-> AtMost(p, NIBBLE), suffix |-> AtMost(s - 1, NIBBLE)]>>
        \o (IF p >= NIBBLE THEN <<p - NIBBLE>> ELSE <<>>)
        \o (IF s >= NIBBLE + 1 THEN <<s - NIBBLE - 1>> ELSE <<>>)
        \o SubSeq(term, p + 1, Len(term))

LZ4(dict, bytes) == [dict |-> dict, bytes |-> bytes]
Unlz4(stream, dict) == IF stream.dict = dict THEN stream.bytes ELSE <<>>

SuffixStream(block) ==
    Flatten(Listed([k \in 1 .. Len(block) - 1 |-> Suffix(block[k], block[k + 1])]))

(* A block of terms: the first, and the stream of the others if there are any. *)
TermBlock(block) ==
    <<Len(block[1])>> \o block[1]
    \o (IF Len(block) > 1
        THEN LET s == SuffixStream(block) IN <<Len(s), LZ4(block[1], s)>>
        ELSE <<>>)

\* Mutant of write_terms_index: the key is cut where the terms part.
KeyTooShort(terms) ==
    Listed([b \in 1 .. CeilDiv(Len(terms), REVERSE_BLOCK) |->
        LET t == terms[((b - 1) * REVERSE_BLOCK) + 1]
        IN  IF b = 1 THEN <<>>
            ELSE SubSeq(t, 1, bytes_difference(terms[(b - 1) * REVERSE_BLOCK], t))])

(* write_terms_index: a key for every group of terms. *)
write_terms_index(terms) ==
    Listed([b \in 1 .. CeilDiv(Len(terms), REVERSE_BLOCK) |->
        LET t == terms[((b - 1) * REVERSE_BLOCK) + 1]
        IN  IF b = 1 THEN <<>>
            ELSE SubSeq(t, 1, sort_key_length(terms[(b - 1) * REVERSE_BLOCK], t))])

(* Where each of some pieces begins, and where the last one ends. *)
Starts(pieces) ==
    Listed([k \in 1 .. Len(pieces) + 1 |->
               Total(Listed([j \in 1 .. k - 1 |-> Len(pieces[j])]))])

(* The entry of a dictionary and its four regions: the terms and where their
   blocks begin, the keys and where they begin. *)
DictEntry(terms, at, bytes, addresses, suffix_len, key_bytes, reverse) ==
    LET after == at + Len(bytes) + Len(addresses.data)
    IN  [meta |-> <<Len(terms)>> \o addresses.meta
                  \o <<Max({0} \cup {Len(terms[i]) : i \in DOMAIN terms}), suffix_len,
                       at, Len(bytes), at + Len(bytes), Len(addresses.data)>>
                  \o reverse.meta
                  \o <<after, Len(key_bytes), after + Len(key_bytes), Len(reverse.data)>>,
         data |-> bytes \o addresses.data \o key_bytes \o reverse.data]

(* add_terms_dict at a place of the .dvd file. *)
add_terms_dict(terms, at) ==
    LET chunks == Chunks(terms, TERMS_BLOCK)
        blocks == Listed([c \in DOMAIN chunks |-> TermBlock(chunks[c])])
        keys == write_terms_index(terms)
    IN  DictEntry(terms, at, Flatten(blocks), write(SubSeq(Starts(blocks), 1, Len(blocks))),
                  Max({0} \cup {Len(SuffixStream(chunks[c])) : c \in DOMAIN chunks}),
                  Flatten(keys), write(Starts(keys)))

(* read_terms_dict: the plan of an entry, and the place behind the entry. *)
read_terms_dict(meta, at) ==
    LET n == meta[at]
        blocks == MetaBlocks(CeilDiv(n, TERMS_BLOCK))
        f == at + blocks
    IN  [num_terms |-> n,
         address_meta |-> SubSeq(meta, at + 1, f),
         max_term_length |-> meta[f + 1],
         terms_offset |-> meta[f + 3], terms_len |-> meta[f + 4],
         addresses_offset |-> meta[f + 5],
         next |-> f + 7 + MetaBlocks(CeilDiv(n, REVERSE_BLOCK) + 1) + 4]

-----------------------------------------------------------------------------
(* One term of a stream: the token, the rests it announces, the bytes. *)
ReadSuffix(s, _k) ==
    IF ~ s.ok THEN s
    ELSE LET token == s.stream[s.at]
             p == token.prefix + IF token.prefix = NIBBLE THEN s.stream[s.at + 1] ELSE 0
             q == s.at + IF token.prefix = NIBBLE THEN 2 ELSE 1
             n == token.suffix + 1 + IF token.suffix = NIBBLE THEN s.stream[q] ELSE 0
             r == q + IF token.suffix = NIBBLE THEN 1 ELSE 0
             previous == s.terms[Len(s.terms)]
         IN  IF p > Len(previous) \/ r + n - 1 > Len(s.stream) THEN [s EXCEPT !.ok = FALSE]
             ELSE [s EXCEPT !.terms = Append(@, SubSeq(previous, 1, p) \o SubSeq(s.stream, r, r + n - 1)),
                            !.at = r + n]

(* The terms of a block that begins at a place of the file. *)
ReadTermBlock(plan, dvd, at, count) ==
    LET first_len == dvd[at + 1]
        first == SubSeq(dvd, at + 2, at + 1 + first_len)
        c == at + 1 + first_len
        stream == IF count > 1 THEN Unlz4(dvd[c + 2], first) ELSE <<>>
    IN  IF first_len > plan.max_term_length THEN [ok |-> FALSE, terms |-> <<>>]
        ELSE IF count > 1 /\ Len(stream) # dvd[c + 1] THEN [ok |-> FALSE, terms |-> <<>>]
        ELSE FoldLeft(ReadSuffix, [ok |-> TRUE, at |-> 1, stream |-> stream, terms |-> <<first>>],
                      [k \in 1 .. count - 1 |-> k])

(* materialize: every term of the dictionary. *)
materialize(plan, dvd) ==
    LET num_blocks == CeilDiv(plan.num_terms, TERMS_BLOCK)
        starts == decode_monotonic(plan.address_meta, dvd, plan.addresses_offset, num_blocks)
        blocks == Listed([b \in 1 .. num_blocks |->
                      ReadTermBlock(plan, dvd, plan.terms_offset + starts[b],
                                    AtMost(TERMS_BLOCK, plan.num_terms - (b - 1) * TERMS_BLOCK))])
        terms == Flatten(Listed([b \in DOMAIN blocks |-> blocks[b].terms]))
    IN  [ok |-> /\ plan.terms_offset + plan.terms_len =< Len(dvd)
                /\ \A b \in DOMAIN blocks : blocks[b].ok
                /\ Len(terms) = plan.num_terms,
         terms |-> terms]
=============================================================================
