------------------------------ MODULE Inverted ------------------------------
(***************************************************************************)
(* Text to postings on the CPU (postings/src/text.rs and build.rs): the    *)
(* tokens of a line, the serial IndexBuilder that is the reference, the    *)
(* parallel builder, and keys_to_csr, the finisher it shares with the GPU  *)
(* (module TextIngest).                                                    *)
(*                                                                         *)
(* Text is a sequence of bytes of a small alphabet: a space, a newline,    *)
(* letters of both cases, and characters of two bytes, a letter or a mark  *)
(* that is no letter.                                                      *)
(***************************************************************************)
EXTENDS Listings

CONSTANTS
    MaxTokenLen,   \* bytes of a token (255 in the code)
    BUCKETS,       \* buckets of keys_to_csr (128)
    NumFree        \* norms kept as they are (24)

TextAssumption == MaxTokenLen \in Nat \ {0} /\ BUCKETS \in Nat \ {0} /\ NumFree \in Nat

Space == 0
Newline == 1
UpperLetters == {2, 3}
LowerLetters == {4, 5}
LetterLead == 8     \* first byte of a letter outside ASCII
MarkLead == 9       \* first byte of any other character outside ASCII
Continuation == 10  \* their second byte

AsciiLetters == UpperLetters \cup LowerLetters
lower(b) == IF b \in UpperLetters THEN b + 2 ELSE b

-----------------------------------------------------------------------------
(* Whether byte n belongs to a token: an ASCII letter, or a byte of a letter. *)
InToken(text, n) ==
    \/ text[n] \in AsciiLetters \cup {LetterLead}
    \/ text[n] = Continuation /\ text[n - 1] = LetterLead

(* The end of the run of bytes satisfying In that starts at n. *)
RunEnd(text, n, In(_, _)) ==
    CHOOSE e \in n .. Len(text) :
        /\ \A k \in n .. e : In(text, k)
        /\ e < Len(text) => ~ In(text, e + 1)

RunStarts(text, In(_, _)) ==
    {n \in DOMAIN text : In(text, n) /\ (n > 1 => ~ In(text, n - 1))}

Lowered(text, from, to) ==
    Listed([k \in 1 .. to - from + 1 |-> lower(text[from + k - 1])])

(* tokenize and for_each_token: the runs of letters, lowercased, the overlong
   ones dropped. *)
tokenize(text) ==
    LET starts == Sorted(RunStarts(text, InToken), <)
        runs == [k \in DOMAIN starts |->
                     Lowered(text, starts[k], RunEnd(text, starts[k], InToken))]
    IN  SelectSeq(runs, LAMBDA t : Len(t) =< MaxTokenLen)

(* SmallFloat: the norm of a document of i tokens. *)
BitLength(i) == CHOOSE n \in 0 .. i : i < 2 ^ n /\ (n > 0 => i >= 2 ^ (n - 1))
long_to_int4(i) ==
    IF BitLength(i) < 4 THEN i
    ELSE LET shift == BitLength(i) - 4
         IN  ((i \div (2 ^ shift)) % 8) + 8 * (shift + 1)
int_to_byte4(i) == IF i < NumFree THEN i ELSE NumFree + long_to_int4(i - NumFree)

-----------------------------------------------------------------------------
(* What sort_unstable of two lists of keys (ord, doc) compares. *)
KeyBefore(p, q) == p[1] < q[1] \/ (p[1] = q[1] /\ p[2] < q[2])

CountOf(s, x) == Cardinality({n \in DOMAIN s : s[n] = x})

(* The terms of tokens, sorted, and the ord of each. *)
SortedTerms(tokens) == Sorted(ToSet(tokens), Precedes)
OrdOf(terms, t) == (CHOOSE n \in DOMAIN terms : terms[n] = t) - 1

(* IndexBuilder: the postings of each term in the order of the documents. *)
IndexBuilder(lines) ==
    LET tokens == Listed([d \in DOMAIN lines |-> tokenize(lines[d])])
        terms  == SortedTerms(Flatten(tokens))
        docsOf(t) == Sorted({d \in DOMAIN lines : t \in ToSet(tokens[d])}, <)
        rows == Flatten([n \in DOMAIN terms |->
                    [k \in DOMAIN docsOf(terms[n]) |->
                        LET d == docsOf(terms[n])[k]
                        IN  [doc |-> d - 1, freq |-> CountOf(tokens[d], terms[n])]]])
    IN  [terms |-> terms,
         docs |-> [k \in DOMAIN rows |-> rows[k].doc],
         freqs |-> [k \in DOMAIN rows |-> rows[k].freq],
         row_offsets |-> [n \in 1 .. Len(terms) + 1 |->
                             Total([k \in 1 .. n - 1 |-> Len(docsOf(terms[k]))])],
         norms |-> [d \in DOMAIN lines |-> int_to_byte4(Len(tokens[d]))],
         ttf |-> Total([d \in DOMAIN lines |-> Len(tokens[d])])]

-----------------------------------------------------------------------------
(* The bucket of an ord: contiguous ranges of ords, in order. *)
bucket_of(ord, num_terms) ==
    LET b == (ord * BUCKETS) \div (IF num_terms = 0 THEN 1 ELSE num_terms)
    IN  IF b < BUCKETS THEN b ELSE BUCKETS - 1

(* A bucket: the keys of its ords from every chunk, sorted, each counted. *)
BucketRows(chunks, num_terms, b) ==
    LET keys == SelectSeq(Flatten(chunks), LAMBDA k : bucket_of(k[1], num_terms) = b)
        distinct == Sorted(ToSet(keys), KeyBefore)
    IN  Listed([n \in DOMAIN distinct |->
                   [ord |-> distinct[n][1], doc |-> distinct[n][2],
                    freq |-> CountOf(keys, distinct[n])]])

(* Every ord gets a span, those without rows an empty one. *)
FilledForward(ends) ==
    [n \in DOMAIN ends |-> CHOOSE m \in {ends[k] : k \in 1 .. n} :
                               \A k \in 1 .. n : ends[k] =< m]

(* keys_to_csr: the buckets' rows stitched, and where those of each ord end. *)
keys_to_csr(chunks, num_terms) ==
    LET rows == Flatten([b \in 1 .. BUCKETS |-> BucketRows(chunks, num_terms, b - 1)])
        last(ord) == {n \in DOMAIN rows : rows[n].ord = ord
                                          /\ (n < Len(rows) => rows[n + 1].ord # ord)}
        ends == [n \in 1 .. num_terms + 1 |->
                     IF n = 1 \/ last(n - 2) = {} THEN 0
                     ELSE CHOOSE e \in last(n - 2) : TRUE]
    IN  [docs |-> [n \in DOMAIN rows |-> rows[n].doc],
         freqs |-> [n \in DOMAIN rows |-> rows[n].freq],
         row_offsets |-> FilledForward(ends),
         ttf |-> Total([n \in DOMAIN rows |-> rows[n].freq])]

(* What the builders make of postings, terms and tokens per document. *)
Assembled(csr, terms, counts) ==
    [terms |-> terms, docs |-> csr.docs, freqs |-> csr.freqs,
     row_offsets |-> csr.row_offsets, ttf |-> csr.ttf,
     norms |-> [d \in DOMAIN counts |-> int_to_byte4(counts[d])]]

DocBase(t, chunk) == (t - 1) * chunk

(* build_parallel: each thread has a part of the lines and its own vocabulary;
   its ids are mapped to the ords of the merged one. *)
build_parallel(lines, threads) ==
    LET used == IF threads < Len(lines) THEN threads ELSE Len(lines)
        chunk == CeilDiv(Len(lines), used)
        parts == Chunks(lines, chunk)
        vocab(t) == ToSet(Flatten([n \in DOMAIN parts[t] |-> tokenize(parts[t][n])]))
        all_terms == Sorted(UNION {vocab(t) : t \in DOMAIN parts}, Precedes)
        keysOf(t) ==
            Flatten([n \in DOMAIN parts[t] |->
                LET tokens == tokenize(parts[t][n])
                IN  [k \in DOMAIN tokens |->
                        <<OrdOf(all_terms, tokens[k]), DocBase(t, chunk) + n - 1>>]])
    IN  Assembled(keys_to_csr([t \in DOMAIN parts |-> keysOf(t)], Len(all_terms)),
                  all_terms,
                  Flatten([t \in DOMAIN parts |->
                      [n \in DOMAIN parts[t] |-> Len(tokenize(parts[t][n]))]]))

-----------------------------------------------------------------------------
(* However many threads share the lines, the field is the serial builder's
   ("Output is byte-identical to IndexBuilder", build.rs:112). *)
ParallelEqualsSerial(lines, threads) == build_parallel(lines, threads) = IndexBuilder(lines)
=============================================================================
