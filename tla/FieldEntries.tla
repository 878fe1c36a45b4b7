---------------------------- MODULE FieldEntries ----------------------------
(***************************************************************************)
(* The fields of a segment, one after another into its .dvm and .dvd files *)
(* (DocValuesFileBuilder, docvalues/src/file.rs and write.rs), and back:   *)
(* plan_doc_values walks the .dvm by nothing but what each entry says of   *)
(* itself (docvalues/src/read.rs), the decoders go by offset into the .dvd *)
(* (cpu/src/lib.rs).                                                       *)
(*                                                                         *)
(* A file is a sequence of numbers, strings of bytes and small records.    *)
(* How values become bits is in NumericCodec and DirectPacking; here a     *)
(* value takes one place.                                                  *)
(***************************************************************************)
EXTENDS Disi, TermsDict

CONSTANTS
    MaxDoc,     \* documents of the segment
    Segments,   \* the fields of a segment: [type, docs, sent], what each doc was sent
    UTF8_LEADS, UTF8_CONTINUATIONS  \* bytes of a character of two; the others stand alone

(* No document is in the block of NO_MORE_DOCS. *)
SegmentsAssumption ==
    /\ MaxDoc \in Nat /\ MaxDoc =< SENTINEL_BLOCK * BLOCK_SIZE
    /\ \A s \in Segments : \A i \in DOMAIN s :
           /\ s[i].docs \subseteq 0 .. MaxDoc - 1
           /\ s[i].type \in {"sorted", "sorted_set"} => s[i].sent \in Seq(Seq(Seq(Nat)))

VARIABLES
    fields,     \* the fields of the segment
    next,       \* the field the writer, then the walk of the entries, is at
    dvm, dvd,   \* the two files
    cursor,     \* where the walk is in dvm
    plans,      \* the plans of the entries walked
    columns,    \* the decoded columns
    failed      \* an error of the walk or of a decoder

vars == <<fields, next, dvm, dvd, cursor, plans, columns, failed>>

Init == /\ fields \in Segments
        /\ next = 1
        /\ dvm = <<>> /\ dvd = <<>>
        /\ cursor = 0
        /\ plans = <<>> /\ columns = <<>>
        /\ failed = FALSE

-----------------------------------------------------------------------------
(* An entry and its data, and what follows them, made for the place behind. *)
Encoded(meta, data) == [meta |-> meta, data |-> data]
Then(e, Rest(_), at) ==
    LET f == Rest(at + Len(e.data)) IN Encoded(e.meta \o f.meta, e.data \o f.data)

Region(w, at) == Encoded(<<at, Len(w.region), w.count>>, w.region)

(* write_docs_with_field: offset, length, jumps. *)
write_docs_with_field(docs, at) ==
    CASE docs = {}                    -> Encoded(<<-2, 0, -1>>, <<>>)
      [] Cardinality(docs) = MaxDoc   -> Encoded(<<-1, 0, -1>>, <<>>)
      [] OTHER                        -> Region(write_bit_set(docs), at)

(* write_values, the packing left out: the docs, the count, the values. *)
write_values(docs, values, at) ==
    Then(write_docs_with_field(docs, at),
         LAMBDA a : Encoded(<<Len(values), a>>, values), at)

AddressEntry(w, at) == Encoded(<<at>> \o w.meta \o <<Len(w.data)>>, w.data)
write_addresses(pieces, at) == AddressEntry(write(Starts(pieces)), at)

Count(docs) == Encoded(<<Cardinality(docs)>>, <<>>)

(* The sorted distinct terms, and the ordinals of some of them, sorted. *)
Dictionary(f) == Sorted(UNION {Range(f.sent[k]) : k \in DOMAIN f.sent}, Precedes)
Ord(dict, t) == (CHOOSE i \in DOMAIN dict : dict[i] = t) - 1
Ords(dict, terms) == Sorted({Ord(dict, t) : t \in Range(terms)}, <)

SortedEntry(f, dict, at) ==
    Then(write_values(f.docs, Listed([k \in DOMAIN f.sent |-> Ord(dict, f.sent[k][1])]), at),
         LAMBDA a : add_terms_dict(dict, a), at)

encode_sorted_field(f, at) == SortedEntry(f, Dictionary(f), at)

(* The bytes, the docs, the lengths, and addresses if the lengths differ. *)
BinaryEntry(docs, bytes, min_len, max_len, at) ==
    LET e == Then(Encoded(<<at, Len(Flatten(bytes))>>, Flatten(bytes)),
                  LAMBDA a : write_docs_with_field(docs, a), at)
        lengths == Encoded(<<Cardinality(docs), min_len, max_len>>, <<>>)
    IN  Then(e, LAMBDA a : IF max_len > min_len
                           THEN Then(lengths, LAMBDA b : write_addresses(bytes, b), a)
                           ELSE lengths, at)

encode_binary_field(f, at) ==
    LET lens == {Len(f.sent[k][1]) : k \in DOMAIN f.sent}
    IN  BinaryEntry(f.docs, Listed([k \in DOMAIN f.sent |-> f.sent[k][1]]),
                    IF lens = {} THEN 0 ELSE Min(lens), Max({0} \cup lens), at)

(* Addresses are written if there are more values than documents. *)
NumericListEntry(docs, per_doc, at) ==
    Then(write_values(docs, Flatten(per_doc), at),
         LAMBDA a : IF Len(Flatten(per_doc)) > Cardinality(docs)
                    THEN Then(Count(docs), LAMBDA b : write_addresses(per_doc, b), a)
                    ELSE Count(docs), at)

encode_sorted_numeric_field(f, at) ==
    NumericListEntry(f.docs, Listed([k \in DOMAIN f.sent |-> SortSeq(f.sent[k], <)]), at)

(* A flag tells whether documents have several terms; only then do a count and
   addresses follow the ordinals. *)
SetEntry(docs, dict, ords, multi, at) ==
    LET values == Then(Encoded(<<IF multi THEN 1 ELSE 0>>, <<>>),
                       LAMBDA a : write_values(docs, Flatten(ords), a), at)
        lists(e) == IF multi
                    THEN Then(Then(e, LAMBDA a : Count(docs), at),
                              LAMBDA a : write_addresses(ords, a), at)
                    ELSE e
    IN  Then(lists(values), LAMBDA a : add_terms_dict(dict, a), at)

OrdsEntry(docs, dict, ords, at) ==
    SetEntry(docs, dict, ords, \E k \in DOMAIN ords : Len(ords[k]) > 1, at)

SortedSetEntry(f, dict, at) ==
    OrdsEntry(f.docs, dict, Listed([k \in DOMAIN f.sent |-> Ords(dict, f.sent[k])]), at)

encode_sorted_set_field(f, at) == SortedSetEntry(f, Dictionary(f), at)

EncodedField(f, at) ==
    CASE f.type = "numeric"        -> write_values(f.docs, [k \in DOMAIN f.sent |-> f.sent[k][1]], at)
      [] f.type = "binary"         -> encode_binary_field(f, at)
      [] f.type = "sorted"         -> encode_sorted_field(f, at)
      [] f.type = "sorted_numeric" -> encode_sorted_numeric_field(f, at)
      [] f.type = "sorted_set"     -> encode_sorted_set_field(f, at)

(* add_numeric, add_sorted_with, ...: both files grow by the field. *)
AddField ==
    /\ cursor = 0 /\ next =< Len(fields)
    /\ \E e \in {EncodedField(fields[next], Len(dvd))} :
           /\ dvm' = dvm \o <<next - 1, fields[next].type>> \o e.meta
           /\ dvd' = dvd \o e.data
    /\ next' = next + 1
    /\ UNCHANGED <<fields, cursor, plans, columns, failed>>

Finish ==
    /\ cursor = 0 /\ next > Len(fields)
    /\ dvm' = Append(dvm, -1)
    /\ cursor' = 1 /\ next' = 1
    /\ UNCHANGED <<fields, dvd, plans, columns, failed>>

-----------------------------------------------------------------------------
(* A numeric entry; its docs region is scanned for num_values documents. *)
ReadNumericEntry(at) ==
    [docs_offset |-> dvm[at], docs_len |-> dvm[at + 1], num_values |-> dvm[at + 3],
     covered |-> dvm[at + 3], values_offset |-> dvm[at + 4], next |-> at + 5]

(* read_addresses: count values. *)
ReadAddresses(at, count) ==
    LET blocks == MetaBlocks(count)
    IN  [offset |-> dvm[at], meta |-> SubSeq(dvm, at + 1, at + blocks),
         len |-> dvm[at + blocks + 1], count |-> count, next |-> at + blocks + 2]

None == [count |-> 0]

\* Mutant of FixCoverage: as many documents are looked for as there are values.
CoverageOfValues(entry, n) == entry

(* fix_multi_coverage: the region holds documents, not values. *)
FixCoverage(entry, n) == [entry EXCEPT !.covered = n]

(* The plan of the entry at a place: its parts, and the place behind it. *)
EntryPlan(type, at) ==
    CASE type = "numeric" ->
           LET e == ReadNumericEntry(at)
           IN  [type |-> "numeric", entry |-> e, addresses |-> None, next |-> e.next]
      [] type = "sorted_numeric" ->
           LET e == ReadNumericEntry(at)
               n == dvm[e.next]
               a == ReadAddresses(e.next + 1, n + 1)
           IN  IF e.num_values > n
               THEN [type |-> "multi_numeric", entry |-> FixCoverage(e, n),
                     addresses |-> a, next |-> a.next]
               ELSE [type |-> "numeric", entry |-> e, addresses |-> None, next |-> e.next + 1]
      [] type = "binary" ->
           LET n == dvm[at + 5]
               a == ReadAddresses(at + 8, n + 1)
               several == dvm[at + 7] > dvm[at + 6]
           IN  [type |-> "binary", data_offset |-> dvm[at], data_len |-> dvm[at + 1],
                entry |-> [docs_offset |-> dvm[at + 2], docs_len |-> dvm[at + 3], covered |-> n],
                min_length |-> dvm[at + 6],
                addresses |-> IF several THEN a ELSE None,
                next |-> IF several THEN a.next ELSE at + 8]
      [] type = "sorted" ->
           LET e == ReadNumericEntry(at)
               t == read_terms_dict(dvm, e.next)
           IN  [type |-> "sorted", entry |-> e, addresses |-> None, terms |-> t, next |-> t.next]
      [] type = "sorted_set" ->
           LET e == ReadNumericEntry(at + 1)
               n == dvm[e.next]
               a == ReadAddresses(e.next + 1, n + 1)
               multi == dvm[at] # 0
               t == read_terms_dict(dvm, IF multi THEN a.next ELSE e.next)
           IN  [type |-> "sorted", entry |-> IF multi THEN FixCoverage(e, n) ELSE e,
                addresses |-> IF multi THEN a ELSE None, terms |-> t, next |-> t.next]

(* One turn of the loop of plan_doc_values; -1 ends it. *)
PlanEntry ==
    /\ cursor > 0 /\ dvm[cursor] # -1 /\ ~ failed
    /\ \E p \in {EntryPlan(dvm[cursor + 1], cursor + 2)} :
           plans' = Append(plans, p) /\ cursor' = p.next
    /\ UNCHANGED <<fields, next, dvm, dvd, columns, failed>>

-----------------------------------------------------------------------------
(* coverage_bitmap. *)
Covered(entry) ==
    CASE entry.docs_offset = -2 -> [ok |-> TRUE, docs |-> {}]
      [] entry.docs_offset = -1 -> [ok |-> TRUE, docs |-> 0 .. MaxDoc - 1]
      [] OTHER ->
          decode(SubSeq(dvd, entry.docs_offset + 1, entry.docs_offset + entry.docs_len),
                 entry.covered, MaxDoc)

Rank(docs, d) == Cardinality({e \in docs : e =< d})

(* doc_offsets: where the list of each document begins. *)
doc_offsets(docs, addresses) ==
    [d \in 0 .. MaxDoc |-> IF d = 0 THEN 0 ELSE addresses[Rank(docs, d - 1) + 1]]

Sliced(values, docs, offsets) ==
    [d \in 0 .. MaxDoc - 1 |->
        [valid |-> d \in docs, v |-> SubSeq(values, offsets[d] + 1, offsets[d + 1])]]

(* One value to each covered document. *)
Scattered(values, docs) ==
    [d \in 0 .. MaxDoc - 1 |->
        [valid |-> d \in docs, v |-> IF d \in docs THEN <<values[Rank(docs, d)]>> ELSE <<>>]]

Addresses(a) == decode_monotonic(a.meta, dvd, a.offset, a.count)
Values(e) == SubSeq(dvd, e.values_offset + 1, e.values_offset + e.num_values)

Corrupted == [ok |-> FALSE, column |-> <<>>]
Decoded(type, rows) == [ok |-> TRUE, column |-> [type |-> type, rows |-> rows]]

Utf8(bytes) ==
    /\ \A i \in DOMAIN bytes : bytes[i] \in UTF8_LEADS =>
           i < Len(bytes) /\ bytes[i + 1] \in UTF8_CONTINUATIONS
    /\ \A i \in DOMAIN bytes : bytes[i] \in UTF8_CONTINUATIONS =>
           i > 1 /\ bytes[i - 1] \in UTF8_LEADS

(* terms_to_values: the type of a dictionary, by its terms run together. *)
terms_to_values(terms) == IF Utf8(Flatten(terms)) THEN "Utf8" ELSE "Binary"

(* decode_binary *)
decode_binary(p, docs) ==
    LET n == p.entry.covered
        offsets == IF p.addresses = None THEN [i \in 1 .. n + 1 |-> (i - 1) * p.min_length]
                   ELSE Addresses(p.addresses)
        region == SubSeq(dvd, p.data_offset + 1, p.data_offset + p.data_len)
        strings == Sliced(region, docs, doc_offsets(docs, offsets))
    IN  Decoded("Binary", [d \in 0 .. MaxDoc - 1 |->
            [valid |-> d \in docs, v |-> IF d \in docs THEN <<strings[d].v>> ELSE <<>>]])

(* decode_sorted: the ordinals, then the terms they stand for. *)
Translated(dict, ords) ==
    IF ~ dict.ok THEN Corrupted
    ELSE Decoded(terms_to_values(dict.terms), [d \in 0 .. MaxDoc - 1 |->
             [valid |-> ords[d].valid,
              v |-> [k \in DOMAIN ords[d].v |-> dict.terms[ords[d].v[k] + 1]]]])

decode_sorted(p, docs) ==
    Translated(materialize(p.terms, dvd),
               IF p.addresses = None THEN Scattered(Values(p.entry), docs)
               ELSE Sliced(Values(p.entry), docs, doc_offsets(docs, Addresses(p.addresses))))

(* decode_numeric *)
decode_numeric(p, docs) ==
    IF docs # {} /\ Cardinality(docs) # p.entry.num_values THEN Corrupted
    ELSE Decoded("Int64", Scattered(Values(p.entry), docs))

(* decode_multi_numeric *)
decode_multi_numeric(p, docs) ==
    Decoded("Int64", Sliced(Values(p.entry), docs, doc_offsets(docs, Addresses(p.addresses))))

DecodedFor(p, docs) ==
    CASE p.type = "numeric"       -> decode_numeric(p, docs)
      [] p.type = "multi_numeric" -> decode_multi_numeric(p, docs)
      [] p.type = "binary"        -> decode_binary(p, docs)
      [] p.type = "sorted"        -> decode_sorted(p, docs)

DecodedColumn(p, covered) == IF covered.ok THEN DecodedFor(p, covered.docs) ELSE Corrupted

DecodeColumn ==
    /\ cursor > 0 /\ dvm[cursor] = -1 /\ ~ failed
    /\ next =< Len(plans)
    /\ \E c \in {DecodedColumn(plans[next], Covered(plans[next].entry))} :
           IF c.ok THEN columns' = Append(columns, c.column) /\ UNCHANGED failed
           ELSE failed' = TRUE /\ UNCHANGED columns
    /\ next' = next + 1
    /\ UNCHANGED <<fields, dvm, dvd, cursor, plans>>

Next == AddField \/ Finish \/ PlanEntry \/ DecodeColumn

Spec == Init /\ [][Next]_vars

-----------------------------------------------------------------------------
(* Cursors stay within what there is. *)
TypeOK ==
    /\ next \in 1 .. Len(fields) + 1
    /\ cursor \in 0 .. Len(dvm)
    /\ Len(plans) =< Len(fields) /\ Len(columns) =< Len(plans)
    /\ failed \in BOOLEAN

(* What a document of a field was sent, in the order its type stores it. *)
Sent(f, d) ==
    IF d \notin f.docs THEN [valid |-> FALSE, v |-> <<>>]
    ELSE LET v == f.sent[Rank(f.docs, d)]
         IN  [valid |-> TRUE,
              v |-> CASE f.type = "sorted_numeric" -> SortSeq(v, <)
                      [] f.type = "sorted_set"     -> Sorted(Range(v), Precedes)
                      [] OTHER                     -> v]

(* Every field reads back as it was sent, whatever fields are written around
   it: each entry is as long as its reader takes it to be, every offset is one
   of the whole file, and the number of values against the number of documents
   is enough to tell lists from single values (encode_*_field against
   plan_doc_values and the decode_* functions). *)
FieldsReadBack ==
    /\ ~ failed
    /\ \A i \in DOMAIN columns : \A d \in 0 .. MaxDoc - 1 : columns[i].rows[d] = Sent(fields[i], d)
    /\ cursor > 0 /\ dvm[cursor] = -1 => Len(plans) = Len(fields)

(* A reader that goes for a document by the jump table lands on the first
   block that can hold it, knowing how many documents it has passed, and the
   ranks of a bitmap count what lies before them.  This repository only writes
   both; Lucene's readers go by them (disi.rs add_jumps, create_rank). *)
JumpsLead ==
    \A i \in DOMAIN fields :
        LET docs == fields[i].docs IN
        i < next /\ docs # {} /\ Cardinality(docs) # MaxDoc =>
            \A w \in {write_bit_set(docs)} :
                \A b \in 0 .. (Max(docs) \div BLOCK_SIZE) + 1 : JumpLeads(docs, w, b)

(* A search over the keys of the reverse index finds the group of a term: each
   key sorts behind the last term of the group before and not behind the first
   one of its own, which Lucene's readers rely on and this one skips
   (sort_key_length, write_terms_index). *)
KeysSeparate ==
    \A i \in DOMAIN fields :
        i < next /\ fields[i].type \in {"sorted", "sorted_set"} =>
            LET dict == Dictionary(fields[i])
                keys == write_terms_index(dict)
            IN  \A b \in 2 .. Len(keys) :
                    /\ Precedes(dict[(b - 1) * REVERSE_BLOCK], keys[b])
                    /\ ~ Precedes(dict[((b - 1) * REVERSE_BLOCK) + 1], keys[b])

(* A column that is given out as Utf8 holds nothing but UTF-8 (cpu/src/lib.rs:180,
   "`Utf8` when every term is valid UTF-8"). *)
Utf8ColumnsAreUtf8 ==
    \A i \in DOMAIN columns : columns[i].type = "Utf8" =>
        \A d \in 0 .. MaxDoc - 1 : \A k \in DOMAIN columns[i].rows[d].v :
            Utf8(columns[i].rows[d].v[k])
=============================================================================
