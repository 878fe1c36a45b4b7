----------------------------- MODULE TextIngest -----------------------------
(***************************************************************************)
(* GPU text ingest (gpu/src/text_ingest.rs): threads that each own a slice *)
(* of the corpus hash its ASCII tokens into a shared vocabulary table and  *)
(* append (slot, document) pairs, all by atomics; runs with a byte outside *)
(* ASCII are left to the CPU; the host maps slots to sorted terms and      *)
(* hands everything to keys_to_csr.  The field must be build_parallel's,   *)
(* whatever the threads do (module Inverted).                              *)
(***************************************************************************)
EXTENDS Inverted

CONSTANTS
    Corpora,         \* the texts, sequences of bytes
    HostThreads,     \* the numbers of threads the host may use
    SLICE,           \* bytes a device thread owns (64 in the code)
    Slots,           \* slots of the table (2^22)
    CompactCap,      \* entries of the compacted table (2^21)
    SpanCap,         \* longest span whose length fits its packing (65535)
    DirtyShare, DirtyExtra,   \* dirty_cap is len / DirtyShare + DirtyExtra (8, 16)
    HashOf(_)        \* the slot a lowercased token tries first

IngestAssumption ==
    /\ Corpora \subseteq Seq(0 .. 10) \ {<<>>}
    /\ SLICE \in Nat \ {0} /\ Slots \in Nat \ {0} /\ DirtyShare \in Nat \ {0}

VARIABLES
    text, host_threads,
    pc,        \* where each device thread is
    at,        \* the byte each thread looks at
    slot,      \* the slot it probes, then its winner
    table,     \* slot -> the token stored there, as (offset, length)
    pairs,     \* (slot, document), in the order pair_count gave out
    dirty,     \* spans for the CPU, likewise
    doc_tokens,
    phase,     \* kernel, compacted, done, failed
    inv        \* the InvertedField

vars == <<text, host_threads, pc, at, slot, table, pairs, dirty, doc_tokens, phase, inv>>

Empty == <<0, 0>>    \* an offset begins at 1 and a length is never 0

-----------------------------------------------------------------------------
(* The documents: one more begins after each newline but a last one. *)
DocStarts == {1} \cup {n + 1 : n \in {m \in 1 .. Len(text) - 1 : text[m] = Newline}}
NumDocs == Cardinality(DocStarts)
DocOf(n) == Cardinality({s \in DocStarts : s =< n}) - 1
DirtyCap == (Len(text) \div DirtyShare) + DirtyExtra

(* The lines the caller of the CPU builder passes (str::lines). *)
Lines ==
    LET starts == Sorted(DocStarts, <)
        end(d) == IF d < NumDocs THEN starts[d + 1] - 2
                  ELSE IF text[Len(text)] = Newline THEN Len(text) - 1 ELSE Len(text)
    IN  Listed([d \in 1 .. NumDocs |-> SubSeq(text, starts[d], end(d))])

Threads == 1 .. CeilDiv(Len(text), SLICE)
SliceEnd(t) == IF t * SLICE < Len(text) THEN t * SLICE ELSE Len(text)

Init == /\ text \in Corpora
        /\ host_threads \in HostThreads
        /\ pc = [t \in Threads |-> "scan"]
        /\ at = [t \in Threads |-> (t - 1) * SLICE + 1]
        /\ slot = [t \in Threads |-> 0]
        /\ table = [s \in 0 .. Slots - 1 |-> Empty]
        /\ pairs = <<>>
        /\ dirty = <<>>
        /\ doc_tokens = [d \in 0 .. NumDocs - 1 |-> 0]
        /\ phase = "kernel"
        /\ inv = <<>>

-----------------------------------------------------------------------------
(* A byte of a run: a letter, or any byte outside ASCII. *)
tokenish(s, n) == s[n] \in AsciiLetters \cup {LetterLead, MarkLead, Continuation}

\* Mutant of TokenStart: a run that enters a slice begins there again.
TokenStartInSlice(t, n) == tokenish(text, n) /\ (n > (t - 1) * SLICE + 1 => ~ tokenish(text, n - 1))

TokenStart(t, n) == tokenish(text, n) /\ (n > 1 => ~ tokenish(text, n - 1))

(* A run may go past the slice of the thread that found its start. *)
TokenEnd(t) == RunEnd(text, at[t], tokenish)
TokenLen(t) == TokenEnd(t) - at[t] + 1
Token(t) == Lowered(text, at[t], TokenEnd(t))
DirtyToken(t) == \E n \in at[t] .. TokenEnd(t) : text[n] \notin AsciiLetters

TermAt(packed) == Lowered(text, packed[1], packed[1] + packed[2] - 1)

GoTo(t, where) == pc' = [pc EXCEPT ![t] = where]
NextByte(t) == at' = [at EXCEPT ![t] = at[t] + 1]

(* One turn of the loop of tokenize_hash: past the slice, not a start, a dirty
   span, a token too long, or a token to hash. *)
ScanEnds(t) ==
    /\ pc[t] = "scan" /\ at[t] > SliceEnd(t)
    /\ GoTo(t, "end")
    /\ UNCHANGED <<at, slot, table, pairs, dirty, doc_tokens>>

SkipByte(t) ==
    /\ pc[t] = "scan" /\ at[t] =< SliceEnd(t)
    /\ TokenStart(t, at[t]) => ~ DirtyToken(t) /\ TokenLen(t) > MaxTokenLen
    /\ NextByte(t)
    /\ UNCHANGED <<pc, slot, table, pairs, dirty, doc_tokens>>

EmitDirty(t) ==
    /\ pc[t] = "scan" /\ at[t] =< SliceEnd(t)
    /\ TokenStart(t, at[t]) /\ DirtyToken(t)
    /\ dirty' = Append(dirty, <<at[t], IF TokenLen(t) < SpanCap THEN TokenLen(t) ELSE SpanCap>>)
    /\ NextByte(t)
    /\ UNCHANGED <<pc, slot, table, pairs, doc_tokens>>

StartProbing(t) ==
    /\ pc[t] = "scan" /\ at[t] =< SliceEnd(t)
    /\ TokenStart(t, at[t]) /\ ~ DirtyToken(t) /\ TokenLen(t) =< MaxTokenLen
    /\ slot' = [slot EXCEPT ![t] = HashOf(Token(t))]
    /\ GoTo(t, "probe")
    /\ UNCHANGED <<at, table, pairs, dirty, doc_tokens>>

same_term(packed, t) == packed[2] = TokenLen(t) /\ TermAt(packed) = Token(t)

(* atomicCAS on the slot: taken, found, or on to the next. *)
Claim(t) ==
    /\ pc[t] = "probe" /\ table[slot[t]] = Empty
    /\ table' = [table EXCEPT ![slot[t]] = <<at[t], TokenLen(t)>>]
    /\ GoTo(t, "emit")
    /\ UNCHANGED <<at, slot, pairs, dirty, doc_tokens>>

Found(t) ==
    /\ pc[t] = "probe" /\ table[slot[t]] # Empty /\ same_term(table[slot[t]], t)
    /\ GoTo(t, "emit")
    /\ UNCHANGED <<at, slot, table, pairs, dirty, doc_tokens>>

NextSlot(s) == (s + 1) % Slots

Collide(t) ==
    /\ pc[t] = "probe" /\ table[slot[t]] # Empty /\ ~ same_term(table[slot[t]], t)
    /\ slot' = [slot EXCEPT ![t] = NextSlot(slot[t])]
    /\ UNCHANGED <<pc, at, table, pairs, dirty, doc_tokens>>

(* atomicAdd on pair_count gives the pair a place of its own. *)
EmitPair(t) ==
    /\ pc[t] = "emit"
    /\ pairs' = Append(pairs, <<slot[t], DocOf(at[t])>>)
    /\ doc_tokens' = [doc_tokens EXCEPT ![DocOf(at[t])] = @ + 1]
    /\ NextByte(t)
    /\ GoTo(t, "scan")
    /\ UNCHANGED <<slot, table, dirty>>

ThreadStep(t) ==
    \/ ScanEnds(t) \/ SkipByte(t) \/ EmitDirty(t) \/ StartProbing(t)
    \/ Claim(t) \/ Found(t) \/ Collide(t) \/ EmitPair(t)

Thread(t) == phase = "kernel" /\ ThreadStep(t) /\ UNCHANGED <<text, host_threads, phase, inv>>

KernelDone == \A t \in Threads : pc[t] = "end"

-----------------------------------------------------------------------------
device == <<text, host_threads, pc, at, slot, table, pairs, dirty, doc_tokens>>
Occupied == {s \in 0 .. Slots - 1 : table[s] # Empty}

(* More spans than dirty_cap: the build is refused. *)
RefuseDirty ==
    /\ phase = "kernel" /\ KernelDone
    /\ Len(dirty) > DirtyCap
    /\ phase' = "failed"
    /\ UNCHANGED <<device, inv>>

(* compact_table: the occupied slots, in any order; the host makes a map of
   them. *)
Compact ==
    /\ phase = "kernel" /\ KernelDone
    /\ Len(dirty) =< DirtyCap
    /\ phase' = "compacted"
    /\ UNCHANGED <<device, inv>>

(* The tokens of a dirty span, by the exact analyzer; a span cut inside a
   character is no UTF-8 and is skipped. *)
DirtyTokens(packed) ==
    LET span == SubSeq(text, packed[1], packed[1] + packed[2] - 1)
    IN  IF span[Len(span)] \in {LetterLead, MarkLead} THEN <<>> ELSE tokenize(span)

ExtraTokens(d) ==
    Total([n \in DOMAIN dirty |->
            IF DocOf(dirty[n][1]) = d THEN Len(DirtyTokens(dirty[n])) ELSE 0])

(* Sorted vocabulary, ords for slots, the pairs remapped in chunks, the dirty
   pairs as one more chunk, and the shared finisher. *)
Field ==
    LET dirtyTokens == Flatten([n \in DOMAIN dirty |-> DirtyTokens(dirty[n])])
        terms == Sorted({TermAt(table[s]) : s \in Occupied} \cup ToSet(dirtyTokens), Precedes)
        keys == Listed([n \in DOMAIN pairs |->
                    <<OrdOf(terms, TermAt(table[pairs[n][1]])), pairs[n][2]>>])
        size == IF keys = <<>> THEN 1 ELSE CeilDiv(Len(keys), host_threads)
        dirtyKeys ==
            Flatten([n \in DOMAIN dirty |->
                LET tokens == DirtyTokens(dirty[n])
                IN  [k \in DOMAIN tokens |-> <<OrdOf(terms, tokens[k]), DocOf(dirty[n][1])>>]])
    IN  Assembled(keys_to_csr(Append(Chunks(keys, size), dirtyKeys), Len(terms)), terms,
                  [d \in 1 .. NumDocs |-> doc_tokens[d - 1] + ExtraTokens(d - 1)])

Finish ==
    /\ phase = "compacted"
    /\ inv' = Field
    /\ phase' = "done"
    /\ UNCHANGED device

Kernel == \E t \in Threads : Thread(t)

Next == Kernel \/ RefuseDirty \/ Compact \/ Finish

(* A launched grid goes on: some thread that can step does. *)
Spec == Init /\ [][Next]_vars
FairSpec == Spec /\ WF_vars(Kernel)

-----------------------------------------------------------------------------
(* The table points into the text, and pairs point into the table. *)
TypeOK ==
    /\ pc \in [Threads -> {"scan", "probe", "emit", "end"}]
    /\ slot \in [Threads -> 0 .. Slots - 1]
    /\ \A s \in Occupied : table[s][1] + table[s][2] - 1 \in DOMAIN text
    /\ \A n \in DOMAIN pairs : pairs[n][1] \in Occupied /\ pairs[n][2] \in 0 .. NumDocs - 1
    /\ phase \in {"kernel", "compacted", "done", "failed"}

(* However the threads interleave and wherever the slices cut, the field is
   the CPU's ("Byte-identical to build_parallel", text_ingest.rs:178). *)
IngestEqualsCpu == phase = "done" => inv = build_parallel(Lines, host_threads)

(* Both builders give what the serial one gives, whatever the threads. *)
BuildersAgree == phase = "done" => ParallelEqualsSerial(Lines, host_threads)

(* As long as the table has a slot for every term, probing ends, and with it
   the kernel. *)
KernelEnds == <>KernelDone

(* The compacted table has room for what it is given ("outputs sized to
   table_cap bound", text_ingest.rs:264). *)
CompactInBounds == phase = "compacted" => Cardinality(Occupied) =< CompactCap
=============================================================================
