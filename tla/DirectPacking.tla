--------------------------- MODULE DirectPacking ----------------------------
(***************************************************************************)
(* The bits of a packed payload.  Two producers write them (direct::pack,  *)
(* in three shapes by width, and the GPU kernel pack_words, one thread per *)
(* 64-bit word) and three consumers read them (the fused reader, the       *)
(* grouped reader, and the GPU kernel decode_blocks with two word loads).  *)
(* A value is the set of its bits, a buffer the set of its bits that are 1 *)
(* with its length in bytes.                                               *)
(***************************************************************************)
EXTENDS Integers, FiniteSets, Sequences, FiniteSetsExt

CONSTANTS
    Widths,       \* SUPPORTED_BITS_PER_VALUE
    Payloads(_),  \* sequences of values of a width
    Offsets,      \* byte offsets of the payload in its file
    Footer        \* bytes of the file after the payload

VARIABLES
    bpv, values,  \* what is packed
    start,        \* the offset of the payload
    producer,     \* "cpu" or "gpu"
    words,        \* the output words the GPU threads have written
    packed,       \* the payload, [bits, len]
    got,          \* what each reader got
    loaded        \* bytes of the upload the GPU reader has loaded

vars == <<bpv, values, start, producer, words, packed, got, loaded>>

Shift(bits, by) == {b + by : b \in bits}
Window(bits, low, n) == {b - low : b \in {c \in bits : c >= low /\ c < low + n}}
CeilDiv(a, b) == (a + b - 1) \div b
AtLeast(a, b) == IF a < b THEN b ELSE a

Count == Len(values)
NotYet == [bits |-> {}, len |-> -1]

Init == /\ bpv \in Widths
        /\ values \in Payloads(bpv)
        /\ start \in Offsets
        /\ producer \in {"cpu", "gpu"}
        /\ words = <<>>
        /\ packed = NotYet
        /\ got = <<>>
        /\ loaded = {}

-----------------------------------------------------------------------------
(* direct::pack.  A value's group, and its place in the group: byte-aligned
   widths stand alone, narrow ones share a long, 12, 20 and 28 go in pairs. *)
PerGroup == CASE bpv % 8 = 0 -> 1
              [] bpv < 8     -> 64 \div bpv
              [] OTHER       -> 2
GroupBytes == (PerGroup * bpv) \div 8
PlaceOf(i) == 8 * GroupBytes * (i \div PerGroup) + bpv * (i % PerGroup)

PaddingBits == CASE bpv > 32 -> 64 - bpv
                 [] bpv > 16 -> 32 - bpv
                 [] bpv > 8  -> 16 - bpv
                 [] OTHER    -> 0
Padding == CeilDiv(PaddingBits, 8)

\* The last group of a narrow width is cut to its bytes, a pair is not.
LastGroupBytes ==
    LET rest == Count % PerGroup
    IN  IF rest = 0 THEN 0
        ELSE IF bpv < 8 THEN CeilDiv(rest * bpv, 8) ELSE GroupBytes

PackCpu ==
    /\ producer = "cpu" /\ packed = NotYet
    /\ packed' = [bits |-> UNION {Shift(values[i], PlaceOf(i - 1)) : i \in 1 .. Count},
                  len |-> GroupBytes * (Count \div PerGroup) + LastGroupBytes + Padding]
    /\ UNCHANGED <<bpv, values, start, producer, words, got, loaded>>

(* packed_len, which sizes the GPU payload without packing it. *)
packed_len(n, b) ==
    CASE b % 8 = 0 -> (n * b) \div 8 + Padding
      [] b < 8     -> 8 * (n \div (64 \div b)) + CeilDiv((n % (64 \div b)) * b, 8) + Padding
      [] OTHER     -> CeilDiv(n, 2) * ((b * 2) \div 8) + Padding

-----------------------------------------------------------------------------
NumWords == AtLeast(CeilDiv(Count * bpv, 64), 1)

\* Mutant of FirstIn: the value that began in the previous word is missed.
FirstBeginningIn(w) == CeilDiv(64 * w, bpv)

FirstIn(w) == (64 * w) \div bpv

(* pack_words: the thread of word w gathers the values that reach into it. *)
WordOf(w) ==
    LET Reaching == {i \in FirstIn(w) .. Count - 1 : i * bpv < 64 * w + 64}
        Part(i) == Window(Shift(values[i + 1], i * bpv - 64 * w), 0, 64)
    IN  UNION {Part(i) : i \in Reaching}

PackWord(w) ==
    /\ producer = "gpu" /\ packed = NotYet
    /\ w \notin DOMAIN words
    /\ words' = [x \in DOMAIN words \cup {w} |-> IF x = w THEN WordOf(w) ELSE words[x]]
    /\ UNCHANGED <<bpv, values, start, producer, packed, got, loaded>>

(* words_to_payload: the words are the bytes, cut or zero-filled. *)
Download ==
    /\ producer = "gpu" /\ packed = NotYet
    /\ DOMAIN words = 0 .. NumWords - 1
    /\ packed' = [bits |-> Window(UNION {Shift(words[w], 64 * w) : w \in DOMAIN words},
                                  0, 8 * packed_len(Count, bpv)),
                  len |-> packed_len(Count, bpv)]
    /\ UNCHANGED <<bpv, values, start, producer, words, got, loaded>>

-----------------------------------------------------------------------------
Packed == packed # NotYet /\ Count > 0

Reads(reader, out) ==
    /\ got' = [r \in DOMAIN got \cup {reader} |-> IF r = reader THEN out ELSE got[r]]
    /\ UNCHANGED <<bpv, values, start, producer, words, packed>>

\* Mutant of FusedValue: the value begins on a byte.
FusedAligned(i) ==
    Window(Window(packed.bits, 8 * ((i * bpv) \div 8), 64), 0, bpv)

(* for_each_unpacked: the word at the value's first byte, shifted; near the
   end of the payload the word is made of the bytes that are left. *)
FusedValue(i) ==
    LET byte  == (i * bpv) \div 8
        shift == (i * bpv) % 8
        have  == IF byte =< packed.len - 8 THEN 8 ELSE packed.len - byte
    IN  Window(Window(packed.bits, 8 * byte, 8 * have), shift, bpv)

ReadFused ==
    /\ Packed /\ "fused" \notin DOMAIN got
    /\ IF packed.len < CeilDiv(Count * bpv, 8) THEN Reads("fused", "corrupt")
       ELSE Reads("fused", [i \in 1 .. Count |-> FusedValue(i - 1)])
    /\ UNCHANGED loaded

(* unpack: group by group, as they were packed. *)
GroupedValue(i) ==
    LET g    == i \div PerGroup
        size == IF Count - g * PerGroup < PerGroup /\ bpv < 8 THEN LastGroupBytes ELSE GroupBytes
        grp  == Window(packed.bits, 8 * GroupBytes * g, 8 * size)
    IN  Window(grp, bpv * (i % PerGroup), bpv)

ReadGrouped ==
    /\ Packed /\ "grouped" \notin DOMAIN got
    /\ IF packed.len < GroupBytes * (Count \div PerGroup) + LastGroupBytes
       THEN Reads("grouped", "corrupt")
       ELSE Reads("grouped", [i \in 1 .. Count |-> GroupedValue(i - 1)])
    /\ UNCHANGED loaded

(* upload: the file and 8 bytes of slack. *)
FileBits == Shift(packed.bits, 8 * start)
UploadBytes == start + packed.len + Footer + 8

WordAt(w) == Window(FileBits, 64 * w, 64)

NeedsHigh(bit) == bit % 64 # 0

(* decode_blocks: two aligned words, a funnel shift, a mask. *)
GpuValue(i) ==
    LET bit == 8 * start + i * bpv
        low == Window(WordAt(bit \div 64), bit % 64, 64)
        high == IF NeedsHigh(bit)
                THEN Window(Shift(WordAt(bit \div 64 + 1), 64 - (bit % 64)), 0, 64) ELSE {}
    IN  Window(low \cup high, 0, bpv)

WordsLoaded(i) ==
    LET bit == 8 * start + i * bpv
    IN  {bit \div 64} \cup IF NeedsHigh(bit) THEN {bit \div 64 + 1} ELSE {}

ReadGpu ==
    /\ Packed /\ "gpu" \notin DOMAIN got
    /\ Reads("gpu", [i \in 1 .. Count |-> GpuValue(i - 1)])
    /\ loaded' = UNION {8 * w .. 8 * w + 7 : w \in UNION {WordsLoaded(i - 1) : i \in 1 .. Count}}

Next == \/ PackCpu
        \/ \E w \in 0 .. NumWords - 1 : PackWord(w)
        \/ Download
        \/ ReadFused \/ ReadGrouped \/ ReadGpu

Spec == Init /\ [][Next]_vars

-----------------------------------------------------------------------------
(* No bit of the payload lies beyond its length (a value wider than its place
   would put one there). *)
TypeOK ==
    /\ bpv \in Widths /\ \A i \in 1 .. Count : values[i] \subseteq 0 .. bpv - 1
    /\ packed # NotYet => packed.bits \subseteq 0 .. 8 * packed.len - 1

(* Every reader gets back every value, from either producer, at every file
   offset, up to the last value of the last group (direct.rs against encode.rs
   and executor.rs). *)
EveryReaderAgrees == \A r \in DOMAIN got : got[r] = values

(* The GPU's payload is byte for byte the CPU's ("bit-identical to the CPU
   direct::pack payload", encode.rs:9). *)
ProducersAgree ==
    packed # NotYet =>
        packed = [bits |-> UNION {Shift(values[i], PlaceOf(i - 1)) : i \in 1 .. Count},
                  len |-> GroupBytes * (Count \div PerGroup) + LastGroupBytes + Padding]

(* The kernel loads whole aligned words, and none of their bytes lies beyond the
   upload, the file or extent and its 8 bytes of slack (executor.rs:15: "so the
   hi word load never faults at the tail"). *)
LoadsStayInUpload == loaded \subseteq 0 .. UploadBytes - 1
=============================================================================
