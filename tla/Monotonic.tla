----------------------------- MODULE Monotonic ------------------------------
(***************************************************************************)
(* DirectMonotonic sequences (docvalues/src/monotonic.rs): per block, a    *)
(* line through the ends and the packed distances to it.  The slope is a   *)
(* 32-bit float, so both sides must round the line the same way.           *)
(*                                                                         *)
(* A float is a number of 1/SCALE parts with MANTISSA significant bits; a  *)
(* packed number takes one place of the data.                              *)
(***************************************************************************)
EXTENDS Listings

CONSTANTS
    MONO_BLOCK,    \* values of a block (65536 in the code)
    MANTISSA,      \* significant bits of a float (24)
    SCALE,         \* parts of a unit a float can tell apart
    PACKED_WIDTHS  \* SUPPORTED_BITS_PER_VALUE

MonotonicAssumption ==
    MONO_BLOCK \in Nat \ {0} /\ MANTISSA \in Nat \ {0} /\ SCALE \in Nat \ {0}

(* x, in parts, to the nearest float. *)
AsFloat(x) ==
    LET unit == 2 ^ Min({k \in 0 .. 16 : x < 2 ^ (k + MANTISSA)})
    IN  ((x + (unit \div 2)) \div unit) * unit

avg_inc(block) ==
    LET steps == Max({Len(block) - 1, 1})
    IN  AsFloat(((block[Len(block)] - block[1]) * SCALE) \div steps)

(* (avg_inc * i as f32) as i64 *)
Line(avg, i) == AsFloat(avg * i) \div SCALE

WidthFor(n) == IF n = 0 THEN 0 ELSE Min({w \in PACKED_WIDTHS : n < 2 ^ w})

(* The distances d of a block to its line, from the least of them, if any
   differ.  (The width is that of their disjunction: of the largest.) *)
DeltaBlock(avg, d, offset) ==
    LET min == Min(Range(d))
        bits == WidthFor(Max(Range(d)) - min)
    IN  [meta |-> [min |-> min, avg_inc |-> avg, offset |-> offset, bits |-> bits],
         data |-> IF bits = 0 THEN <<>> ELSE [i \in DOMAIN d |-> (d[i] - min) % 2 ^ bits]]

write_block(block, avg, offset) ==
    DeltaBlock(avg, Listed([i \in DOMAIN block |-> block[i] - Line(avg, i - 1)]), offset)

AppendBlock(s, b) == [meta |-> Append(s.meta, b.meta), data |-> s.data \o b.data]

(* write: the blocks of an ascending sequence, offsets from the first of them. *)
write(values) ==
    FoldLeft(LAMBDA s, block :
                 AppendBlock(s, write_block(block, avg_inc(block), Len(s.data))),
             [meta |-> <<>>, data |-> <<>>], Chunks(values, MONO_BLOCK))

(* read_meta reads as many blocks as the values fill. *)
MetaBlocks(count) == CeilDiv(count, MONO_BLOCK)

(* decode_monotonic: count values from their blocks and the data from base on. *)
decode_monotonic(blocks, data, base, count) ==
    Listed([k \in 1 .. count |->
        LET b == blocks[((k - 1) \div MONO_BLOCK) + 1]
            i == (k - 1) % MONO_BLOCK
        IN  b.min + Line(b.avg_inc, i)
            + IF b.bits = 0 THEN 0 ELSE data[base + b.offset + i + 1]])
=============================================================================
