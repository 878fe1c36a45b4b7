---------------------------- MODULE NumericStats ----------------------------
(***************************************************************************)
(* The statistics pass of a NUMERIC doc-values column: minimum, maximum,   *)
(* gcd of the differences to the first value, and the set of distinct      *)
(* values while it is small (docvalues/src/write.rs, CpuEncoder), with     *)
(* two's complement arithmetic of W bits.  The module has no state: the    *)
(* writer (NumericCodec) runs it value by value, the GPU kernel (GpuStats) *)
(* is compared with it.                                                    *)
(***************************************************************************)
EXTENDS Integers, FiniteSets, Sequences

CONSTANTS
    W,            \* bits of an integer (64 in the code)
    TableLimit    \* distinct values a table may hold (256 in the code)

WidthAssumption == W \in Nat /\ W > 2 /\ TableLimit \in Nat \ {0}

Pow2[n \in Nat] == IF n = 0 THEN 1 ELSE 2 * Pow2[n - 1]

Low  == -Pow2[W - 1]
High == Pow2[W - 1] - 1
Int64 == Low .. High

(* wrapping arithmetic *)
Modulus == Pow2[W]
Unsigned(x) == x % Modulus
Wrap(x) == ((x - Low) % Modulus) + Low
Abs(x) == IF x < 0 THEN -x ELSE x

(* Rust and C divide toward zero; only Low / -1 wraps. *)
WrappingDiv(x, y) ==
    LET q == Abs(x) \div Abs(y)
    IN  Wrap(IF (x < 0) = (y < 0) THEN q ELSE -q)

-----------------------------------------------------------------------------
Positive == Nat \ {0}

(* n >> n.trailing_zeros(), and the power of two it takes out *)
OddPart[n \in Nat] == IF n = 0 \/ n % 2 = 1 THEN n ELSE OddPart[n \div 2]
Twos(n) == n \div OddPart[n]

Lesser(x, y) == IF x < y THEN x ELSE y
Greater(x, y) == IF x < y THEN y ELSE x

(* The loop of gcd_compute, on an odd a: b loses its factors of two, the
   smaller of the two is taken from the larger, until they meet or one is 1. *)
Meet(a, b) == a = b \/ Lesser(a, b) = 1
GcdLoop[p \in Positive \X Positive] ==
    LET o == OddPart[p[2]] IN
    IF Meet(p[1], o) THEN Lesser(p[1], o)
    ELSE GcdLoop[<<Lesser(p[1], o), Greater(p[1], o) - Lesser(p[1], o)>>]

\* Mutant of gcd_compute: the common factors of two are not put back.
GcdWithoutTwos(a, b) ==
    IF a = 0 THEN Abs(b) ELSE IF b = 0 THEN Abs(a) ELSE GcdLoop[<<OddPart[Abs(a)], Abs(b)>>]

\* Mutant of gcd_compute: the sign of a first difference is kept.
GcdSigned(a, b) == IF a = 0 THEN b ELSE GcdWithoutTwos(a, b)

gcd_compute(a, b) ==
    LET x == Abs(a)
        y == Abs(b)
    IN  IF x = 0 THEN y
        ELSE IF y = 0 THEN x
        ELSE GcdLoop[<<OddPart[x], y>>] * Lesser(Twos(x), Twos(y))

(* Differences of values outside this range could overflow: the code gives
   up on a common divisor as soon as it meets one. *)
WholeRange == Int64   \* Mutant of HalfRange.
HalfRange == Low \div 2 .. High \div 2

-----------------------------------------------------------------------------
NoTable == [some |-> FALSE, set |-> {}]

StatsOfFirst(v) ==
    [min |-> v, max |-> v, gcd |-> 0, unique |-> [some |-> TRUE, set |-> {}]]

(* One turn of the loop of stats and of stats_chunks. *)
AddValue(s, first, v) ==
    [min |-> Lesser(s.min, v),
     max |-> Greater(s.max, v),
     gcd |-> IF s.gcd = 1 \/ v \notin HalfRange THEN 1
             ELSE gcd_compute(s.gcd, Wrap(v - first)),
     unique |-> IF s.unique.some /\ Cardinality(s.unique.set \cup {v}) =< TableLimit
                THEN [some |-> TRUE, set |-> s.unique.set \cup {v}]
                ELSE NoTable]

-----------------------------------------------------------------------------
(* What the pass promises, by the definitions of its terms. *)
Divides(d, n) == \E q \in 0 .. n : n = d * q

GreatestDivisor(ns) ==
    IF ns \subseteq {0} THEN 0
    ELSE CHOOSE d \in 1 .. Modulus :
            /\ \A n \in ns : Divides(d, n)
            /\ \A e \in d + 1 .. Modulus : \E n \in ns : ~ Divides(e, n)

StatsOf(values) ==
    LET set == {values[i] : i \in DOMAIN values}
    IN  [min |-> CHOOSE v \in set : \A w \in set : v =< w,
         max |-> CHOOSE v \in set : \A w \in set : v >= w,
         gcd |-> IF set \subseteq HalfRange
                 THEN GreatestDivisor({Abs(v - values[1]) : v \in set})
                 ELSE 1,
         unique |-> IF Cardinality(set) =< TableLimit
                    THEN [some |-> TRUE, set |-> set] ELSE NoTable]
=============================================================================
