------------------------------ MODULE GpuStats ------------------------------
(***************************************************************************)
(* stats_kernel and stats_device (gpu/src/encode.rs): the statistics of a  *)
(* column computed by threads that race on a hash table of the distinct    *)
(* values, on its counter, on the overflow flag and on the gcd.  The plan  *)
(* policy runs on the host, so the result must be the CPU's, bit for bit,  *)
(* whatever the threads do (module NumericStats).                          *)
(*                                                                         *)
(* The overflow flag and the first look at the gcd are plain loads of what *)
(* other threads write: they return an old value or the latest.            *)
(***************************************************************************)
EXTENDS NumericStats

CONSTANTS
    Columns,      \* the columns, sequences of integers
    NThreads,     \* threads of the grid
    TableSlots,   \* slots of the table (1024 in the code)
    SlotOf(_, _)  \* the slot a value tries at its k-th probe

GridAssumption ==
    /\ Columns \subseteq Seq(Int64) \ {<<>>}
    /\ NThreads \in Nat \ {0}
    /\ TableSlots \in Nat /\ TableSlots > TableLimit
ProbeAssumption ==
    \A v \in Int64 :
        /\ \A k \in 0 .. TableSlots - 1 : SlotOf(v, k) \in 0 .. TableSlots - 1
        /\ \A s \in 0 .. TableSlots - 1 : \E k \in 0 .. TableSlots - 1 : SlotOf(v, k) = s

Threads == 1 .. NThreads
Sentinel == Low    \* marks an empty slot, and is a value of its own

VARIABLES
    values,       \* the column
    tpc,          \* where each thread is
    ti,           \* the value each thread works on
    probe,        \* and the probe it is at
    lmin, lmax, lgcd,   \* the folds of each thread
    cur,          \* the gcd each thread believes is merged
    table, count, overflow, has_sentinel, out_of_range,   \* global memory
    out_min, out_max,
    gcds          \* the values gcd_accum has had, in order

statsVars == <<values, tpc, ti, probe, lmin, lmax, lgcd, cur, table, count, overflow,
               has_sentinel, out_of_range, out_min, out_max, gcds>>
local  == <<lmin, lmax, lgcd, cur>>
merged == <<out_min, out_max, gcds>>

gcd_accum == gcds[Len(gcds)]

StatsInit ==
    /\ values \in Columns
    /\ tpc = [t \in Threads |-> "value"]
    /\ ti = [t \in Threads |-> t]
    /\ probe = [t \in Threads |-> 0]
    /\ lmin = [t \in Threads |-> High]
    /\ lmax = [t \in Threads |-> Low]
    /\ lgcd = [t \in Threads |-> 0]
    /\ cur = [t \in Threads |-> 0]
    /\ table = [s \in 0 .. TableSlots - 1 |-> Sentinel]
    /\ count = 0
    /\ overflow = FALSE
    /\ has_sentinel = FALSE
    /\ out_of_range = FALSE
    /\ out_min = High
    /\ out_max = Low
    /\ gcds = <<0>>

-----------------------------------------------------------------------------
(* bin_gcd: the loop runs until nothing is left of the larger. *)
RestLoop[p \in Positive \X Nat] ==
    LET o == OddPart[p[2]] IN
    IF o = 0 THEN p[1] ELSE RestLoop[<<Lesser(p[1], o), Greater(p[1], o) - Lesser(p[1], o)>>]

bin_gcd(a, b) ==
    LET x == Abs(a)
        y == Abs(b)
    IN  IF x = 0 THEN Wrap(y) ELSE IF y = 0 THEN Wrap(x)
        ELSE Wrap(RestLoop[<<OddPart[x], y>>] * Lesser(Twos(x), Twos(y)))

Value(t) == values[ti[t]]
HasValue(t) == ti[t] =< Len(values)

Stride == NThreads

NextValue(t) == /\ tpc' = [tpc EXCEPT ![t] = "value"]
                /\ ti' = [ti EXCEPT ![t] = ti[t] + Stride]

(* A difference to a first value out of range may overflow: it wraps in the
   generated code, and the host drops the divisor of such a column. *)
FoldLocal(t) ==
    /\ lmin' = [lmin EXCEPT ![t] = Lesser(lmin[t], Value(t))]
    /\ lmax' = [lmax EXCEPT ![t] = Greater(lmax[t], Value(t))]
    /\ IF Value(t) \in HalfRange
       THEN /\ lgcd' = [lgcd EXCEPT ![t] = bin_gcd(lgcd[t], Wrap(Value(t) - values[1]))]
            /\ UNCHANGED out_of_range
       ELSE /\ out_of_range' = TRUE
            /\ UNCHANGED lgcd
    /\ UNCHANGED <<cur, merged>>

(* The body of the loop, as far as the table: skip it after an overflow the
   thread has seen, note the sentinel apart, or start to probe. *)
SkipTable(t) ==
    /\ tpc[t] = "value" /\ HasValue(t)
    /\ overflow
    /\ FoldLocal(t)
    /\ NextValue(t)
    /\ UNCHANGED <<probe, table, count, overflow, has_sentinel>>

NoteSentinel(t) ==
    /\ tpc[t] = "value" /\ HasValue(t)
    /\ Value(t) = Sentinel
    /\ FoldLocal(t)
    /\ has_sentinel' = TRUE
    /\ NextValue(t)
    /\ UNCHANGED <<probe, table, count, overflow>>

StartProbing(t) ==
    /\ tpc[t] = "value" /\ HasValue(t)
    /\ Value(t) # Sentinel
    /\ FoldLocal(t)
    /\ tpc' = [tpc EXCEPT ![t] = "probe"]
    /\ probe' = [probe EXCEPT ![t] = 0]
    /\ UNCHANGED <<ti, table, count, overflow, has_sentinel>>

\* Mutant of AtSlot: the position is hashed, not the value.
AtSlotOfPosition(t) == SlotOf(ti[t], probe[t])

AtSlot(t) == SlotOf(Value(t), probe[t])

(* atomicCAS on the slot: the thread takes it, finds its value in it, or goes
   on; past the last slot the table is full. *)
Claim(t) ==
    /\ tpc[t] = "probe"
    /\ table[AtSlot(t)] = Sentinel
    /\ table' = [table EXCEPT ![AtSlot(t)] = Value(t)]
    /\ tpc' = [tpc EXCEPT ![t] = "count"]
    /\ UNCHANGED <<ti, probe, count, overflow, has_sentinel, out_of_range, local, merged>>

Found(t) ==
    /\ tpc[t] = "probe"
    /\ table[AtSlot(t)] = Value(t)
    /\ NextValue(t)
    /\ UNCHANGED <<probe, table, count, overflow, has_sentinel, out_of_range, local, merged>>

Collide(t) ==
    /\ tpc[t] = "probe"
    /\ table[AtSlot(t)] \notin {Sentinel, Value(t)}
    /\ IF probe[t] = TableSlots - 1
       THEN overflow' = TRUE /\ NextValue(t) /\ UNCHANGED probe
       ELSE probe' = [probe EXCEPT ![t] = probe[t] + 1] /\ UNCHANGED <<overflow, tpc, ti>>
    /\ UNCHANGED <<table, count, has_sentinel, out_of_range, local, merged>>

Full(n) == n > TableLimit

(* atomicAdd on the counter, and the flag when it passes the limit. *)
CountSlot(t) ==
    /\ tpc[t] = "count"
    /\ count' = count + 1
    /\ overflow' = (overflow \/ Full(count + 1))
    /\ NextValue(t)
    /\ UNCHANGED <<probe, table, has_sentinel, out_of_range, local, merged>>

-----------------------------------------------------------------------------
(* After the loop: atomicMin, atomicMax, and the gcd by compare-and-swap. *)
MergeExtremes(t) ==
    /\ tpc[t] = "value" /\ ~ HasValue(t)
    /\ out_min' = Lesser(out_min, lmin[t])
    /\ out_max' = Greater(out_max, lmax[t])
    /\ \E g \in {gcds[n] : n \in DOMAIN gcds} : cur' = [cur EXCEPT ![t] = g]
    /\ tpc' = [tpc EXCEPT ![t] = "gcd"]
    /\ UNCHANGED <<ti, probe, lmin, lmax, lgcd, table, count, overflow, has_sentinel,
                   out_of_range, gcds>>

\* Mutant of CasLoses: the swap succeeds whatever the accumulator holds.
CasNeverLoses(t) == FALSE

\* Mutant of CasLoses: the swap expects the value it would store.
CasAlwaysLoses(t) == gcd_accum # bin_gcd(cur[t], lgcd[t])

CasLoses(t) == gcd_accum # cur[t]

MergeGcd(t) ==
    /\ tpc[t] = "gcd"
    /\ LET m == bin_gcd(cur[t], lgcd[t]) IN
       IF m = cur[t]
       THEN tpc' = [tpc EXCEPT ![t] = "done"] /\ UNCHANGED <<cur, gcds>>
       ELSE IF CasLoses(t)
       THEN cur' = [cur EXCEPT ![t] = gcd_accum] /\ UNCHANGED <<tpc, gcds>>
       ELSE gcds' = Append(gcds, m) /\ tpc' = [tpc EXCEPT ![t] = "done"] /\ UNCHANGED cur
    /\ UNCHANGED <<ti, probe, lmin, lmax, lgcd, table, count, overflow, has_sentinel,
                   out_of_range, out_min, out_max>>

ThreadStep(t) ==
    \/ SkipTable(t) \/ NoteSentinel(t) \/ StartProbing(t)
    \/ Claim(t) \/ Found(t) \/ Collide(t) \/ CountSlot(t)
    \/ MergeExtremes(t) \/ MergeGcd(t)

Step(t) == ThreadStep(t) /\ UNCHANGED values

StatsNext == \E t \in Threads : Step(t)

(* A launched grid runs to its end: every thread is scheduled. *)
Fairness == \A t \in Threads : WF_statsVars(Step(t))

StatsSpec == StatsInit /\ [][StatsNext]_statsVars
StatsFairSpec == StatsSpec /\ Fairness

Finished == \A t \in Threads : tpc[t] = "done"

(* stats_device: what the host makes of global memory. *)
InTable == {table[s] : s \in 0 .. TableSlots - 1} \ {Sentinel}
Distinct == InTable \cup (IF has_sentinel THEN {Sentinel} ELSE {})

Result == [min |-> out_min, max |-> out_max,
           gcd |-> IF out_of_range THEN 1 ELSE gcd_accum,
           unique |-> IF overflow \/ Cardinality(Distinct) > TableLimit THEN NoTable
                      ELSE [some |-> TRUE, set |-> Distinct]]

-----------------------------------------------------------------------------
(* The kernel's memory keeps the shapes its host code reads. *)
StatsTypeOK ==
    /\ tpc \in [Threads -> {"value", "probe", "count", "gcd", "done"}]
    /\ ti \in [Threads -> Nat \ {0}]
    /\ probe \in [Threads -> 0 .. TableSlots - 1]
    /\ table \in [0 .. TableSlots - 1 -> Int64]
    /\ count \in Nat
    /\ overflow \in BOOLEAN /\ has_sentinel \in BOOLEAN
    /\ \A t \in Threads : tpc[t] \in {"probe", "count"} => HasValue(t)

(* However the threads interleave, and however old the flag and the gcd they
   look at, the device's statistics are the CPU's ("the host-side policy picks
   the same encoding on either executor", encode.rs:14). *)
DeviceEqualsCpu == Finished => Result = StatsOf(values)

(* Two threads that bring the same value never store it in two slots, so the
   counter counts distinct values. *)
NoValueTwice ==
    \A s, u \in 0 .. TableSlots - 1 : table[s] = table[u] /\ table[s] # Sentinel => s = u

(* The table is given up only when there are too many distinct values. *)
OverflowIsTrue ==
    overflow => Cardinality(InTable) > TableLimit \/ Sentinel \notin {table[s] : s \in 0 .. TableSlots - 1}

(* The compare-and-swap loop ends: a swap is lost only to one that shrank the
   divisor. *)
KernelEnds == <>Finished
=============================================================================
