--------------------------- MODULE GpuStatsProofs ---------------------------
(***************************************************************************)
(* The statistics kernel, for any column, number of threads, slots, limit  *)
(* and order of probes.  First its table (Inv): however the threads        *)
(* interleave, no value takes two slots, and the table is given up only    *)
(* when it must be.  Then its result (Story): when the grid has ended, the *)
(* statistics are those of the sequential pass (NumericStats).             *)
(***************************************************************************)
EXTENDS GpuStats, NumericStatsProofs

Assumptions == WidthAssumption /\ GridAssumption /\ ProbeAssumption

-----------------------------------------------------------------------------
(* The invariant of the table.                                             *)

\* Types, of what the table's story depends on.
Shape ==
    /\ values \in Seq(Int64)
    /\ tpc \in [Threads -> {"value", "probe", "count", "gcd", "done"}]
    /\ ti \in [Threads -> Nat \ {0}]
    /\ probe \in [Threads -> 0 .. TableSlots - 1]
    /\ table \in [0 .. TableSlots - 1 -> Int64 \cup {Sentinel}]
    /\ count \in Nat
    /\ overflow \in BOOLEAN

\* In that table, the slots v tries before its k-th are taken by other values.
Tried(tab, v, k) == \A m \in 0 .. k - 1 : tab[SlotOf(v, m)] \notin {Sentinel, v}

\* A value is in the first slot of its own that others had left to it.
Chained ==
    \A s \in 0 .. TableSlots - 1 : table[s] # Sentinel =>
        \E k \in 0 .. TableSlots - 1 : SlotOf(table[s], k) = s /\ Tried(table, table[s], k)

\* A thread that probes brings a value, and has passed what it has tried.
Passed ==
    \A t \in Threads : tpc[t] = "probe" =>
        HasValue(t) /\ Value(t) # Sentinel /\ Tried(table, Value(t), probe[t])

\* The counter runs behind the table by the threads that are to add to it.
Counting == {t \in Threads : tpc[t] = "count"}
Counted ==
    /\ IsFiniteSet(InTable)
    /\ Cardinality(InTable) = count + Cardinality(Counting)

Inv == Shape /\ Chained /\ Passed /\ Counted /\ OverflowIsTrue

-----------------------------------------------------------------------------
(* Lemmas.                                                                 *)

(* The threads that are to add to the counter are finitely many. *)
LEMMA CountingIsFinite ==
    ASSUME Assumptions
    PROVE  IsFiniteSet(Counting) /\ Cardinality(Counting) \in Nat
<1>1. IsFiniteSet(Threads)
  BY FS_Interval DEF Assumptions, GridAssumption, Threads
<1>2. Counting \in SUBSET Threads
  BY DEF Counting
<1> QED
  BY <1>1, <1>2, FS_Subset, FS_CardinalityType

(* A value that a thread brings to a slot is a value of the column, and the
   slot is in the table. *)
LEMMA Probing ==
    ASSUME Assumptions, Shape, Passed, NEW t \in Threads, tpc[t] = "probe"
    PROVE  /\ Value(t) \in Int64 /\ Value(t) # Sentinel
           /\ AtSlot(t) \in 0 .. TableSlots - 1
           /\ Tried(table, Value(t), probe[t])
           /\ probe[t] \in 0 .. TableSlots - 1 /\ TableSlots \in Nat
<1>1. ti[t] \in 1 .. Len(values)
  BY DEF Shape, Passed, HasValue
<1>2. Value(t) \in Int64
  BY <1>1 DEF Shape, Value
<1> QED
  BY <1>2 DEF Assumptions, GridAssumption, ProbeAssumption, Shape, Passed, AtSlot

(* Initially the table is empty. *)
LEMMA InitInv == ASSUME Assumptions PROVE StatsInit => Inv
<1> SUFFICES ASSUME StatsInit PROVE Inv
  OBVIOUS
<1>1. Shape
  <2>1. NThreads \in Nat /\ TableSlots \in Nat /\ 0 \in 0 .. TableSlots - 1 /\ values \in Seq(Int64)
    BY DEF StatsInit, Assumptions, WidthAssumption, GridAssumption
  <2>2. ti \in [Threads -> Nat \ {0}]
    <3>1. \A t \in Threads : t \in Nat \ {0}
      BY <2>1 DEF Threads
    <3> QED
      BY <3>1 DEF StatsInit
  <2>3. /\ tpc \in [Threads -> {"value", "probe", "count", "gcd", "done"}]
        /\ probe \in [Threads -> 0 .. TableSlots - 1]
    BY <2>1 DEF StatsInit
  <2>4. table \in [0 .. TableSlots - 1 -> Int64 \cup {Sentinel}]
    BY DEF StatsInit
  <2> QED
    BY <2>1, <2>2, <2>3, <2>4 DEF StatsInit, Shape
<1>2. Chained /\ Passed
  BY DEF StatsInit, Chained, Passed
<1>3. InTable = {}
  BY DEF StatsInit, InTable
<1>4. Counting = {}
  BY DEF StatsInit, Counting
<1>5. Counted
  BY <1>3, <1>4, FS_EmptySet DEF Counted, StatsInit
<1> QED
  BY <1>1, <1>2, <1>5 DEF Inv, OverflowIsTrue, StatsInit

(* A step that leaves the table, its counter and its flag alone, and after
   which nobody probes who did not probe, keeps everything. *)
LEMMA Kept ==
    ASSUME Inv, Shape', values' = values, table' = table, count' = count, overflow' = overflow,
           \A t \in Threads : tpc'[t] = "probe" =>
               HasValue(t)' /\ Value(t)' # Sentinel /\ Tried(table, Value(t)', probe'[t]),
           \A t \in Threads : tpc'[t] = "count" <=> tpc[t] = "count"
    PROVE  Inv'
<1>1. Chained' /\ OverflowIsTrue'
  BY DEF Inv, Chained, Tried, OverflowIsTrue, InTable
<1>2. Passed'
  BY DEF Passed, Tried
<1>3. InTable' = InTable /\ Counting' = Counting
  BY DEF InTable, Counting
<1>4. Counted'
  BY <1>3 DEF Inv, Counted
<1> QED
  BY <1>1, <1>2, <1>4 DEF Inv

-----------------------------------------------------------------------------
(* The steps of a thread.                                                  *)

(* A step keeps the types. *)
LEMMA NextShape ==
    ASSUME Assumptions, Inv, NEW t \in Threads, Step(t) PROVE Shape'
<1>0. NThreads \in Nat \ {0} /\ TableSlots \in Nat \ {0} /\ Shape
  BY DEF Assumptions, WidthAssumption, GridAssumption, Inv
<1>1. values' = values
  BY DEF Step
<1>2. tpc' \in [Threads -> {"value", "probe", "count", "gcd", "done"}]
  BY <1>0 DEF Step, ThreadStep, SkipTable, NoteSentinel, StartProbing, Claim, Found, Collide,
     CountSlot, MergeExtremes, MergeGcd, NextValue, Shape
<1>3. ti' \in [Threads -> Nat \ {0}]
  <2>1. ti' = ti \/ ti' = [ti EXCEPT ![t] = ti[t] + NThreads]
    BY DEF Step, ThreadStep, SkipTable, NoteSentinel, StartProbing, Claim, Found, Collide,
       CountSlot, MergeExtremes, MergeGcd, NextValue, Stride
  <2>2. ti[t] + NThreads \in Nat \ {0}
    BY <1>0 DEF Shape
  <2> QED
    BY <1>0, <2>1, <2>2 DEF Shape
<1>4. probe' \in [Threads -> 0 .. TableSlots - 1]
  <2>1. \/ probe' = probe \/ probe' = [probe EXCEPT ![t] = 0]
        \/ probe[t] # TableSlots - 1 /\ probe' = [probe EXCEPT ![t] = probe[t] + 1]
    BY DEF Step, ThreadStep, SkipTable, NoteSentinel, StartProbing, Claim, Found, Collide,
       CountSlot, MergeExtremes, MergeGcd
  <2>2. probe[t] \in 0 .. TableSlots - 1
    BY <1>0 DEF Shape
  <2> QED
    BY <1>0, <2>1, <2>2 DEF Shape
<1>5. table' \in [0 .. TableSlots - 1 -> Int64 \cup {Sentinel}]
  <2>1. CASE Claim(t)
    BY <1>0, <2>1, Probing DEF Claim, Shape, Inv
  <2>2. CASE ~Claim(t)
    BY <1>0, <2>2 DEF Step, ThreadStep, SkipTable, NoteSentinel, StartProbing, Found, Collide,
       CountSlot, MergeExtremes, MergeGcd, Shape
  <2> QED
    BY <2>1, <2>2
<1>6. count' \in Nat
  BY <1>0 DEF Step, ThreadStep, SkipTable, NoteSentinel, StartProbing, Claim, Found, Collide,
     CountSlot, MergeExtremes, MergeGcd, Shape
<1>7. overflow' \in BOOLEAN
  <2>1. \/ overflow' = overflow \/ overflow' = TRUE
        \/ overflow' = (overflow \/ Full(count + 1))
    BY DEF Step, ThreadStep, SkipTable, NoteSentinel, StartProbing, Claim, Found, Collide,
       CountSlot, MergeExtremes, MergeGcd
  <2>2. (overflow \/ Full(count + 1)) \in BOOLEAN
    BY Zenon
  <2> QED
    BY <1>0, <2>1, <2>2 DEF Shape
<1> QED
  BY <1>0, <1>1, <1>2, <1>3, <1>4, <1>5, <1>6, <1>7 DEF Shape

(* What a step of a thread leaves of the others. *)
LEMMA OthersStay ==
    ASSUME Assumptions, Inv, NEW t \in Threads, Step(t), NEW u \in Threads, u # t
    PROVE  /\ tpc'[u] = tpc[u] /\ probe'[u] = probe[u] /\ Value(u)' = Value(u)
           /\ HasValue(u)' <=> HasValue(u)
<1>1. ti'[u] = ti[u] /\ values' = values
  BY DEF Step, ThreadStep, SkipTable, NoteSentinel, StartProbing, Claim, Found, Collide,
     CountSlot, MergeExtremes, MergeGcd, NextValue, Inv, Shape
<1>2. tpc'[u] = tpc[u] /\ probe'[u] = probe[u]
  BY DEF Step, ThreadStep, SkipTable, NoteSentinel, StartProbing, Claim, Found, Collide,
     CountSlot, MergeExtremes, MergeGcd, NextValue, Inv, Shape
<1> QED
  BY <1>1, <1>2 DEF Value, HasValue

(* The steps that read the table, or do not look at it. *)
LEMMA ReadingStep ==
    ASSUME Assumptions, Inv, NEW t \in Threads, Step(t), table' = table, count' = count,
           overflow' = overflow
    PROVE  Inv'
<1>0. Shape' /\ Shape
  BY NextShape DEF Inv
<1>1. ~Claim(t) /\ ~CountSlot(t)
  <2>1. ~CountSlot(t)
    BY <1>0 DEF CountSlot, Shape
  <2>2. CASE Claim(t)
    <3>1. /\ AtSlot(t) \in 0 .. TableSlots - 1 /\ table[AtSlot(t)] = Sentinel /\ Value(t) # Sentinel
          /\ table' = [table EXCEPT ![AtSlot(t)] = Value(t)]
      BY <2>2, Probing DEF Claim, Inv
    <3> QED
      BY <1>0, <3>1 DEF Shape
  <2> QED
    BY <2>1, <2>2
<1>2. ASSUME NEW u \in Threads
      PROVE  /\ tpc'[u] = "count" <=> tpc[u] = "count"
             /\ tpc'[u] = "probe" =>
                    HasValue(u)' /\ Value(u)' # Sentinel /\ Tried(table, Value(u)', probe'[u])
  <2>1. CASE u # t
    BY <2>1, OthersStay DEF Inv, Passed
  <2>2. CASE u = t /\ StartProbing(t)
    <3>1. tpc'[t] = "probe" /\ probe'[t] = 0 /\ tpc[t] = "value"
      BY <1>0, <2>2 DEF StartProbing, Shape
    <3>2. HasValue(t)' /\ Value(t)' = Value(t) /\ Value(t) # Sentinel
      BY <2>2 DEF StartProbing, Step, HasValue, Value
    <3> QED
      BY <2>2, <3>1, <3>2 DEF Tried
  <2>3. CASE u = t /\ Collide(t)
    <3>1. CASE probe[t] = TableSlots - 1
      BY <1>0, <2>3, <3>1 DEF Collide, NextValue, Shape
    <3>2. CASE probe[t] # TableSlots - 1
      <4>1. /\ tpc' = tpc /\ tpc[t] = "probe" /\ ti' = ti /\ values' = values
            /\ probe'[t] = probe[t] + 1 /\ table[AtSlot(t)] \notin {Sentinel, Value(t)}
        BY <1>0, <2>3, <3>2 DEF Collide, Step, Shape
      <4>2. Value(t)' = Value(t) /\ (HasValue(t)' <=> HasValue(t))
        BY <4>1 DEF Value, HasValue
      <4>3. /\ HasValue(t) /\ Value(t) # Sentinel /\ Tried(table, Value(t), probe[t])
            /\ probe[t] \in Nat
        BY <1>0, <4>1, Probing DEF Inv, Passed
      <4>4. Tried(table, Value(t), probe[t] + 1)
        BY <4>1, <4>3 DEF Tried, AtSlot
      <4> QED
        BY <2>3, <4>1, <4>2, <4>3, <4>4
    <3> QED
      BY <3>1, <3>2
  <2>4. CASE u = t /\ ~StartProbing(t) /\ ~Collide(t)
    BY <1>0, <1>1, <2>4 DEF Step, ThreadStep, SkipTable, NoteSentinel, Found, MergeExtremes,
       MergeGcd, NextValue, Shape
  <2> QED
    BY <2>1, <2>2, <2>3, <2>4
<1>3. values' = values
  BY DEF Step
<1> QED
  BY <1>0, <1>2, <1>3, Kept

(* The last probe fails: every slot is taken, and the table is given up. *)
LEMMA TableFull ==
    ASSUME Assumptions, Inv, NEW t \in Threads, Step(t), Collide(t), probe[t] = TableSlots - 1
    PROVE  Inv'
<1>0. /\ Shape' /\ Shape /\ table' = table /\ count' = count /\ values' = values
      /\ tpc[t] = "probe" /\ tpc'[t] = "value"
  BY NextShape DEF Inv, Collide, NextValue, Step, Shape
<1>1. Sentinel \notin {table'[s] : s \in 0 .. TableSlots - 1}
  <2> SUFFICES ASSUME NEW s \in 0 .. TableSlots - 1 PROVE table[s] # Sentinel
    BY <1>0
  <2>1. Value(t) \in Int64 /\ Tried(table, Value(t), TableSlots - 1) /\ TableSlots \in Nat
    BY <1>0, Probing DEF Inv
  <2>2. PICK k \in 0 .. TableSlots - 1 : SlotOf(Value(t), k) = s
    BY <2>1 DEF Assumptions, ProbeAssumption
  <2>3. CASE k = TableSlots - 1
    BY <2>2, <2>3 DEF Collide, AtSlot
  <2>4. CASE k # TableSlots - 1
    <3>1. k \in 0 .. (TableSlots - 1) - 1
      BY <2>1, <2>4
    <3> QED
      BY <2>1, <2>2, <3>1 DEF Tried
  <2> QED
    BY <2>3, <2>4
<1>2. Chained'
  BY <1>0 DEF Inv, Chained, Tried
<1>3. Passed'
  <2> SUFFICES ASSUME NEW u \in Threads, tpc'[u] = "probe"
               PROVE  HasValue(u)' /\ Value(u)' # Sentinel /\ Tried(table, Value(u), probe[u])'
    BY DEF Passed
  <2>1. u # t
    BY <1>0
  <2> QED
    BY <1>0, <2>1, OthersStay DEF Inv, Passed, Tried
<1>4. Counted'
  <2>1. Counting' = Counting
    <3>1. \A u \in Threads : tpc'[u] = "count" <=> tpc[u] = "count"
      BY <1>0, OthersStay
    <3> QED
      BY <3>1 DEF Counting
  <2>2. InTable' = InTable
    BY <1>0 DEF InTable
  <2> QED
    BY <1>0, <2>1, <2>2 DEF Inv, Counted
<1> QED
  BY <1>0, <1>1, <1>2, <1>3, <1>4 DEF Inv, OverflowIsTrue

(* A slot is counted: the counter never passes the table. *)
LEMMA CountingStep ==
    ASSUME Assumptions, Inv, NEW t \in Threads, Step(t), CountSlot(t)
    PROVE  Inv'
<1>0. /\ Shape' /\ Shape /\ table' = table /\ count' = count + 1 /\ values' = values
      /\ tpc[t] = "count" /\ tpc'[t] = "value"
      /\ overflow' = (overflow \/ Full(count + 1))
      /\ TableLimit \in Nat /\ count \in Nat
  BY NextShape DEF Inv, CountSlot, NextValue, Step, Shape, Assumptions, WidthAssumption
<1>1. InTable' = InTable
  BY <1>0 DEF InTable
<1>2. Chained'
  BY <1>0 DEF Inv, Chained, Tried
<1>3. Passed'
  <2> SUFFICES ASSUME NEW u \in Threads, tpc'[u] = "probe"
               PROVE  HasValue(u)' /\ Value(u)' # Sentinel /\ Tried(table, Value(u), probe[u])'
    BY DEF Passed
  <2>1. u # t
    BY <1>0
  <2> QED
    BY <1>0, <2>1, OthersStay DEF Inv, Passed, Tried
<1>4. Counting' = Counting \ {t} /\ t \in Counting
  <2>1. \A u \in Threads : u # t => tpc'[u] = tpc[u]
    BY OthersStay
  <2> QED
    BY <1>0, <2>1 DEF Counting
<1>5. /\ Cardinality(Counting') = Cardinality(Counting) - 1
      /\ Cardinality(Counting) \in Nat /\ Cardinality(Counting') \in Nat
  <2>1. IsFiniteSet(Counting) /\ Cardinality(Counting) \in Nat
    BY CountingIsFinite
  <2> QED
    BY <1>4, <2>1, FS_RemoveElement, FS_CardinalityType
<1>6. Counted'
  BY <1>0, <1>1, <1>5 DEF Inv, Counted
<1>7. OverflowIsTrue'
  <2>1. CASE overflow
    BY <1>0, <1>1, <2>1 DEF Inv, OverflowIsTrue
  <2>2. CASE Full(count + 1)
    <3>1. Cardinality(InTable) >= count + 1
      BY <1>0, <1>5 DEF Inv, Counted
    <3>2. Cardinality(InTable') > TableLimit
      BY <1>0, <1>1, <1>5, <2>2, <3>1 DEF Full, Inv, Counted
    <3> QED
      BY <3>2 DEF OverflowIsTrue
  <2> QED
    BY <1>0, <2>1, <2>2 DEF OverflowIsTrue
<1> QED
  BY <1>0, <1>2, <1>3, <1>6, <1>7 DEF Inv

(* A value is put in the first slot of its own that is free, where it was not
   yet: had another thread put it in one it tries later, that slot would have
   been passed over a free one. *)
LEMMA NotYetThere ==
    ASSUME Assumptions, Inv, NEW t \in Threads, Claim(t), NEW s \in 0 .. TableSlots - 1
    PROVE  table[s] # Value(t)
<1>1. /\ Value(t) # Sentinel /\ Tried(table, Value(t), probe[t]) /\ probe[t] \in 0 .. TableSlots - 1
      /\ table[AtSlot(t)] = Sentinel /\ TableSlots \in Nat
  BY Probing DEF Claim, Inv
<1> SUFFICES ASSUME table[s] = Value(t) PROVE FALSE
  OBVIOUS
<1>2. PICK k \in 0 .. TableSlots - 1 : SlotOf(Value(t), k) = s /\ Tried(table, Value(t), k)
  BY <1>1 DEF Inv, Chained
<1>3. CASE k < probe[t]
  BY <1>1, <1>2, <1>3 DEF Tried
<1>4. CASE k = probe[t]
  BY <1>1, <1>2, <1>4 DEF AtSlot
<1>5. CASE k > probe[t]
  BY <1>1, <1>2, <1>5 DEF Tried, AtSlot
<1> QED
  BY <1>1, <1>2, <1>3, <1>4, <1>5

(* What has been tried stays tried: the slot that is taken now was free. *)
LEMMA TriedStays ==
    ASSUME Assumptions, Inv, NEW t \in Threads, Claim(t), NEW v \in Int64, NEW k \in Nat,
           k =< TableSlots, Tried(table, v, k)
    PROVE  Tried(table', v, k)
<1>1. /\ AtSlot(t) \in 0 .. TableSlots - 1 /\ table[AtSlot(t)] = Sentinel /\ TableSlots \in Nat
      /\ table' = [table EXCEPT ![AtSlot(t)] = Value(t)]
  BY Probing DEF Claim, Inv
<1> SUFFICES ASSUME NEW m \in 0 .. k - 1 PROVE table'[SlotOf(v, m)] \notin {Sentinel, v}
  BY DEF Tried
<1>2. m \in 0 .. TableSlots - 1 /\ table[SlotOf(v, m)] \notin {Sentinel, v}
  BY <1>1 DEF Tried
<1>3. SlotOf(v, m) \in 0 .. TableSlots - 1 /\ SlotOf(v, m) # AtSlot(t)
  BY <1>1, <1>2 DEF Assumptions, ProbeAssumption
<1> QED
  BY <1>1, <1>2, <1>3 DEF Inv, Shape

(* A slot is taken. *)
LEMMA ClaimingStep ==
    ASSUME Assumptions, Inv, NEW t \in Threads, Step(t), Claim(t)
    PROVE  Inv'
<1> DEFINE v == Value(t)
           here == AtSlot(t)
<1>0. /\ Shape' /\ Shape /\ values' = values /\ count' = count /\ overflow' = overflow
      /\ table' = [table EXCEPT ![here] = v] /\ table[here] = Sentinel
      /\ tpc[t] = "probe" /\ tpc'[t] = "count"
  BY NextShape DEF Inv, Claim, Step, Shape
<1>1. /\ v \in Int64 /\ v # Sentinel /\ here \in 0 .. TableSlots - 1 /\ Tried(table, v, probe[t])
      /\ probe[t] \in 0 .. TableSlots - 1 /\ TableSlots \in Nat /\ here = SlotOf(v, probe[t])
  BY <1>0, Probing DEF Inv, AtSlot
<1> HIDE DEF v, here
<1>2. table'[here] = v /\ \A s \in 0 .. TableSlots - 1 : s # here => table'[s] = table[s]
  BY <1>0, <1>1 DEF Shape
<1>3. Chained'
  <2> SUFFICES ASSUME NEW s \in 0 .. TableSlots - 1, table'[s] # Sentinel
               PROVE  \E k \in 0 .. TableSlots - 1 :
                          SlotOf(table'[s], k) = s /\ Tried(table', table'[s], k)
    BY DEF Chained, Tried
  <2>1. CASE s = here
    <3>1. Tried(table', v, probe[t])
      BY <1>1, TriedStays
    <3> QED
      BY <1>1, <1>2, <2>1, <3>1 DEF Tried
  <2>2. CASE s # here
    <3>1. table'[s] = table[s] /\ table[s] \in Int64
      BY <1>0, <1>2, <2>2 DEF Shape
    <3>2. PICK k \in 0 .. TableSlots - 1 : SlotOf(table[s], k) = s /\ Tried(table, table[s], k)
      BY <3>1 DEF Inv, Chained
    <3>3. \A x \in Int64 : Tried(table, x, k) => Tried(table', x, k)
      BY <1>1, TriedStays
    <3> QED
      BY <3>1, <3>2, <3>3 DEF Tried
  <2> QED
    BY <2>1, <2>2
<1>4. Passed'
  <2> SUFFICES ASSUME NEW u \in Threads, tpc'[u] = "probe"
               PROVE  (HasValue(u) /\ Value(u) # Sentinel /\ Tried(table, Value(u), probe[u]))'
    BY DEF Passed
  <2>1. u # t
    BY <1>0
  <2>2. /\ tpc[u] = "probe" /\ probe'[u] = probe[u] /\ Value(u)' = Value(u)
        /\ HasValue(u)' <=> HasValue(u)
    BY <2>1, OthersStay
  <2>3. /\ HasValue(u) /\ Value(u) # Sentinel /\ Value(u) \in Int64
        /\ Tried(table, Value(u), probe[u]) /\ probe[u] \in 0 .. TableSlots - 1
    BY <2>2, Probing DEF Inv, Passed
  <2>4. \A x \in Int64 : Tried(table, x, probe[u]) => Tried(table', x, probe[u])
    BY <1>1, <2>2, <2>3, TriedStays DEF Tried
  <2> QED
    BY <2>2, <2>3, <2>4 DEF Tried
<1>5. Counted'
  <2>1. InTable' = InTable \cup {v} /\ v \notin InTable
    <3>1. \A s \in 0 .. TableSlots - 1 : table[s] # v
      BY NotYetThere DEF v
    <3> QED
      BY <1>0, <1>1, <1>2, <3>1 DEF InTable
  <2>2. Counting' = Counting \cup {t} /\ t \notin Counting
    <3>1. \A u \in Threads : u # t => tpc'[u] = tpc[u]
      BY OthersStay
    <3> QED
      BY <1>0, <3>1 DEF Counting
  <2>3. IsFiniteSet(InTable') /\ Cardinality(InTable') = Cardinality(InTable) + 1
    BY <2>1, FS_AddElement DEF Inv, Counted
  <2>4. /\ Cardinality(Counting') = Cardinality(Counting) + 1
        /\ Cardinality(Counting) \in Nat
    BY <2>2, CountingIsFinite, FS_AddElement
  <2>5. Cardinality(InTable) = count + Cardinality(Counting) /\ count \in Nat
    BY <1>0 DEF Inv, Counted, Shape
  <2> QED
    BY <1>0, <2>3, <2>4, <2>5 DEF Counted
<1>6. OverflowIsTrue'
  <2> SUFFICES ASSUME overflow PROVE OverflowIsTrue'
    BY <1>0 DEF OverflowIsTrue
  <2>1. Sentinel \in {table[s] : s \in 0 .. TableSlots - 1}
    BY <1>0, <1>1
  <2>2. Cardinality(InTable) > TableLimit
    BY <2>1 DEF Inv, OverflowIsTrue
  <2>3. Cardinality(InTable') = Cardinality(InTable) + 1
    <3>1. InTable' = InTable \cup {v} /\ v \notin InTable
      <4>1. \A s \in 0 .. TableSlots - 1 : table[s] # v
        BY NotYetThere DEF v
      <4> QED
        BY <1>0, <1>1, <1>2, <4>1 DEF InTable
    <3> QED
      BY <3>1, FS_AddElement DEF Inv, Counted
  <2>4. Cardinality(InTable) \in Nat /\ TableLimit \in Nat
    BY FS_CardinalityType DEF Inv, Counted, Assumptions, WidthAssumption
  <2>5. Cardinality(InTable') > TableLimit
    BY <2>2, <2>3, <2>4
  <2> QED
    BY <2>5 DEF OverflowIsTrue
<1> QED
  BY <1>0, <1>3, <1>4, <1>5, <1>6 DEF Inv

(* Every step keeps the invariant. *)
LEMMA NextInv == ASSUME Assumptions, Inv, [StatsNext]_statsVars PROVE Inv'
<1>1. ASSUME NEW t \in Threads, Step(t) PROVE Inv'
  <2>1. CASE CountSlot(t)
    BY <1>1, <2>1, CountingStep
  <2>2. CASE Claim(t)
    BY <1>1, <2>2, ClaimingStep
  <2>3. CASE Collide(t) /\ probe[t] = TableSlots - 1
    BY <1>1, <2>3, TableFull
  <2>4. CASE ~CountSlot(t) /\ ~Claim(t) /\ ~(Collide(t) /\ probe[t] = TableSlots - 1)
    <3>1. table' = table /\ count' = count /\ overflow' = overflow
      BY <1>1, <2>4 DEF Step, ThreadStep, SkipTable, NoteSentinel, StartProbing, Found,
         Collide, MergeExtremes, MergeGcd
    <3> QED
      BY <1>1, <3>1, ReadingStep
  <2> QED
    BY <2>1, <2>2, <2>3, <2>4
<1>2. CASE UNCHANGED statsVars
  <2>1. /\ values' = values /\ table' = table /\ count' = count /\ overflow' = overflow
        /\ tpc' = tpc /\ ti' = ti /\ probe' = probe
    BY <1>2 DEF statsVars
  <2>2. Shape'
    BY <2>1 DEF Inv, Shape
  <2>3. ASSUME NEW t \in Threads, tpc'[t] = "probe"
        PROVE  HasValue(t)' /\ Value(t)' # Sentinel /\ Tried(table, Value(t)', probe'[t])
    BY <2>1, <2>3 DEF Inv, Passed, HasValue, Value
  <2> QED
    BY <2>1, <2>2, <2>3, Kept
<1> QED
  BY <1>1, <1>2 DEF StatsNext

(* Two slots with one value are the first of its slots that others had left. *)
LEMMA OnceEach == ASSUME Assumptions, Inv PROVE NoValueTwice
<1> SUFFICES ASSUME Inv, NEW s \in 0 .. TableSlots - 1, NEW u \in 0 .. TableSlots - 1,
                    table[s] = table[u], table[s] # Sentinel
             PROVE  s = u
  BY DEF NoValueTwice
<1>1. PICK k \in 0 .. TableSlots - 1 : SlotOf(table[s], k) = s /\ Tried(table, table[s], k)
  BY DEF Inv, Chained
<1>2. PICK m \in 0 .. TableSlots - 1 : SlotOf(table[s], m) = u /\ Tried(table, table[s], m)
  BY DEF Inv, Chained
<1>3. ~(k < m) /\ ~(m < k)
  BY <1>1, <1>2 DEF Tried
<1> QED
  BY <1>1, <1>2, <1>3

-----------------------------------------------------------------------------
(* What the table promises.                                                *)

(* Threads that race for a slot with one value never store it twice, whatever
   order the probes have and however full the table is. *)
THEOREM EveryValueOnce == ASSUME Assumptions PROVE StatsSpec => []NoValueTwice
<1>1. StatsInit => Inv
  BY InitInv
<1>2. Inv /\ [StatsNext]_statsVars => Inv'
  BY NextInv
<1>3. Inv => NoValueTwice
  BY OnceEach
<1> QED
  BY <1>1, <1>2, <1>3, PTL DEF StatsSpec

(* The table is given up only when it holds more values than the limit, or no
   slot is free: the counter, which runs behind it, never runs ahead. *)
THEOREM GivenUpInTime == ASSUME Assumptions PROVE StatsSpec => []OverflowIsTrue
<1>1. StatsInit => Inv
  BY InitInv
<1>2. Inv /\ [StatsNext]_statsVars => Inv'
  BY NextInv
<1>3. Inv => OverflowIsTrue
  BY DEF Inv
<1> QED
  BY <1>1, <1>2, <1>3, PTL DEF StatsSpec

-----------------------------------------------------------------------------
(* bin_gcd.                                                                *)

\* The loop is the function its equation describes.
LEMMA RestLoopUnfolds ==
    ASSUME NEW a \in Positive, NEW b \in Nat, NEW o \in Nat, o = OddPart[b]
    PROVE  RestLoop[<<a, b>>] =
               IF o = 0 THEN a ELSE RestLoop[<<Lesser(a, o), Greater(a, o) - Lesser(a, o)>>]
<1> DEFINE D == Positive \X Nat
           odd(p) == OddPart[p[2]]
           stop == {p \in D : odd(p) = 0}
           val == [p \in D |-> p[1]]
           next == [p \in D |-> IF p \in stop THEN p
                                ELSE <<Lesser(p[1], odd(p)), Greater(p[1], odd(p)) - Lesser(p[1], odd(p))>>]
           turn == [p \in D |-> [v \in Int |-> v]]
           rank == [p \in D |-> p[1] + p[2]]
<1>1. ASSUME NEW p \in D
      PROVE  /\ val[p] \in Int /\ turn[p] \in [Int -> Int] /\ rank[p] \in Nat /\ next[p] \in D
             /\ p \notin stop => rank[next[p]] < rank[p]
  <2>1. PICK x \in Positive, y \in Nat : x = p[1] /\ y = p[2] /\ p = <<x, y>>
    OBVIOUS
  <2>2. PICK z \in Nat : z = OddPart[y] /\ z =< y
    <3>1. CASE y = 0
      BY <3>1, OddPartUnfolds
    <3>2. CASE y # 0
      <4>1. y \in Positive
        BY <3>2 DEF Positive
      <4> QED
        BY <4>1, Splits DEF SplitsAt, Positive
    <3> QED
      BY <3>1, <3>2
  <2>3. x \in Nat /\ x # 0
    BY DEF Positive
  <2>4. val[p] = x /\ val[p] \in Int /\ rank[p] = x + y /\ rank[p] \in Nat
    BY <2>1, <2>3
  <2>5. ASSUME p \notin stop PROVE next[p] \in D /\ rank[next[p]] < rank[p]
    <3>1. z # 0
      BY <2>1, <2>2, <2>5
    <3>2. PICK l \in Positive, d \in Nat : l = Lesser(x, z) /\ d = Greater(x, z) - Lesser(x, z)
      BY <2>2, <2>3, <3>1 DEF Lesser, Greater, Positive
    <3>3. l + d < x + y
      BY <2>2, <2>3, <3>1, <3>2 DEF Lesser, Greater, Positive
    <3>4. next[p] = <<l, d>>
      BY <2>1, <2>2, <2>5, <3>2
    <3>5. rank[<<l, d>>] = l + d
      OBVIOUS
    <3> QED
      BY <2>4, <3>3, <3>4, <3>5
  <2>6. p \in stop => next[p] = p
    OBVIOUS
  <2> HIDE DEF val, rank, next, stop
  <2> QED
    BY <2>4, <2>5, <2>6
<1>2. Recursion(D, Int, stop, val, next, turn, rank)
  <2>1. val \in [D -> Int] /\ turn \in [D -> [Int -> Int]] /\ rank \in [D -> Nat] /\ next \in [D -> D]
    <3>1. val = [p \in D |-> val[p]] /\ rank = [p \in D |-> rank[p]] /\ next = [p \in D |-> next[p]]
          /\ turn = [p \in D |-> turn[p]]
      OBVIOUS
    <3> HIDE DEF D, val, rank, next, stop, turn
    <3> QED
      BY <1>1, <3>1
  <2> HIDE DEF D, val, rank, next, stop, turn
  <2> QED
    BY <1>1, <2>1 DEF Recursion
<1>3. PICK f \in [D -> Int] : Unfolds(f, D, stop, val, next, turn)
  <2> HIDE DEF D, val, rank, next, stop, turn
  <2> QED
    BY <1>2, RecursionExists
<1>4. ASSUME NEW p \in D
      PROVE  f[p] = LET q == OddPart[p[2]] IN
                    IF q = 0 THEN p[1]
                    ELSE f[<<Lesser(p[1], q), Greater(p[1], q) - Lesser(p[1], q)>>]
  <2>1. f[p] = IF p \in stop THEN val[p] ELSE turn[p][f[next[p]]]
    <3> HIDE DEF D, val, next, stop, turn
    <3> QED
      BY <1>3 DEF Unfolds
  <2>2. turn[p][f[next[p]]] = f[next[p]]
    <3>1. f[next[p]] \in Int
      <4> HIDE DEF D, val, rank, next, stop, turn
      <4> QED
        BY <1>1
    <3> QED
      BY <3>1
  <2>3. p \in stop <=> OddPart[p[2]] = 0
    OBVIOUS
  <2>4. val[p] = p[1]
    OBVIOUS
  <2>5. p \notin stop => next[p] = <<Lesser(p[1], OddPart[p[2]]), Greater(p[1], OddPart[p[2]]) - Lesser(p[1], OddPart[p[2]])>>
    OBVIOUS
  <2> HIDE DEF D, val, rank, next, stop, turn
  <2> QED
    BY <2>1, <2>2, <2>3, <2>4, <2>5
<1>5. f = [p \in D |-> LET q == OddPart[p[2]] IN
                    IF q = 0 THEN p[1]
                    ELSE f[<<Lesser(p[1], q), Greater(p[1], q) - Lesser(p[1], q)>>]]
  <2> HIDE DEF D, val, rank, next, stop, turn
  <2> QED
    BY <1>3, <1>4
<1>6. RestLoop = [p \in D |-> LET q == OddPart[p[2]] IN
                    IF q = 0 THEN p[1]
                    ELSE RestLoop[<<Lesser(p[1], q), Greater(p[1], q) - Lesser(p[1], q)>>]]
  <2> HIDE DEF val, rank, next, stop, turn
  <2> QED
    BY <1>5, Zenon DEF RestLoop
<1>7. <<a, b>> \in D /\ <<a, b>>[1] = a /\ <<a, b>>[2] = b
  OBVIOUS
<1>8. RestLoop[<<a, b>>] = LET q == OddPart[b] IN
                          IF q = 0 THEN a
                          ELSE RestLoop[<<Lesser(a, q), Greater(a, q) - Lesser(a, q)>>]
  <2> HIDE DEF D, val, rank, next, stop, turn
  <2> QED
    BY <1>6, <1>7
<1> QED
  BY <1>8

\* It ends on the odd part of the common divisor.
LEMMA RestLoopIsCommon ==
    ASSUME NEW a \in Positive, ~ Even(a), NEW b \in Nat
    PROVE  OddCommon(RestLoop[<<a, b>>], a, b)
<1> DEFINE P == {n \in Nat : \A x \in Positive, y \in Nat :
                                x + y =< n /\ ~ Even(x) => OddCommon(RestLoop[<<x, y>>], x, y)}
<1>1. 0 \in P
  BY DEF Positive
<1>2. ASSUME NEW n \in P PROVE n + 1 \in P
  <2>1. ASSUME NEW x \in Positive, NEW y \in Nat, x + y =< n + 1, ~ Even(x)
        PROVE  OddCommon(RestLoop[<<x, y>>], x, y)
    <3>0. x \in Nat /\ x # 0
      BY DEF Positive
    <3>1. CASE y = 0
      <4>1. PICK o \in Nat : o = OddPart[y] /\ o = 0
        BY <3>1, OddPartUnfolds
      <4>2. RestLoop[<<x, y>>] = x
        BY <4>1, RestLoopUnfolds
      <4>3. \A e \in Positive : Divides(e, 0)
        BY DividesSimple
      <4> QED
        BY <2>1, <3>1, <4>2, <4>3 DEF OddCommon
    <3>2. CASE y # 0
      <4>1. y \in Positive
        BY <3>2 DEF Positive
      <4>2. PICK o \in Positive : o = OddPart[y] /\ o =< y /\ ~ Even(o)
        BY <4>1, Splits DEF SplitsAt
      <4>3. \A e \in Positive : ~ Even(e) => (Divides(e, o) <=> Divides(e, y))
        BY <4>1, <4>2, OddDivisors
      <4>4. o \in Nat /\ o # 0
        BY DEF Positive
      <4>5. PICK l \in Positive, d \in Nat : l = Lesser(x, o) /\ d = Greater(x, o) - Lesser(x, o)
        <5>1. Lesser(x, o) \in Positive
          BY <3>0, <4>4 DEF Lesser, Positive
        <5>2. Greater(x, o) - Lesser(x, o) \in Nat
          BY <3>0, <4>4 DEF Lesser, Greater
        <5> QED
          BY <5>1, <5>2
      <4>6. l + d =< n /\ ~ Even(l)
        BY <2>1, <3>0, <4>2, <4>4, <4>5 DEF Lesser, Greater, Positive
      <4>7. OddCommon(RestLoop[<<l, d>>], l, d)
        BY <4>6
      <4>8. RestLoop[<<x, y>>] = RestLoop[<<l, d>>]
        BY <4>2, <4>4, <4>5, RestLoopUnfolds
      <4>9. \A e \in Positive : Divides(e, l) /\ Divides(e, d) <=> Divides(e, x) /\ Divides(e, o)
        <5>1. CASE x = o
          <6>1. l = x /\ d = 0
            BY <3>0, <4>5, <5>1 DEF Lesser, Greater
          <6> QED
            BY <5>1, <6>1, DividesSimple
        <5>2. CASE x # o
          BY <4>5, <5>2, SubtractIsCommon
        <5> QED
          BY <5>1, <5>2
      <4> QED
        BY <4>3, <4>7, <4>8, <4>9 DEF OddCommon
    <3> QED
      BY <3>1, <3>2
  <2> QED
    BY <2>1
<1>3. P = Nat
  BY <1>1, <1>2, NatSteps
<1>4. a + b \in P /\ a + b =< a + b
  <2>1. a + b \in Nat
    BY DEF Positive
  <2> QED
    BY <1>3, <2>1
<1> QED
  BY <1>4

(* bin_gcd is gcd_compute's result, wrapped: exact where the operands are
   differences that did not wrap. *)
LEMMA BinGcd ==
    ASSUME WidthAssumption, NEW a \in Int, NEW b \in Int
    PROVE  /\ bin_gcd(a, b) \in Int64
           /\ Abs(a) \in 0 .. High /\ Abs(b) \in 0 .. High
                => bin_gcd(a, b) \in 0 .. High /\ Common(bin_gcd(a, b), Abs(a), Abs(b))
<1>1. PICK x \in Nat, y \in Nat : x = Abs(a) /\ y = Abs(b)
  BY DEF Abs
<1>2. \A e \in Positive : Divides(e, 0)
  BY DividesSimple
<1>3. PICK g \in Nat : bin_gcd(a, b) = Wrap(g) /\ Common(g, x, y)
  <2>1. CASE x = 0
    BY <1>1, <1>2, <2>1 DEF bin_gcd, Common
  <2>2. CASE x # 0 /\ y = 0
    BY <1>1, <1>2, <2>2 DEF bin_gcd, Common
  <2>3. CASE x # 0 /\ y # 0
    <3>1. x \in Positive /\ y \in Positive
      BY <2>3 DEF Positive
    <3>2. OddPart[x] \in Positive /\ ~ Even(OddPart[x])
      BY <3>1, Splits DEF SplitsAt
    <3>3. Common(RestLoop[<<OddPart[x], y>>] * Lesser(Twos(x), Twos(y)), x, y)
      BY <3>1, <3>2, RestLoopIsCommon, CommonOfParts
    <3> QED
      BY <1>1, <2>3, <3>3 DEF bin_gcd, Common
  <2> QED
    BY <2>1, <2>2, <2>3
<1>4. bin_gcd(a, b) \in Int64
  BY <1>3, WrapFacts
<1>5. ASSUME x \in 0 .. High, y \in 0 .. High
      PROVE  g \in 0 .. High /\ Wrap(g) = g
  <2>1. High \in Nat /\ 0 .. High \subseteq Int64
    BY Ranges DEF Positive
  <2>2. g =< x \/ g =< y \/ g = 0
    <3> SUFFICES ASSUME g # 0 PROVE g =< x \/ g =< y
      OBVIOUS
    <3>1. g \in Positive /\ Divides(g, g)
      BY DividesSimple DEF Positive
    <3>2. Divides(g, x) /\ Divides(g, y) /\ (x \in Positive \/ y \in Positive)
      BY <1>3, <3>1 DEF Common, Positive
    <3> QED
      BY <3>1, <3>2, DividesSimple
  <2>3. g \in 0 .. High
    BY <1>5, <2>1, <2>2
  <2> QED
    BY <2>1, <2>3, WrapFacts
<1> QED
  BY <1>1, <1>3, <1>4, <1>5

-----------------------------------------------------------------------------
(* What the device's statistics are, while the grid runs: each thread folds *)
(* the values of its stride, and merges its folds into global memory.       *)

Column == {values[n] : n \in DOMAIN values}
AllHalf == Column \subseteq HalfRange

\* The positions of a thread, those it has left, those it has folded.
Mine(t) == {n \in 1 .. Len(values) : \E k \in Nat : n = t + NThreads * k}
Before(t) == {n \in Mine(t) : n < ti[t]}
Folded(t) == Before(t) \cup (IF tpc[t] \in {"probe", "count"} THEN {ti[t]} ELSE {})
Brought(t) == {values[n] : n \in Folded(t)}

\* What divides g divides h.
Reaches(g, h) == \A e \in Positive : Divides(e, g) => Divides(e, h)

\* Types, of what Shape leaves out.
Memory ==
    /\ values # <<>>
    /\ lmin \in [Threads -> Int64] /\ lmax \in [Threads -> Int64]
    /\ lgcd \in [Threads -> Int64] /\ cur \in [Threads -> Int64]
    /\ has_sentinel \in BOOLEAN /\ out_of_range \in BOOLEAN
    /\ out_min \in Int64 /\ out_max \in Int64
    /\ gcds \in Seq(Int64) /\ gcds # <<>>

OnStride(t) == \E k \in Nat : ti[t] = t + NThreads * k

\* The folds of a thread are those of the values it brought.
Extremes(t) ==
    /\ lmin[t] \in Column \cup {High} /\ \A v \in Brought(t) : lmin[t] =< v
    /\ lmax[t] \in Column \cup {Low} /\ \A v \in Brought(t) : v =< lmax[t]
Divisor(t) ==
    /\ out_of_range \/ Brought(t) \subseteq HalfRange
    /\ AllHalf => /\ lgcd[t] \in 0 .. High
                  /\ CommonOf(lgcd[t], Differences(Brought(t), values[1]))

\* What a thread has left is in the table, is noted apart, or no longer matters.
Entered(t) ==
    /\ overflow \/ \A n \in Before(t) :
                       values[n] \in InTable \/ (has_sentinel /\ values[n] = Sentinel)
    /\ tpc[t] = "count" => HasValue(t) /\ Value(t) \in InTable

\* A thread that has merged its folds has nothing left to fold.
HandedOn(t) ==
    /\ tpc[t] \in {"gcd", "done"} =>
           ~ HasValue(t) /\ out_min =< lmin[t] /\ lmax[t] =< out_max
    /\ AllHalf /\ tpc[t] = "gcd" => cur[t] \in 0 .. High /\ Reaches(gcd_accum, cur[t])
    /\ AllHalf /\ tpc[t] = "done" => Reaches(gcd_accum, lgcd[t])

\* Global memory has no value but the column's, and the divisor only shrinks.
FromColumn ==
    /\ InTable \subseteq Column /\ (has_sentinel => Sentinel \in Column)
    /\ out_of_range => ~ AllHalf
    /\ out_min \in Column \cup {High} /\ out_max \in Column \cup {Low}
Accumulated ==
    AllHalf =>
        /\ \A n \in DOMAIN gcds : gcds[n] \in 0 .. High /\ Reaches(gcd_accum, gcds[n])
        /\ \A e \in Positive :
               (\A d \in Differences(Column, values[1]) : Divides(e, d)) => Divides(e, gcd_accum)

Story ==
    /\ Memory /\ FromColumn /\ Accumulated
    /\ \A t \in Threads : OnStride(t) /\ Extremes(t) /\ Divisor(t) /\ Entered(t) /\ HandedOn(t)

-----------------------------------------------------------------------------

LEMMA Strides ==
    ASSUME NEW N \in Nat \ {0}, NEW a \in Nat, NEW b \in Nat, a < b PROVE N * a + N =< N * b
<1>1. PICK c \in Nat : b = a + 1 + c
  BY b - a - 1 \in Nat
<1>2. N * b = N * a + N + N * c /\ N * c \in Nat
  BY <1>1
<1> QED
  BY <1>2

\* A thread that goes on leaves one position behind it.
LEMMA Advances ==
    ASSUME Assumptions, Inv, NEW t \in Threads, OnStride(t), HasValue(t), values' = values,
           ti'[t] = ti[t] + NThreads
    PROVE  Before(t)' = Before(t) \cup {ti[t]} /\ ti[t] \in 1 .. Len(values)
<1>1. /\ NThreads \in Nat \ {0} /\ t \in Nat /\ ti[t] \in 1 .. Len(values)
      /\ Len(values) \in Nat /\ Threads \subseteq Nat
  BY DEF Assumptions, GridAssumption, Inv, Shape, Threads, HasValue
<1>2. PICK k \in Nat : ti[t] = t + NThreads * k
  BY DEF OnStride
<1>3. Mine(t)' = Mine(t)
  BY DEF Mine
<1>4. ASSUME NEW n \in Mine(t) PROVE n < ti[t] + NThreads <=> n < ti[t] \/ n = ti[t]
  <2>1. PICK j \in Nat : n = t + NThreads * j
    BY DEF Mine
  <2>2. PICK x \in Nat, y \in Nat : x = NThreads * k /\ y = NThreads * j
    BY <1>1
  <2>3. (k < j => x + NThreads =< y) /\ (j < k => y + NThreads =< x) /\ (j = k => x = y)
    BY <1>1, <2>2, Strides
  <2>4. k < j \/ j < k \/ j = k
    OBVIOUS
  <2> QED
    BY <1>1, <1>2, <2>1, <2>2, <2>3, <2>4
<1>5. ti[t] \in Mine(t)
  BY <1>1, <1>2 DEF Mine
<1>6. Before(t)' = {n \in Mine(t) : n < ti[t] + NThreads}
  BY <1>3 DEF Before
<1>7. Before(t)' = Before(t) \cup {ti[t]}
  BY <1>4, <1>5, <1>6 DEF Before
<1> QED
  BY <1>1, <1>7

\* What a step leaves of the other threads' folds.
LEMMA OthersKeep ==
    ASSUME Assumptions, Inv, Memory, NEW t \in Threads, Step(t), NEW u \in Threads, u # t
    PROVE  /\ tpc'[u] = tpc[u] /\ ti'[u] = ti[u] /\ values' = values
           /\ lmin'[u] = lmin[u] /\ lmax'[u] = lmax[u] /\ lgcd'[u] = lgcd[u] /\ cur'[u] = cur[u]
<1>1. ti'[u] = ti[u] /\ values' = values /\ tpc'[u] = tpc[u]
  BY DEF Step, ThreadStep, SkipTable, NoteSentinel, StartProbing, Claim, Found, Collide,
     CountSlot, MergeExtremes, MergeGcd, NextValue, Inv, Shape
<1>2. lmin'[u] = lmin[u] /\ lmax'[u] = lmax[u] /\ lgcd'[u] = lgcd[u]
  BY DEF Step, ThreadStep, SkipTable, NoteSentinel, StartProbing, Claim, Found, Collide,
     CountSlot, MergeExtremes, MergeGcd, FoldLocal, local, Memory
<1>3. cur'[u] = cur[u]
  BY DEF Step, ThreadStep, SkipTable, NoteSentinel, StartProbing, Claim, Found, Collide,
     CountSlot, MergeExtremes, MergeGcd, FoldLocal, local, Memory
<1> QED
  BY <1>1, <1>2, <1>3

\* The value a thread is at is the column's.
LEMMA AtValue ==
    ASSUME Assumptions, Inv, NEW t \in Threads, HasValue(t)
    PROVE  ti[t] \in 1 .. Len(values) /\ Value(t) \in Column /\ Value(t) \in Int64
  BY DEF Inv, Shape, HasValue, Value, Column

\* A step that folds a value brings it, another brings nothing.
LEMMA Brings ==
    ASSUME Assumptions, Inv, Story, NEW t \in Threads, Step(t)
    PROVE  IF tpc[t] = "value" /\ HasValue(t)
           THEN FoldLocal(t) /\ Brought(t)' = Brought(t) \cup {Value(t)}
           ELSE Brought(t)' = Brought(t) /\ lmin' = lmin /\ lmax' = lmax /\ lgcd' = lgcd
                /\ out_of_range' = out_of_range
<1>0. /\ NThreads \in Nat \ {0} /\ Shape /\ Memory /\ OnStride(t) /\ values' = values
  BY DEF Assumptions, GridAssumption, Inv, Story, Step
<1>1. CASE tpc[t] = "value" /\ HasValue(t)
  <2>1. SkipTable(t) \/ NoteSentinel(t) \/ StartProbing(t)
    BY <1>1 DEF Step, ThreadStep, Claim, Found, Collide, CountSlot, MergeExtremes, MergeGcd
  <2>2. FoldLocal(t)
    BY <2>1 DEF SkipTable, NoteSentinel, StartProbing
  <2>3. Folded(t) = Before(t)
    BY <1>1 DEF Folded
  <2>4. CASE NextValue(t)
    <3>1. tpc'[t] = "value" /\ ti'[t] = ti[t] + NThreads
      BY <1>0, <2>4 DEF NextValue, Stride, Shape
    <3>2. Before(t)' = Before(t) \cup {ti[t]}
      BY <1>0, <1>1, <3>1, Advances
    <3>3. Folded(t)' = Folded(t) \cup {ti[t]}
      BY <2>3, <3>1, <3>2 DEF Folded
    <3> QED
      BY <1>0, <1>1, <2>2, <3>3 DEF Brought, Value
  <2>5. CASE tpc' = [tpc EXCEPT ![t] = "probe"] /\ ti' = ti
    <3>1. tpc'[t] = "probe"
      BY <1>0, <2>5 DEF Shape
    <3>2. Before(t)' = Before(t)
      BY <1>0, <2>5 DEF Before, Mine
    <3>3. Folded(t)' = Folded(t) \cup {ti[t]}
      BY <2>3, <2>5, <3>1, <3>2 DEF Folded
    <3> QED
      BY <1>0, <1>1, <2>2, <3>3 DEF Brought, Value
  <2> QED
    BY <2>1, <2>4, <2>5 DEF SkipTable, NoteSentinel, StartProbing
<1>2. CASE ~ (tpc[t] = "value" /\ HasValue(t))
  <2>1. /\ Claim(t) \/ Found(t) \/ Collide(t) \/ CountSlot(t) \/ MergeExtremes(t) \/ MergeGcd(t)
        /\ lmin' = lmin /\ lmax' = lmax /\ lgcd' = lgcd /\ out_of_range' = out_of_range
    BY <1>2 DEF Step, ThreadStep, SkipTable, NoteSentinel, StartProbing, Claim, Found, Collide,
       CountSlot, MergeExtremes, MergeGcd, local
  <2>2. CASE tpc[t] \in {"probe", "count"} /\ NextValue(t)
    <3>1. tpc'[t] = "value" /\ ti'[t] = ti[t] + NThreads
      BY <1>0, <2>2 DEF NextValue, Stride, Shape
    <3>2. HasValue(t)
      BY <2>2 DEF Inv, Passed, Story, Entered
    <3>3. Before(t)' = Before(t) \cup {ti[t]}
      BY <1>0, <3>1, <3>2, Advances
    <3>4. Folded(t)' = Folded(t)
      BY <2>2, <3>1, <3>3 DEF Folded
    <3> QED
      BY <1>0, <1>2, <2>1, <3>4 DEF Brought
  <2>3. CASE ti' = ti /\ (tpc'[t] \in {"probe", "count"} <=> tpc[t] \in {"probe", "count"})
    <3>1. Before(t)' = Before(t)
      BY <1>0, <2>3 DEF Before, Mine
    <3>2. Folded(t)' = Folded(t)
      BY <2>3, <3>1 DEF Folded
    <3> QED
      BY <1>0, <1>2, <2>1, <3>2 DEF Brought
  <2>4. CASE Claim(t)
    BY <1>0, <2>3, <2>4 DEF Claim, Shape
  <2>5. CASE Found(t) \/ CountSlot(t)
    BY <2>2, <2>5 DEF Found, CountSlot
  <2>6. CASE Collide(t)
    BY <1>0, <2>2, <2>3, <2>6 DEF Collide
  <2>7. CASE MergeExtremes(t)
    BY <1>0, <2>3, <2>7 DEF MergeExtremes, Shape
  <2>8. CASE MergeGcd(t)
    <3>1. ti' = ti /\ tpc[t] = "gcd" /\ tpc'[t] \in {"gcd", "done"}
      BY <1>0, <2>8 DEF MergeGcd, Shape
    <3> QED
      BY <2>3, <3>1
  <2> QED
    BY <2>1, <2>4, <2>5, <2>6, <2>7, <2>8
<1> QED
  BY <1>1, <1>2

\* Each value of the table stays, and another is only ever one a thread brings.
LEMMA TableKeeps ==
    ASSUME Assumptions, Inv, Story, NEW t \in Threads, Step(t)
    PROVE  IF Claim(t) THEN InTable' = InTable \cup {Value(t)} ELSE InTable' = InTable
<1>0. Shape /\ values' = values
  BY DEF Inv, Step
<1>1. CASE Claim(t)
  <2>1. /\ AtSlot(t) \in 0 .. TableSlots - 1 /\ table[AtSlot(t)] = Sentinel /\ Value(t) # Sentinel
        /\ table' = [table EXCEPT ![AtSlot(t)] = Value(t)]
    BY <1>1, Probing DEF Claim, Inv
  <2>2. /\ table'[AtSlot(t)] = Value(t)
        /\ \A s \in 0 .. TableSlots - 1 : s # AtSlot(t) => table'[s] = table[s]
    BY <1>0, <2>1 DEF Shape
  <2> QED
    BY <1>1, <2>1, <2>2 DEF InTable
<1>2. CASE ~ Claim(t)
  <2>1. table' = table
    BY <1>2 DEF Step, ThreadStep, SkipTable, NoteSentinel, StartProbing, Found, Collide,
       CountSlot, MergeExtremes, MergeGcd
  <2> QED
    BY <1>2, <2>1 DEF InTable
<1> QED
  BY <1>1, <1>2

\* What happens to global memory only ever goes one way.
LEMMA OneWay ==
    ASSUME Assumptions, Inv, Story, NEW t \in Threads, Step(t)
    PROVE  /\ overflow => overflow'
           /\ has_sentinel => has_sentinel'
           /\ out_of_range => out_of_range'
           /\ out_min' =< out_min /\ out_max =< out_max'
           /\ values' = values /\ Column' = Column /\ (AllHalf' <=> AllHalf)
<1>1. overflow => overflow'
  BY DEF Step, ThreadStep, SkipTable, NoteSentinel, StartProbing, Claim, Found, Collide,
     CountSlot, MergeExtremes, MergeGcd
<1>2. has_sentinel => has_sentinel'
  BY DEF Step, ThreadStep, SkipTable, NoteSentinel, StartProbing, Claim, Found, Collide,
     CountSlot, MergeExtremes, MergeGcd
<1>3. out_of_range => out_of_range'
  BY DEF Step, ThreadStep, SkipTable, NoteSentinel, StartProbing, Claim, Found, Collide,
     CountSlot, MergeExtremes, MergeGcd, FoldLocal
<1>4. out_min' =< out_min /\ out_max =< out_max'
  <2>1. \A z \in Int64 : z \in Int
    BY Ranges DEF Assumptions, Positive
  <2>2. out_min \in Int /\ out_max \in Int /\ lmin[t] \in Int /\ lmax[t] \in Int
    BY <2>1 DEF Story, Memory
  <2>3. \/ out_min' = out_min /\ out_max' = out_max
        \/ out_min' = Lesser(out_min, lmin[t]) /\ out_max' = Greater(out_max, lmax[t])
    BY DEF Step, ThreadStep, SkipTable, NoteSentinel, StartProbing, Claim, Found, Collide,
       CountSlot, MergeExtremes, MergeGcd, FoldLocal, merged
  <2> QED
    BY <2>2, <2>3 DEF Lesser, Greater
<1>5. values' = values
  BY DEF Step
<1> QED
  BY <1>1, <1>2, <1>3, <1>4, <1>5 DEF Column, AllHalf

\* A step keeps the types.
LEMMA NextMemory ==
    ASSUME Assumptions, Inv, Story, NEW t \in Threads, Step(t) PROVE Memory'
<1>0. Shape /\ Memory /\ values' = values /\ WidthAssumption
  BY DEF Inv, Story, Step, Assumptions
<1>1. /\ \A x, y \in Int64 : Lesser(x, y) \in Int64 /\ Greater(x, y) \in Int64
      /\ Int64 \subseteq Int
  BY <1>0, Ranges DEF Lesser, Greater, Positive
<1>2. \A x, y \in Int : bin_gcd(x, y) \in Int64
  BY <1>0, BinGcd
<1>3. /\ lmin[t] \in Int64 /\ lmax[t] \in Int64 /\ lgcd[t] \in Int64 /\ cur[t] \in Int64
      /\ values[1] \in Int64 /\ gcd_accum \in Int64
      /\ \A n \in DOMAIN gcds : gcds[n] \in Int64
  BY <1>0 DEF Memory, Shape, gcd_accum
<1>4. CASE tpc[t] = "value" /\ HasValue(t)
  <2>1. /\ FoldLocal(t) /\ Value(t) \in Int64
        /\ cur' = cur /\ out_min' = out_min /\ out_max' = out_max /\ gcds' = gcds
    BY <1>4, Brings, AtValue DEF FoldLocal, merged
  <2>2. lmin' \in [Threads -> Int64] /\ lmax' \in [Threads -> Int64]
    BY <1>0, <1>1, <1>3, <2>1 DEF FoldLocal, Memory
  <2>3. lgcd' \in [Threads -> Int64] /\ out_of_range' \in BOOLEAN
    <3>1. Value(t) - values[1] \in Int
      <4>1. Value(t) \in Int /\ values[1] \in Int
        BY <1>1, <1>3, <2>1
      <4> QED
        BY <4>1
    <3>2. Wrap(Value(t) - values[1]) \in Int64
      BY <1>0, <3>1, WrapFacts
    <3>3. bin_gcd(lgcd[t], Wrap(Value(t) - values[1])) \in Int64
      BY <1>1, <1>2, <1>3, <3>2
    <3> QED
      BY <1>0, <2>1, <3>3 DEF FoldLocal, Memory
  <2>4. has_sentinel' \in BOOLEAN
    BY <1>0, <1>4 DEF Memory, Step, ThreadStep, SkipTable, NoteSentinel, StartProbing, Claim,
       Found, Collide, CountSlot, MergeExtremes, MergeGcd
  <2> QED
    BY <1>0, <2>1, <2>2, <2>3, <2>4 DEF Memory
<1>5. CASE ~ (tpc[t] = "value" /\ HasValue(t))
  <2>1. lmin' = lmin /\ lmax' = lmax /\ lgcd' = lgcd /\ out_of_range' = out_of_range
    BY <1>5, Brings
  <2>2. CASE MergeExtremes(t)
    <3>1. PICK g \in {gcds[n] : n \in DOMAIN gcds} : cur' = [cur EXCEPT ![t] = g]
      BY <2>2 DEF MergeExtremes
    <3>2. cur' \in [Threads -> Int64]
      BY <1>0, <1>3, <3>1 DEF Memory
    <3>3. out_min' \in Int64 /\ out_max' \in Int64
      BY <1>0, <1>1, <1>3, <2>2 DEF MergeExtremes, Memory
    <3> QED
      BY <1>0, <2>1, <2>2, <3>2, <3>3 DEF MergeExtremes, Memory
  <2>3. CASE MergeGcd(t)
    <3>1. bin_gcd(cur[t], lgcd[t]) \in Int64
      BY <1>1, <1>2, <1>3
    <3>2. /\ \/ cur' = cur \/ cur' = [cur EXCEPT ![t] = gcd_accum]
          /\ \/ gcds' = gcds \/ gcds' = Append(gcds, bin_gcd(cur[t], lgcd[t]))
      BY <2>3 DEF MergeGcd
    <3>3. cur' \in [Threads -> Int64]
      BY <1>0, <1>3, <3>2 DEF Memory
    <3>4. gcds' \in Seq(Int64) /\ gcds' # <<>>
      BY <1>0, <3>1, <3>2 DEF Memory
    <3> QED
      BY <1>0, <2>1, <2>3, <3>3, <3>4 DEF MergeGcd, Memory
  <2>4. CASE ~ MergeExtremes(t) /\ ~ MergeGcd(t)
    <3>1. cur' = cur /\ gcds' = gcds /\ out_min' = out_min /\ out_max' = out_max
          /\ has_sentinel' = has_sentinel
      BY <1>5, <2>4 DEF Step, ThreadStep, SkipTable, NoteSentinel, StartProbing, Claim, Found,
         Collide, CountSlot, local, merged
    <3> QED
      BY <1>0, <2>1, <3>1 DEF Memory
  <2> QED
    BY <2>2, <2>3, <2>4
<1> QED
  BY <1>4, <1>5

\* No step leaves the stride.
LEMMA NextStride ==
    ASSUME Assumptions, Inv, Story, NEW t \in Threads, Step(t), NEW u \in Threads
    PROVE  OnStride(u)'
<1>0. NThreads \in Nat \ {0} /\ OnStride(u) /\ Shape
  BY DEF Assumptions, GridAssumption, Story, Inv
<1>1. PICK k \in Nat : ti[u] = u + NThreads * k
  BY <1>0 DEF OnStride
<1>2. ti'[u] = ti[u] \/ ti'[u] = ti[u] + NThreads
  <2>1. ti' = ti \/ ti' = [ti EXCEPT ![t] = ti[t] + NThreads]
    BY DEF Step, ThreadStep, SkipTable, NoteSentinel, StartProbing, Claim, Found, Collide,
       CountSlot, MergeExtremes, MergeGcd, NextValue, Stride
  <2> QED
    BY <1>0, <2>1 DEF Shape
<1>3. ti[u] + NThreads = u + NThreads * (k + 1) /\ k + 1 \in Nat
  <2>1. u \in Nat
    BY DEF Threads
  <2> QED
    BY <1>0, <1>1, <2>1
<1> QED
  BY <1>1, <1>2, <1>3 DEF OnStride

\* The thread's extremes are those of what it brought.
LEMMA NextExtremes ==
    ASSUME Assumptions, Inv, Story, NEW t \in Threads, Step(t), NEW u \in Threads
    PROVE  Extremes(u)'
<1>0. Shape /\ Memory /\ Extremes(u) /\ values' = values /\ Column' = Column
  BY OneWay DEF Inv, Story
<1>1. Column \subseteq Int /\ lmin[u] \in Int /\ lmax[u] \in Int /\ Brought(u) \subseteq Int
  <2>1. Int64 \subseteq Int
    BY Ranges DEF Assumptions, Positive
  <2>2. Column \subseteq Int64
    BY <1>0 DEF Column, Shape
  <2>3. Brought(u) \subseteq Column
    <3>1. ASSUME tpc[u] \in {"probe", "count"} PROVE ti[u] \in DOMAIN values
      <4>1. HasValue(u)
        BY <3>1 DEF Inv, Passed, Story, Entered
      <4> QED
        BY <4>1, AtValue, <1>0 DEF Shape
    <3>2. Folded(u) \subseteq DOMAIN values
      BY <1>0, <3>1 DEF Folded, Before, Mine, Shape
    <3> QED
      BY <3>2 DEF Brought, Column
  <2> QED
    BY <1>0, <2>1, <2>2, <2>3 DEF Memory
<1>2. CASE u # t
  <2>1. lmin'[u] = lmin[u] /\ lmax'[u] = lmax[u] /\ Brought(u)' = Brought(u)
    BY <1>0, <1>2, OthersKeep DEF Brought, Folded, Before, Mine
  <2> QED
    BY <1>0, <2>1 DEF Extremes
<1>3. CASE u = t /\ tpc[t] = "value" /\ HasValue(t)
  <2>1. /\ Brought(t)' = Brought(t) \cup {Value(t)} /\ Value(t) \in Column
        /\ lmin' = [lmin EXCEPT ![t] = Lesser(lmin[t], Value(t))]
        /\ lmax' = [lmax EXCEPT ![t] = Greater(lmax[t], Value(t))]
    BY <1>3, Brings, AtValue DEF FoldLocal
  <2>2. lmin'[t] = Lesser(lmin[t], Value(t)) /\ lmax'[t] = Greater(lmax[t], Value(t))
    BY <1>0, <2>1 DEF Memory
  <2>3. Value(t) \in Int
    BY <1>1, <2>1
  <2>4. lmin'[t] \in Column \cup {High} /\ lmax'[t] \in Column \cup {Low}
    BY <1>0, <1>3, <2>1, <2>2 DEF Lesser, Greater, Extremes
  <2>5. \A v \in Brought(t) \cup {Value(t)} : lmin'[t] =< v /\ v =< lmax'[t]
    BY <1>0, <1>1, <1>3, <2>2, <2>3 DEF Lesser, Greater, Extremes
  <2> QED
    BY <1>0, <1>3, <2>1, <2>4, <2>5 DEF Extremes
<1>4. CASE u = t /\ ~ (tpc[t] = "value" /\ HasValue(t))
  <2>1. Brought(t)' = Brought(t) /\ lmin' = lmin /\ lmax' = lmax
    BY <1>4, Brings
  <2> QED
    BY <1>0, <1>4, <2>1 DEF Extremes
<1> QED
  BY <1>2, <1>3, <1>4

\* A thread brings nothing but the column's.
LEMMA BroughtOfColumn ==
    ASSUME Assumptions, Inv, Story, NEW u \in Threads
    PROVE  Brought(u) \subseteq Column /\ Column \subseteq Int64 /\ values[1] \in Column
<1>0. Shape /\ Memory
  BY DEF Inv, Story
<1>1. ASSUME tpc[u] \in {"probe", "count"} PROVE ti[u] \in DOMAIN values
  <2>1. HasValue(u)
    BY <1>1 DEF Inv, Passed, Story, Entered
  <2> QED
    BY <2>1, AtValue, <1>0 DEF Shape
<1>2. Folded(u) \subseteq DOMAIN values
  BY <1>0, <1>1 DEF Folded, Before, Mine, Shape
<1>3. Column \subseteq Int64 /\ values[1] \in Column
  BY <1>0 DEF Column, Shape, Memory
<1> QED
  BY <1>2, <1>3 DEF Brought, Column

\* The divisor of one more difference.
LEMMA DivisorGrows ==
    ASSUME WidthAssumption, NEW S, NEW first \in HalfRange, NEW v \in HalfRange,
           NEW g \in 0 .. High, CommonOf(g, Differences(S, first))
    PROVE  /\ bin_gcd(g, Wrap(v - first)) \in 0 .. High
           /\ CommonOf(bin_gcd(g, Wrap(v - first)), Differences(S \cup {v}, first))
<1>1. PICK d \in 0 .. High : d = Abs(v - first) /\ Wrap(v - first) = v - first
  BY HalfDifferences
<1>2. v - first \in Int /\ g \in Int /\ Abs(g) = g
  <2>1. HalfRange \subseteq Int
    BY Ranges DEF Positive
  <2> QED
    BY <2>1 DEF Abs
<1>3. PICK r : r = bin_gcd(g, v - first)
  OBVIOUS
<1>4. r \in 0 .. High /\ Common(r, g, d)
  <2>1. /\ bin_gcd(g, v - first) \in 0 .. High
        /\ Common(bin_gcd(g, v - first), Abs(g), Abs(v - first))
    BY <1>1, <1>2, BinGcd
  <2> QED
    BY <1>1, <1>2, <1>3, <2>1
<1>5. CommonOf(r, Differences(S \cup {v}, first))
  <2> SUFFICES ASSUME NEW e \in Positive
               PROVE  Divides(e, r) <=> \A n \in Differences(S \cup {v}, first) : Divides(e, n)
    BY DEF CommonOf
  <2>1. Divides(e, r) <=> Divides(e, g) /\ Divides(e, d)
    BY <1>4 DEF Common
  <2>2. Divides(e, g) <=> \A n \in Differences(S, first) : Divides(e, n)
    BY DEF CommonOf
  <2>3. Differences(S \cup {v}, first) = Differences(S, first) \cup {d}
    BY <1>1 DEF Differences
  <2> QED
    BY <2>1, <2>2, <2>3
<1> QED
  BY <1>1, <1>3, <1>4, <1>5

\* The thread's divisor is that of what it brought.
LEMMA NextDivisor ==
    ASSUME Assumptions, Inv, Story, NEW t \in Threads, Step(t), NEW u \in Threads
    PROVE  Divisor(u)'
<1>0. /\ Shape /\ Memory /\ Divisor(u) /\ values' = values /\ Column' = Column
      /\ AllHalf' <=> AllHalf
      /\ out_of_range => out_of_range'
      /\ WidthAssumption
  BY OneWay DEF Inv, Story, Assumptions
<1>1. CASE u # t
  <2>1. lgcd'[u] = lgcd[u] /\ Brought(u)' = Brought(u)
    BY <1>0, <1>1, OthersKeep DEF Brought, Folded, Before, Mine
  <2> QED
    BY <1>0, <2>1 DEF Divisor
<1>2. CASE u = t /\ tpc[t] = "value" /\ HasValue(t)
  <2>1. Brought(t)' = Brought(t) \cup {Value(t)} /\ Value(t) \in Column /\ FoldLocal(t)
    BY <1>2, Brings, AtValue
  <2>2. out_of_range' \/ Brought(t)' \subseteq HalfRange
    <3>1. CASE Value(t) \in HalfRange
      BY <1>0, <1>2, <2>1, <3>1 DEF Divisor
    <3>2. CASE Value(t) \notin HalfRange
      BY <2>1, <3>2 DEF FoldLocal
    <3> QED
      BY <3>1, <3>2
  <2>3. ASSUME AllHalf
        PROVE  lgcd'[t] \in 0 .. High /\ CommonOf(lgcd'[t], Differences(Brought(t)', values[1]))
    <3>1. Value(t) \in HalfRange /\ values[1] \in HalfRange
      BY <2>1, <2>3, BroughtOfColumn DEF AllHalf
    <3>2. lgcd'[t] = bin_gcd(lgcd[t], Wrap(Value(t) - values[1]))
      BY <1>0, <2>1, <3>1 DEF FoldLocal, Memory
    <3>3. lgcd[t] \in 0 .. High /\ CommonOf(lgcd[t], Differences(Brought(t), values[1]))
      BY <1>0, <1>2, <2>3 DEF Divisor
    <3>4. /\ bin_gcd(lgcd[t], Wrap(Value(t) - values[1])) \in 0 .. High
          /\ CommonOf(bin_gcd(lgcd[t], Wrap(Value(t) - values[1])),
                      Differences(Brought(t) \cup {Value(t)}, values[1]))
      BY <1>0, <3>1, <3>3, DivisorGrows
    <3> QED
      BY <2>1, <3>2, <3>4
  <2> QED
    BY <1>0, <1>2, <2>2, <2>3 DEF Divisor
<1>3. CASE u = t /\ ~ (tpc[t] = "value" /\ HasValue(t))
  <2>1. Brought(t)' = Brought(t) /\ lgcd' = lgcd
    BY <1>3, Brings
  <2> QED
    BY <1>0, <1>3, <2>1 DEF Divisor
<1> QED
  BY <1>1, <1>2, <1>3

\* What a thread leaves is in the table.
LEMMA NextEntered ==
    ASSUME Assumptions, Inv, Story, NEW t \in Threads, Step(t), NEW u \in Threads
    PROVE  Entered(u)'
<1>0. /\ Shape /\ Memory /\ Entered(u) /\ OnStride(u) /\ values' = values
      /\ overflow => overflow'
      /\ has_sentinel => has_sentinel'
      /\ InTable \subseteq InTable'
  BY OneWay, TableKeeps DEF Inv, Story
<1>1. ASSUME Before(u)' = Before(u)
      PROVE  overflow' \/ \A n \in Before(u)' :
                 values[n] \in InTable' \/ (has_sentinel' /\ values[n] = Sentinel)
  BY <1>0, <1>1 DEF Entered
<1>2. CASE u # t
  <2>1. /\ Before(u)' = Before(u) /\ tpc'[u] = tpc[u] /\ Value(u)' = Value(u)
        /\ HasValue(u)' <=> HasValue(u)
    BY <1>0, <1>2, OthersKeep DEF Before, Mine, Value, HasValue
  <2>2. tpc'[u] = "count" => HasValue(u)' /\ Value(u)' \in InTable'
    BY <1>0, <2>1 DEF Entered
  <2> QED
    BY <1>0, <1>1, <2>1, <2>2 DEF Entered
<1>3. CASE u = t /\ NextValue(t)
  <2>1. tpc'[t] = "value" /\ ti'[t] = ti[t] + NThreads
    BY <1>0, <1>3 DEF NextValue, Stride, Shape
  <2>2. /\ HasValue(t)
        /\ overflow' \/ Value(t) \in InTable \/ (has_sentinel' /\ Value(t) = Sentinel)
    <3>1. CASE SkipTable(t)
      BY <3>1 DEF SkipTable
    <3>2. CASE NoteSentinel(t)
      BY <3>2 DEF NoteSentinel
    <3>3. CASE Found(t)
      <4>1. /\ Value(t) # Sentinel /\ AtSlot(t) \in 0 .. TableSlots - 1 /\ HasValue(t)
            /\ table[AtSlot(t)] = Value(t)
        BY <3>3, Probing DEF Found, Inv, Passed
      <4> QED
        BY <4>1 DEF InTable
    <3>4. CASE Collide(t)
      <4>1. HasValue(t) /\ tpc[t] = "probe"
        BY <3>4 DEF Collide, Inv, Passed
      <4>2. overflow'
        BY <1>0, <2>1, <3>4, <4>1 DEF Collide
      <4> QED
        BY <4>1, <4>2
    <3>5. CASE CountSlot(t)
      BY <1>0, <1>3, <3>5 DEF CountSlot, Entered
    <3>6. ~ Claim(t) /\ ~ StartProbing(t) /\ ~ MergeExtremes(t) /\ ~ MergeGcd(t)
      BY <1>0, <2>1 DEF Claim, StartProbing, MergeExtremes, MergeGcd, Shape
    <3> QED
      BY <3>1, <3>2, <3>3, <3>4, <3>5, <3>6 DEF Step, ThreadStep
  <2>3. Before(t)' = Before(t) \cup {ti[t]}
    BY <1>0, <1>3, <2>1, <2>2, Advances
  <2>4. ASSUME ~ overflow', NEW n \in Before(t)'
        PROVE  values[n] \in InTable' \/ (has_sentinel' /\ values[n] = Sentinel)
    <3>1. CASE n = ti[t]
      BY <1>0, <2>2, <2>4, <3>1 DEF Value
    <3>2. CASE n \in Before(t)
      BY <1>0, <1>3, <2>4, <3>2 DEF Entered
    <3> QED
      BY <2>3, <2>4, <3>1, <3>2
  <2> QED
    BY <1>0, <1>3, <2>1, <2>4 DEF Entered
<1>4. CASE u = t /\ ti' = ti
  <2>1. Before(t)' = Before(t) /\ Value(t)' = Value(t) /\ (HasValue(t)' <=> HasValue(t))
    BY <1>0, <1>4 DEF Before, Mine, Value, HasValue
  <2>2. ASSUME tpc'[t] = "count" PROVE HasValue(t) /\ Value(t) \in InTable'
    <3>1. Claim(t) \/ tpc[t] = "count"
      BY <1>0, <2>2 DEF Step, ThreadStep, SkipTable, NoteSentinel, StartProbing, Found, Collide,
         CountSlot, MergeExtremes, MergeGcd, NextValue, Shape
    <3>2. CASE Claim(t)
      BY <3>2, TableKeeps DEF Claim, Inv, Passed
    <3>3. CASE tpc[t] = "count"
      BY <1>0, <1>4, <3>3 DEF Entered
    <3> QED
      BY <3>1, <3>2, <3>3
  <2> QED
    BY <1>0, <1>1, <1>4, <2>1, <2>2 DEF Entered
<1>5. NextValue(t) \/ ti' = ti
  BY DEF Step, ThreadStep, SkipTable, NoteSentinel, StartProbing, Claim, Found, Collide,
     CountSlot, MergeExtremes, MergeGcd
<1> QED
  BY <1>2, <1>3, <1>4, <1>5

\* The divisor in global memory only shrinks: a swap succeeds on its last value
\* only, and stores what that one and the thread's have in common.
LEMMA SwapShrinks ==
    ASSUME Assumptions, Inv, Story, AllHalf, NEW t \in Threads, Step(t)
    PROVE  \/ gcds' = gcds
           \/ /\ MergeGcd(t) /\ tpc'[t] = "done"
              /\ gcds' = Append(gcds, gcds'[Len(gcds) + 1]) /\ gcd_accum' = gcds'[Len(gcds) + 1]
              /\ gcd_accum' \in 0 .. High /\ Common(gcd_accum', gcd_accum, lgcd[t])
<1>0. Shape /\ Memory /\ Divisor(t) /\ HandedOn(t) /\ WidthAssumption
  BY DEF Inv, Story, Assumptions
<1>1. CASE MergeGcd(t) /\ gcds' # gcds
  <2>1. PICK m : m = bin_gcd(cur[t], lgcd[t])
    OBVIOUS
  <2>2. /\ gcds' = Append(gcds, m) /\ tpc' = [tpc EXCEPT ![t] = "done"]
        /\ ~ CasLoses(t) /\ tpc[t] = "gcd"
    BY <1>1, <2>1 DEF MergeGcd
  <2>3. cur[t] = gcd_accum
    BY <2>2 DEF CasLoses
  <2>4. cur[t] \in 0 .. High /\ lgcd[t] \in 0 .. High
    BY <1>0, <2>2 DEF HandedOn, Divisor
  <2>5. cur[t] \in Int /\ lgcd[t] \in Int /\ Abs(cur[t]) = cur[t] /\ Abs(lgcd[t]) = lgcd[t]
    BY <2>4 DEF Abs
  <2>6. m \in 0 .. High /\ Common(m, cur[t], lgcd[t])
    BY <1>0, <2>1, <2>4, <2>5, BinGcd
  <2>7. /\ Len(gcds') = Len(gcds) + 1 /\ gcds'[Len(gcds) + 1] = m
        /\ gcd_accum' = m
    BY <1>0, <2>2 DEF Memory, gcd_accum
  <2>8. tpc'[t] = "done"
    BY <1>0, <2>2 DEF Shape
  <2> QED
    BY <1>1, <2>2, <2>3, <2>6, <2>7, <2>8
<1>2. CASE ~ MergeGcd(t)
  BY <1>2 DEF Step, ThreadStep, SkipTable, NoteSentinel, StartProbing, Claim, Found, Collide,
     CountSlot, MergeExtremes, FoldLocal, merged
<1> QED
  BY <1>1, <1>2

LEMMA AccumulatorShrinks ==
    ASSUME Assumptions, Inv, Story, AllHalf, NEW t \in Threads, Step(t)
    PROVE  Reaches(gcd_accum', gcd_accum)
<1>1. CASE gcds' = gcds
  BY <1>1 DEF Reaches, gcd_accum
<1>2. CASE gcds' # gcds
  <2>1. Common(gcd_accum', gcd_accum, lgcd[t])
    BY <1>2, SwapShrinks
  <2> QED
    BY <2>1 DEF Common, Reaches
<1> QED
  BY <1>1, <1>2

\* What the accumulator has had, and will.
LEMMA NextAccumulated ==
    ASSUME Assumptions, Inv, Story, NEW t \in Threads, Step(t)
    PROVE  Accumulated'
<1>0. /\ Shape /\ Memory /\ Accumulated /\ Divisor(t) /\ values' = values /\ Column' = Column
      /\ AllHalf' <=> AllHalf
  BY OneWay DEF Inv, Story
<1> SUFFICES ASSUME AllHalf
             PROVE  /\ \A n \in DOMAIN gcds' :
                           gcds'[n] \in 0 .. High /\ Reaches(gcd_accum', gcds'[n])
                    /\ \A e \in Positive :
                           (\A d \in Differences(Column, values[1]) : Divides(e, d))
                           => Divides(e, gcd_accum')
  BY <1>0 DEF Accumulated
<1>1. /\ \A n \in DOMAIN gcds : gcds[n] \in 0 .. High /\ Reaches(gcd_accum, gcds[n])
      /\ \A e \in Positive :
             (\A d \in Differences(Column, values[1]) : Divides(e, d)) => Divides(e, gcd_accum)
  BY <1>0 DEF Accumulated
<1>2. CASE gcds' = gcds
  <2>1. gcd_accum' = gcd_accum
    BY <1>2 DEF gcd_accum
  <2> QED
    BY <1>1, <1>2, <2>1
<1>3. CASE gcds' # gcds
  <2>1. PICK m : /\ gcds' = Append(gcds, m) /\ gcd_accum' = m
                 /\ m \in 0 .. High /\ Common(m, gcd_accum, lgcd[t])
    BY <1>3, SwapShrinks
  <2>2. Reaches(m, m) /\ Reaches(m, gcd_accum)
    BY <2>1 DEF Common, Reaches
  <2>3. ASSUME NEW n \in DOMAIN gcds' PROVE gcds'[n] \in 0 .. High /\ Reaches(m, gcds'[n])
    <3>1. (n \in DOMAIN gcds /\ gcds'[n] = gcds[n]) \/ gcds'[n] = m
      BY <1>0, <2>1 DEF Memory
    <3>2. CASE gcds'[n] = m
      BY <2>1, <2>2, <3>2
    <3>3. CASE n \in DOMAIN gcds /\ gcds'[n] = gcds[n]
      BY <1>1, <2>2, <3>3 DEF Reaches
    <3> QED
      BY <3>1, <3>2, <3>3
  <2>4. ASSUME NEW e \in Positive, \A d \in Differences(Column, values[1]) : Divides(e, d)
        PROVE  Divides(e, m)
    <3>1. Divides(e, gcd_accum)
      BY <1>1, <2>4
    <3>2. \A d \in Differences(Brought(t), values[1]) : Divides(e, d)
      BY <2>4, BroughtOfColumn DEF Differences
    <3>3. Divides(e, lgcd[t])
      BY <1>0, <3>2 DEF Divisor, CommonOf
    <3> QED
      BY <2>1, <3>1, <3>3 DEF Common
  <2> QED
    BY <2>1, <2>3, <2>4
<1> QED
  BY <1>2, <1>3

\* What a thread merged stays merged.
LEMMA NextHandedOn ==
    ASSUME Assumptions, Inv, Story, NEW t \in Threads, Step(t), NEW u \in Threads
    PROVE  HandedOn(u)'
<1>0. /\ Shape /\ Memory /\ HandedOn(u) /\ values' = values
      /\ AllHalf' <=> AllHalf
      /\ out_min' =< out_min /\ out_max =< out_max'
      /\ Memory' /\ Memory
  BY OneWay, NextMemory DEF Inv, Story
<1>1. /\ out_min \in Int /\ out_max \in Int /\ out_min' \in Int /\ out_max' \in Int
      /\ lmin[u] \in Int /\ lmax[u] \in Int
  <2>1. \A z \in Int64 : z \in Int
    BY Ranges DEF Assumptions, Positive
  <2> QED
    BY <1>0, <2>1 DEF Memory
<1>2. AllHalf => Reaches(gcd_accum', gcd_accum)
  BY AccumulatorShrinks
<1>3. CASE u # t
  <2>1. /\ tpc'[u] = tpc[u] /\ lmin'[u] = lmin[u] /\ lmax'[u] = lmax[u]
        /\ lgcd'[u] = lgcd[u] /\ cur'[u] = cur[u]
        /\ HasValue(u)' <=> HasValue(u)
    BY <1>0, <1>3, OthersKeep DEF HasValue
  <2>2. tpc[u] \in {"gcd", "done"} => ~ HasValue(u)' /\ out_min' =< lmin[u] /\ lmax[u] =< out_max'
    BY <1>0, <1>1, <2>1 DEF HandedOn
  <2>3. AllHalf /\ tpc[u] = "gcd" => cur[u] \in 0 .. High /\ Reaches(gcd_accum', cur[u])
    BY <1>0, <1>2 DEF HandedOn, Reaches
  <2>4. AllHalf /\ tpc[u] = "done" => Reaches(gcd_accum', lgcd[u])
    BY <1>0, <1>2 DEF HandedOn, Reaches
  <2> QED
    BY <1>0, <2>1, <2>2, <2>3, <2>4 DEF HandedOn
<1>4. CASE u = t /\ MergeExtremes(t)
  <2>1. /\ tpc'[t] = "gcd" /\ ~ HasValue(t) /\ ti' = ti /\ lmin' = lmin /\ lmax' = lmax
        /\ out_min' = Lesser(out_min, lmin[t]) /\ out_max' = Greater(out_max, lmax[t])
        /\ gcds' = gcds
    BY <1>0, <1>4 DEF MergeExtremes, Shape
  <2>2. out_min' =< lmin[t] /\ lmax[t] =< out_max'
    BY <1>1, <1>4, <2>1 DEF Lesser, Greater
  <2>3. PICK n \in DOMAIN gcds : cur' = [cur EXCEPT ![t] = gcds[n]]
    BY <1>4 DEF MergeExtremes
  <2>4. cur'[t] = gcds[n]
    BY <1>0, <2>3 DEF Memory
  <2>5. AllHalf => cur'[t] \in 0 .. High /\ Reaches(gcd_accum, cur'[t])
    BY <2>4 DEF Story, Accumulated
  <2>6. gcd_accum' = gcd_accum /\ (HasValue(t)' <=> HasValue(t))
    BY <1>0, <2>1 DEF gcd_accum, HasValue
  <2> QED
    BY <1>0, <1>4, <2>1, <2>2, <2>5, <2>6 DEF HandedOn
<1>5. CASE u = t /\ MergeGcd(t)
  <2>1. /\ tpc[t] = "gcd" /\ ti' = ti /\ lmin' = lmin /\ lmax' = lmax /\ lgcd' = lgcd
        /\ out_min' = out_min /\ out_max' = out_max
        /\ tpc'[t] \in {"gcd", "done"}
    BY <1>0, <1>5 DEF MergeGcd, Shape
  <2>2. ~ HasValue(t)' /\ out_min' =< lmin'[t] /\ lmax'[t] =< out_max'
    BY <1>0, <1>5, <2>1 DEF HandedOn, HasValue
  <2>3. ASSUME AllHalf
        PROVE  \/ tpc'[t] = "done" /\ Reaches(gcd_accum', lgcd[t])
               \/ tpc'[t] = "gcd" /\ cur'[t] \in 0 .. High /\ Reaches(gcd_accum', cur'[t])
    <3>1. PICK m : m = bin_gcd(cur[t], lgcd[t])
      OBVIOUS
    <3>2. /\ cur[t] \in 0 .. High /\ Reaches(gcd_accum, cur[t]) /\ lgcd[t] \in 0 .. High
      BY <1>0, <1>5, <2>1, <2>3 DEF HandedOn, Story, Divisor
    <3>3. CASE m = cur[t]
      <4>1. tpc'[t] = "done" /\ gcds' = gcds
        BY <1>0, <1>5, <3>1, <3>3 DEF MergeGcd, Shape
      <4>2. cur[t] \in Int /\ lgcd[t] \in Int /\ Abs(cur[t]) = cur[t] /\ Abs(lgcd[t]) = lgcd[t]
        BY <3>2 DEF Abs
      <4>3. Common(m, cur[t], lgcd[t])
        BY <3>1, <3>2, <4>2, BinGcd DEF Assumptions
      <4>4. Reaches(gcd_accum, lgcd[t])
        BY <3>2, <3>3, <4>3 DEF Common, Reaches
      <4> QED
        BY <4>1, <4>4 DEF gcd_accum
    <3>4. CASE m # cur[t] /\ CasLoses(t)
      <4>1. tpc'[t] = "gcd" /\ gcds' = gcds /\ cur' = [cur EXCEPT ![t] = gcd_accum]
        BY <1>0, <1>5, <3>1, <3>4 DEF MergeGcd, Shape
      <4>2. cur'[t] = gcd_accum /\ gcd_accum' = gcd_accum
        BY <1>0, <4>1 DEF Memory, gcd_accum
      <4>3. gcd_accum \in 0 .. High
        <5>1. Len(gcds) \in DOMAIN gcds
          BY <1>0 DEF Memory
        <5> QED
          BY <2>3, <5>1 DEF Story, Accumulated, gcd_accum
      <4> QED
        BY <4>1, <4>2, <4>3 DEF Reaches
    <3>5. CASE m # cur[t] /\ ~ CasLoses(t)
      <4>1. tpc'[t] = "done" /\ gcds' = Append(gcds, m)
        BY <1>0, <1>5, <3>1, <3>5 DEF MergeGcd, Shape
      <4>2. gcds' # gcds
        BY <1>0, <4>1 DEF Memory
      <4>3. Common(gcd_accum', gcd_accum, lgcd[t])
        BY <2>3, <4>2, SwapShrinks
      <4> QED
        BY <4>1, <4>3 DEF Common, Reaches
    <3> QED
      BY <3>3, <3>4, <3>5
  <2> QED
    BY <1>0, <1>5, <2>1, <2>2, <2>3 DEF HandedOn
<1>6. CASE u = t /\ ~ MergeExtremes(t) /\ ~ MergeGcd(t)
  <2>1. tpc'[t] \notin {"gcd", "done"}
    BY <1>0, <1>6 DEF Step, ThreadStep, SkipTable, NoteSentinel, StartProbing, Claim, Found,
       Collide, CountSlot, NextValue, Shape
  <2> QED
    BY <1>6, <2>1 DEF HandedOn
<1> QED
  BY <1>3, <1>4, <1>5, <1>6

\* Nothing but the column's values gets into global memory.
LEMMA NextFromColumn ==
    ASSUME Assumptions, Inv, Story, NEW t \in Threads, Step(t)
    PROVE  FromColumn'
<1>0. /\ Shape /\ Memory /\ FromColumn /\ values' = values /\ Column' = Column
      /\ AllHalf' <=> AllHalf
  BY OneWay DEF Inv, Story
<1>1. InTable' \subseteq Column
  <2>1. CASE Claim(t)
    <3>1. Value(t) \in Column
      BY <2>1, AtValue DEF Claim, Inv, Passed
    <3> QED
      BY <1>0, <2>1, <3>1, TableKeeps DEF FromColumn
  <2>2. CASE ~ Claim(t)
    BY <1>0, <2>2, TableKeeps DEF FromColumn
  <2> QED
    BY <2>1, <2>2
<1>2. has_sentinel' => Sentinel \in Column
  <2>1. CASE NoteSentinel(t)
    BY <2>1, AtValue DEF NoteSentinel
  <2>2. CASE ~ NoteSentinel(t)
    <3>1. has_sentinel' = has_sentinel
      BY <2>2 DEF Step, ThreadStep, SkipTable, StartProbing, Claim, Found, Collide, CountSlot,
         MergeExtremes, MergeGcd
    <3> QED
      BY <1>0, <3>1 DEF FromColumn
  <2> QED
    BY <2>1, <2>2
<1>3. out_of_range' => ~ AllHalf
  <2>1. CASE tpc[t] = "value" /\ HasValue(t)
    <3>1. FoldLocal(t) /\ Value(t) \in Column
      BY <2>1, Brings, AtValue
    <3>2. out_of_range' = out_of_range \/ Value(t) \notin HalfRange
      BY <3>1 DEF FoldLocal
    <3> QED
      BY <1>0, <3>1, <3>2 DEF FromColumn, AllHalf
  <2>2. CASE ~ (tpc[t] = "value" /\ HasValue(t))
    BY <1>0, <2>2, Brings DEF FromColumn
  <2> QED
    BY <2>1, <2>2
<1>4. out_min' \in Column \cup {High} /\ out_max' \in Column \cup {Low}
  <2>1. \/ out_min' = out_min /\ out_max' = out_max
        \/ out_min' = Lesser(out_min, lmin[t]) /\ out_max' = Greater(out_max, lmax[t])
    BY DEF Step, ThreadStep, SkipTable, NoteSentinel, StartProbing, Claim, Found, Collide,
       CountSlot, MergeExtremes, MergeGcd, FoldLocal, merged
  <2>2. lmin[t] \in Column \cup {High} /\ lmax[t] \in Column \cup {Low}
    BY DEF Story, Extremes
  <2> QED
    BY <1>0, <2>1, <2>2 DEF FromColumn, Lesser, Greater
<1> QED
  BY <1>0, <1>1, <1>2, <1>3, <1>4 DEF FromColumn

\* Initially nothing is brought, and nothing is merged.
LEMMA InitStory == ASSUME Assumptions PROVE StatsInit => Story
<1> SUFFICES ASSUME StatsInit PROVE Story
  OBVIOUS
<1>0. /\ NThreads \in Nat \ {0} /\ WidthAssumption /\ values \in Seq(Int64) /\ values # <<>>
      /\ Low \in Int64 /\ High \in Int64 /\ 0 \in Int64 /\ High \in Nat /\ Int64 \subseteq Int
  <2>1. Low \in Int64 /\ High \in Int64 /\ 0 \in Int64 /\ High \in Nat /\ Int64 \subseteq Int
    BY Ranges DEF Assumptions, Positive
  <2> QED
    BY <2>1 DEF StatsInit, Assumptions, GridAssumption
<1>1. Memory
  <2>1. gcds \in Seq(Int64) /\ gcds # <<>>
    BY <1>0 DEF StatsInit
  <2>2. /\ lmin \in [Threads -> Int64] /\ lmax \in [Threads -> Int64]
        /\ lgcd \in [Threads -> Int64] /\ cur \in [Threads -> Int64]
    BY <1>0 DEF StatsInit
  <2> QED
    BY <1>0, <2>1, <2>2 DEF StatsInit, Memory
<1>2. gcd_accum = 0 /\ DOMAIN gcds = {1} /\ gcds[1] = 0
  BY DEF StatsInit, gcd_accum
<1>3. \A e \in Positive : Divides(e, 0)
  BY DividesSimple
<1>4. FromColumn
  <2>1. InTable = {}
    BY DEF StatsInit, InTable
  <2> QED
    BY <2>1 DEF StatsInit, FromColumn
<1>5. Accumulated
  BY <1>0, <1>2, <1>3 DEF Accumulated, Reaches
<1>6. ASSUME NEW t \in Threads
      PROVE  OnStride(t) /\ Extremes(t) /\ Divisor(t) /\ Entered(t) /\ HandedOn(t)
  <2>1. t \in Nat /\ ti[t] = t /\ tpc[t] = "value" /\ lgcd[t] = 0 /\ lmin[t] = High /\ lmax[t] = Low
    BY <1>0 DEF StatsInit, Threads
  <2>2. Before(t) = {}
    <3> SUFFICES ASSUME NEW n \in Mine(t) PROVE ~ (n < ti[t])
      BY DEF Before
    <3>1. PICK k \in Nat : n = t + NThreads * k
      BY DEF Mine
    <3>2. NThreads * k \in Nat
      BY <1>0
    <3> QED
      BY <2>1, <3>1, <3>2
  <2>3. Brought(t) = {}
    BY <2>1, <2>2 DEF Brought, Folded
  <2>4. OnStride(t)
    <3>1. t = t + NThreads * 0
      BY <1>0, <2>1
    <3> QED
      BY <2>1, <3>1 DEF OnStride
  <2>5. CommonOf(0, Differences({}, values[1]))
    BY <1>3 DEF CommonOf, Differences
  <2> QED
    BY <1>0, <2>1, <2>2, <2>3, <2>4, <2>5 DEF Extremes, Divisor, Entered, HandedOn
<1> QED
  BY <1>1, <1>4, <1>5, <1>6 DEF Story

LEMMA NextStory == ASSUME Assumptions, Inv, Story, [StatsNext]_statsVars PROVE Story'
<1>1. ASSUME NEW t \in Threads, Step(t) PROVE Story'
  BY <1>1, NextMemory, NextFromColumn, NextAccumulated, NextStride, NextExtremes, NextDivisor,
     NextEntered, NextHandedOn DEF Story
<1>2. CASE UNCHANGED statsVars
  <2>1. Memory' /\ FromColumn' /\ Accumulated'
    BY <1>2 DEF statsVars, Story, Memory, FromColumn, Accumulated, InTable, Column, AllHalf, gcd_accum
  <2>2. ASSUME NEW t \in Threads
        PROVE  (OnStride(t) /\ Extremes(t) /\ Divisor(t) /\ Entered(t) /\ HandedOn(t))'
    <3>1. Before(t)' = Before(t) /\ Brought(t)' = Brought(t) /\ Column' = Column
      BY <1>2 DEF statsVars, Before, Mine, Brought, Folded, Column
    <3>2. OnStride(t)' /\ Extremes(t)' /\ Divisor(t)'
      BY <1>2, <3>1 DEF statsVars, Story, OnStride, Extremes, Divisor, AllHalf
    <3>3. Entered(t)' /\ HandedOn(t)'
      BY <1>2, <3>1 DEF statsVars, Story, Entered, HandedOn, AllHalf, InTable, Value, HasValue, gcd_accum
    <3> QED
      BY <3>2, <3>3
  <2> QED
    BY <2>1, <2>2 DEF Story
<1> QED
  BY <1>1, <1>2 DEF StatsNext

-----------------------------------------------------------------------------
(* When the grid has ended.                                                *)

\* Every value has been brought by the thread of its stride.
LEMMA AllBrought ==
    ASSUME Assumptions, Inv, Story, Finished, NEW n \in 1 .. Len(values)
    PROVE  \E t \in Threads : n \in Before(t) /\ values[n] \in Brought(t)
<1>0. NThreads \in Positive /\ NThreads \in Nat /\ Shape /\ Len(values) \in Nat
  BY DEF Assumptions, GridAssumption, Positive, Inv, Shape
<1>1. PICK x \in Nat : n = x + 1
  BY n - 1 \in Nat
<1>2. PICK k \in Int, r \in Nat :
         k = x \div NThreads /\ r = x % NThreads /\ x = NThreads * k + r /\ r < NThreads
  <2>1. x \in Int
    OBVIOUS
  <2> QED
    BY <1>0, <2>1, ModFacts, Zenon
<1>3. k \in Nat
  <2> SUFFICES ASSUME k < 0 PROVE FALSE
    OBVIOUS
  <2>1. PICK c \in Nat : k = -1 - c
    BY -1 - k \in Nat
  <2>2. NThreads * k = -NThreads - NThreads * c /\ NThreads * c \in Nat
    BY <1>0, <2>1
  <2> QED
    BY <1>0, <1>2, <2>2
<1>4. PICK t \in Threads : t = r + 1
  BY <1>0, <1>2 DEF Threads
<1>5. n = t + NThreads * k
  <2>1. PICK z \in Nat : z = NThreads * k
    BY <1>0, <1>3
  <2>2. x = z + r
    BY <1>2, <2>1, Zenon
  <2>3. n = t + z
    BY <1>1, <1>4, <2>2
  <2> QED
    BY <2>1, <2>3, Zenon
<1>6. n \in Mine(t)
  BY <1>3, <1>5 DEF Mine
<1>7. ~ HasValue(t) /\ ti[t] \in Nat
  BY <1>0 DEF Finished, Story, HandedOn, Shape
<1>8. n \in Before(t)
  BY <1>0, <1>6, <1>7 DEF HasValue, Before
<1> QED
  BY <1>8 DEF Brought, Folded

\* A full table has as many values as slots.
LEMMA FullTable ==
    ASSUME Assumptions, Inv, NoValueTwice, Sentinel \notin {table[s] : s \in 0 .. TableSlots - 1}
    PROVE  Cardinality(InTable) > TableLimit
<1>1. TableSlots \in Nat /\ TableSlots > TableLimit /\ TableLimit \in Nat /\ Shape
  BY DEF Assumptions, GridAssumption, WidthAssumption, Inv
<1>2. \A s \in 0 .. TableSlots - 1 : table[s] # Sentinel
  OBVIOUS
<1>3. table \in Bijection(0 .. TableSlots - 1, InTable)
  <2>1. table \in [0 .. TableSlots - 1 -> InTable]
    BY <1>1, <1>2 DEF Shape, InTable
  <2>2. \A s, u \in 0 .. TableSlots - 1 : table[s] = table[u] => s = u
    BY <1>2 DEF NoValueTwice
  <2>3. \A v \in InTable : \E s \in 0 .. TableSlots - 1 : table[s] = v
    BY DEF InTable
  <2> QED
    BY <2>1, <2>2, <2>3 DEF Bijection, Injection, Surjection, IsInjective
<1>4. IsFiniteSet(0 .. TableSlots - 1) /\ Cardinality(0 .. TableSlots - 1) = TableSlots
  BY <1>1, FS_Interval
<1>5. Cardinality(InTable) = TableSlots
  BY <1>3, <1>4, FS_Bijection DEF ExistsBijection
<1> QED
  BY <1>1, <1>5

\* The extremes of global memory are the column's.
LEMMA ExtremesMerged ==
    ASSUME Assumptions, Inv, Story, Finished
    PROVE  LeastIs(out_min, Column) /\ GreatestIs(out_max, Column)
<1>0. /\ Column \subseteq Int64 /\ values[1] \in Column /\ Int64 \subseteq Int /\ Int64 = Low .. High
      /\ Low \in Int /\ High \in Int /\ Shape /\ Memory /\ Threads # {}
  <2>1. Int64 \subseteq Int /\ Low \in Int /\ High \in Int
    BY Ranges DEF Assumptions, Positive
  <2>2. 1 \in Threads
    BY DEF Assumptions, GridAssumption, Threads
  <2> QED
    BY <2>1, <2>2, BroughtOfColumn DEF Int64, Inv, Story
<1>1. ASSUME NEW v \in Column PROVE out_min =< v /\ v =< out_max
  <2>1. PICK n \in 1 .. Len(values) : v = values[n]
    BY <1>0 DEF Column, Shape
  <2>2. PICK t \in Threads : v \in Brought(t)
    BY <2>1, AllBrought
  <2>3. lmin[t] =< v /\ v =< lmax[t] /\ out_min =< lmin[t] /\ lmax[t] =< out_max
    BY <2>2 DEF Finished, Story, HandedOn, Extremes
  <2>4. out_min \in Int /\ out_max \in Int /\ lmin[t] \in Int /\ lmax[t] \in Int /\ v \in Int
    BY <1>0 DEF Memory
  <2> QED
    BY <2>3, <2>4
<1>2. out_min \in Column
  <2>1. CASE out_min = High
    <3>1. High =< values[1] /\ values[1] \in Low .. High
      BY <1>0, <1>1, <2>1
    <3>2. values[1] = High
      BY <1>0, <3>1
    <3> QED
      BY <1>0, <2>1, <3>2
  <2> QED
    BY <2>1 DEF Story, FromColumn
<1>3. out_max \in Column
  <2>1. CASE out_max = Low
    <3>1. values[1] =< Low /\ values[1] \in Low .. High
      BY <1>0, <1>1, <2>1
    <3>2. values[1] = Low
      BY <1>0, <3>1
    <3> QED
      BY <1>0, <2>1, <3>2
  <2> QED
    BY <2>1 DEF Story, FromColumn
<1> QED
  BY <1>1, <1>2, <1>3 DEF LeastIs, GreatestIs

\* So is the divisor.
LEMMA DivisorMerged ==
    ASSUME Assumptions, Inv, Story, Finished
    PROVE  GcdIs(Result.gcd, values[1], Column)
<1>0. /\ Shape /\ Memory /\ FromColumn /\ Accumulated /\ High \in Nat /\ 1 =< High
      /\ Result.gcd = IF out_of_range THEN 1 ELSE gcd_accum
  BY Ranges DEF Inv, Story, Result, Assumptions, Positive
<1>1. ASSUME NEW v \in Column
      PROVE  \E t \in Threads : v \in Brought(t)
  <2>1. PICK n \in 1 .. Len(values) : v = values[n]
    BY <1>0 DEF Column, Shape
  <2> QED
    BY <2>1, AllBrought
<1>2. CASE AllHalf
  <2>1. Result.gcd = gcd_accum
    BY <1>0, <1>2 DEF FromColumn, Memory
  <2>2. gcd_accum \in 0 .. High
    <3>1. Len(gcds) \in DOMAIN gcds
      BY <1>0 DEF Memory
    <3> QED
      BY <1>0, <1>2, <3>1 DEF Accumulated, gcd_accum
  <2>3. ASSUME NEW e \in Positive, Divides(e, gcd_accum), NEW d \in Differences(Column, values[1])
        PROVE  Divides(e, d)
    <3>1. PICK v \in Column : d = Abs(v - values[1])
      BY DEF Differences
    <3>2. PICK t \in Threads : v \in Brought(t)
      BY <1>1
    <3>3. Divides(e, lgcd[t])
      BY <1>2, <2>3 DEF Finished, Story, HandedOn, Reaches
    <3>4. CommonOf(lgcd[t], Differences(Brought(t), values[1]))
      BY <1>2 DEF Story, Divisor
    <3>5. d \in Differences(Brought(t), values[1])
      BY <3>1, <3>2 DEF Differences
    <3> QED
      BY <3>3, <3>4, <3>5 DEF CommonOf
  <2>4. CommonOf(gcd_accum, Differences(Column, values[1]))
    BY <1>0, <1>2, <2>3 DEF Accumulated, CommonOf
  <2> QED
    BY <1>2, <2>1, <2>2, <2>4 DEF GcdIs, AllHalf
<1>3. CASE ~ AllHalf
  <2>1. PICK v \in Column : v \notin HalfRange
    BY <1>3 DEF AllHalf
  <2>2. PICK t \in Threads : v \in Brought(t)
    BY <1>1
  <2>3. out_of_range
    BY <2>1, <2>2 DEF Story, Divisor
  <2> QED
    BY <1>0, <1>3, <2>3 DEF GcdIs, AllHalf
<1> QED
  BY <1>2, <1>3

\* And the table.
LEMMA TableMerged ==
    ASSUME Assumptions, Inv, Story, Finished, NoValueTwice
    PROVE  TableIs(Result.unique, Column)
<1>0. /\ Shape /\ Memory /\ FromColumn /\ TableLimit \in Nat /\ OverflowIsTrue
      /\ Result.unique = IF overflow \/ Cardinality(Distinct) > TableLimit THEN NoTable
                         ELSE [some |-> TRUE, set |-> Distinct]
  BY DEF Inv, Story, Result, Assumptions, WidthAssumption
<1>1. IsFiniteSet(Column) /\ Cardinality(Column) \in Nat
  <2>1. IsFiniteSet(1 .. Len(values))
    BY <1>0, FS_Interval DEF Shape
  <2>2. values \in [1 .. Len(values) -> Column]
    BY <1>0 DEF Column, Shape
  <2>3. values \in Surjection(1 .. Len(values), Column)
    BY <1>0, <2>2 DEF Column, Shape, Surjection
  <2>4. IsFiniteSet(Column)
    BY <2>1, <2>3, FS_Surjection DEF ExistsSurjection
  <2> QED
    BY <2>4, FS_CardinalityType
<1>2. CASE overflow
  <2>1. Cardinality(InTable) > TableLimit
    BY <1>0, <1>2, FullTable DEF OverflowIsTrue
  <2>2. Cardinality(InTable) =< Cardinality(Column) /\ Cardinality(InTable) \in Nat
    BY <1>0, <1>1, FS_Subset, FS_CardinalityType DEF FromColumn
  <2>3. ~ (Cardinality(Column) =< TableLimit)
    BY <1>0, <1>1, <2>1, <2>2
  <2> QED
    BY <1>0, <1>2, <2>3 DEF TableIs
<1>3. CASE ~ overflow
  <2>1. Distinct \subseteq Column
    BY <1>0 DEF Distinct, FromColumn
  <2>2. Column \subseteq Distinct
    <3> SUFFICES ASSUME NEW v \in Column PROVE v \in Distinct
      OBVIOUS
    <3>1. PICK n \in 1 .. Len(values) : v = values[n]
      BY <1>0 DEF Column, Shape
    <3>2. PICK t \in Threads : n \in Before(t)
      BY AllBrought
    <3>3. v \in InTable \/ (has_sentinel /\ v = Sentinel)
      BY <1>3, <3>1, <3>2 DEF Story, Entered
    <3> QED
      BY <3>3 DEF Distinct
  <2>3. Distinct = Column
    BY <2>1, <2>2
  <2>4. Cardinality(Column) > TableLimit <=> ~ (Cardinality(Column) =< TableLimit)
    BY <1>0, <1>1
  <2> QED
    BY <1>0, <1>3, <2>3, <2>4 DEF TableIs
<1> QED
  BY <1>2, <1>3

(* The kernel's memory keeps its shapes. *)
THEOREM StatsTypeCorrect == ASSUME Assumptions PROVE StatsSpec => []StatsTypeOK
<1>1. StatsInit => Inv /\ Story
  BY InitInv, InitStory
<1>2. Inv /\ Story /\ [StatsNext]_statsVars => (Inv /\ Story)'
  BY NextInv, NextStory
<1>3. Inv /\ Story => StatsTypeOK
  <2> SUFFICES ASSUME Inv, Story PROVE StatsTypeOK
    OBVIOUS
  <2>1. Sentinel \in Int64
    BY Ranges DEF Sentinel, Assumptions, Positive
  <2>2. \A t \in Threads : tpc[t] \in {"probe", "count"} => HasValue(t)
    BY DEF Inv, Passed, Story, Entered
  <2> QED
    BY <2>1, <2>2 DEF Inv, Shape, Story, Memory, StatsTypeOK
<1> QED
  BY <1>1, <1>2, <1>3, PTL DEF StatsSpec

(* When the grid has ended, the statistics the host reads are those of the
   sequential pass, field by field: for any column, any number of threads, any
   interleaving, and however old a flag or a divisor a thread has seen. *)
THEOREM DeviceIsCpu == ASSUME Assumptions PROVE StatsSpec => []DeviceEqualsCpu
<1>1. StatsInit => Inv /\ Story
  BY InitInv, InitStory
<1>2. Inv /\ Story /\ [StatsNext]_statsVars => (Inv /\ Story)'
  BY NextInv, NextStory
<1>3. Inv /\ Story => DeviceEqualsCpu
  <2> SUFFICES ASSUME Inv, Story, Finished PROVE Result = StatsOf(values)
    BY DEF DeviceEqualsCpu
  <2>1. PICK s : s = Result
    OBVIOUS
  <2>2. NoValueTwice
    BY OnceEach
  <2>3. /\ s = [min |-> s.min, max |-> s.max, gcd |-> s.gcd, unique |-> s.unique]
        /\ s.min = out_min /\ s.max = out_max
    BY <2>1 DEF Result
  <2>4. values[1] \in Column /\ Column \cup {values[1]} = Column
    BY BroughtOfColumn DEF Threads, Assumptions, GridAssumption
  <2>5. Summarises(s, values[1], Column)
    BY <2>1, <2>2, <2>3, <2>4, ExtremesMerged, DivisorMerged, TableMerged DEF Summarises
  <2>6. values \in Seq(Int64) /\ values # <<>> /\ WidthAssumption
    BY DEF Inv, Shape, Story, Memory, Assumptions
  <2>7. Column = {values[k] : k \in DOMAIN values}
    BY DEF Column
  <2> QED
    BY <2>1, <2>5, <2>6, <2>7, SummaryIsStats
<1> QED
  BY <1>1, <1>2, <1>3, PTL DEF StatsSpec
=============================================================================
