--------------------------- MODULE ListingsProofs ---------------------------
(***************************************************************************)
(* What the operators on sequences and sets that the models are built from *)
(* return, for every argument.                                             *)
(***************************************************************************)
EXTENDS Listings, FiniteSetsExt, SequenceTheorems, FiniteSetTheorems, WellFoundedInduction, TLAPS

(* Least and greatest elements: Min and Max are CHOOSE, so a proof must     *)
(* know that there is something to choose.                                  *)

LEMMA NatLeast ==
    ASSUME NEW T \in SUBSET Nat, T # {} PROVE \E m \in T : \A k \in T : m <= k
<1>1. PICK m \in T : \A k \in T : ~ (<<k, m>> \in OpToRel(<, Nat))
  BY NatLessThanWellFounded, WFMin
<1>2. \A k \in T : ~ (k < m)
  BY <1>1 DEF OpToRel
<1>3. QED
  BY <1>2

(* Induction over the naturals, by the least counterexample. *)
LEMMA NatSteps ==
    ASSUME NEW P \in SUBSET Nat, 0 \in P, \A n \in P : n + 1 \in P PROVE P = Nat
<1> SUFFICES ASSUME Nat \ P # {} PROVE FALSE
  OBVIOUS
<1>1. PICK m \in Nat \ P : \A k \in Nat \ P : m <= k
  BY NatLeast
<1>2. m # 0 /\ m - 1 \in Nat
  BY <1>1
<1>3. m - 1 \in P
  BY <1>1, <1>2
<1>4. QED
  BY <1>1, <1>2, <1>3

LEMMA MinIsLeast ==
    ASSUME NEW T \in SUBSET Nat, T # {} PROVE Min(T) \in T /\ \A k \in T : Min(T) <= k
  BY NatLeast DEF Min

LEMMA MaxIsGreatest ==
    ASSUME NEW n \in Nat, NEW T \in SUBSET (0 .. n), T # {}
    PROVE  Max(T) \in T /\ \A k \in T : k <= Max(T)
<1> DEFINE D == {d \in 0 .. n : \E k \in T : d = n - k}
<1>1. PICK e \in T : e \in 0 .. n
  OBVIOUS
<1>2. D \in SUBSET Nat /\ n - e \in D
  BY <1>1
<1>3. PICK d \in D : \A f \in D : d <= f
  BY <1>2, NatLeast
<1>4. PICK m \in T : d = n - m
  BY <1>3
<1>5. ASSUME NEW k \in T PROVE m >= k
  <2>1. n - k \in D /\ k \in 0 .. n /\ m \in 0 .. n
    OBVIOUS
  <2>2. n - m <= n - k
    BY <1>3, <1>4, <2>1
  <2>3. QED
    BY <2>1, <2>2
<1>6. QED
  BY <1>5 DEF Max

LEMMA FunctionIsSeq ==
    ASSUME NEW S, NEW n \in Nat, NEW f \in [1 .. n -> S]
    PROVE  f \in Seq(S) /\ Len(f) = n /\ DOMAIN f = 1 .. n
BY SeqDef

LEMMA SeqGrows ==
    ASSUME NEW S, NEW T, S \subseteq T, NEW s \in Seq(S) PROVE s \in Seq(T)
<1>1. s \in [1 .. Len(s) -> T] /\ Len(s) \in Nat
  BY ElementOfSeq
<1>2. QED
  BY <1>1, FunctionIsSeq

LEMMA AppendExtends ==
    ASSUME NEW S, NEW s \in Seq(S), NEW x \in S
    PROVE  /\ Append(s, x) \in Seq(S) /\ Len(Append(s, x)) = Len(s) + 1
           /\ DOMAIN Append(s, x) = 1 .. Len(s) + 1 /\ DOMAIN s = 1 .. Len(s) /\ Len(s) \in Nat
           /\ Append(s, x)[Len(s) + 1] = x
           /\ \A i \in 1 .. Len(s) : Append(s, x)[i] = s[i]
BY AppendProperties

LEMMA ConcatElements ==
    ASSUME NEW S, NEW s \in Seq(S), NEW t \in Seq(S)
    PROVE  ToSet(s \o t) = ToSet(s) \cup ToSet(t)
<1>1. /\ s \o t \in Seq(S) /\ Len(s \o t) = Len(s) + Len(t)
      /\ \A i \in 1 .. Len(s) + Len(t) :
            (s \o t)[i] = IF i <= Len(s) THEN s[i] ELSE t[i - Len(s)]
  BY ConcatProperties
<1>2. /\ Len(s) \in Nat /\ Len(t) \in Nat /\ DOMAIN s = 1 .. Len(s) /\ DOMAIN t = 1 .. Len(t)
      /\ DOMAIN (s \o t) = 1 .. Len(s) + Len(t)
  BY <1>1
<1>3. ASSUME NEW i \in DOMAIN (s \o t) PROVE (s \o t)[i] \in ToSet(s) \cup ToSet(t)
  <2>1. CASE i <= Len(s)
    BY <1>1, <1>2, <2>1 DEF ToSet
  <2>2. CASE ~(i <= Len(s))
    <3>1. i - Len(s) \in DOMAIN t
      BY <1>2, <2>2
    <3>2. QED
      BY <1>1, <1>2, <2>2, <3>1 DEF ToSet
  <2>3. QED
    BY <2>1, <2>2
<1>4. ASSUME NEW i \in DOMAIN s PROVE s[i] \in ToSet(s \o t)
  BY <1>1, <1>2 DEF ToSet
<1>5. ASSUME NEW i \in DOMAIN t PROVE t[i] \in ToSet(s \o t)
  <2>1. i + Len(s) \in DOMAIN (s \o t) /\ ~(i + Len(s) <= Len(s)) /\ (i + Len(s)) - Len(s) = i
    BY <1>2
  <2>2. QED
    BY <1>1, <1>2, <2>1 DEF ToSet
<1>6. QED
  BY <1>3, <1>4, <1>5 DEF ToSet

-----------------------------------------------------------------------------
(* A set in order: below[x] is what comes before x.                        *)

Ranks(S, below) ==
    /\ below \in [S -> SUBSET S]
    /\ \A x \in S : x \notin below[x] /\ \A y \in below[x] : below[y] \subseteq below[x]
    /\ \A x, y \in S : x = y \/ x \in below[y] \/ y \in below[x]

LEMMA RankGrows ==
    ASSUME NEW S, IsFiniteSet(S), NEW below, Ranks(S, below), NEW x \in S
    PROVE  /\ Cardinality(below[x]) \in 0 .. Cardinality(S) - 1 /\ Cardinality(S) \in Nat
           /\ \A z \in S : x \in below[z] => Cardinality(below[x]) < Cardinality(below[z])
<1>1. below[x] \in SUBSET S /\ x \notin below[x]
  BY DEF Ranks
<1>2. IsFiniteSet(below[x])
  BY <1>1, FS_Subset
<1>3. /\ Cardinality(below[x]) \in Nat /\ IsFiniteSet(below[x] \cup {x})
      /\ Cardinality(below[x] \cup {x}) = Cardinality(below[x]) + 1
  BY <1>1, <1>2, FS_AddElement, FS_CardinalityType
<1>4. Cardinality(S) \in Nat /\ Cardinality(below[x]) + 1 <= Cardinality(S)
  <2>1. below[x] \cup {x} \in SUBSET S
    BY <1>1
  <2> QED
    BY <1>3, <2>1, FS_Subset, FS_CardinalityType
<1>5. ASSUME NEW z \in S, x \in below[z] PROVE Cardinality(below[x]) < Cardinality(below[z])
  <2>1. below[x] \cup {x} \in SUBSET below[z] /\ below[z] \in SUBSET S
    BY <1>5 DEF Ranks
  <2>2. IsFiniteSet(below[z])
    BY <2>1, FS_Subset
  <2>3. Cardinality(below[x] \cup {x}) <= Cardinality(below[z]) /\ Cardinality(below[z]) \in Nat
    BY <2>1, <2>2, FS_Subset, FS_CardinalityType
  <2> QED
    BY <1>3, <2>3
<1> QED
  BY <1>3, <1>4, <1>5

LEMMA RankIsUnique ==
    ASSUME NEW S, IsFiniteSet(S), NEW below, Ranks(S, below), NEW x \in S, NEW z \in S,
           Cardinality(below[x]) = Cardinality(below[z])
    PROVE  x = z
<1>1. Cardinality(below[x]) \in Int /\ Cardinality(below[z]) \in Int
  BY RankGrows
<1>2. x \notin below[z] /\ z \notin below[x]
  BY <1>1, RankGrows
<1> QED
  BY <1>2 DEF Ranks

LEMMA RankCounts ==
    ASSUME NEW S, IsFiniteSet(S), NEW below, Ranks(S, below), NEW k \in 1 .. Cardinality(S)
    PROVE  \E x \in S : Cardinality(below[x]) = k - 1
<1> DEFINE n == Cardinality(S)
<1> DEFINE rank == [x \in S |-> Cardinality(below[x]) + 1]
<1>1. n \in Nat /\ IsFiniteSet(1 .. n) /\ Cardinality(1 .. n) = n
  BY FS_CardinalityType, FS_Interval
<1>2. \A x \in S : Cardinality(below[x]) \in 0 .. n - 1
  BY RankGrows
<1>3. rank \in [S -> 1 .. n]
  BY <1>1, <1>2
<1>4. \A x, z \in S : rank[x] = rank[z] => x = z
  <2> SUFFICES ASSUME NEW x \in S, NEW z \in S, rank[x] = rank[z] PROVE x = z
    OBVIOUS
  <2>1. Cardinality(below[x]) = Cardinality(below[z])
    BY <1>1, <1>2
  <2> QED
    BY <2>1, RankIsUnique
<1>5. rank \in Injection(S, 1 .. n)
  BY <1>3, <1>4 DEF Injection, IsInjective
<1>6. rank \in Surjection(S, 1 .. n)
  BY <1>1, <1>5, FS_Injection
<1>7. PICK x \in S : rank[x] = k
  BY <1>6 DEF Surjection
<1> QED
  BY <1>1, <1>2, <1>7

ByRank(S, below, s) ==
    /\ s = [k \in 1 .. Cardinality(S) |-> s[k]]
    /\ \A k \in 1 .. Cardinality(S) :
          (\E x \in S : Cardinality(below[x]) = k - 1) => s[k] \in S /\ Cardinality(below[s[k]]) = k - 1

LEMMA ByRankIsOrdered ==
    ASSUME NEW S, IsFiniteSet(S), NEW below, Ranks(S, below), NEW s, ByRank(S, below, s)
    PROVE  /\ s \in Seq(S) /\ Len(s) = Cardinality(S) /\ Cardinality(S) \in Nat
           /\ DOMAIN s = 1 .. Cardinality(S) /\ s \o <<>> = s
           /\ \A x \in S : \E k \in 1 .. Cardinality(S) : s[k] = x
           /\ \A j, k \in 1 .. Cardinality(S) : j < k => s[j] \in below[s[k]]
           /\ \A k \in 1 .. Cardinality(S) : s[k] \in S /\ Cardinality(below[s[k]]) = k - 1
<1> DEFINE n == Cardinality(S)
<1>1. n \in Nat
  BY FS_CardinalityType
<1>2. \A k \in 1 .. n : s[k] \in S /\ Cardinality(below[s[k]]) = k - 1
  BY RankCounts DEF ByRank
<1>3. s \in Seq(S) /\ Len(s) = n /\ DOMAIN s = 1 .. n
  <2>1. s \in [1 .. n -> S]
    BY <1>2 DEF ByRank
  <2> QED
    BY <1>1, <2>1, FunctionIsSeq
<1>4. s \o <<>> = s
  BY <1>3, ConcatEmptySeq
<1>5. ASSUME NEW x \in S PROVE \E k \in 1 .. n : s[k] = x
  <2>1. Cardinality(below[x]) \in 0 .. n - 1
    BY RankGrows
  <2>2. PICK k \in 1 .. n : k = Cardinality(below[x]) + 1
    BY <1>1, <2>1
  <2>3. PICK v \in S : v = s[k] /\ Cardinality(below[v]) = k - 1
    BY <1>2
  <2>4. Cardinality(below[v]) = Cardinality(below[x])
    BY <1>1, <2>1, <2>2, <2>3
  <2>5. v = x
    BY <2>4, RankIsUnique
  <2> QED
    BY <2>3, <2>5
<1>6. ASSUME NEW j \in 1 .. n, NEW k \in 1 .. n, j < k PROVE s[j] \in below[s[k]]
  <2>1. PICK u \in S : u = s[j] /\ Cardinality(below[u]) = j - 1
    BY <1>2
  <2>2. PICK v \in S : v = s[k] /\ Cardinality(below[v]) = k - 1
    BY <1>2
  <2>3. u # v
    BY <1>1, <1>6, <2>1, <2>2
  <2>4. v \notin below[u]
    <3>1. v \in below[u] => Cardinality(below[v]) < Cardinality(below[u])
      BY RankGrows
    <3> QED
      BY <1>1, <1>6, <2>1, <2>2, <3>1
  <2> QED
    BY <2>1, <2>2, <2>3, <2>4 DEF Ranks
<1> QED
  BY <1>1, <1>2, <1>3, <1>4, <1>5, <1>6

Below(S, x) == {y \in S : y < x}

(* Integers in order. *)
LEMMA IntsInOrder ==
    ASSUME NEW S \in SUBSET Int, IsFiniteSet(S)
    PROVE  /\ InOrder(S) \in Seq(S) /\ Len(InOrder(S)) = Cardinality(S)
           /\ DOMAIN InOrder(S) = 1 .. Cardinality(S) /\ Cardinality(S) \in Nat
           /\ \A x \in S : \E k \in DOMAIN InOrder(S) : InOrder(S)[k] = x
           /\ \A j, k \in DOMAIN InOrder(S) : j < k => InOrder(S)[j] < InOrder(S)[k]
           /\ \A k \in DOMAIN InOrder(S) : Cardinality(Below(S, InOrder(S)[k])) = k - 1
<1> DEFINE n == Cardinality(S)
<1>1. PICK below : below = [x \in S |-> Below(S, x)]
  OBVIOUS
<1>2. Ranks(S, below)
  <2>1. below \in [S -> SUBSET S]
    BY <1>1 DEF Below
  <2>2. \A x, y \in S : y \in below[x] <=> y < x
    BY <1>1 DEF Below
  <2>3. \A x \in S : x \in Int
    OBVIOUS
  <2>4. \A x \in S : x \notin below[x] /\ \A y \in below[x] : below[y] \subseteq below[x]
    <3>1. ASSUME NEW x \in S PROVE x \notin below[x]
      <4>1. x \in Int /\ ~(x < x)
        OBVIOUS
      <4> QED
        BY <2>2, <4>1
    <3>2. ASSUME NEW x \in S, NEW y \in below[x], NEW z \in below[y] PROVE z \in below[x]
      <4>1. y \in S
        BY <2>1
      <4>2. z \in S
        BY <2>1, <4>1
      <4>3. y < x /\ z < y
        BY <2>2, <4>1, <4>2
      <4> QED
        BY <2>2, <2>3, <4>1, <4>2, <4>3
    <3> QED
      BY <3>1, <3>2
  <2>5. \A x, y \in S : x = y \/ x \in below[y] \/ y \in below[x]
    BY <2>2, <2>3
  <2> QED
    BY <2>1, <2>4, <2>5 DEF Ranks
<1>3. PICK s : s = [k \in 1 .. n |-> CHOOSE x \in S : Cardinality({y \in S : y < x}) = k - 1]
  OBVIOUS
<1>4. \A x \in S : {y \in S : y < x} = below[x]
  BY <1>1 DEF Below
<1>5. \A k \in 1 .. n : (\E x \in S : Cardinality(below[x]) = k - 1) =>
                         s[k] \in S /\ Cardinality(below[s[k]]) = k - 1
  <2> SUFFICES ASSUME NEW k \in 1 .. n, NEW x \in S, Cardinality(below[x]) = k - 1
               PROVE  s[k] \in S /\ Cardinality(below[s[k]]) = k - 1
    OBVIOUS
  <2>1. Cardinality({y \in S : y < x}) = k - 1
    BY <1>4
  <2>2. s[k] = CHOOSE z \in S : Cardinality({y \in S : y < z}) = k - 1
    BY <1>3
  <2>3. s[k] \in S /\ Cardinality({y \in S : y < s[k]}) = k - 1
    BY <2>1, <2>2
  <2> QED
    BY <1>4, <2>3
<1>6. ByRank(S, below, s)
  <2> DEFINE ranked(k) == CHOOSE x \in S : Cardinality({y \in S : y < x}) = k - 1
  <2>1. s = [k \in 1 .. n |-> ranked(k)]
    BY <1>3
  <2> HIDE DEF ranked
  <2>2. s = [k \in 1 .. n |-> s[k]]
    BY <2>1
  <2> QED
    BY <1>5, <2>2 DEF ByRank
<1>7. /\ s \in Seq(S) /\ Len(s) = n /\ n \in Nat /\ DOMAIN s = 1 .. n /\ s \o <<>> = s
      /\ \A x \in S : \E k \in 1 .. n : s[k] = x
      /\ \A j, k \in 1 .. n : j < k => s[j] \in below[s[k]]
      /\ \A k \in 1 .. n : s[k] \in S /\ Cardinality(below[s[k]]) = k - 1
  BY <1>2, <1>6, ByRankIsOrdered
<1>8. InOrder(S) = s
  BY <1>3, <1>7 DEF InOrder, Sorted, Listed
<1>9. \A j, k \in 1 .. n : j < k => s[j] < s[k]
  BY <1>1, <1>7 DEF Below
<1>10. \A k \in 1 .. n : Cardinality(Below(S, s[k])) = k - 1
  BY <1>1, <1>7
<1> QED
  BY <1>7, <1>8, <1>9, <1>10

(* Numbers in order. *)
LEMMA InOrderIsOrdered ==
    ASSUME NEW S \in SUBSET Nat, IsFiniteSet(S)
    PROVE  /\ InOrder(S) \in Seq(S) /\ Len(InOrder(S)) = Cardinality(S)
           /\ DOMAIN InOrder(S) = 1 .. Cardinality(S) /\ Cardinality(S) \in Nat
           /\ \A x \in S : \E k \in DOMAIN InOrder(S) : InOrder(S)[k] = x
           /\ \A j, k \in DOMAIN InOrder(S) : j < k => InOrder(S)[j] < InOrder(S)[k]
           /\ \A k \in DOMAIN InOrder(S) : Cardinality(Below(S, InOrder(S)[k])) = k - 1
<1>1. S \in SUBSET Int
  OBVIOUS
<1> QED
  BY <1>1, IntsInOrder

LEMMA FirstNumbers ==
    ASSUME NEW n \in Nat PROVE IsFiniteSet(0 .. n - 1) /\ Cardinality(0 .. n - 1) = n
  BY FS_Interval

(* The first n numbers in order are themselves. *)
LEMMA InOrderInterval ==
    ASSUME NEW n \in Nat
    PROVE  DOMAIN InOrder(0 .. n - 1) = 1 .. n /\ \A k \in 1 .. n : InOrder(0 .. n - 1)[k] = k - 1
<1>1. IsFiniteSet(0 .. n - 1) /\ Cardinality(0 .. n - 1) = n
  BY FirstNumbers
<1>2. /\ InOrder(0 .. n - 1) \in Seq(0 .. n - 1) /\ DOMAIN InOrder(0 .. n - 1) = 1 .. n
      /\ \A k \in 1 .. n : Cardinality(Below(0 .. n - 1, InOrder(0 .. n - 1)[k])) = k - 1
  BY <1>1, InOrderIsOrdered
<1>3. ASSUME NEW k \in 1 .. n PROVE InOrder(0 .. n - 1)[k] = k - 1
  <2>1. PICK x \in 0 .. n - 1 : x = InOrder(0 .. n - 1)[k]
    BY <1>2, ElementOfSeq
  <2>2. Below(0 .. n - 1, x) = 0 .. x - 1
    BY <2>1 DEF Below
  <2>3. Cardinality(0 .. x - 1) = x
    <3>1. x \in Nat
      OBVIOUS
    <3>2. QED
      BY <3>1, FS_Interval
  <2>4. QED
    BY <1>2, <2>1, <2>2, <2>3
<1>4. QED
  BY <1>2, <1>3

LEMMA ChosenAreChosen ==
    ASSUME NEW S, NEW s \in Seq(S), NEW At \in SUBSET (DOMAIN s)
    PROVE  /\ Chosen(s, At) \in Seq(S) /\ DOMAIN Chosen(s, At) = 1 .. Len(Chosen(s, At))
           /\ Len(Chosen(s, At)) = Cardinality(At) /\ Cardinality(At) \in Nat
           /\ \A j \in DOMAIN Chosen(s, At) : \E n \in At : Chosen(s, At)[j] = s[n]
           /\ \A n \in At : \E j \in DOMAIN Chosen(s, At) : Chosen(s, At)[j] = s[n]
<1> DEFINE at == InOrder(At)
<1>1. At \in SUBSET Nat /\ IsFiniteSet(At)
  <2>1. DOMAIN s = 1 .. Len(s) /\ Len(s) \in Nat
    OBVIOUS
  <2>2. IsFiniteSet(1 .. Len(s))
    BY <2>1, FS_Interval
  <2>3. At \in SUBSET (1 .. Len(s))
    BY <2>1
  <2>4. QED
    BY <2>1, <2>2, <2>3, FS_Subset
<1>2. /\ at \in Seq(At) /\ DOMAIN at = 1 .. Cardinality(At) /\ Cardinality(At) \in Nat
      /\ \A x \in At : \E k \in DOMAIN at : at[k] = x
  BY <1>1, InOrderIsOrdered
<1>3. Chosen(s, At) = [k \in DOMAIN at |-> s[at[k]]]
  BY DEF Chosen
<1> HIDE DEF at
<1>4. \A k \in DOMAIN at : at[k] \in At
  BY <1>2, ElementOfSeq
<1>5. Chosen(s, At) \in [1 .. Cardinality(At) -> S]
  BY <1>2, <1>3, <1>4, ElementOfSeq
<1>6. /\ Chosen(s, At) \in Seq(S) /\ Len(Chosen(s, At)) = Cardinality(At)
      /\ DOMAIN Chosen(s, At) = 1 .. Cardinality(At)
  BY <1>2, <1>5, FunctionIsSeq
<1>7. QED
  BY <1>2, <1>3, <1>4, <1>6

-----------------------------------------------------------------------------
(* Sequences of sequences in one.  FlattenSeq is a recursive function: that *)
(* there is one, and that it is the same for a longer sequence, is proved   *)
(* along its length.                                                        *)

Flattens(f, n, seqs) == \A i \in 1 .. n : f[i] = IF i = 1 THEN seqs[i] ELSE f[i - 1] \o seqs[i]

LEMMA FlattensExists ==
    ASSUME NEW S, NEW seqs \in Seq(Seq(S)), NEW n \in 0 .. Len(seqs)
    PROVE  \E f \in [1 .. n -> Seq(S)] : Flattens(f, n, seqs)
<1> DEFINE P == {m \in Nat : m <= Len(seqs) =>
                                \E f \in [1 .. m -> Seq(S)] : Flattens(f, m, seqs)}
<1>1. 0 \in P
  <2>1. [i \in 1 .. 0 |-> <<>>] \in [1 .. 0 -> Seq(S)]
    OBVIOUS
  <2>2. \A f : Flattens(f, 0, seqs)
    BY DEF Flattens
  <2>3. QED
    BY <2>1, <2>2
<1>2. ASSUME NEW m \in P, m + 1 <= Len(seqs)
      PROVE  \E f \in [1 .. m + 1 -> Seq(S)] : Flattens(f, m + 1, seqs)
  <2>1. m \in Nat /\ seqs[m + 1] \in Seq(S)
    BY <1>2, ElementOfSeq
  <2>2. PICK f \in [1 .. m -> Seq(S)] : Flattens(f, m, seqs)
    BY <1>2, <2>1
  <2> DEFINE last == IF m = 0 THEN seqs[m + 1] ELSE f[m] \o seqs[m + 1]
  <2> DEFINE g == [i \in 1 .. m + 1 |-> IF i = m + 1 THEN last ELSE f[i]]
  <2>3. last \in Seq(S)
    BY <2>1, <2>2, ConcatProperties
  <2> HIDE DEF last, P
  <2>4. g \in [1 .. m + 1 -> Seq(S)] /\ \A k \in 1 .. m + 1 : k # m + 1 => g[k] = f[k]
    BY <2>1, <2>3
  <2>5. g[m + 1] = last
    BY <2>1
  <2> HIDE DEF g
  <2>6. ASSUME NEW i \in 1 .. m + 1
        PROVE  g[i] = IF i = 1 THEN seqs[i] ELSE g[i - 1] \o seqs[i]
    <3>1. CASE i = m + 1
      <4>1. m # 0 => m \in 1 .. m + 1 /\ m # m + 1
        BY <2>1
      <4>2. m # 0 => g[m] = f[m]
        BY <2>4, <4>1
      <4>3. m = 0 <=> i = 1
        BY <2>1, <3>1
      <4>4. i - 1 = m
        BY <2>1, <3>1
      <4>5. QED
        BY <2>5, <3>1, <4>2, <4>3, <4>4 DEF last
    <3>2. CASE i # m + 1
      <4>1. i \in 1 .. m /\ (i # 1 => i - 1 \in 1 .. m + 1 /\ i - 1 # m + 1)
        BY <2>1, <3>2
      <4>2. g[i] = f[i] /\ (i # 1 => g[i - 1] = f[i - 1])
        BY <2>4, <3>2, <4>1
      <4>3. QED
        BY <2>2, <4>1, <4>2 DEF Flattens
    <3>3. QED
      BY <3>1, <3>2
  <2>7. QED
    BY <2>4, <2>6 DEF Flattens
<1>3. \A m \in P : m + 1 \in P
  <2>1. \A m \in P : m \in Nat /\ m + 1 \in Nat
    OBVIOUS
  <2>2. QED
    BY <1>2, <2>1
<1> HIDE DEF P
<1>4. P = Nat
  BY <1>1, <1>3, NatSteps DEF P
<1>5. n \in P
  BY <1>4
<1>6. QED
  BY <1>5 DEF P

LEMMA FlattensSame ==
    ASSUME NEW seqs, NEW n \in Nat
    PROVE  \A f, g : Flattens(f, n, seqs) /\ Flattens(g, n, seqs) => \A k \in 1 .. n : f[k] = g[k]
<1> SUFFICES ASSUME NEW f, NEW g, Flattens(f, n, seqs), Flattens(g, n, seqs), NEW k \in 1 .. n
             PROVE  f[k] = g[k]
  OBVIOUS
<1> DEFINE P == {m \in Nat : m + 1 <= n => f[m + 1] = g[m + 1]}
<1>1. 0 \in P
  BY DEF Flattens
<1>2. ASSUME NEW m \in P PROVE m + 1 \in P
  <2>1. m \in Nat
    OBVIOUS
  <2>2. ASSUME m + 2 <= n PROVE f[m + 2] = g[m + 2]
    <3>1. m + 2 \in 1 .. n /\ m + 2 # 1 /\ (m + 2) - 1 = m + 1
      BY <2>1, <2>2
    <3>2. f[m + 1] = g[m + 1]
      BY <2>1, <2>2
    <3>3. f[m + 2] = f[m + 1] \o seqs[m + 2] /\ g[m + 2] = g[m + 1] \o seqs[m + 2]
      BY <3>1 DEF Flattens
    <3>4. QED
      BY <3>1, <3>2, <3>3
  <2>3. QED
    BY <2>1, <2>2
<1> HIDE DEF P
<1>3. P = Nat
  BY <1>1, <1>2, NatSteps DEF P
<1>4. k - 1 \in P
  BY <1>3
<1>5. QED
  BY <1>4 DEF P

LEMMA FlattenSeqFlattens ==
    ASSUME NEW S, NEW seqs \in Seq(Seq(S)), Len(seqs) # 0
    PROVE  \E f \in [1 .. Len(seqs) -> Seq(S)] :
              Flattens(f, Len(seqs), seqs) /\ FlattenSeq(seqs) = f[Len(seqs)]
<1> DEFINE n == Len(seqs)
<1> DEFINE Def(f) == f = [i \in 1 .. n |-> IF i = 1 THEN seqs[i] ELSE f[i - 1] \o seqs[i]]
<1> DEFINE F == CHOOSE f : Def(f)
<1>1. n \in Nat /\ n # 0
  OBVIOUS
<1>2. PICK f \in [1 .. n -> Seq(S)] : Flattens(f, n, seqs)
  <2>1. PICK m \in 0 .. Len(seqs) : m = n
    BY <1>1
  <2>2. \E f \in [1 .. m -> Seq(S)] : Flattens(f, m, seqs)
    BY FlattensExists
  <2>3. QED
    BY <2>1, <2>2
<1>3. Def(f)
  BY <1>2 DEF Flattens
<1>4. Def(F)
  BY <1>3
<1>5. FlattenSeq(seqs) = F[n]
  BY DEF FlattenSeq
<1> HIDE DEF F
<1>6. DOMAIN F = 1 .. n /\ Flattens(F, n, seqs)
  BY <1>4 DEF Flattens
<1>7. \A k \in 1 .. n : F[k] = f[k]
  <2> HIDE DEF n
  <2>1. QED
    BY <1>1, <1>2, <1>6, FlattensSame
<1>8. n \in 1 .. n
  BY <1>1
<1>9. FlattenSeq(seqs) = f[n]
  BY <1>5, <1>7, <1>8
<1>10. QED
  BY <1>2, <1>9

LEMMA FlattenEmpty == FlattenSeq(<<>>) = <<>>
  BY DEF FlattenSeq

LEMMA FlattenType ==
    ASSUME NEW S, NEW seqs \in Seq(Seq(S)) PROVE FlattenSeq(seqs) \in Seq(S)
<1>1. CASE Len(seqs) = 0
  <2>1. seqs = <<>>
    BY <1>1, EmptySeq
  <2>2. <<>> \in Seq(S)
    BY EmptySeq
  <2>3. QED
    BY <2>1, <2>2, FlattenEmpty
<1>2. CASE Len(seqs) # 0
  <2>1. Len(seqs) \in 1 .. Len(seqs)
    BY <1>2
  <2>2. PICK f \in [1 .. Len(seqs) -> Seq(S)] : FlattenSeq(seqs) = f[Len(seqs)]
    BY <1>2, FlattenSeqFlattens
  <2>3. f[Len(seqs)] \in Seq(S)
    BY <2>1
  <2>4. QED
    BY <2>2, <2>3
<1>3. QED
  BY <1>1, <1>2

LEMMA FlattenAppend ==
    ASSUME NEW S, NEW seqs \in Seq(Seq(S)), NEW x \in Seq(S)
    PROVE  FlattenSeq(Append(seqs, x)) = FlattenSeq(seqs) \o x
<1> DEFINE n == Len(seqs)
<1> DEFINE more == Append(seqs, x)
<1>1. /\ n \in Nat /\ more \in Seq(Seq(S)) /\ Len(more) = n + 1 /\ more[n + 1] = x
      /\ \A i \in 1 .. n : more[i] = seqs[i]
  BY AppendProperties
<1> HIDE DEF more
<1>2. PICK g \in [1 .. n + 1 -> Seq(S)] : Flattens(g, n + 1, more) /\ FlattenSeq(more) = g[n + 1]
  BY <1>1, FlattenSeqFlattens
<1>3. CASE n = 0
  <2>1. g[n + 1] = x
    BY <1>1, <1>2, <1>3 DEF Flattens
  <2>2. seqs = <<>>
    BY <1>3
  <2>3. QED
    BY <1>2, <2>1, <2>2, FlattenEmpty, ConcatEmptySeq DEF more
<1>4. CASE n # 0
  <2>1. PICK f \in [1 .. n -> Seq(S)] : Flattens(f, n, seqs) /\ FlattenSeq(seqs) = f[n]
    BY <1>1, <1>4, FlattenSeqFlattens
  <2>2. Flattens(g, n, seqs)
    <3>1. 1 .. n \subseteq 1 .. n + 1
      BY <1>1
    <3>2. QED
      BY <1>1, <1>2, <3>1 DEF Flattens
  <2>3. n \in Nat /\ n \in 1 .. n
    BY <1>1, <1>4
  <2>4. f[n] = g[n]
    <3> HIDE DEF n
    <3>1. \A u, v : Flattens(u, n, seqs) /\ Flattens(v, n, seqs) => \A k \in 1 .. n : u[k] = v[k]
      BY <2>3, FlattensSame
    <3>2. QED
      BY <2>1, <2>2, <2>3, <3>1
  <2> HIDE DEF n
  <2>5. n + 1 \in 1 .. n + 1 /\ n + 1 # 1 /\ (n + 1) - 1 = n
    BY <1>1, <1>4
  <2>6. g[n + 1] = g[n] \o x
    BY <1>1, <1>2, <2>5 DEF Flattens
  <2>7. QED
    BY <1>2, <2>1, <2>4, <2>6 DEF more
<1>5. QED
  BY <1>3, <1>4

LEMMA ConcatAppend ==
    ASSUME NEW T, NEW s \in Seq(T), NEW t \in Seq(T), NEW x \in T
    PROVE  s \o Append(t, x) = Append(s \o t, x)
BY Z3

LEMMA SeqIsAppend ==
    ASSUME NEW T, NEW c \in Seq(T), c # <<>>
    PROVE  \E front \in Seq(T), x \in T : c = Append(front, x)
<1> DEFINE n == Len(c) - 1
<1> DEFINE front == SubSeq(c, 1, n)
<1> DEFINE x == c[n + 1]
<1>0. n \in Nat /\ Len(c) = n + 1
  BY EmptySeq
<1> HIDE DEF n
<1>1. x \in T /\ \A i \in 1 .. n : c[i] \in T
  BY <1>0, ElementOfSeq
<1>2. /\ front \in Seq(T) /\ Len(front) = n
      /\ \A i \in 1 .. n : front[i] = c[i]
  BY <1>0, <1>1, SubSeqProperties
<1> HIDE DEF front
<1>3. /\ Append(front, x) \in Seq(T) /\ Len(Append(front, x)) = n + 1
      /\ \A i \in 1 .. n : Append(front, x)[i] = front[i]
      /\ Append(front, x)[n + 1] = x
  BY <1>0, <1>1, <1>2, AppendProperties
<1>4. \A i \in 1 .. n + 1 : c[i] = Append(front, x)[i]
  BY <1>0, <1>2, <1>3
<1>5. c = Append(front, x)
  BY <1>0, <1>3, <1>4, SeqEqual
<1>6. QED
  BY <1>1, <1>2, <1>5

LEMMA FlattenConcatOf ==
    ASSUME NEW S, NEW T, NEW a \in Seq(T), NEW b \in Seq(T)
    PROVE  T = Seq(S) => FlattenSeq(a \o b) = FlattenSeq(a) \o FlattenSeq(b)
<1>b. \A c \in Seq(T) : c # <<>> => \E front \in Seq(T), x \in T : c = Append(front, x)
  BY SeqIsAppend
<1>c. \A p, q, r \in Seq(S) : (p \o q) \o r = p \o (q \o r)
  BY ConcatAssociative
<1>0. SUFFICES ASSUME T = Seq(S) PROVE FlattenSeq(a \o b) = FlattenSeq(a) \o FlattenSeq(b)
  OBVIOUS
<1> DEFINE P == {n \in Nat : \A c \in Seq(T) :
                    Len(c) = n => FlattenSeq(a \o c) = FlattenSeq(a) \o FlattenSeq(c)}
<1>a. a \in Seq(T) /\ b \in Seq(T)
  BY <1>0
<1>1. 0 \in P
  <2> SUFFICES ASSUME NEW c \in Seq(T), Len(c) = 0
               PROVE  FlattenSeq(a \o c) = FlattenSeq(a) \o FlattenSeq(c)
    OBVIOUS
  <2>1. c = <<>> /\ FlattenSeq(c) = <<>>
    BY EmptySeq, FlattenEmpty
  <2>2. FlattenSeq(a) \in Seq(S)
    BY <1>0, FlattenType
  <2>3. a \o c = a /\ FlattenSeq(a) \o <<>> = FlattenSeq(a)
    BY <1>a, <2>1, <2>2, ConcatEmptySeq
  <2>4. QED
    BY <2>1, <2>3
<1>2. ASSUME NEW n \in Nat, n \in P PROVE n + 1 \in P
  <2> SUFFICES ASSUME NEW c \in Seq(T), Len(c) = n + 1
               PROVE  FlattenSeq(a \o c) = FlattenSeq(a) \o FlattenSeq(c)
    OBVIOUS
  <2>1. PICK front \in Seq(T), x \in T : Len(front) = n /\ c = Append(front, x)
    <3> HIDE DEF P
    <3>1. c # <<>>
      BY EmptySeq
    <3>2. PICK front \in Seq(T), x \in T : c = Append(front, x)
      BY <1>b, <3>1
    <3>3. Len(c) = Len(front) + 1
      BY <3>2, AppendProperties
    <3>4. QED
      BY <3>2, <3>3
  <2>2. FlattenSeq(a \o front) = FlattenSeq(a) \o FlattenSeq(front)
    BY <1>2, <2>1
  <2> HIDE DEF P
  <2>3. a \o front \in Seq(T) /\ a \o c = Append(a \o front, x)
    BY <1>a, <2>1, ConcatProperties, ConcatAppend
  <2>4. FlattenSeq(Append(a \o front, x)) = FlattenSeq(a \o front) \o x
    BY <1>0, <2>1, <2>3, FlattenAppend
  <2>5. FlattenSeq(Append(front, x)) = FlattenSeq(front) \o x
    BY <1>0, <2>1, FlattenAppend
  <2>6. PICK u \in Seq(S) : u = FlattenSeq(a)
    BY <1>0, FlattenType
  <2>7. PICK v \in Seq(S) : v = FlattenSeq(front)
    BY <1>0, <2>1, FlattenType
  <2>8. (u \o v) \o x = u \o (v \o x)
    <3>1. PICK y \in Seq(S) : y = x
      BY <1>0, <2>1
    <3>2. (u \o v) \o y = u \o (v \o y)
      BY <1>c
    <3>3. QED
      BY <3>1, <3>2
  <2>9. QED
    BY <2>1, <2>2, <2>3, <2>4, <2>5, <2>6, <2>7, <2>8
<1>3. P = Nat
  <2>1. P \in SUBSET Nat
    OBVIOUS
  <2> HIDE DEF P
  <2>2. QED
    BY <1>1, <1>2, <2>1, NatSteps
<1> HIDE DEF P
<1>4. Len(b) \in P
  BY <1>3
<1>5. QED
  BY <1>a, <1>4 DEF P

LEMMA FlattenConcat ==
    ASSUME NEW S, NEW a \in Seq(Seq(S)), NEW b \in Seq(Seq(S))
    PROVE  FlattenSeq(a \o b) = FlattenSeq(a) \o FlattenSeq(b)
<1>1. PICK T : T = Seq(S)
  OBVIOUS
<1>2. a \in Seq(T) /\ b \in Seq(T)
  BY <1>1
<1>3. QED
  BY <1>1, <1>2, FlattenConcatOf

-----------------------------------------------------------------------------
(* A sequence cut into parts.                                              *)

LEMMA PartBounds ==
    ASSUME NEW n \in Nat, NEW size \in Nat \ {0}
    PROVE  /\ CeilDiv(n, size) \in Nat /\ n <= CeilDiv(n, size) * size
           /\ \A c \in 1 .. CeilDiv(n, size) : (c - 1) * size < n
<1> DEFINE q == CeilDiv(n, size)
<1>1. q \in Nat /\ q * size <= n + size - 1 /\ n + size - 1 < q * size + size
  BY DEF CeilDiv
<1> HIDE DEF q
<1>2. n <= q * size
  BY <1>1
<1>3. ASSUME NEW c \in 1 .. q PROVE (c - 1) * size < n
  <2>1. c * size <= q * size /\ (c - 1) * size = c * size - size
    BY <1>1
  <2>2. c * size \in Nat /\ q * size \in Nat
    BY <1>1
  <2>3. QED
    BY <1>1, <2>1, <2>2
<1>4. QED
  BY <1>1, <1>2, <1>3 DEF q

(* Where part c ends. *)
EndOf(c, n, size) == IF c * size < n THEN c * size ELSE n

LEMMA EndBounds ==
    ASSUME NEW n \in Nat, NEW size \in Nat \ {0}, NEW c \in 1 .. CeilDiv(n, size)
    PROVE  /\ (c - 1) * size \in 0 .. n - 1 /\ EndOf(c, n, size) \in 1 .. n
           /\ EndOf(c, n, size) - (c - 1) * size \in 1 .. size
           /\ c # 1 => EndOf(c - 1, n, size) = (c - 1) * size
<1>1. CeilDiv(n, size) \in Nat /\ (c - 1) * size < n
  BY PartBounds
<1>2. PICK a \in Nat : a = (c - 1) * size
  <2>1. c - 1 \in Nat /\ size \in Nat
    BY <1>1
  <2>2. QED
    BY <2>1
<1>3. c * size = a + size
  BY <1>1, <1>2
<1>4. EndOf(c, n, size) = IF a + size < n THEN a + size ELSE n
  BY <1>3 DEF EndOf
<1>5. EndOf(c - 1, n, size) = a
  BY <1>1, <1>2 DEF EndOf
<1>6. QED
  BY <1>1, <1>2, <1>4, <1>5

Window(part, s, size) ==
    /\ Len(part) \in 1 .. size
    /\ \E a \in Nat : a + Len(part) <= Len(s) /\ \A k \in 1 .. Len(part) : part[k] = s[a + k]

LEMMA ChunksAreParts ==
    ASSUME NEW S, NEW s \in Seq(S), NEW size \in Nat \ {0}
    PROVE  /\ Chunks(s, size) \in Seq(Seq(S)) /\ Len(Chunks(s, size)) = CeilDiv(Len(s), size)
           /\ \A c \in 1 .. CeilDiv(Len(s), size) :
                 /\ Chunks(s, size)[c] = SubSeq(s, (c - 1) * size + 1, EndOf(c, Len(s), size))
                 /\ Window(Chunks(s, size)[c], s, size)
<1> DEFINE n == Len(s)
<1> DEFINE q == CeilDiv(n, size)
<1> DEFINE part(c) == SubSeq(s, (c - 1) * size + 1, EndOf(c, n, size))
<1>1. n \in Nat /\ q \in Nat
  <2>1. n \in Nat
    OBVIOUS
  <2> HIDE DEF n
  <2>2. QED
    BY <2>1, PartBounds
<1>2. ASSUME NEW c \in 1 .. q
      PROVE  part(c) \in Seq(S) /\ Window(part(c), s, size)
  <2>1. PICK a \in 0 .. n - 1, e \in 1 .. n :
            a = (c - 1) * size /\ e = EndOf(c, n, size) /\ e - a \in 1 .. size
    BY <1>1, EndBounds
  <2>2. \A i \in a + 1 .. e : s[i] \in S
    BY <1>1, <2>1, ElementOfSeq
  <2>3. /\ SubSeq(s, a + 1, e) \in Seq(S) /\ Len(SubSeq(s, a + 1, e)) = e - a
        /\ \A k \in 1 .. e - a : SubSeq(s, a + 1, e)[k] = s[a + k]
    <3>1. a + 1 \in Int /\ e \in Int /\ e - (a + 1) + 1 = e - a /\ a + 1 <= e
      BY <1>1, <2>1
    <3>2. /\ SubSeq(s, a + 1, e) \in Seq(S) /\ Len(SubSeq(s, a + 1, e)) = e - a
          /\ \A k \in 1 .. e - (a + 1) + 1 : SubSeq(s, a + 1, e)[k] = s[a + 1 + k - 1]
      BY <2>2, <3>1, SubSeqProperties
    <3>3. \A k \in 1 .. e - a : a + 1 + k - 1 = a + k
      BY <2>1
    <3>4. QED
      BY <3>1, <3>2, <3>3
  <2>4. a \in Nat /\ a + (e - a) <= n
    BY <1>1, <2>1
  <2>5. Window(SubSeq(s, a + 1, e), s, size)
    BY <2>1, <2>3, <2>4 DEF Window
  <2>6. QED
    BY <2>1, <2>3, <2>5
<1>3. Chunks(s, size) = [c \in 1 .. q |-> part(c)] \o <<>>
  BY DEF Chunks, Listed, EndOf
<1> HIDE DEF part, q
<1>4. [c \in 1 .. q |-> part(c)] \in [1 .. q -> Seq(S)]
  BY <1>2
<1>5. [c \in 1 .. q |-> part(c)] \in Seq(Seq(S)) /\ Len([c \in 1 .. q |-> part(c)]) = q
  BY <1>1, <1>4, FunctionIsSeq
<1>6. Chunks(s, size) = [c \in 1 .. q |-> part(c)]
  BY <1>3, <1>5, ConcatEmptySeq
<1>7. Chunks(s, size) \in Seq(Seq(S)) /\ Len(Chunks(s, size)) = q
  BY <1>5, <1>6
<1>8. \A c \in 1 .. q : Chunks(s, size)[c] = part(c)
  BY <1>6
<1>9. \A c \in 1 .. q :
          Chunks(s, size)[c] = part(c) /\ Window(Chunks(s, size)[c], s, size)
  BY <1>2, <1>8
<1>10. QED
  BY <1>7, <1>9 DEF part, q

LEMMA PrefixGrows ==
    ASSUME NEW S, NEW s \in Seq(S), NEW a \in 0 .. Len(s), NEW b \in a .. Len(s)
    PROVE  SubSeq(s, 1, a) \o SubSeq(s, a + 1, b) = SubSeq(s, 1, b)
<1>1. \A i \in 1 .. Len(s) : s[i] \in S
  BY ElementOfSeq
<1>2. /\ SubSeq(s, 1, a) \in Seq(S) /\ Len(SubSeq(s, 1, a)) = a
      /\ \A k \in 1 .. a : SubSeq(s, 1, a)[k] = s[k]
  BY <1>1, SubSeqProperties
<1>3. /\ SubSeq(s, 1, b) \in Seq(S) /\ Len(SubSeq(s, 1, b)) = b
      /\ \A k \in 1 .. b : SubSeq(s, 1, b)[k] = s[k]
  BY <1>1, SubSeqProperties
<1>4. /\ SubSeq(s, a + 1, b) \in Seq(S) /\ Len(SubSeq(s, a + 1, b)) = b - a
      /\ \A k \in 1 .. b - a : SubSeq(s, a + 1, b)[k] = s[a + k]
  BY <1>1, SubSeqProperties
<1>5. PICK u \in Seq(S) : u = SubSeq(s, 1, a)
  BY <1>2
<1>6. PICK v \in Seq(S) : v = SubSeq(s, a + 1, b)
  BY <1>4
<1>7. /\ u \o v \in Seq(S) /\ Len(u \o v) = b
      /\ \A i \in 1 .. b : (u \o v)[i] = IF i <= a THEN u[i] ELSE v[i - a]
  BY <1>2, <1>4, <1>5, <1>6, ConcatProperties
<1>8. ASSUME NEW i \in 1 .. b PROVE (u \o v)[i] = SubSeq(s, 1, b)[i]
  <2>1. CASE i <= a
    BY <1>2, <1>3, <1>5, <1>7, <2>1
  <2>2. CASE ~(i <= a)
    <3>1. i - a \in 1 .. b - a /\ a + (i - a) = i
      BY <2>2
    <3>2. QED
      BY <1>3, <1>4, <1>6, <1>7, <2>2, <3>1
  <2>3. QED
    BY <2>1, <2>2
<1>9. u \o v = SubSeq(s, 1, b)
  BY <1>3, <1>7, <1>8, SeqEqual
<1>10. QED
  BY <1>5, <1>6, <1>9

(* The parts in one are the sequence that was cut. *)
LEMMA FlattenChunks ==
    ASSUME NEW S, NEW s \in Seq(S), NEW size \in Nat \ {0}
    PROVE  FlattenSeq(Chunks(s, size)) = s
<1> DEFINE n == Len(s)
<1> DEFINE q == CeilDiv(n, size)
<1> DEFINE parts == Chunks(s, size)
<1>1. n \in Nat /\ q \in Nat /\ n <= q * size
  <2>1. n \in Nat
    OBVIOUS
  <2> HIDE DEF n
  <2>2. QED
    BY <2>1, PartBounds
<1>2. /\ parts \in Seq(Seq(S)) /\ Len(parts) = q
      /\ \A c \in 1 .. q : parts[c] = SubSeq(s, (c - 1) * size + 1, EndOf(c, n, size))
  BY ChunksAreParts
<1>3. \A c \in 1 .. q :
         /\ (c - 1) * size \in 0 .. n - 1 /\ EndOf(c, n, size) \in 1 .. n
         /\ EndOf(c, n, size) - (c - 1) * size \in 1 .. size
         /\ c # 1 => EndOf(c - 1, n, size) = (c - 1) * size
  BY <1>1, EndBounds
<1> HIDE DEF q, parts
<1>4. SubSeq(s, 1, n) = s
  <2>1. \A i \in 1 .. n : s[i] \in S
    BY ElementOfSeq
  <2>2. /\ SubSeq(s, 1, n) \in Seq(S) /\ Len(SubSeq(s, 1, n)) = n
        /\ \A k \in 1 .. n : SubSeq(s, 1, n)[k] = s[k]
    BY <1>1, <2>1, SubSeqProperties
  <2>3. QED
    BY <2>2, SeqEqual
<1>5. CASE q = 0
  <2>1. n = 0
    BY <1>1, <1>5
  <2>2. s = <<>> /\ parts = <<>>
    BY <1>2, <1>5, <2>1, EmptySeq
  <2>3. QED
    BY <2>2, FlattenEmpty DEF parts
<1>6. CASE q # 0
  <2>1. PICK f \in [1 .. q -> Seq(S)] : Flattens(f, q, parts) /\ FlattenSeq(parts) = f[q]
    BY <1>2, <1>6, FlattenSeqFlattens
  <2> DEFINE P == {k \in Nat : k + 1 <= q => f[k + 1] = SubSeq(s, 1, EndOf(k + 1, n, size))}
  <2>2. 0 \in P
    <3>1. 1 \in 1 .. q
      BY <1>1, <1>6
    <3>2. f[1] = parts[1] /\ parts[1] = SubSeq(s, (1 - 1) * size + 1, EndOf(1, n, size))
      BY <1>2, <2>1, <3>1 DEF Flattens
    <3>3. (1 - 1) * size + 1 = 1
      OBVIOUS
    <3>4. QED
      BY <3>2, <3>3
  <2>3. ASSUME NEW k \in Nat, k \in P, k + 2 <= q
        PROVE  f[k + 2] = SubSeq(s, 1, EndOf(k + 2, n, size))
    <3>1. k + 2 \in 1 .. q /\ k + 2 # 1 /\ (k + 2) - 1 = k + 1 /\ k + 1 <= q
      BY <1>1, <2>3
    <3>2. f[k + 2] = f[k + 1] \o parts[k + 2]
      BY <2>1, <3>1 DEF Flattens
    <3>3. f[k + 1] = SubSeq(s, 1, EndOf(k + 1, n, size))
      BY <2>3, <3>1
    <3>4. PICK a \in 0 .. n - 1, e \in 1 .. n :
             /\ a = (k + 1) * size /\ a = EndOf(k + 1, n, size) /\ e = EndOf(k + 2, n, size)
             /\ e - a \in 1 .. size
      BY <1>3, <3>1
    <3>5. parts[k + 2] = SubSeq(s, a + 1, e)
      BY <1>2, <3>1, <3>4
    <3>6. a \in 0 .. n /\ e \in a .. n
      BY <1>1, <3>4
    <3>7. SubSeq(s, 1, a) \o SubSeq(s, a + 1, e) = SubSeq(s, 1, e)
      BY <3>6, PrefixGrows
    <3>8. QED
      BY <3>2, <3>3, <3>4, <3>5, <3>7
  <2>4. \A k \in P : k + 1 \in P
    BY <2>3
  <2>5. P = Nat
    <3>1. P \in SUBSET Nat
      OBVIOUS
    <3> HIDE DEF P
    <3>2. QED
      BY <2>2, <2>4, <3>1, NatSteps
  <2>6. q - 1 \in Nat /\ (q - 1) + 1 = q
    BY <1>1, <1>6
  <2>7. q - 1 \in P
    BY <2>5, <2>6
  <2>8. f[q] = SubSeq(s, 1, EndOf(q, n, size))
    BY <2>6, <2>7
  <2>9. EndOf(q, n, size) = n
    BY <1>1 DEF EndOf
  <2>10. QED
    BY <1>4, <2>1, <2>8, <2>9 DEF parts
<1>7. QED
  BY <1>5, <1>6

-----------------------------------------------------------------------------
(* Totals.  Total is a recursive function too: its partial sums are the    *)
(* only function that starts at 0 and adds one number after the other.     *)

Sums(f, n, s) == f[0] = 0 /\ \A k \in 1 .. n : f[k] = f[k - 1] + s[k]

LEMMA SumsExist ==
    ASSUME NEW n \in Nat, NEW s \in [1 .. n -> Nat] PROVE \E f \in [0 .. n -> Nat] : Sums(f, n, s)
<1> DEFINE P == {m \in Nat : m <= n => \E f \in [0 .. m -> Nat] : Sums(f, m, s)}
<1>1. 0 \in P
  <2>1. [k \in 0 .. 0 |-> 0] \in [0 .. 0 -> Nat] /\ Sums([k \in 0 .. 0 |-> 0], 0, s)
    BY DEF Sums
  <2>2. QED
    BY <2>1
<1>2. ASSUME NEW m \in P, m + 1 <= n
      PROVE  \E f \in [0 .. m + 1 -> Nat] : Sums(f, m + 1, s)
  <2>1. m \in Nat /\ s[m + 1] \in Nat /\ m <= n
    BY <1>2
  <2>2. \E f \in [0 .. m -> Nat] : Sums(f, m, s)
    BY <2>1
  <2>3. PICK f \in [0 .. m -> Nat] : Sums(f, m, s)
    BY <2>2
  <2> HIDE DEF P
  <2>4. PICK last \in Nat : last = f[m] + s[m + 1]
    BY <2>1
  <2> DEFINE g == [k \in 0 .. m + 1 |-> IF k = m + 1 THEN last ELSE f[k]]
  <2>5. g \in [0 .. m + 1 -> Nat] /\ g[m + 1] = last /\ \A k \in 0 .. m : g[k] = f[k]
    BY <2>1, <2>4
  <2> HIDE DEF g
  <2>6. g[0] = 0
    BY <2>1, <2>3, <2>5 DEF Sums
  <2>7. ASSUME NEW k \in 1 .. m + 1 PROVE g[k] = g[k - 1] + s[k]
    <3>1. CASE k = m + 1
      <4>1. k - 1 = m /\ g[m] = f[m]
        BY <2>1, <2>5, <3>1
      <4>2. QED
        BY <2>4, <2>5, <3>1, <4>1
    <3>2. CASE k # m + 1
      <4>1. k \in 1 .. m /\ k - 1 \in 0 .. m /\ k \in 0 .. m
        BY <2>1, <3>2
      <4>2. f[k] = f[k - 1] + s[k]
        BY <2>3, <4>1 DEF Sums
      <4>3. QED
        BY <2>5, <4>1, <4>2
    <3>3. QED
      BY <3>1, <3>2
  <2>8. QED
    BY <2>5, <2>6, <2>7 DEF Sums
<1>3. \A m \in P : m + 1 \in P
  <2>1. \A m \in P : m \in Nat /\ m + 1 \in Nat
    OBVIOUS
  <2>2. QED
    BY <1>2, <2>1
<1> HIDE DEF P
<1>4. P = Nat
  BY <1>1, <1>3, NatSteps DEF P
<1>5. n \in P
  BY <1>4
<1>6. QED
  BY <1>5 DEF P

LEMMA SumsSame ==
    ASSUME NEW n \in Nat, NEW s
    PROVE  \A f, g : Sums(f, n, s) /\ Sums(g, n, s) => \A k \in 0 .. n : f[k] = g[k]
<1> SUFFICES ASSUME NEW f, NEW g, Sums(f, n, s), Sums(g, n, s), NEW k \in 0 .. n
             PROVE  f[k] = g[k]
  OBVIOUS
<1> DEFINE P == {m \in Nat : m <= n => f[m] = g[m]}
<1>1. 0 \in P
  BY DEF Sums
<1>2. ASSUME NEW m \in P PROVE m + 1 \in P
  <2>1. m \in Nat
    OBVIOUS
  <2>2. ASSUME m + 1 <= n PROVE f[m + 1] = g[m + 1]
    <3>1. m + 1 \in 1 .. n /\ (m + 1) - 1 = m
      BY <2>1, <2>2
    <3>2. f[m] = g[m]
      BY <2>1, <2>2
    <3>3. f[m + 1] = f[m] + s[m + 1] /\ g[m + 1] = g[m] + s[m + 1]
      BY <3>1 DEF Sums
    <3>4. QED
      BY <3>2, <3>3
  <2>3. QED
    BY <2>1, <2>2
<1> HIDE DEF P
<1>3. P = Nat
  BY <1>1, <1>2, NatSteps DEF P
<1>4. k \in P
  BY <1>3
<1>5. QED
  BY <1>4 DEF P

LEMMA TotalSums ==
    ASSUME NEW n \in Nat, NEW s \in [1 .. n -> Nat]
    PROVE  \E f \in [0 .. n -> Nat] : Sums(f, n, s) /\ Total(s) = f[n]
<1> DEFINE Def(f) == f = [k \in 0 .. n |-> IF k = 0 THEN 0 ELSE f[k - 1] + s[k]]
<1> DEFINE F == CHOOSE f : Def(f)
<1>1. PICK f \in [0 .. n -> Nat] : Sums(f, n, s)
  BY SumsExist
<1>2. Def(f)
  BY <1>1 DEF Sums
<1>3. Def(F)
  BY <1>2
<1>4. Len(s) = n
  BY FunctionIsSeq
<1>5. Total(s) = F[n]
  BY <1>4 DEF Total
<1> HIDE DEF F
<1>6. Sums(F, n, s)
  BY <1>3 DEF Sums
<1>7. F[n] = f[n]
  BY <1>1, <1>6, SumsSame
<1>8. QED
  BY <1>1, <1>5, <1>7

LEMMA TotalType == ASSUME NEW n \in Nat, NEW s \in [1 .. n -> Nat] PROVE Total(s) \in Nat
<1>1. PICK f \in [0 .. n -> Nat] : Sums(f, n, s) /\ Total(s) = f[n]
  BY TotalSums
<1>2. QED
  BY <1>1

LEMMA TotalEmpty == ASSUME NEW s \in [1 .. 0 -> Nat] PROVE Total(s) = 0
<1>1. PICK n \in Nat : n = 0
  OBVIOUS
<1>2. PICK f \in [0 .. n -> Nat] : Sums(f, n, s) /\ Total(s) = f[n]
  BY <1>1, TotalSums
<1>3. QED
  BY <1>1, <1>2 DEF Sums

LEMMA TotalGrows ==
    ASSUME NEW n \in Nat, NEW s \in [1 .. n + 1 -> Nat], NEW r \in [1 .. n -> Nat],
           \A k \in 1 .. n : r[k] = s[k]
    PROVE  Total(s) = Total(r) + s[n + 1] /\ Total(r) \in Nat
<1>1. PICK f \in [0 .. n + 1 -> Nat] : Sums(f, n + 1, s) /\ Total(s) = f[n + 1]
  <2>1. PICK m \in Nat : m = n + 1
    OBVIOUS
  <2>2. QED
    BY <2>1, TotalSums
<1>2. PICK g \in [0 .. n -> Nat] : Sums(g, n, r) /\ Total(r) = g[n]
  BY TotalSums
<1>3. Sums(f, n, r)
  BY <1>1 DEF Sums
<1>4. f[n] = g[n]
  BY <1>2, <1>3, SumsSame
<1>5. f[n + 1] = f[n] + s[n + 1]
  <2>1. n + 1 \in 1 .. n + 1 /\ (n + 1) - 1 = n
    OBVIOUS
  <2>2. QED
    BY <1>1, <2>1 DEF Sums
<1>6. QED
  BY <1>1, <1>2, <1>4, <1>5

LEMMA TotalAdds ==
    ASSUME NEW n \in Nat, NEW s \in [1 .. n -> Nat], NEW a \in [1 .. n -> Nat],
           NEW b \in [1 .. n -> Nat], \A k \in 1 .. n : s[k] = a[k] + b[k]
    PROVE  Total(s) = Total(a) + Total(b)
<1>1. PICK f \in [0 .. n -> Nat] : Sums(f, n, s) /\ Total(s) = f[n]
  BY TotalSums
<1>2. PICK g \in [0 .. n -> Nat] : Sums(g, n, a) /\ Total(a) = g[n]
  BY TotalSums
<1>3. PICK h \in [0 .. n -> Nat] : Sums(h, n, b) /\ Total(b) = h[n]
  BY TotalSums
<1> DEFINE both == [k \in 0 .. n |-> g[k] + h[k]]
<1>4. both[0] = 0
  BY <1>2, <1>3 DEF Sums
<1>5. ASSUME NEW k \in 1 .. n PROVE both[k] = both[k - 1] + s[k]
  <2>1. k - 1 \in 0 .. n /\ k \in 0 .. n
    OBVIOUS
  <2>2. g[k] = g[k - 1] + a[k] /\ h[k] = h[k - 1] + b[k]
    BY <1>2, <1>3 DEF Sums
  <2>3. /\ both[k] = g[k] + h[k] /\ both[k - 1] = g[k - 1] + h[k - 1]
        /\ g[k - 1] \in Nat /\ h[k - 1] \in Nat /\ a[k] \in Nat /\ b[k] \in Nat
    BY <2>1
  <2> HIDE DEF both
  <2>4. s[k] = a[k] + b[k]
    OBVIOUS
  <2>5. PICK p \in Nat, q \in Nat, c \in Nat, d \in Nat :
           p = g[k - 1] /\ q = h[k - 1] /\ c = a[k] /\ d = b[k]
    BY <2>3
  <2>6. both[k] = (p + c) + (q + d) /\ both[k - 1] + s[k] = (p + q) + (c + d)
    BY <2>2, <2>3, <2>4, <2>5
  <2>7. QED
    BY <2>6
<1>6. both[n] = g[n] + h[n]
  OBVIOUS
<1> HIDE DEF both
<1>7. Sums(both, n, s)
  BY <1>4, <1>5 DEF Sums
<1>8. f[n] = both[n]
  BY <1>1, <1>7, SumsSame
<1>9. QED
  BY <1>1, <1>2, <1>3, <1>6, <1>8
=============================================================================
