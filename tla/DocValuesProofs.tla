-------------------------- MODULE DocValuesProofs ---------------------------
(***************************************************************************)
(* Proofs about the doc values.  OrdinalMap, for streams of any number of  *)
(* segments with any terms: the argument is that of a merge, where the     *)
(* heap has the next term of every segment that has one left, no term that *)
(* waits comes before the last one emitted, and every ordinal given out    *)
(* leads to its term.  And the keys of FieldEntries' reverse terms index,  *)
(* for any fields and any size of a block: two terms in order differ first *)
(* where the earlier one ends or has the lower byte, and that is where     *)
(* sort_key_length cuts.  And the jumps of Disi, for any documents: by     *)
(* induction over the turns of write_bit_set.  And the numbers of a field  *)
(* (NumericCodec), for any width, values and documents: each layout keeps  *)
(* the values of a column whose statistics are exact (LayoutKeeps), and    *)
(* the loop that computes them is exact, value by value (CodecIInv).       *)
(***************************************************************************)
EXTENDS OrdinalMap, FieldEntries, NumericCodec, NumericStatsProofs

-----------------------------------------------------------------------------
(* The byte order of terms is a strict total order.                        *)

LEMMA PrecedesNotItself == ASSUME NEW s \in Term PROVE ~Precedes(s, s)
<1>1. Len(s) \in Nat /\ \A n \in 1 .. Len(s) : s[n] \in Nat
  BY ElementOfSeq DEF Term
<1>2. \A n \in 1 .. Len(s) : ~(s[n] < s[n])
  BY <1>1
<1>3. \A n \in 1 .. Len(s) : n =< Len(s)
  BY <1>1
<1> QED
  BY <1>2, <1>3 DEF Precedes

(* Where two terms part: s ends or has the lower byte. *)
Parts(s, t, n) ==
    /\ n \in 1 .. Len(t) /\ n =< Len(s) + 1
    /\ \A k \in 1 .. n - 1 : s[k] = t[k]
    /\ n =< Len(s) => s[n] < t[n]

LEMMA PrecedesParts ==
    ASSUME NEW s, NEW t PROVE Precedes(s, t) <=> \E n \in 1 .. Len(t) : Parts(s, t, n)
BY DEF Precedes, Parts

LEMMA PrecedesTransitive ==
    ASSUME NEW s \in Term, NEW t \in Term, NEW u \in Term, Precedes(s, t), Precedes(t, u)
    PROVE  Precedes(s, u)
<1>1. PICK a \in Nat, b \in Nat, c \in Nat : a = Len(s) /\ b = Len(t) /\ c = Len(u)
  BY DEF Term
<1>2. /\ \A k \in 1 .. a : s[k] \in Nat
      /\ \A k \in 1 .. b : t[k] \in Nat
      /\ \A k \in 1 .. c : u[k] \in Nat
  BY <1>1, ElementOfSeq DEF Term
<1>3. PICK n \in 1 .. b : n =< a + 1 /\ (\A k \in 1 .. n - 1 : s[k] = t[k]) /\ (n =< a => s[n] < t[n])
  BY <1>1 DEF Precedes
<1>4. PICK m \in 1 .. c : m =< b + 1 /\ (\A k \in 1 .. m - 1 : t[k] = u[k]) /\ (m =< b => t[m] < u[m])
  BY <1>1 DEF Precedes
<1>5. PICK p \in 1 .. c : /\ p =< a + 1 /\ p =< n /\ p =< m
                          /\ p =< a => s[p] < u[p]
  <2>1. CASE n < m
    <3>1. n \in 1 .. c /\ t[n] = u[n]
      BY <1>4, <2>1
    <3> QED
      BY <1>3, <2>1, <3>1
  <2>2. CASE m < n
    <3>1. m =< b /\ m =< a /\ s[m] = t[m]
      BY <1>3, <2>2
    <3> QED
      BY <1>4, <2>2, <3>1
  <2>3. CASE n = m
    <3>1. n \in 1 .. c /\ n =< a + 1
      BY <1>3, <2>3
    <3>2. ASSUME n =< a PROVE s[n] < u[n]
      <4>1. s[n] < t[n] /\ t[n] < u[n] /\ s[n] \in Nat /\ t[n] \in Nat /\ u[n] \in Nat
        BY <1>2, <1>3, <1>4, <2>3, <3>1, <3>2
      <4> QED
        BY <4>1
    <3> QED
      BY <2>3, <3>1, <3>2
  <2> QED
    BY <2>1, <2>2, <2>3
<1>6. \A k \in 1 .. p - 1 : s[k] = u[k]
  <2> TAKE k \in 1 .. p - 1
  <2>1. k \in 1 .. n - 1 /\ k \in 1 .. m - 1
    BY <1>5
  <2> QED
    BY <1>3, <1>4, <2>1
<1> QED
  BY <1>1, <1>5, <1>6 DEF Precedes

LEMMA PrecedesTotal ==
    ASSUME NEW s \in Term, NEW t \in Term PROVE s = t \/ Precedes(s, t) \/ Precedes(t, s)
<1>1. PICK a \in Nat, b \in Nat : a = Len(s) /\ b = Len(t)
  BY DEF Term
<1>2. /\ \A k \in 1 .. a : s[k] \in Nat
      /\ \A k \in 1 .. b : t[k] \in Nat
  BY <1>1, ElementOfSeq DEF Term
<1> DEFINE D == {n \in Nat \ {0} : n > a \/ n > b \/ s[n] # t[n]}
<1>3. a + 1 \in D /\ D \in SUBSET Nat /\ D # {}
  OBVIOUS
<1>4. PICK n \in D : \A k \in D : n =< k
  BY <1>3, NatLeast
<1>5. n \in Nat \ {0} /\ (n > a \/ n > b \/ s[n] # t[n])
  OBVIOUS
<1>6. \A k \in 1 .. n - 1 : k =< a /\ k =< b /\ s[k] = t[k]
  <2> TAKE k \in 1 .. n - 1
  <2>1. k \notin D
    BY <1>4, <1>5
  <2> QED
    BY <2>1
<1>7. n =< a + 1 /\ n =< b + 1
  <2>1. CASE n = 1
    BY <2>1
  <2>2. CASE n # 1
    <3>1. n - 1 \in 1 .. n - 1
      BY <1>5, <2>2
    <3>2. n - 1 =< a /\ n - 1 =< b
      BY <1>6, <3>1
    <3> QED
      BY <1>5, <3>2
  <2> QED
    BY <2>1, <2>2
<1> HIDE DEF D
<1>8. CASE n =< a /\ n =< b
  <2>1. s[n] \in Nat /\ t[n] \in Nat /\ s[n] # t[n] /\ n \in 1 .. a /\ n \in 1 .. b
    BY <1>2, <1>5, <1>8
  <2>2. s[n] < t[n] \/ t[n] < s[n]
    BY <2>1
  <2> QED
    BY <1>1, <1>6, <1>7, <2>1, <2>2 DEF Precedes
<1>9. CASE n > a /\ n =< b
  BY <1>1, <1>5, <1>6, <1>7, <1>9 DEF Precedes
<1>10. CASE n =< a /\ n > b
  BY <1>1, <1>5, <1>6, <1>7, <1>10 DEF Precedes
<1>11. CASE n > a /\ n > b
  <2>1. a = b /\ n - 1 = a
    BY <1>5, <1>7, <1>11
  <2>2. \A k \in 1 .. a : s[k] = t[k]
    BY <1>6, <2>1
  <2>3. s = t
    BY <1>1, <2>1, <2>2, SeqEqual DEF Term
  <2> QED
    BY <2>3
<1> QED
  BY <1>5, <1>8, <1>9, <1>10, <1>11

(* The dictionary of a finite set of terms. *)
LEMMA SortedTerms ==
    ASSUME NEW S \in SUBSET Term, IsFiniteSet(S)
    PROVE  /\ Sorted(S, Precedes) \in Seq(S)
           /\ \A x \in S : \E k \in 1 .. Len(Sorted(S, Precedes)) : Sorted(S, Precedes)[k] = x
           /\ \A j, k \in 1 .. Len(Sorted(S, Precedes)) :
                 j < k => Precedes(Sorted(S, Precedes)[j], Sorted(S, Precedes)[k])
<1> DEFINE n == Cardinality(S)
<1>1. PICK below : below = [x \in S |-> {y \in S : Precedes(y, x)}]
  OBVIOUS
<1>2. Ranks(S, below)
  <2>1. below \in [S -> SUBSET S]
    BY <1>1
  <2>2. \A x, y \in S : y \in below[x] <=> Precedes(y, x)
    BY <1>1
  <2>3. \A x \in S : x \in Term
    OBVIOUS
  <2>4. \A x \in S : x \notin below[x]
    BY <2>2, <2>3, PrecedesNotItself
  <2>5. ASSUME NEW x \in S, NEW y \in below[x], NEW z \in below[y] PROVE z \in below[x]
    <3>1. y \in S
      BY <2>1
    <3>2. z \in S
      BY <2>1, <3>1
    <3>3. Precedes(y, x) /\ Precedes(z, y)
      BY <2>2, <3>1, <3>2
    <3>4. Precedes(z, x)
      BY <2>3, <3>1, <3>2, <3>3, PrecedesTransitive
    <3> QED
      BY <2>2, <3>2, <3>4
  <2>6. \A x, y \in S : x = y \/ x \in below[y] \/ y \in below[x]
    BY <2>2, <2>3, PrecedesTotal
  <2> QED
    BY <2>1, <2>4, <2>5, <2>6 DEF Ranks
<1> DEFINE ranked(k) == CHOOSE x \in S : Cardinality({y \in S : Precedes(y, x)}) = k - 1
<1>3. PICK s : s = [k \in 1 .. n |-> ranked(k)]
  OBVIOUS
<1>4. \A x \in S : {y \in S : Precedes(y, x)} = below[x]
  BY <1>1
<1>5. \A k \in 1 .. n : (\E x \in S : Cardinality(below[x]) = k - 1) =>
                         s[k] \in S /\ Cardinality(below[s[k]]) = k - 1
  <2> SUFFICES ASSUME NEW k \in 1 .. n, NEW x \in S, Cardinality(below[x]) = k - 1
               PROVE  s[k] \in S /\ Cardinality(below[s[k]]) = k - 1
    OBVIOUS
  <2>1. Cardinality({y \in S : Precedes(y, x)}) = k - 1
    BY <1>4
  <2>2. s[k] = CHOOSE z \in S : Cardinality({y \in S : Precedes(y, z)}) = k - 1
    BY <1>3
  <2>3. s[k] \in S /\ Cardinality({y \in S : Precedes(y, s[k])}) = k - 1
    BY <2>1, <2>2
  <2> QED
    BY <1>4, <2>3
<1>6. ByRank(S, below, s)
  <2> HIDE DEF ranked
  <2>1. s = [k \in 1 .. n |-> s[k]]
    BY <1>3
  <2> QED
    BY <1>5, <2>1 DEF ByRank
<1>7. /\ s \in Seq(S) /\ Len(s) = n /\ n \in Nat /\ DOMAIN s = 1 .. n /\ s \o <<>> = s
      /\ \A x \in S : \E k \in 1 .. n : s[k] = x
      /\ \A j, k \in 1 .. n : j < k => s[j] \in below[s[k]]
      /\ \A k \in 1 .. n : s[k] \in S
  BY <1>2, <1>6, ByRankIsOrdered
<1>8. Sorted(S, Precedes) = s
  BY <1>3, <1>7 DEF Sorted, Listed
<1>9. \A j, k \in 1 .. n : j < k => Precedes(s[j], s[k])
  BY <1>1, <1>7
<1> QED
  BY <1>7, <1>8, <1>9

-----------------------------------------------------------------------------
(* The merge, for dictionaries D, tables rm, a heap hp and emitted terms m. *)

NotAfter(s, t) == s = t \/ Precedes(s, t)
Increasing(m) == \A i, j \in 1 .. Len(m) : i < j => Precedes(m[i], m[j])

(* The heap has the next term of every segment that has one left. *)
NextOf(rm, s) == [seg |-> s, ord |-> Len(rm[s])]
Waits(D, rm, hp) ==
    /\ \A e \in hp : e.seg \in DOMAIN D /\ e = NextOf(rm, e.seg) /\ e.ord < Len(D[e.seg])
    /\ \A s \in DOMAIN D : Len(rm[s]) < Len(D[s]) => NextOf(rm, s) \in hp

(* No term that waits comes before the last one emitted. *)
Floors(D, hp, m) == m # <<>> => \A e \in hp : NotAfter(Last(m), D[e.seg][e.ord + 1])

(* The ordinals given out lead to their terms. *)
Leads(D, rm, m) ==
    \A s \in DOMAIN D : \A i \in 1 .. Len(rm[s]) : rm[s][i] < Len(m) /\ m[rm[s][i] + 1] = D[s][i]

Merging(D, rm, hp, m) ==
    /\ rm \in [DOMAIN D -> Seq(Nat)] /\ \A s \in DOMAIN D : Len(rm[s]) =< Len(D[s])
    /\ m \in Seq(Term) /\ Increasing(m)
    /\ Waits(D, rm, hp) /\ Floors(D, hp, m) /\ Leads(D, rm, m)

Dictionaries(D) == D \in [DOMAIN D -> Seq(Term)] /\ \A s \in DOMAIN D : Increasing(D[s])

(* A term emitted in its turn: m2 ends with it, and begins as m. *)
Emits(m, t, m2) == m2 = IF m # <<>> /\ Last(m) = t THEN m ELSE Append(m, t)

LEMMA EmitsInOrder ==
    ASSUME NEW m \in Seq(Term), Increasing(m), NEW t \in Term, m # <<>> => NotAfter(Last(m), t),
           NEW m2, Emits(m, t, m2)
    PROVE  /\ m2 \in Seq(Term) /\ Increasing(m2) /\ Len(m2) \in Nat \ {0} /\ m2 # <<>>
           /\ Last(m2) = t /\ Len(m) =< Len(m2) /\ \A i \in 1 .. Len(m) : m2[i] = m[i]
<1>1. PICK n \in Nat : n = Len(m) /\ (m = <<>> <=> n = 0)
  BY EmptySeq
<1>2. \A i \in 1 .. n : m[i] \in Term
  BY <1>1, ElementOfSeq
<1>3. CASE m # <<>> /\ Last(m) = t
  BY <1>1, <1>3 DEF Emits
<1>4. CASE ~(m # <<>> /\ Last(m) = t)
  <2>1. m2 = Append(m, t)
    BY <1>4 DEF Emits
  <2>2. /\ m2 \in Seq(Term) /\ Len(m2) = n + 1 /\ m2[n + 1] = t
        /\ \A i \in 1 .. n : m2[i] = m[i]
    BY <1>1, <2>1, AppendExtends
  <2>3. ASSUME NEW i \in 1 .. n PROVE Precedes(m[i], t)
    <3>1. n # 0 /\ m # <<>> /\ Precedes(m[n], t) /\ n \in 1 .. n
      BY <1>1, <1>4 DEF NotAfter, Last
    <3>2. CASE i = n
      BY <3>1, <3>2
    <3>3. CASE i # n
      <4>1. i < n
        BY <3>3
      <4>2. Precedes(m[i], m[n])
        BY <1>1, <3>1, <4>1 DEF Increasing
      <4> QED
        BY <1>2, <3>1, <4>2, PrecedesTransitive
    <3> QED
      BY <3>2, <3>3
  <2>4. Increasing(m2)
    <3> SUFFICES ASSUME NEW i \in 1 .. n + 1, NEW j \in 1 .. n + 1, i < j
                 PROVE  Precedes(m2[i], m2[j])
      BY <2>2 DEF Increasing
    <3>1. i \in 1 .. n
      OBVIOUS
    <3>2. CASE j = n + 1
      BY <2>2, <2>3, <3>1, <3>2
    <3>3. CASE j # n + 1
      <4>1. j \in 1 .. n
        BY <3>3
      <4> QED
        BY <1>1, <2>2, <3>1, <4>1 DEF Increasing
    <3> QED
      BY <3>2, <3>3
  <2>5. m2 # <<>>
    BY <2>2
  <2> QED
    BY <1>1, <2>2, <2>4, <2>5 DEF Last
<1> QED
  BY <1>3, <1>4

(* One turn of the loop. *)
Turn(D, rm, hp, m, e, rm2, hp2, m2) ==
    /\ e \in hp /\ \A f \in hp : NotAfter(D[e.seg][e.ord + 1], D[f.seg][f.ord + 1])
    /\ Emits(m, D[e.seg][e.ord + 1], m2)
    /\ rm2 = [rm EXCEPT ![e.seg] = Append(@, Len(m2) - 1)]
    /\ hp2 = (hp \ {e}) \cup IF e.ord + 1 < Len(D[e.seg]) THEN {[e EXCEPT !.ord = @ + 1]} ELSE {}

LEMMA TurnKeeps ==
    ASSUME NEW D, Dictionaries(D), NEW rm, NEW hp, NEW m, Merging(D, rm, hp, m), NEW e,
           NEW rm2, NEW hp2, NEW m2, Turn(D, rm, hp, m, e, rm2, hp2, m2)
    PROVE  Merging(D, rm2, hp2, m2)
<1>1. PICK x \in DOMAIN D : x = e.seg
  BY DEF Turn, Merging, Waits
<1>2. PICK k \in Nat : k = Len(rm[x]) /\ k = e.ord /\ e = [seg |-> x, ord |-> k] /\ k < Len(D[x])
  <2>1. e = NextOf(rm, e.seg) /\ e.ord < Len(D[e.seg])
    BY DEF Turn, Merging, Waits
  <2>2. rm[x] \in Seq(Nat)
    BY DEF Merging
  <2>3. Len(rm[x]) \in Nat /\ e.ord = Len(rm[x])
    BY <1>1, <2>1, <2>2 DEF NextOf
  <2> QED
    BY <1>1, <2>1, <2>3 DEF NextOf
<1>3. PICK d \in Seq(Term) : d = D[x] /\ Increasing(d)
  BY DEF Dictionaries
<1>4. PICK l \in Nat : l = Len(d) /\ k + 1 \in 1 .. l /\ k < l
  BY <1>2, <1>3
<1>5. PICK t \in Term : t = d[k + 1] /\ t = D[e.seg][e.ord + 1]
  BY <1>1, <1>2, <1>3, <1>4, ElementOfSeq
<1>6. /\ m2 \in Seq(Term) /\ Increasing(m2) /\ Len(m2) \in Nat \ {0} /\ m2 # <<>>
      /\ Last(m2) = t /\ Len(m) =< Len(m2) /\ \A i \in 1 .. Len(m) : m2[i] = m[i]
  <2>1. m \in Seq(Term) /\ Increasing(m) /\ Emits(m, t, m2)
    BY <1>5 DEF Merging, Turn
  <2>2. m # <<>> => NotAfter(Last(m), t)
    BY <1>5 DEF Merging, Floors, Turn
  <2> QED
    BY <2>1, <2>2, EmitsInOrder
<1>7. PICK o \in Nat : o = Len(m2) - 1
  BY <1>6
<1>8. PICK r \in Seq(Nat) : /\ r = Append(rm[x], o) /\ Len(r) = k + 1 /\ r[k + 1] = o
                            /\ \A i \in 1 .. k : r[i] = rm[x][i]
  <2>1. PICK q \in Seq(Nat) : q = rm[x]
    BY DEF Merging
  <2>2. /\ Append(q, o) \in Seq(Nat) /\ Len(Append(q, o)) = Len(q) + 1
        /\ Append(q, o)[Len(q) + 1] = o /\ \A i \in 1 .. Len(q) : Append(q, o)[i] = q[i]
    BY AppendExtends
  <2>3. Len(q) = k
    BY <1>2, <2>1
  <2> QED
    BY <2>1, <2>2, <2>3
<1>9. /\ rm2 \in [DOMAIN D -> Seq(Nat)] /\ rm2[x] = r
      /\ \A s \in DOMAIN D : s # x => rm2[s] = rm[s]
  <2>1. rm \in [DOMAIN D -> Seq(Nat)] /\ rm2 = [rm EXCEPT ![x] = Append(@, o)]
    BY <1>1, <1>7 DEF Merging, Turn
  <2>2. rm2 = [rm EXCEPT ![x] = r]
    BY <1>8, <2>1
  <2> QED
    BY <2>1, <2>2
<1>10. \A s \in DOMAIN D : Len(rm2[s]) =< Len(D[s])
  <2> SUFFICES ASSUME NEW s \in DOMAIN D PROVE Len(rm2[s]) =< Len(D[s])
    OBVIOUS
  <2>1. CASE s = x
    BY <1>3, <1>4, <1>8, <1>9, <2>1
  <2>2. CASE s # x
    BY <1>9, <2>2 DEF Merging
  <2> QED
    BY <2>1, <2>2
<1>11. \A f \in hp2 : (f \in hp /\ f # e) \/ (k + 1 < l /\ f = [seg |-> x, ord |-> k + 1])
  BY <1>1, <1>2, <1>3, <1>4 DEF Turn
<1>12. /\ \A f \in hp : f # e => f \in hp2
       /\ k + 1 < l => [seg |-> x, ord |-> k + 1] \in hp2
  BY <1>1, <1>2, <1>3, <1>4 DEF Turn
<1>13. Waits(D, rm2, hp2)
  <2>1. ASSUME NEW f \in hp2
        PROVE  f.seg \in DOMAIN D /\ f = NextOf(rm2, f.seg) /\ f.ord < Len(D[f.seg])
    <3>1. CASE f \in hp /\ f # e
      <4>1. f.seg \in DOMAIN D /\ f = NextOf(rm, f.seg) /\ f.ord < Len(D[f.seg])
        BY <3>1 DEF Merging, Waits
      <4>2. f.seg # x
        BY <1>2, <3>1, <4>1 DEF NextOf
      <4> QED
        BY <1>9, <4>1, <4>2 DEF NextOf
    <3>2. CASE k + 1 < l /\ f = [seg |-> x, ord |-> k + 1]
      BY <1>3, <1>4, <1>8, <1>9, <3>2 DEF NextOf
    <3> QED
      BY <1>11, <3>1, <3>2
  <2>2. ASSUME NEW s \in DOMAIN D, Len(rm2[s]) < Len(D[s]) PROVE NextOf(rm2, s) \in hp2
    <3>1. CASE s = x
      BY <1>3, <1>4, <1>8, <1>9, <1>12, <2>2, <3>1 DEF NextOf
    <3>2. CASE s # x
      <4>1. rm2[s] = rm[s] /\ NextOf(rm, s) \in hp
        BY <1>9, <2>2, <3>2 DEF Merging, Waits
      <4>2. NextOf(rm, s) # e /\ NextOf(rm2, s) = NextOf(rm, s)
        BY <1>2, <3>2, <4>1 DEF NextOf
      <4> QED
        BY <1>12, <4>1, <4>2
    <3> QED
      BY <3>1, <3>2
  <2> QED
    BY <2>1, <2>2 DEF Waits
<1>14. Floors(D, hp2, m2)
  <2> SUFFICES ASSUME NEW f \in hp2 PROVE NotAfter(t, D[f.seg][f.ord + 1])
    BY <1>6 DEF Floors
  <2>1. CASE f \in hp /\ f # e
    BY <1>5, <2>1 DEF Turn
  <2>2. CASE k + 1 < l /\ f = [seg |-> x, ord |-> k + 1]
    <3>1. D[f.seg][f.ord + 1] = d[k + 2]
      BY <1>3, <2>2
    <3>2. k + 1 \in 1 .. l /\ k + 2 \in 1 .. l /\ k + 1 < k + 2
      BY <2>2
    <3>3. Precedes(d[k + 1], d[k + 2])
      BY <1>3, <1>4, <3>2 DEF Increasing
    <3> QED
      BY <1>5, <3>1, <3>3 DEF NotAfter
  <2> QED
    BY <1>11, <2>1, <2>2
<1>15. Leads(D, rm2, m2)
  <2> SUFFICES ASSUME NEW s \in DOMAIN D, NEW i \in 1 .. Len(rm2[s])
               PROVE  rm2[s][i] < Len(m2) /\ m2[rm2[s][i] + 1] = D[s][i]
    BY DEF Leads
  <2>1. ASSUME i \in 1 .. Len(rm[s]), rm2[s][i] = rm[s][i]
        PROVE  rm2[s][i] < Len(m2) /\ m2[rm2[s][i] + 1] = D[s][i]
    <3>1. rm[s] \in Seq(Nat) /\ Len(m) \in Nat
      BY DEF Merging
    <3>2. PICK g \in Nat : g = rm[s][i]
      BY <2>1, <3>1, ElementOfSeq
    <3>3. g < Len(m) /\ m[g + 1] = D[s][i]
      BY <2>1, <3>2 DEF Merging, Leads
    <3>4. g + 1 \in 1 .. Len(m)
      BY <3>1, <3>3
    <3>5. m2[g + 1] = m[g + 1]
      BY <1>6, <3>4
    <3>6. g < Len(m2)
      <4>1. Len(m) =< Len(m2) /\ Len(m2) \in Nat
        BY <1>6
      <4> QED
        BY <3>1, <3>3, <4>1
    <3> QED
      BY <2>1, <3>2, <3>3, <3>5, <3>6
  <2>2. CASE s # x
    BY <1>9, <2>1, <2>2
  <2>3. CASE s = x /\ i \in 1 .. k
    BY <1>2, <1>8, <1>9, <2>1, <2>3
  <2>4. CASE s = x /\ i = k + 1
    <3>1. rm2[s][i] = o /\ o + 1 = Len(m2) /\ o < Len(m2)
      BY <1>6, <1>7, <1>8, <1>9, <2>4
    <3>2. m2[Len(m2)] = t /\ D[s][i] = t
      BY <1>3, <1>5, <1>6, <2>4 DEF Last
    <3> QED
      BY <3>1, <3>2
  <2>5. s = x => i \in 1 .. k \/ i = k + 1
    BY <1>8, <1>9
  <2> QED
    BY <2>2, <2>3, <2>4, <2>5
<1> QED
  BY <1>6, <1>9, <1>10, <1>13, <1>14, <1>15 DEF Merging

-----------------------------------------------------------------------------
(* The dictionaries of a stream. *)

Streaming == stream \in Seq(Seq(Term))

Dicts == [s \in DOMAIN stream |-> Dict(s)]

(* A dictionary D of the terms of documents. *)
DictOf(D, terms) ==
    /\ D \in Seq(Term) /\ Increasing(D)
    /\ Len(D) > 0 <=> terms # <<>>
    /\ \A d \in DOMAIN terms : \E i \in 1 .. Len(D) : D[i] = terms[d]

LEMMA DictOfTerms ==
    ASSUME NEW terms \in Seq(Term) PROVE DictOf(Sorted(Range(terms), Precedes), terms)
<1>1. PICK n \in Nat : n = Len(terms) /\ DOMAIN terms = 1 .. n /\ (terms = <<>> <=> n = 0)
  BY EmptySeq
<1>2. \A d \in 1 .. n : terms[d] \in Term
  BY <1>1, ElementOfSeq
<1>3. PICK S : S = {terms[d] : d \in 1 .. n}
  OBVIOUS
<1>4. Range(terms) = S
  BY <1>1, <1>3 DEF Range
<1>5. S \in SUBSET Term
  BY <1>2, <1>3
<1>6. IsFiniteSet(S)
  <2>1. terms \in Surjection(1 .. n, S)
    <3>1. terms \in [1 .. n -> S]
      BY <1>1, <1>3
    <3> QED
      BY <1>3, <3>1 DEF Surjection
  <2> QED
    BY <1>1, <2>1, FS_Interval, FS_Surjection
<1>7. PICK D : D = Sorted(S, Precedes)
  OBVIOUS
<1>8. /\ D \in Seq(S)
      /\ \A x \in S : \E k \in 1 .. Len(D) : D[k] = x
      /\ \A j, k \in 1 .. Len(D) : j < k => Precedes(D[j], D[k])
  BY <1>5, <1>6, <1>7, SortedTerms
<1>9. PICK l \in Nat : l = Len(D) /\ D \in [1 .. l -> S]
  BY <1>8
<1>10. D \in Seq(Term)
  BY <1>5, <1>9
<1>11. Len(D) > 0 <=> terms # <<>>
  <2>1. n > 0 <=> S # {}
    BY <1>1, <1>3
  <2>2. S # {} => l > 0
    BY <1>8, <1>9
  <2>3. l > 0 => S # {}
    BY <1>9
  <2> QED
    BY <1>1, <1>9, <2>1, <2>2, <2>3
<1>12. \A d \in DOMAIN terms : \E i \in 1 .. Len(D) : D[i] = terms[d]
  BY <1>1, <1>3, <1>8
<1> QED
  BY <1>4, <1>7, <1>8, <1>10, <1>11, <1>12 DEF DictOf, Increasing

LEMMA StreamDicts ==
    ASSUME Streaming
    PROVE  /\ Dictionaries(Dicts) /\ DOMAIN Dicts = DOMAIN stream
           /\ \A s \in DOMAIN stream : DictOf(Dict(s), stream[s]) /\ Dicts[s] = Dict(s)
<1>1. ASSUME NEW s \in DOMAIN stream PROVE DictOf(Dict(s), stream[s])
  <2>1. stream[s] \in Seq(Term)
    BY DEF Streaming
  <2> QED
    BY <2>1, DictOfTerms DEF Dict
<1>2. DOMAIN Dicts = DOMAIN stream /\ \A s \in DOMAIN stream : Dicts[s] = Dict(s)
  BY DEF Dicts
<1>3. Dicts \in [DOMAIN Dicts -> Seq(Term)] /\ \A s \in DOMAIN Dicts : Increasing(Dicts[s])
  BY <1>1, <1>2 DEF Dicts, DictOf
<1> QED
  BY <1>1, <1>2, <1>3 DEF Dictionaries

-----------------------------------------------------------------------------
(* The inductive invariant: the merge, no segment remapped before its end, *)
(* and the ordinals of the segments remapped lead to their terms.          *)

Mapped(st, g, m) == \A s \in DOMAIN g : \A d \in DOMAIN st[s] : m[g[s][d] + 1] = st[s][d]

Remapping(st, hp, m, g) ==
    /\ g \in Seq(Seq(Nat)) /\ Len(g) =< Len(st)
    /\ g # <<>> => hp = {}
    /\ Mapped(st, g, m)

OrdmapIInv ==
    /\ Streaming
    /\ Merging(Dicts, remap, heap, merged)
    /\ Remapping(stream, heap, merged, global)

LEMMA OrdmapInvInit ==
    ASSUME StreamsAssumption PROVE OrdmapInit => OrdmapIInv
<1> SUFFICES ASSUME OrdmapInit PROVE OrdmapIInv
  OBVIOUS
<1>1. Streaming
  BY DEF OrdmapInit, StreamsAssumption, Streaming
<1>2. /\ Dictionaries(Dicts) /\ DOMAIN Dicts = DOMAIN stream
      /\ \A s \in DOMAIN stream : DictOf(Dict(s), stream[s]) /\ Dicts[s] = Dict(s)
  BY <1>1, StreamDicts
<1>3. \A s \in DOMAIN stream : remap[s] = <<>> /\ Len(remap[s]) = 0 /\ Len(Dicts[s]) \in Nat
  BY <1>2 DEF OrdmapInit, DictOf
<1>4. remap \in [DOMAIN Dicts -> Seq(Nat)] /\ \A s \in DOMAIN Dicts : Len(remap[s]) =< Len(Dicts[s])
  BY <1>2, <1>3 DEF OrdmapInit
<1>5. merged \in Seq(Term) /\ merged = <<>> /\ Len(merged) = 0
  BY DEF OrdmapInit
<1>6. Waits(Dicts, remap, heap)
  <2>1. heap = {[seg |-> s, ord |-> 0] : s \in {t \in DOMAIN stream : stream[t] # <<>>}}
    BY DEF OrdmapInit
  <2>2. ASSUME NEW e \in heap
        PROVE  e.seg \in DOMAIN Dicts /\ e = NextOf(remap, e.seg) /\ e.ord < Len(Dicts[e.seg])
    <3>1. PICK s \in DOMAIN stream : stream[s] # <<>> /\ e = [seg |-> s, ord |-> 0]
      BY <2>1
    <3>2. Len(Dicts[s]) > 0
      BY <1>2, <3>1 DEF DictOf
    <3> QED
      BY <1>2, <1>3, <3>1, <3>2 DEF NextOf
  <2>3. ASSUME NEW s \in DOMAIN Dicts, Len(remap[s]) < Len(Dicts[s]) PROVE NextOf(remap, s) \in heap
    <3>1. Len(Dict(s)) > 0 /\ s \in DOMAIN stream
      BY <1>2, <1>3, <2>3
    <3>2. stream[s] # <<>>
      BY <1>2, <3>1 DEF DictOf
    <3>3. NextOf(remap, s) = [seg |-> s, ord |-> 0]
      BY <1>3, <3>1 DEF NextOf
    <3> QED
      BY <2>1, <3>1, <3>2, <3>3
  <2> QED
    BY <2>2, <2>3 DEF Waits
<1>7. Floors(Dicts, heap, merged) /\ Increasing(merged)
  BY <1>5 DEF Floors, Increasing
<1>8. Leads(Dicts, remap, merged)
  BY <1>2, <1>3 DEF Leads
<1>9. Remapping(stream, heap, merged, global)
  <2>1. global = <<>> /\ global \in Seq(Seq(Nat)) /\ Len(global) = 0 /\ DOMAIN global = {}
    BY DEF OrdmapInit
  <2>2. Len(stream) \in Nat
    BY <1>1 DEF Streaming
  <2> QED
    BY <2>1, <2>2 DEF Remapping, Mapped
<1> QED
  BY <1>1, <1>4, <1>5, <1>6, <1>7, <1>8, <1>9 DEF OrdmapIInv, Merging

LEMMA PopKeeps ==
    ASSUME OrdmapIInv, Pop PROVE OrdmapIInv'
<1>1. stream' = stream /\ global' = global /\ Dicts' = Dicts
  BY DEF Pop, Dicts, Dict
<1>2. /\ Dictionaries(Dicts) /\ DOMAIN Dicts = DOMAIN stream
      /\ \A s \in DOMAIN stream : DictOf(Dict(s), stream[s]) /\ Dicts[s] = Dict(s)
  BY StreamDicts DEF OrdmapIInv
<1>3. PICK e \in heap :
          /\ \A f \in heap \ {e} : Before(e, f)
          /\ merged' = IF IsDuplicate(e) THEN merged ELSE Append(merged, TermAt(e))
          /\ remap' = [remap EXCEPT ![e.seg] = Append(@, Len(merged') - 1)]
          /\ heap' = (heap \ {e})
                     \cup IF e.ord + 1 < Len(Dict(e.seg)) THEN {[e EXCEPT !.ord = @ + 1]} ELSE {}
  BY DEF Pop
<1>4. \A f \in heap : TermAt(f) = Dicts[f.seg][f.ord + 1] /\ Dicts[f.seg] = Dict(f.seg)
  BY <1>2 DEF OrdmapIInv, Merging, Waits, TermAt
<1>5. \A f \in heap : NotAfter(Dicts[e.seg][e.ord + 1], Dicts[f.seg][f.ord + 1])
  <2> TAKE f \in heap
  <2>1. CASE f = e
    BY <2>1 DEF NotAfter
  <2>2. CASE f # e
    <3>1. Before(e, f)
      BY <1>3, <2>2
    <3> QED
      BY <1>4, <3>1 DEF Before, NotAfter
  <2> QED
    BY <2>1, <2>2
<1>6. Emits(merged, Dicts[e.seg][e.ord + 1], merged')
  BY <1>3, <1>4 DEF Emits, IsDuplicate, Last
<1>7. Turn(Dicts, remap, heap, merged, e, remap', heap', merged')
  BY <1>3, <1>4, <1>5, <1>6 DEF Turn
<1>8. Merging(Dicts, remap', heap', merged')
  BY <1>2, <1>7, TurnKeeps DEF OrdmapIInv
<1>9. global = <<>>
  BY <1>3 DEF OrdmapIInv, Remapping
<1>10. Remapping(stream, heap', merged', global)
  <2>1. DOMAIN global = {}
    BY <1>9
  <2> QED
    BY <1>9, <2>1 DEF OrdmapIInv, Remapping, Mapped
<1> QED
  BY <1>1, <1>8, <1>10 DEF OrdmapIInv, Streaming

(* One document through the table of its segment. *)
LEMMA TableLeads ==
    ASSUME OrdmapIInv, heap = {}, NEW seg \in DOMAIN stream, NEW i \in 1 .. Len(Dict(seg))
    PROVE  remap[seg][i] \in Nat /\ merged[remap[seg][i] + 1] = Dict(seg)[i]
<1>1. /\ DOMAIN Dicts = DOMAIN stream /\ Dicts[seg] = Dict(seg)
      /\ DictOf(Dict(seg), stream[seg])
  BY StreamDicts DEF OrdmapIInv
<1>2. PICK r \in Seq(Nat) : r = remap[seg] /\ Len(r) =< Len(Dict(seg))
  BY <1>1 DEF OrdmapIInv, Merging
<1>3. ~ (Len(r) < Len(Dict(seg)))
  BY <1>1, <1>2 DEF OrdmapIInv, Merging, Waits
<1>4. Len(r) \in Nat /\ Len(Dict(seg)) \in Nat
  BY <1>1, <1>2 DEF DictOf
<1>5. i \in 1 .. Len(r)
  BY <1>2, <1>3, <1>4
<1>6. r[i] \in Nat
  BY <1>5, ElementOfSeq
<1> QED
  BY <1>1, <1>2, <1>5, <1>6 DEF OrdmapIInv, Merging, Leads

(* The ordinals of a segment, under either plan. *)
Remapped(seg) ==
    LET plan == OrdPlan(seg)
    IN  IF stream[seg] = <<>> THEN <<>>
        ELSE IF plan.kind = "constant"
        THEN [d \in 1 .. plan.values |-> remap[seg][plan.base + 1]]
        ELSE [d \in DOMAIN plan.ords |-> remap[seg][plan.ords[d] + 1]]

LEMMA RemappedLeads ==
    ASSUME OrdmapIInv, heap = {}, NEW seg \in DOMAIN stream
    PROVE  /\ Remapped(seg) \in Seq(Nat)
           /\ \A d \in DOMAIN stream[seg] : merged[Remapped(seg)[d] + 1] = stream[seg][d]
<1>1. PICK terms \in Seq(Term) : terms = stream[seg]
  BY DEF OrdmapIInv, Streaming
<1>2. PICK n \in Nat : n = Len(terms) /\ DOMAIN terms = 1 .. n
  OBVIOUS
<1>3. DictOf(Dict(seg), terms)
  BY <1>1, StreamDicts DEF OrdmapIInv
<1>4. PICK l \in Nat : l = Len(Dict(seg))
  BY <1>3 DEF DictOf
<1>5. DOMAIN Dict(seg) = 1 .. l
  BY <1>3, <1>4 DEF DictOf
<1>6. CASE terms = <<>>
  BY <1>1, <1>6 DEF Remapped
<1>7. CASE terms # <<>> /\ l = 1
  <2>1. OrdPlan(seg) = [kind |-> "constant", base |-> 0, values |-> n]
    BY <1>1, <1>2, <1>4, <1>7 DEF OrdPlan
  <2>2. PICK o \in Nat : o = remap[seg][1] /\ merged[o + 1] = Dict(seg)[1]
    <3>1. 1 \in 1 .. Len(Dict(seg))
      BY <1>4, <1>7
    <3> QED
      BY <3>1, TableLeads
  <2>3. Remapped(seg) = [d \in 1 .. n |-> o]
    BY <1>1, <1>7, <2>1, <2>2 DEF Remapped
  <2>4. \A d \in 1 .. n : Dict(seg)[1] = terms[d]
    BY <1>2, <1>3, <1>4, <1>7 DEF DictOf
  <2> QED
    BY <1>1, <1>2, <2>2, <2>3, <2>4
<1>8. CASE terms # <<>> /\ l # 1
  <2>1. OrdPlan(seg) = [kind |-> "direct", ords |-> OrdsOf(seg)]
    BY <1>4, <1>8 DEF OrdPlan
  <2>2. Remapped(seg) = [d \in DOMAIN OrdsOf(seg) |-> remap[seg][OrdsOf(seg)[d] + 1]]
    BY <1>1, <1>8, <2>1 DEF Remapped
  <2>3. DOMAIN OrdsOf(seg) = 1 .. n
    BY <1>1, <1>2 DEF OrdsOf
  <2>4. ASSUME NEW d \in 1 .. n
        PROVE  Remapped(seg)[d] \in Nat /\ merged[Remapped(seg)[d] + 1] = terms[d]
    <3>1. PICK i \in 1 .. l :
              i = (CHOOSE j \in DOMAIN Dict(seg) : Dict(seg)[j] = stream[seg][d]) /\ Dict(seg)[i] = terms[d]
      <4>1. \E j \in DOMAIN Dict(seg) : Dict(seg)[j] = stream[seg][d]
        BY <1>1, <1>2, <1>3, <1>4, <1>5 DEF DictOf
      <4> QED
        BY <1>1, <1>5, <4>1
    <3>2. OrdsOf(seg)[d] = i - 1
      BY <1>1, <1>2, <3>1 DEF OrdsOf
    <3>3. Remapped(seg)[d] = remap[seg][i]
      <4>1. OrdsOf(seg)[d] + 1 = i
        BY <3>2
      <4> QED
        BY <2>2, <2>3, <4>1
    <3> QED
      BY <1>4, <3>1, <3>3, TableLeads
  <2>5. Remapped(seg) = [d \in 1 .. n |-> Remapped(seg)[d]]
    BY <2>2, <2>3
  <2>6. Remapped(seg) \in Seq(Nat)
    BY <2>4, <2>5, FunctionIsSeq
  <2> QED
    BY <1>1, <1>2, <2>4, <2>6
<1> QED
  BY <1>6, <1>7, <1>8

LEMMA ApplyRemapKeeps ==
    ASSUME OrdmapIInv, ApplyRemap PROVE OrdmapIInv'
<1>1. stream' = stream /\ heap' = heap /\ merged' = merged /\ remap' = remap /\ Dicts' = Dicts
  BY DEF ApplyRemap, Dicts, Dict
<1>2. heap = {} /\ Len(global) < Len(stream)
  BY DEF ApplyRemap
<1>3. PICK k \in Nat : k = Len(global) /\ DOMAIN global = 1 .. k
  BY DEF OrdmapIInv, Remapping
<1>4. PICK n \in Nat : n = Len(stream) /\ DOMAIN stream = 1 .. n
  BY DEF OrdmapIInv, Streaming
<1>5. PICK seg \in DOMAIN stream : seg = k + 1
  BY <1>2, <1>3, <1>4
<1>6. PICK g \in Seq(Nat) : /\ g = Remapped(seg)
                            /\ \A d \in DOMAIN stream[seg] : merged[g[d] + 1] = stream[seg][d]
  BY <1>2, RemappedLeads
<1>7. global' = Append(global, g)
  BY <1>3, <1>5, <1>6 DEF ApplyRemap, Remapped
<1>8. /\ global' \in Seq(Seq(Nat)) /\ Len(global') = k + 1 /\ global'[k + 1] = g
      /\ \A s \in 1 .. k : global'[s] = global[s]
  <2>1. PICK T : T = Seq(Nat)
    OBVIOUS
  <2>2. g \in T /\ global \in Seq(T)
    BY <2>1 DEF OrdmapIInv, Remapping
  <2>3. /\ Append(global, g) \in Seq(T) /\ Len(Append(global, g)) = Len(global) + 1
        /\ Append(global, g)[Len(global) + 1] = g
        /\ \A s \in 1 .. Len(global) : Append(global, g)[s] = global[s]
    BY <2>2, AppendExtends
  <2> QED
    BY <1>3, <1>7, <2>1, <2>3
<1>9. DOMAIN global' = 1 .. k + 1
  BY <1>8
<1>10. Mapped(stream, global', merged)
  <2> SUFFICES ASSUME NEW s \in 1 .. k + 1, NEW d \in DOMAIN stream[s]
               PROVE  merged[global'[s][d] + 1] = stream[s][d]
    BY <1>9 DEF Mapped
  <2>1. CASE s = k + 1
    BY <1>5, <1>6, <1>8, <2>1
  <2>2. CASE s # k + 1
    <3>1. s \in 1 .. k
      BY <2>2
    <3> QED
      BY <1>3, <1>8, <3>1 DEF OrdmapIInv, Remapping, Mapped
  <2> QED
    BY <2>1, <2>2
<1>11. Len(global') =< Len(stream)
  BY <1>2, <1>3, <1>4, <1>8
<1> QED
  BY <1>1, <1>2, <1>8, <1>10, <1>11 DEF OrdmapIInv, Remapping, Streaming

-----------------------------------------------------------------------------
LEMMA OrdmapInvHolds ==
    ASSUME StreamsAssumption PROVE OrdmapSpec => []OrdmapIInv
<1>1. OrdmapInit => OrdmapIInv
  BY OrdmapInvInit
<1>2. OrdmapIInv /\ [OrdmapNext]_ordmapVars => OrdmapIInv'
  <2> SUFFICES ASSUME OrdmapIInv, [OrdmapNext]_ordmapVars PROVE OrdmapIInv'
    OBVIOUS
  <2>1. CASE Pop
    BY <2>1, PopKeeps
  <2>2. CASE ApplyRemap
    BY <2>2, ApplyRemapKeeps
  <2>3. CASE UNCHANGED ordmapVars
    <3>1. /\ stream' = stream /\ heap' = heap /\ merged' = merged /\ remap' = remap
          /\ global' = global
      BY <2>3 DEF ordmapVars
    <3>2. Dicts' = Dicts
      BY <3>1 DEF Dicts, Dict
    <3> QED
      BY <3>1, <3>2 DEF OrdmapIInv, Streaming
  <2> QED
    BY <2>1, <2>2, <2>3 DEF OrdmapNext
<1> QED
  BY <1>1, <1>2, PTL DEF OrdmapSpec

(* The entries of the heap name terms of their segments, every segment has
   its table, and no more segments are remapped than there are. *)
THEOREM OrdmapTypeCorrect ==
    ASSUME StreamsAssumption PROVE OrdmapSpec => []OrdmapTypeOK
<1>1. OrdmapIInv => OrdmapTypeOK
  <2> SUFFICES ASSUME OrdmapIInv PROVE OrdmapTypeOK
    OBVIOUS
  <2>1. /\ DOMAIN Dicts = DOMAIN stream
        /\ \A s \in DOMAIN stream : DictOf(Dict(s), stream[s]) /\ Dicts[s] = Dict(s)
    BY StreamDicts DEF OrdmapIInv
  <2>2. DOMAIN remap = DOMAIN stream /\ Len(global) =< Len(stream)
    BY <2>1 DEF OrdmapIInv, Merging, Remapping
  <2>3. ASSUME NEW e \in heap PROVE e.seg \in DOMAIN stream /\ e.ord \in 0 .. Len(Dict(e.seg)) - 1
    <3>1. e.seg \in DOMAIN stream /\ e = NextOf(remap, e.seg) /\ e.ord < Len(Dict(e.seg))
      BY <2>1 DEF OrdmapIInv, Merging, Waits
    <3>2. remap[e.seg] \in Seq(Nat)
      BY <2>1, <3>1 DEF OrdmapIInv, Merging
    <3>3. e.ord = Len(remap[e.seg])
      BY <3>1 DEF NextOf
    <3>4. Len(Dict(e.seg)) \in Nat
      BY <2>1, <3>1 DEF DictOf
    <3> QED
      BY <3>1, <3>2, <3>3, <3>4
  <2> QED
    BY <2>2, <2>3 DEF OrdmapTypeOK
<1> QED
  BY <1>1, OrdmapInvHolds, PTL

(* At every turn of the merge the global dictionary is sorted without
   repetition, and every document remapped has its own term: whatever the
   segments and the order their entries leave the heap in. *)
THEOREM GlobalOrdsHold ==
    ASSUME StreamsAssumption PROVE OrdmapSpec => []GlobalOrdsAgree
<1>1. OrdmapIInv => GlobalOrdsAgree
  <2> SUFFICES ASSUME OrdmapIInv PROVE GlobalOrdsAgree
    OBVIOUS
  <2>1. \A i \in 1 .. Len(merged) - 1 : Precedes(merged[i], merged[i + 1])
    <3> TAKE i \in 1 .. Len(merged) - 1
    <3>1. Len(merged) \in Nat
      BY DEF OrdmapIInv, Merging
    <3>2. i \in 1 .. Len(merged) /\ i + 1 \in 1 .. Len(merged) /\ i < i + 1
      BY <3>1
    <3> QED
      BY <3>2 DEF OrdmapIInv, Merging, Increasing
  <2> QED
    BY <2>1 DEF OrdmapIInv, Remapping, Mapped, GlobalOrdsAgree
<1> QED
  BY <1>1, OrdmapInvHolds, PTL

-----------------------------------------------------------------------------
(* The keys of the reverse index.                                          *)

\* Two terms in order differ first where the earlier ends or has the lower byte.
LEMMA DifferenceOfTerms ==
    ASSUME NEW s \in Term, NEW t \in Term, NEW n \in 1 .. Len(t), Parts(s, t, n)
    PROVE  sort_key_length(s, t) = n
<1>1. PICK a \in Nat, b \in Nat : a = Len(s) /\ b = Len(t)
  BY DEF Term
<1>2. /\ n \in 1 .. b /\ n =< a + 1
      /\ \A k \in 1 .. n - 1 : s[k] = t[k]
      /\ n =< a => s[n] < t[n]
  BY <1>1 DEF Parts
<1>3. PICK l \in Nat : l = AtMost(a, b) /\ l =< a /\ l =< b /\ n - 1 =< l
  BY <1>1, <1>2 DEF AtMost
<1>4. PICK T : T = {k \in 0 .. l : SubSeq(s, 1, k) = SubSeq(t, 1, k)}
  OBVIOUS
<1>5. (\A k \in 1 .. a : s[k] \in Nat) /\ (\A k \in 1 .. b : t[k] \in Nat)
  BY <1>1, ElementOfSeq DEF Term
<1>6. ASSUME NEW k \in 0 .. l
      PROVE  /\ SubSeq(s, 1, k) \in Seq(Nat) /\ Len(SubSeq(s, 1, k)) = k
             /\ SubSeq(t, 1, k) \in Seq(Nat) /\ Len(SubSeq(t, 1, k)) = k
             /\ \A j \in 1 .. k : SubSeq(s, 1, k)[j] = s[j] /\ SubSeq(t, 1, k)[j] = t[j]
  <2>1. \A j \in 1 .. k : s[j] \in Nat /\ t[j] \in Nat
    BY <1>3, <1>5
  <2>2. /\ SubSeq(s, 1, k) \in Seq(Nat) /\ Len(SubSeq(s, 1, k)) = IF 1 =< k THEN k - 1 + 1 ELSE 0
        /\ \A j \in 1 .. k - 1 + 1 : SubSeq(s, 1, k)[j] = s[1 + j - 1]
    BY <2>1, SubSeqProperties
  <2>3. /\ SubSeq(t, 1, k) \in Seq(Nat) /\ Len(SubSeq(t, 1, k)) = IF 1 =< k THEN k - 1 + 1 ELSE 0
        /\ \A j \in 1 .. k - 1 + 1 : SubSeq(t, 1, k)[j] = t[1 + j - 1]
    BY <2>1, SubSeqProperties
  <2>4. k - 1 + 1 = k /\ \A j \in 1 .. k : 1 + j - 1 = j
    OBVIOUS
  <2>5. IF 1 =< k THEN k - 1 + 1 = k ELSE k = 0
    OBVIOUS
  <2> QED
    BY <2>2, <2>3, <2>4, <2>5
<1>7. n - 1 \in T
  <2>1. PICK k \in 0 .. l : k = n - 1
    BY <1>2, <1>3
  <2>2. \A j \in 1 .. k : SubSeq(s, 1, k)[j] = SubSeq(t, 1, k)[j]
    BY <1>2, <1>6, <2>1
  <2>3. SubSeq(s, 1, k) = SubSeq(t, 1, k)
    BY <1>6, <2>2, SeqEqual
  <2> QED
    BY <1>4, <2>1, <2>3
<1>8. ASSUME NEW k \in T PROVE k =< n - 1
  <2> SUFFICES ASSUME k >= n PROVE FALSE
    BY <1>2, <1>4
  <2>1. k \in 0 .. l /\ n \in 1 .. k /\ n =< a /\ n =< b
    BY <1>2, <1>3, <1>4
  <2>2. SubSeq(s, 1, k)[n] = s[n] /\ SubSeq(t, 1, k)[n] = t[n]
    BY <1>6, <2>1
  <2>3. s[n] = t[n]
    BY <1>4, <2>2
  <2>4. n \in 1 .. a
    BY <2>1
  <2>5. s[n] \in Nat /\ s[n] < t[n]
    BY <1>2, <1>5, <2>1, <2>4
  <2> QED
    BY <2>3, <2>5
<1>9. Max(T) = n - 1
  <2>1. T \in SUBSET (0 .. l) /\ T # {}
    BY <1>4, <1>7
  <2>2. Max(T) \in T /\ \A k \in T : k =< Max(T)
    BY <1>3, <2>1, MaxIsGreatest
  <2>3. n - 1 =< Max(T) /\ Max(T) =< n - 1 /\ Max(T) \in 0 .. l
    BY <1>7, <1>8, <2>1, <2>2
  <2> QED
    BY <1>2, <2>3
<1>10. bytes_difference(s, t) = n - 1
  BY <1>1, <1>3, <1>4, <1>9 DEF bytes_difference
<1> QED
  BY <1>1, <1>2, <1>10 DEF sort_key_length, AtMost

\* The key of a term after another one: behind the other, not behind the term.
LEMMA StartOfTerm ==
    ASSUME NEW t \in Term, NEW n \in 1 .. Len(t)
    PROVE  Len(SubSeq(t, 1, n)) = n /\ \A k \in 1 .. n : SubSeq(t, 1, n)[k] = t[k] /\ t[k] \in Nat
<1>1. PICK b \in Nat : b = Len(t)
  BY DEF Term
<1>2. n \in 1 .. b /\ \A k \in 1 .. b : t[k] \in Nat
  BY <1>1, ElementOfSeq DEF Term
<1>3. \A j \in 1 .. n : t[j] \in Nat
  BY <1>2
<1>4. /\ Len(SubSeq(t, 1, n)) = IF 1 =< n THEN n - 1 + 1 ELSE 0
      /\ \A j \in 1 .. n - 1 + 1 : SubSeq(t, 1, n)[j] = t[1 + j - 1]
  BY <1>2, <1>3, SubSeqProperties
<1>5. 1 =< n /\ n - 1 + 1 = n /\ \A j \in 1 .. n : 1 + j - 1 = j
  BY <1>2
<1> QED
  BY <1>3, <1>4, <1>5

LEMMA KeyOfTerm ==
    ASSUME NEW s \in Term, NEW t \in Term, Precedes(s, t)
    PROVE  LET key == SubSeq(t, 1, sort_key_length(s, t))
           IN  Precedes(s, key) /\ ~Precedes(t, key)
<1>1. PICK n \in 1 .. Len(t) : Parts(s, t, n)
  BY PrecedesParts
<1>2. PICK key : key = SubSeq(t, 1, n)
  OBVIOUS
<1>3. key = SubSeq(t, 1, sort_key_length(s, t))
  BY <1>1, <1>2, DifferenceOfTerms
<1>4. PICK b \in Nat : b = Len(t)
  BY DEF Term
<1>5. n \in 1 .. b
  BY <1>4
<1>6. Len(key) = n /\ \A k \in 1 .. n : key[k] = t[k] /\ t[k] \in Nat
  BY <1>2, StartOfTerm
<1>7. Parts(s, key, n)
  <2>1. /\ n =< Len(s) + 1
        /\ \A k \in 1 .. n - 1 : s[k] = t[k]
        /\ n =< Len(s) => s[n] < t[n]
    BY <1>1 DEF Parts
  <2>2. n \in 1 .. n /\ \A k \in 1 .. n - 1 : k \in 1 .. n
    BY <1>5
  <2> QED
    BY <1>6, <2>1, <2>2 DEF Parts
<1>8. Precedes(s, key)
  <2>1. n \in 1 .. n
    BY <1>5
  <2>2. n \in 1 .. Len(key)
    BY <1>6, <2>1
  <2>3. \E m \in 1 .. Len(key) : Parts(s, key, m)
    BY <1>7, <2>2
  <2> QED
    BY <2>3, PrecedesParts
<1>9. ASSUME NEW k \in 1 .. n PROVE ~Parts(t, key, k)
  <2>1. PICK x \in Nat : x = t[k] /\ x = key[k]
    BY <1>6
  <2>2. k =< b
    BY <1>5
  <2>3. k =< Len(t)
    BY <1>4, <2>2
  <2>4. ~(x < x)
    BY <2>1
  <2>5. ~(t[k] < key[k])
    BY <2>1, <2>4
  <2> QED
    BY <2>3, <2>5 DEF Parts
<1>10. ~Precedes(t, key)
  <2>1. ~\E k \in 1 .. Len(key) : Parts(t, key, k)
    BY <1>6, <1>9
  <2> QED
    BY <2>1, PrecedesParts
<1> QED
  BY <1>3, <1>8, <1>10

LEMMA KeysOfTerms ==
    ASSUME TermsDictAssumption, NEW dict \in Seq(Term), Increasing(dict),
           NEW keys, keys = write_terms_index(dict), NEW b \in 2 .. Len(keys)
    PROVE  /\ Precedes(dict[(b - 1) * REVERSE_BLOCK], keys[b])
           /\ ~Precedes(dict[((b - 1) * REVERSE_BLOCK) + 1], keys[b])
<1>1. PICK size \in Nat \ {0} : size = REVERSE_BLOCK
  BY DEF TermsDictAssumption
<1>2. PICK n \in Nat : n = Len(dict)
  OBVIOUS
<1>3. PICK q \in Nat : q = CeilDiv(n, size) /\ \A c \in 1 .. q : (c - 1) * size < n
  BY PartBounds
<1> DEFINE key(c) == LET t == dict[((c - 1) * size) + 1]
                     IN  IF c = 1 THEN <<>>
                         ELSE SubSeq(t, 1, sort_key_length(dict[(c - 1) * size], t))
<1>4. keys = [c \in 1 .. q |-> key(c)] \o <<>>
  BY <1>1, <1>2, <1>3 DEF write_terms_index, Listed
<1> HIDE DEF key
<1>5. PICK f : f = [c \in 1 .. q |-> key(c)]
  OBVIOUS
<1>6. PICK S : S = {key(c) : c \in 1 .. q}
  OBVIOUS
<1>7. f \in [1 .. q -> S]
  BY <1>5, <1>6
<1>8. f \in Seq(S) /\ Len(f) = q
  BY <1>7, FunctionIsSeq
<1>9. keys = f
  BY <1>4, <1>5, <1>8, ConcatEmptySeq
<1>10. b \in 1 .. q /\ b # 1 /\ keys[b] = key(b)
  BY <1>5, <1>8, <1>9
<1>11. PICK at \in Nat : at = (b - 1) * size
  <2>1. b - 1 \in Nat /\ size \in Nat
    BY <1>10
  <2> QED
    BY <2>1
<1>12. at \in 1 .. n /\ at + 1 \in 1 .. n /\ at < at + 1
  <2>1. PICK c \in Nat : b - 1 = c + 1
    <3>1. b - 2 \in Nat /\ b - 1 = (b - 2) + 1
      BY <1>10
    <3> QED
      BY <3>1
  <2>2. at = c * size + size /\ c * size \in Nat
    BY <1>11, <2>1
  <2>3. at < n
    BY <1>3, <1>10, <1>11
  <2> QED
    BY <1>2, <2>2, <2>3
<1>13. PICK s \in Term, t \in Term : s = dict[at] /\ t = dict[at + 1]
  BY <1>2, <1>12, ElementOfSeq
<1>14. Precedes(s, t)
  BY <1>2, <1>12, <1>13 DEF Increasing
<1>15. keys[b] = SubSeq(t, 1, sort_key_length(s, t))
  BY <1>10, <1>11, <1>13 DEF key
<1>16. Precedes(s, keys[b]) /\ ~Precedes(t, keys[b])
  BY <1>14, <1>15, KeyOfTerm
<1> QED
  BY <1>1, <1>11, <1>13, <1>16

LEMMA TermsOfSeq ==
    ASSUME NEW S, NEW s \in Seq(S)
    PROVE  (\A v \in Range(s) : v \in S) /\ IsFiniteSet(Range(s))
<1>1. PICK n \in Nat : n = Len(s) /\ DOMAIN s = 1 .. n /\ \A k \in 1 .. n : s[k] \in S
  BY ElementOfSeq
<1>2. PICK R : R = Range(s)
  OBVIOUS
<1>3. R = {s[k] : k \in 1 .. n}
  BY <1>1, <1>2 DEF Range
<1>4. \A v \in R : v \in S
  BY <1>1, <1>3
<1>5. PICK g : g = [k \in 1 .. n |-> s[k]]
  OBVIOUS
<1>6. g \in Surjection(1 .. n, R)
  BY <1>3, <1>5 DEF Surjection
<1>7. IsFiniteSet(1 .. n)
  BY <1>1, FS_Interval
<1>8. IsFiniteSet(R)
  BY <1>6, <1>7, FS_Surjection
<1> QED
  BY <1>2, <1>4, <1>8

\* What documents were sent, in a dictionary.
LEMMA DictionaryOfField ==
    ASSUME NEW f, f.sent \in Seq(Seq(Term))
    PROVE  Dictionary(f) \in Seq(Term) /\ Increasing(Dictionary(f))
<1>1. PICK T : T = Seq(Term)
  OBVIOUS
<1>2. PICK sent \in Seq(T) : sent = f.sent
  BY <1>1
<1>3. PICK n \in Nat : n = Len(sent) /\ DOMAIN sent = 1 .. n /\ \A k \in 1 .. n : sent[k] \in T
  BY ElementOfSeq
<1>4. ASSUME NEW k \in 1 .. n
      PROVE  Range(sent[k]) \in SUBSET Term /\ IsFiniteSet(Range(sent[k]))
  <2>1. PICK x \in Seq(Term) : x = sent[k]
    BY <1>1, <1>3
  <2>2. (\A v \in Range(x) : v \in Term) /\ IsFiniteSet(Range(x))
    BY TermsOfSeq
  <2> QED
    BY <2>1, <2>2
<1>5. PICK R : R = {Range(sent[k]) : k \in 1 .. n}
  OBVIOUS
<1>6. IsFiniteSet(R)
  <2>1. PICK g : g = [k \in 1 .. n |-> Range(sent[k])]
    OBVIOUS
  <2>2. g \in Surjection(1 .. n, R)
    BY <1>5, <2>1 DEF Surjection
  <2> QED
    BY <1>3, <2>2, FS_Interval, FS_Surjection
<1>7. PICK S \in SUBSET Term : S = UNION R /\ IsFiniteSet(S)
  <2>1. UNION R \in SUBSET Term
    BY <1>4, <1>5
  <2>2. \A r \in R : IsFiniteSet(r)
    BY <1>4, <1>5
  <2> QED
    BY <1>6, <2>1, <2>2, FS_UNION
<1>8. Dictionary(f) = Sorted(S, Precedes)
  BY <1>2, <1>3, <1>5, <1>7 DEF Dictionary
<1>9. PICK D : D = Sorted(S, Precedes) /\ D \in Seq(S)
               /\ \A j, k \in 1 .. Len(D) : j < k => Precedes(D[j], D[k])
  BY <1>7, SortedTerms
<1>10. D \in Seq(Term)
  <2>1. PICK l \in Nat : l = Len(D) /\ D \in [1 .. l -> S]
    BY <1>9
  <2>2. D \in [1 .. l -> Term]
    BY <2>1
  <2> QED
    BY <2>2
<1> QED
  BY <1>8, <1>9, <1>10 DEF Increasing

(* A search over the keys of the reverse terms index finds the group of a term,
   for any fields of any segment and any block size: a key is no shorter and no
   longer than it takes to lie behind the group before and not behind its own
   first term (sort_key_length, write_terms_index). *)
THEOREM KeysAlwaysSeparate ==
    ASSUME TermsDictAssumption, SegmentsAssumption PROVE Spec => []KeysSeparate
<1>1. Init => fields \in Segments
  BY DEF Init
<1>2. fields \in Segments /\ [Next]_vars => (fields \in Segments)'
  BY DEF Next, AddField, Finish, PlanEntry, DecodeColumn, vars
<1>3. fields \in Segments => KeysSeparate
  <2> SUFFICES ASSUME fields \in Segments, NEW f \in DOMAIN fields,
                      fields[f].type \in {"sorted", "sorted_set"},
                      NEW dict, dict = Dictionary(fields[f]), NEW keys, keys = write_terms_index(dict),
                      NEW b \in 2 .. Len(keys)
               PROVE  /\ Precedes(dict[(b - 1) * REVERSE_BLOCK], keys[b])
                      /\ ~Precedes(dict[((b - 1) * REVERSE_BLOCK) + 1], keys[b])
    BY DEF KeysSeparate
  <2>1. fields[f].sent \in Seq(Seq(Term))
    BY DEF SegmentsAssumption, Term
  <2>2. dict \in Seq(Term) /\ Increasing(dict)
    BY <2>1, DictionaryOfField
  <2> QED
    BY <2>2, KeysOfTerms
<1> QED
  BY <1>1, <1>2, <1>3, PTL DEF Spec

-----------------------------------------------------------------------------
(* The documents of the blocks of a set, and their numbers within a block. *)

LEMMA InBlock ==
    ASSUME NEW size \in Nat \ {0}, NEW d \in Nat
    PROVE  /\ d \div size \in Nat /\ d % size \in 0 .. size - 1
           /\ d = size * (d \div size) + (d % size)
           /\ \A b \in Nat : d < b * size <=> d \div size < b
<1>1. PICK q \in Nat, r \in Nat : q = d \div size /\ r = d % size /\ d = size * q + r /\ r < size
  OBVIOUS
<1>2. ASSUME NEW b \in Nat PROVE d < b * size <=> q < b
  <2>1. CASE q < b
    <3>1. PICK c \in Nat : b = q + 1 + c
      <4>1. b - q - 1 \in Nat /\ b = q + 1 + (b - q - 1)
        BY <2>1
      <4> QED
        BY <4>1
    <3>2. b * size = size * q + size + c * size /\ c * size \in Nat
      BY <3>1
    <3> QED
      BY <1>1, <2>1, <3>2
  <2>2. CASE ~(q < b)
    <3>1. PICK c \in Nat : q = b + c
      <4>1. q - b \in Nat /\ q = b + (q - b)
        BY <2>2
      <4> QED
        BY <4>1
    <3>2. size * q = b * size + size * c /\ size * c \in Nat /\ b * size \in Nat
      BY <3>1
    <3> QED
      BY <1>1, <2>2, <3>2
  <2> QED
    BY <2>1, <2>2
<1> QED
  BY <1>1, <1>2

OfBlock(docs, b) == {d \in docs : d \div BLOCK_SIZE = b}
Passed(docs, b) == {d \in docs : d < b * BLOCK_SIZE}
Within(docs, b) == {d % BLOCK_SIZE : d \in OfBlock(docs, b)}
DocsBelow(docs, b, x) == {d \in OfBlock(docs, b) : d % BLOCK_SIZE < x}

LEMMA PassedGrows ==
    ASSUME DisiAssumption, NEW docs \in SUBSET Nat, IsFiniteSet(docs), NEW b \in Nat
    PROVE  /\ Cardinality(Passed(docs, b)) \in Nat /\ Cardinality(OfBlock(docs, b)) \in Nat
           /\ Cardinality(Passed(docs, b + 1))
                = Cardinality(Passed(docs, b)) + Cardinality(OfBlock(docs, b))
<1>1. BLOCK_SIZE \in Nat \ {0}
  BY DEF DisiAssumption
<1>2. PICK P : P = Passed(docs, b) /\ IsFiniteSet(P) /\ Cardinality(P) \in Nat
  BY FS_Subset, FS_CardinalityType DEF Passed
<1>3. PICK O : O = OfBlock(docs, b) /\ IsFiniteSet(O) /\ Cardinality(O) \in Nat
  BY FS_Subset, FS_CardinalityType DEF OfBlock
<1>4. ASSUME NEW d \in docs
      PROVE  /\ d \in Passed(docs, b + 1) <=> d \in P \/ d \in O
             /\ ~(d \in P /\ d \in O)
  <2>1. PICK q \in Nat : q = d \div BLOCK_SIZE
    BY <1>1, InBlock
  <2>2. d < b * BLOCK_SIZE <=> q < b
    BY <1>1, <2>1, InBlock
  <2>3. d < (b + 1) * BLOCK_SIZE <=> q < b + 1
    <3>1. PICK c \in Nat : c = b + 1
      OBVIOUS
    <3>2. d < c * BLOCK_SIZE <=> q < c
      BY <1>1, <2>1, InBlock
    <3> QED
      BY <3>1, <3>2
  <2>4. /\ d \in Passed(docs, b + 1) <=> q < b + 1
        /\ d \in P <=> q < b
        /\ d \in O <=> q = b
    BY <1>2, <1>3, <2>1, <2>2, <2>3 DEF Passed, OfBlock
  <2> QED
    BY <2>1, <2>4
<1>5. Passed(docs, b + 1) = P \cup O /\ P \cap O = {}
  <2>1. P \subseteq docs /\ O \subseteq docs /\ Passed(docs, b + 1) \subseteq docs
    BY <1>2, <1>3 DEF Passed, OfBlock
  <2> QED
    BY <1>4, <2>1
<1>6. Cardinality(P \cup O) = Cardinality(P) + Cardinality(O) - Cardinality(P \cap O)
  BY <1>2, <1>3, FS_Union
<1>7. Cardinality(P \cap O) = 0
  BY <1>5, FS_EmptySet
<1>8. Cardinality(Passed(docs, b + 1)) = Cardinality(P) + Cardinality(O)
  <2>1. PICK p \in Nat, o \in Nat : p = Cardinality(P) /\ o = Cardinality(O) /\ p + o - 0 = p + o
    BY <1>2, <1>3
  <2> QED
    BY <1>5, <1>6, <1>7, <2>1
<1> QED
  BY <1>2, <1>3, <1>8

LEMMA PassedSame ==
    ASSUME DisiAssumption, NEW docs \in SUBSET Nat, NEW a \in Nat, NEW b \in Nat, a =< b,
           \A c \in a .. b - 1 : OfBlock(docs, c) = {}
    PROVE  Passed(docs, a) = Passed(docs, b)
<1>1. BLOCK_SIZE \in Nat \ {0}
  BY DEF DisiAssumption
<1>2. ASSUME NEW d \in docs PROVE d \in Passed(docs, a) <=> d \in Passed(docs, b)
  <2>1. PICK q \in Nat : q = d \div BLOCK_SIZE
    BY <1>1, InBlock
  <2>2. (d < a * BLOCK_SIZE <=> q < a) /\ (d < b * BLOCK_SIZE <=> q < b)
    BY <1>1, <2>1, InBlock
  <2>3. d \in OfBlock(docs, q)
    BY <2>1 DEF OfBlock
  <2>4. ~(q \in a .. b - 1)
    BY <2>3
  <2>5. q < a <=> q < b
    BY <2>4
  <2> QED
    BY <2>2, <2>5 DEF Passed
<1> QED
  BY <1>2 DEF Passed

\* A block has as many documents below a number as numbers within it below that.
LEMMA WithinCounts ==
    ASSUME DisiAssumption, NEW docs \in SUBSET Nat, IsFiniteSet(docs), NEW b \in Nat
    PROVE  /\ Within(docs, b) \in SUBSET Nat /\ IsFiniteSet(Within(docs, b))
           /\ Cardinality(Within(docs, b)) = Cardinality(OfBlock(docs, b))
           /\ \A x \in Nat : Cardinality(Below(Within(docs, b), x)) = Cardinality(DocsBelow(docs, b, x))
<1>1. BLOCK_SIZE \in Nat \ {0}
  BY DEF DisiAssumption
<1>2. PICK O \in SUBSET docs : O = OfBlock(docs, b) /\ IsFiniteSet(O)
  <2>1. OfBlock(docs, b) \subseteq docs
    BY DEF OfBlock
  <2> QED
    BY <2>1, FS_Subset
<1>3. ASSUME NEW d \in O
      PROVE  d % BLOCK_SIZE \in Nat /\ d = BLOCK_SIZE * b + (d % BLOCK_SIZE)
  <2>1. d \in Nat /\ d \div BLOCK_SIZE = b
    BY <1>2 DEF OfBlock
  <2>2. d % BLOCK_SIZE \in 0 .. BLOCK_SIZE - 1 /\ d = BLOCK_SIZE * (d \div BLOCK_SIZE) + (d % BLOCK_SIZE)
    BY <1>1, <2>1, InBlock
  <2> QED
    BY <2>1, <2>2
<1>4. ASSUME NEW A \in SUBSET O, NEW T, T = {d % BLOCK_SIZE : d \in A}
      PROVE  T \in SUBSET Nat /\ IsFiniteSet(T) /\ Cardinality(T) = Cardinality(A)
  <2>1. IsFiniteSet(A)
    BY <1>2, FS_Subset
  <2>2. PICK f : f = [d \in A |-> d % BLOCK_SIZE]
    OBVIOUS
  <2>3. f \in Surjection(A, T)
    BY <1>4, <2>2 DEF Surjection
  <2>4. \A d, e \in A : f[d] = f[e] => d = e
    BY <1>3, <2>2
  <2>5. f \in Bijection(A, T)
    BY <2>3, <2>4 DEF Bijection, Injection, Surjection, IsInjective
  <2>6. ExistsBijection(A, T)
    BY <2>5 DEF ExistsBijection
  <2>7. T \in SUBSET Nat
    BY <1>3, <1>4
  <2> QED
    BY <2>1, <2>3, <2>6, <2>7, FS_Surjection, FS_Bijection
<1>5. Within(docs, b) = {d % BLOCK_SIZE : d \in O}
  BY <1>2 DEF Within
<1>6. Within(docs, b) \in SUBSET Nat /\ IsFiniteSet(Within(docs, b)) /\ Cardinality(Within(docs, b)) = Cardinality(O)
  BY <1>4, <1>5
<1>7. ASSUME NEW x \in Nat
      PROVE  Cardinality(Below(Within(docs, b), x)) = Cardinality(DocsBelow(docs, b, x))
  <2>1. PICK A \in SUBSET O : A = DocsBelow(docs, b, x)
    BY <1>2 DEF DocsBelow
  <2>2. Below(Within(docs, b), x) = {d % BLOCK_SIZE : d \in A}
    BY <1>2, <1>5, <2>1 DEF Below, DocsBelow
  <2> QED
    BY <1>4, <2>1, <2>2
<1> QED
  BY <1>2, <1>6, <1>7

-----------------------------------------------------------------------------
(* A block as it is written.                                               *)

Cells == Int \cup (Int \X Int) \cup {WordOfBits(S) : S \in SUBSET Int}

Ranking == CeilDiv(BLOCK_WORDS, RANK_WORDS)
Mark(r) == r * RANK_WORDS * WORD

LEMMA Bounds ==
    ASSUME DisiAssumption
    PROVE  BLOCK_WORDS \in Nat /\ Ranking \in Nat /\ \A r \in Nat : Mark(r) \in Nat
<1>1. PICK s \in Nat, w \in Nat \ {0}, n \in Nat \ {0} : s = BLOCK_SIZE /\ w = WORD /\ n = RANK_WORDS
  BY DEF DisiAssumption
<1>2. BLOCK_WORDS \in Nat
  BY <1>1 DEF BLOCK_WORDS
<1>3. Ranking \in Nat
  BY <1>1, <1>2, PartBounds DEF Ranking
<1>4. ASSUME NEW r \in Nat PROVE Mark(r) \in Nat
  <2>1. r * n \in Nat
    BY <1>1
  <2>2. r * n * w \in Nat
    BY <1>1, <2>1
  <2> QED
    BY <1>1, <2>2 DEF Mark
<1> QED
  BY <1>2, <1>3, <1>4

LEMMA RankListed ==
    ASSUME DisiAssumption, NEW within \in SUBSET Nat, IsFiniteSet(within)
    PROVE  /\ create_rank(within) \in Seq(Cells) /\ Len(create_rank(within)) = Ranking
           /\ \A r \in 0 .. Ranking - 1 :
                 create_rank(within)[r + 1] = Cardinality(Below(within, Mark(r)))
<1>1. PICK R \in Nat : R = Ranking
  BY Bounds
<1>2. PICK f : f = [r \in 1 .. R |-> Cardinality({d \in within : d < (r - 1) * RANK_WORDS * WORD})]
  OBVIOUS
<1>3. ASSUME NEW r \in 1 .. R PROVE f[r] = Cardinality(Below(within, Mark(r - 1))) /\ f[r] \in Cells
  <2>1. f[r] = Cardinality(Below(within, Mark(r - 1)))
    BY <1>2 DEF Below, Mark
  <2>2. Cardinality(Below(within, Mark(r - 1))) \in Nat
    BY FS_Subset, FS_CardinalityType DEF Below
  <2> QED
    BY <2>1, <2>2 DEF Cells
<1>4. f \in [1 .. R -> Cells]
  BY <1>2, <1>3
<1>5. f \in Seq(Cells) /\ Len(f) = R
  BY <1>4, FunctionIsSeq
<1>6. create_rank(within) = f
  <2>1. create_rank(within) = f \o <<>>
    BY <1>1, <1>2 DEF create_rank, Listed, Ranking
  <2> QED
    BY <1>5, <2>1, ConcatEmptySeq
<1>7. ASSUME NEW r \in 0 .. R - 1 PROVE f[r + 1] = Cardinality(Below(within, Mark(r)))
  <2>1. PICK q \in 1 .. R : q = r + 1 /\ q - 1 = r
    BY <1>1
  <2>2. f[q] = Cardinality(Below(within, Mark(q - 1)))
    BY <1>3
  <2> QED
    BY <2>1, <2>2
<1> QED
  BY <1>1, <1>5, <1>6, <1>7

LEMMA WordsListed ==
    ASSUME DisiAssumption, NEW within \in SUBSET Nat PROVE Words(within) \in Seq(Cells)
<1>1. PICK n \in Nat, size \in Nat : n = BLOCK_WORDS /\ size = WORD
  BY Bounds DEF DisiAssumption
<1>2. PICK f : f = [w \in 1 .. n |->
                       WordOfBits({d - (w - 1) * size : d \in {x \in within : x \div size = w - 1}})]
  OBVIOUS
<1>3. ASSUME NEW w \in 1 .. n PROVE f[w] \in Cells
  <2>1. PICK S : S = {d - (w - 1) * size : d \in {x \in within : x \div size = w - 1}}
    OBVIOUS
  <2>2. PICK c \in Int : c = (w - 1) * size
    BY <1>1
  <2>3. \A d \in within : d - c \in Int
    OBVIOUS
  <2>4. S \in SUBSET Int
    BY <2>1, <2>2, <2>3
  <2>5. f[w] = WordOfBits(S)
    BY <1>2, <2>1
  <2> QED
    BY <2>4, <2>5 DEF Cells
<1>4. f \in [1 .. n -> Cells]
  BY <1>2, <1>3
<1>5. f \in Seq(Cells)
  BY <1>4, FunctionIsSeq
<1>6. Words(within) = f \o <<>>
  BY <1>1, <1>2 DEF Words, Listed
<1> QED
  BY <1>5, <1>6, ConcatEmptySeq

Joined(a, b, d) ==
    /\ Len(a) \in Nat /\ Len(b) \in Nat /\ Len(d) = Len(a) + Len(b)
    /\ \A i \in 1 .. Len(a) : d[i] = a[i]
    /\ \A i \in 1 .. Len(b) : d[Len(a) + i] = b[i]

LEMMA JoinedSeqs ==
    ASSUME NEW S, NEW a \in Seq(S), NEW b \in Seq(S)
    PROVE  a \o b \in Seq(S) /\ Joined(a, b, a \o b)
<1>1. PICK m \in Nat, n \in Nat : m = Len(a) /\ n = Len(b)
  BY ElementOfSeq
<1>2. PICK d : d = a \o b
  OBVIOUS
<1>3. /\ d \in Seq(S) /\ Len(d) = m + n
      /\ \A i \in 1 .. m + n : d[i] = IF i <= m THEN a[i] ELSE b[i - m]
  BY <1>1, <1>2, ConcatProperties
<1>4. ASSUME NEW i \in 1 .. m PROVE d[i] = a[i]
  <2>1. i \in 1 .. m + n /\ i <= m
    BY <1>1
  <2> QED
    BY <1>3, <2>1
<1>5. ASSUME NEW i \in 1 .. n PROVE d[m + i] = b[i]
  <2>1. PICK j \in Nat : j = m + i
    BY <1>1
  <2>2. j \in 1 .. m + n /\ ~(j <= m) /\ j - m = i
    BY <2>1
  <2> QED
    BY <1>3, <2>1, <2>2
<1> QED
  BY <1>1, <1>2, <1>3, <1>4, <1>5 DEF Joined

LEMMA FlushedBlock ==
    ASSUME DisiAssumption, NEW block \in Nat, NEW within \in SUBSET Nat, IsFiniteSet(within)
    PROVE  LET f == flush_block(block, within)
               n == Cardinality(within)
           IN  /\ f \in Seq(Cells) /\ Len(f) > 1 /\ f[1] = block
               /\ n > MAX_ARRAY_LENGTH /\ n < BLOCK_SIZE =>
                     /\ Len(f) > 1 + Ranking
                     /\ \A r \in 0 .. Ranking - 1 : f[r + 3] = Cardinality(Below(within, Mark(r)))
<1>1. PICK n \in Nat : n = Cardinality(within)
  BY FS_CardinalityType
<1>2. PICK head : head = <<block, n - 1>> /\ head \in Seq(Cells) /\ Len(head) = 2 /\ head[1] = block
  <2>1. PICK C : C = Cells
    OBVIOUS
  <2>2. PICK a \in C, c \in C : a = block /\ c = n - 1
    BY <2>1 DEF Cells
  <2>3. <<a, c>> \in Seq(C) /\ Len(<<a, c>>) = 2 /\ <<a, c>>[1] = a
    OBVIOUS
  <2> QED
    BY <2>1, <2>2, <2>3
<1>3. PICK ranks \in Seq(Cells) : ranks = create_rank(within)
  BY RankListed
<1>4. PICK words \in Seq(Cells) : words = Words(within)
  BY WordsListed
<1>5. PICK sparse \in Seq(Cells) : sparse = Sorted(within, <)
  <2>1. PICK s \in Seq(within) : s = InOrder(within)
    BY InOrderIsOrdered
  <2>2. within \subseteq Cells
    BY DEF Cells
  <2>3. s \in Seq(Cells)
    BY <2>2, SeqGrows
  <2> QED
    BY <2>1, <2>3 DEF InOrder
<1>6. PICK R \in Nat : R = Ranking /\ Len(ranks) = R
  BY <1>3, Bounds, RankListed
<1>7. PICK dense \in Seq(Cells) : dense = ranks \o words /\ Joined(ranks, words, dense)
  BY JoinedSeqs
<1>8. PICK body : body = IF n =< MAX_ARRAY_LENGTH THEN sparse ELSE IF n # BLOCK_SIZE THEN dense ELSE <<>>
  OBVIOUS
<1>9. body \in Seq(Cells) /\ (n > MAX_ARRAY_LENGTH /\ n < BLOCK_SIZE => body = dense)
  <2>1. MAX_ARRAY_LENGTH \in Nat /\ BLOCK_SIZE \in Nat /\ <<>> \in Seq(Cells)
    BY EmptySeq DEF DisiAssumption
  <2> QED
    BY <1>8, <2>1
<1>10. flush_block(block, within) = head \o body
  BY <1>1, <1>2, <1>3, <1>4, <1>5, <1>7, <1>8 DEF flush_block
<1>11. PICK f \in Seq(Cells) : f = head \o body /\ Joined(head, body, f)
  BY <1>2, <1>9, JoinedSeqs
<1>12. PICK l \in Nat :
          /\ l = Len(body) /\ Len(f) = 2 + l /\ f[1] = head[1]
          /\ \A i \in 1 .. l : f[2 + i] = body[i]
  <2>1. PICK two : two = Len(head) /\ two = 2
    BY <1>2
  <2>2. /\ Len(body) \in Nat /\ Len(f) = two + Len(body)
        /\ \A i \in 1 .. two : f[i] = head[i]
        /\ \A i \in 1 .. Len(body) : f[two + i] = body[i]
    BY <1>11, <2>1 DEF Joined
  <2>3. 1 \in 1 .. two
    BY <2>1
  <2> QED
    BY <2>1, <2>2, <2>3
<1>13. Len(f) > 1 /\ f[1] = block
  BY <1>2, <1>12
<1>14. ASSUME n > MAX_ARRAY_LENGTH, n < BLOCK_SIZE
       PROVE  /\ Len(f) > 1 + R
              /\ \A r \in 0 .. R - 1 : f[r + 3] = Cardinality(Below(within, Mark(r)))
  <2>1. body = dense
    BY <1>9, <1>14
  <2>2. l >= R /\ \A i \in 1 .. R : i \in 1 .. l /\ body[i] = ranks[i]
    BY <1>6, <1>7, <1>12, <2>1 DEF Joined
  <2>3. ASSUME NEW r \in 0 .. R - 1 PROVE f[r + 3] = Cardinality(Below(within, Mark(r)))
    <3>1. PICK q \in 1 .. R : q = r + 1 /\ 2 + q = r + 3
      BY <1>6
    <3>2. f[2 + q] = ranks[q]
      BY <1>12, <2>2
    <3>3. ranks[r + 1] = Cardinality(Below(within, Mark(r)))
      BY <1>3, <1>6, RankListed
    <3> QED
      BY <3>1, <3>2, <3>3
  <2> QED
    BY <1>6, <1>12, <2>2, <2>3
<1> QED
  BY <1>1, <1>6, <1>10, <1>11, <1>13, <1>14

-----------------------------------------------------------------------------
(* Where a jump leads, in a region that grows.                             *)

Dense(docs, b) ==
    LET n == Cardinality(OfBlock(docs, b)) IN n > MAX_ARRAY_LENGTH /\ n < BLOCK_SIZE

Ranked(docs, region, at, b) ==
    /\ at + 1 + Ranking =< Len(region)
    /\ \A r \in 0 .. Ranking - 1 : region[at + 2 + r] = Cardinality(DocsBelow(docs, b, Mark(r)))

PointsTo(docs, region, at, b) ==
    /\ at \in 1 .. Len(region)
    /\ region[at] >= b
    /\ OfBlock(docs, b) # {} => region[at] = b
    /\ Dense(docs, b) => Ranked(docs, region, at, b)

JumpsTo(docs, region, jump, b) ==
    /\ jump \in Int \X Int
    /\ jump[1] = Cardinality(Passed(docs, b))
    /\ PointsTo(docs, region, jump[2] + 1, b)

JumpTable(docs, region, jumps, n) ==
    /\ jumps \in Seq(Int \X Int) /\ Len(jumps) = n
    /\ \A b \in 0 .. n - 1 : JumpsTo(docs, region, jumps[b + 1], b)

LEMMA PointsOn ==
    ASSUME DisiAssumption, NEW docs, NEW region \in Seq(Cells), NEW more \in Seq(Cells), NEW at \in Int, NEW b,
           PointsTo(docs, region, at, b)
    PROVE  PointsTo(docs, region \o more, at, b)
<1>1. PICK grown : grown = region \o more /\ Joined(region, more, grown)
  BY JoinedSeqs
<1>2. PICK m \in Nat, n \in Nat : m = Len(region) /\ n = Len(more) /\ Len(grown) = m + n
  BY <1>1 DEF Joined
<1>3. \A i \in 1 .. m : grown[i] = region[i]
  BY <1>1, <1>2 DEF Joined
<1>4. at \in 1 .. m /\ at \in 1 .. m + n
  BY <1>2 DEF PointsTo
<1>5. ASSUME Ranked(docs, region, at, b) PROVE Ranked(docs, grown, at, b)
  <2>1. PICK R \in Nat : R = Ranking
    BY Bounds
  <2>2. at + 1 + R =< m
    BY <1>2, <1>5, <2>1 DEF Ranked
  <2>3. ASSUME NEW r \in 0 .. R - 1
        PROVE  grown[at + 2 + r] = Cardinality(DocsBelow(docs, b, Mark(r)))
    <3>1. PICK i \in 1 .. m : i = at + 2 + r
      BY <1>4, <2>1, <2>2
    <3>2. region[at + 2 + r] = Cardinality(DocsBelow(docs, b, Mark(r)))
      BY <1>5, <2>1 DEF Ranked
    <3> QED
      BY <1>3, <3>1, <3>2
  <2> QED
    BY <1>2, <2>1, <2>2, <2>3 DEF Ranked
<1>6. grown[at] = region[at]
  BY <1>3, <1>4
<1> QED
  BY <1>1, <1>2, <1>4, <1>5, <1>6 DEF PointsTo

LEMMA LeadsOn ==
    ASSUME DisiAssumption, NEW docs, NEW region \in Seq(Cells), NEW more \in Seq(Cells), NEW jump, NEW b,
           JumpsTo(docs, region, jump, b)
    PROVE  JumpsTo(docs, region \o more, jump, b)
<1>1. PICK at \in Int : at = jump[2] + 1
  BY DEF JumpsTo
<1>2. PointsTo(docs, region, at, b)
  BY <1>1 DEF JumpsTo
<1>3. PointsTo(docs, region \o more, at, b)
  BY <1>2, PointsOn
<1> QED
  BY <1>1, <1>3 DEF JumpsTo

JumpToEnd(docs, region, jump, b) ==
    jump \in Int \X Int /\ jump[1] = Cardinality(Passed(docs, b)) /\ jump[2] = Len(region)

\* A block just written is where a jump to it leads.
LEMMA BlockLeads ==
    ASSUME DisiAssumption, NEW docs \in SUBSET Nat, IsFiniteSet(docs),
           NEW region \in Seq(Cells), NEW block \in Nat, NEW b \in Nat, b =< block,
           b = block \/ OfBlock(docs, b) = {}, NEW jump, JumpToEnd(docs, region, jump, b)
    PROVE  JumpsTo(docs, region \o flush_block(block, Within(docs, block)), jump, b)
<1>1. PICK within \in SUBSET Nat : within = Within(docs, block) /\ IsFiniteSet(within)
  BY WithinCounts
<1>2. PICK f \in Seq(Cells) : f = flush_block(block, within) /\ Len(f) > 1 /\ f[1] = block
  BY <1>1, FlushedBlock
<1>3. PICK grown : grown = region \o f /\ Joined(region, f, grown)
  BY JoinedSeqs
<1>4. PICK m \in Nat, n \in Nat : m = Len(region) /\ n = Len(f) /\ n > 1 /\ Len(grown) = m + n
                                 /\ \A i \in 1 .. n : grown[m + i] = f[i]
  BY <1>2, <1>3 DEF Joined
<1>5. PICK at \in Int : at = jump[2] + 1 /\ at = m + 1
  BY <1>4 DEF JumpToEnd
<1>6. at \in 1 .. m + n /\ grown[at] = block
  <2>1. 1 \in 1 .. n
    BY <1>4
  <2> QED
    BY <1>2, <1>4, <1>5, <2>1
<1>7. ASSUME Dense(docs, b) PROVE Ranked(docs, grown, at, b)
  <2>1. PICK c \in Nat : c = Cardinality(OfBlock(docs, b)) /\ c > MAX_ARRAY_LENGTH /\ c < BLOCK_SIZE
    BY <1>7, PassedGrows DEF Dense
  <2>2. OfBlock(docs, b) # {}
    <3>1. c # 0
      BY <2>1 DEF DisiAssumption
    <3> QED
      BY <2>1, <3>1, FS_EmptySet
  <2>3. b = block
    BY <2>2
  <2>4. Cardinality(within) = c
    BY <1>1, <2>1, <2>3, WithinCounts
  <2>5. PICK R \in Nat : R = Ranking
    BY Bounds
  <2>6. n > 1 + R /\ \A r \in 0 .. R - 1 : f[r + 3] = Cardinality(Below(within, Mark(r)))
    <3> DEFINE g == flush_block(block, within)
    <3>1. Cardinality(within) > MAX_ARRAY_LENGTH /\ Cardinality(within) < BLOCK_SIZE
      BY <2>1, <2>4
    <3>2. /\ Len(g) > 1 + Ranking
          /\ \A r \in 0 .. Ranking - 1 : g[r + 3] = Cardinality(Below(within, Mark(r)))
      BY <1>1, <3>1, FlushedBlock
    <3> HIDE DEF g
    <3>3. f = g
      BY <1>2 DEF g
    <3> QED
      BY <1>4, <2>5, <3>2, <3>3
  <2>7. at + 1 + R =< m + n
    BY <1>5, <2>6
  <2>8. ASSUME NEW r \in 0 .. R - 1
        PROVE  grown[at + 2 + r] = Cardinality(DocsBelow(docs, b, Mark(r)))
    <3>1. PICK i \in 1 .. n : i = r + 3 /\ m + i = at + 2 + r
      BY <1>5, <2>6
    <3>2. grown[m + i] = f[r + 3]
      BY <1>4, <3>1
    <3>3. Mark(r) \in Nat
      <4>1. PICK q \in Nat : q = r
        OBVIOUS
      <4>2. Mark(q) \in Nat
        BY Bounds
      <4> QED
        BY <4>1, <4>2
    <3>4. Cardinality(Below(within, Mark(r))) = Cardinality(DocsBelow(docs, b, Mark(r)))
      BY <1>1, <2>3, <3>3, WithinCounts
    <3> QED
      BY <2>6, <3>1, <3>2, <3>4
  <2> QED
    BY <1>4, <2>5, <2>7, <2>8 DEF Ranked
<1>8. PointsTo(docs, grown, at, b)
  BY <1>4, <1>6, <1>7 DEF PointsTo
<1> QED
  BY <1>1, <1>2, <1>3, <1>5, <1>8 DEF JumpsTo, JumpToEnd

\* The table after add_jumps, the blocks it fills in being the next ones.
LEMMA JumpsAdded ==
    ASSUME DisiAssumption, NEW docs, NEW region \in Seq(Cells), NEW more \in Seq(Cells),
           NEW jumps, NEW start \in Nat, NEW end \in Nat, start =< end, NEW index \in Nat,
           JumpTable(docs, region, jumps, start),
           \A b \in start .. end - 1 : JumpsTo(docs, region \o more, <<index, Len(region)>>, b)
    PROVE  LET added == add_jumps(jumps, Len(region), index, start, end)
           IN  added \o <<>> = added /\ JumpTable(docs, region \o more, added, end)
<1>1. PICK J : J = Int \X Int
  OBVIOUS
<1>2. PICK grown : grown = region \o more
  OBVIOUS
<1>3. PICK jump \in J : jump = <<index, Len(region)>>
  <2>1. PICK m \in Nat : m = Len(region)
    BY ElementOfSeq
  <2> QED
    BY <1>1, <2>1
<1>4. PICK added : added = [b \in 1 .. end |-> IF b - 1 >= start THEN jump ELSE jumps[b]]
  OBVIOUS
<1>5. add_jumps(jumps, Len(region), index, start, end) = added
  BY <1>3, <1>4 DEF add_jumps
<1>6. jumps \in Seq(J) /\ Len(jumps) = start
  BY <1>1 DEF JumpTable
<1>7. ASSUME NEW b \in 1 .. end PROVE added[b] \in J /\ JumpsTo(docs, grown, added[b], b - 1)
  <2>1. CASE b - 1 >= start
    <3>1. added[b] = jump
      BY <1>4, <2>1
    <3>2. PICK c \in start .. end - 1 : c = b - 1
      BY <2>1
    <3>3. JumpsTo(docs, grown, jump, c)
      BY <1>2, <1>3
    <3> QED
      BY <3>1, <3>2, <3>3
  <2>2. CASE ~(b - 1 >= start)
    <3>1. added[b] = jumps[b]
      BY <1>4, <2>2
    <3>2. PICK c \in 0 .. start - 1 : c = b - 1 /\ c + 1 = b /\ b \in 1 .. start
      BY <2>2
    <3>3. JumpsTo(docs, region, jumps[c + 1], c)
      BY DEF JumpTable
    <3>4. PICK j : j = jumps[b]
      OBVIOUS
    <3>5. JumpsTo(docs, region, j, c)
      BY <3>2, <3>3, <3>4
    <3>6. JumpsTo(docs, region \o more, j, c)
      BY <3>5, LeadsOn
    <3>7. j \in J
      BY <1>1, <3>5 DEF JumpsTo
    <3> QED
      BY <1>2, <3>1, <3>2, <3>4, <3>6, <3>7
  <2> QED
    BY <2>1, <2>2
<1>8. added \in [1 .. end -> J]
  BY <1>4, <1>7
<1>9. added \in Seq(J) /\ Len(added) = end
  BY <1>8, FunctionIsSeq
<1>10. ASSUME NEW b \in 0 .. end - 1 PROVE JumpsTo(docs, grown, added[b + 1], b)
  <2>1. PICK c \in 1 .. end : c = b + 1 /\ c - 1 = b
    OBVIOUS
  <2>2. JumpsTo(docs, grown, added[c], c - 1)
    BY <1>7
  <2> QED
    BY <2>1, <2>2
<1>11. JumpTable(docs, grown, added, end)
  BY <1>1, <1>9, <1>10 DEF JumpTable
<1> QED
  BY <1>2, <1>5, <1>9, <1>11, ConcatEmptySeq

-----------------------------------------------------------------------------
(* The turns of write_bit_set: what is written, the blocks up to the last  *)
(* one being done.                                                         *)

Written(docs, s) ==
    /\ s.out \in Seq(Cells) /\ s.last \in Nat
    /\ s.index = Cardinality(Passed(docs, s.last))
    /\ JumpTable(docs, s.out, s.jumps, s.last)

Empty(docs, a, b) == \A c \in a .. b - 1 : OfBlock(docs, c) = {}

LEMMA NothingWritten ==
    ASSUME DisiAssumption, NEW docs \in SUBSET Nat PROVE Written(docs, NoBlocks)
<1>1. PICK s : s = NoBlocks
  OBVIOUS
<1>2. s.out = <<>> /\ s.last = 0 /\ s.index = 0 /\ s.jumps = <<>>
  BY <1>1 DEF NoBlocks
<1>3. Passed(docs, 0) = {}
  <2>1. BLOCK_SIZE \in Nat /\ 0 * BLOCK_SIZE = 0
    BY DEF DisiAssumption
  <2>2. \A d \in docs : ~(d < 0)
    OBVIOUS
  <2> QED
    BY <2>1, <2>2 DEF Passed
<1>4. Cardinality(Passed(docs, 0)) = 0
  BY <1>3, FS_EmptySet
<1>5. JumpTable(docs, s.out, <<>>, 0)
  BY DEF JumpTable
<1>6. s.out \in Seq(Cells)
  BY <1>2
<1> QED
  BY <1>1, <1>2, <1>4, <1>5, <1>6 DEF Written

LEMMA BlockWritten ==
    ASSUME DisiAssumption, NEW docs \in SUBSET Nat, IsFiniteSet(docs), NEW s, Written(docs, s),
           NEW block \in Nat, s.last =< block, Empty(docs, s.last, block)
    PROVE  Written(docs, WriteBlock(s, block, docs)) /\ WriteBlock(s, block, docs).last = block + 1
<1> DEFINE jumps == s.jumps
<1>1. PICK region \in Seq(Cells), last \in Nat :
         region = s.out /\ last = s.last /\ JumpTable(docs, region, jumps, last)
  BY DEF Written
<1>2. PICK within \in SUBSET Nat : within = Within(docs, block) /\ IsFiniteSet(within)
  BY WithinCounts
<1>3. within = {d % BLOCK_SIZE : d \in {x \in docs : x \div BLOCK_SIZE = block}}
  BY <1>2 DEF Within, OfBlock
<1>4. PICK f \in Seq(Cells) : f = flush_block(block, within)
  BY <1>2, FlushedBlock
<1>5. PICK index \in Nat : index = s.index /\ index = Cardinality(Passed(docs, last))
  BY <1>1, PassedGrows DEF Written
<1>6. ASSUME NEW b \in last .. block PROVE JumpsTo(docs, region \o f, <<index, Len(region)>>, b)
  <2>1. b \in Nat /\ last =< b /\ b =< block
    OBVIOUS
  <2>2. \A c \in last .. b - 1 : OfBlock(docs, c) = {}
    BY <1>1, <2>1 DEF Empty
  <2>3. Passed(docs, last) = Passed(docs, b)
    BY <2>1, <2>2, PassedSame
  <2>4. b = block \/ OfBlock(docs, b) = {}
    BY <1>1, <2>1 DEF Empty
  <2>5. PICK m \in Nat : m = Len(region)
    BY ElementOfSeq
  <2>6. PICK jump : jump = <<index, m>>
    OBVIOUS
  <2>7. JumpToEnd(docs, region, jump, b)
    BY <1>5, <2>3, <2>5, <2>6 DEF JumpToEnd
  <2>8. JumpsTo(docs, region \o flush_block(block, Within(docs, block)), jump, b)
    BY <2>1, <2>4, <2>7, BlockLeads
  <2> QED
    BY <1>2, <1>4, <2>5, <2>6, <2>8
<1>7. PICK end \in Nat : end = block + 1
  OBVIOUS
<1>8. PICK added : added = add_jumps(jumps, Len(region), index, last, end)
  OBVIOUS
<1>9. added \o <<>> = added /\ JumpTable(docs, region \o f, added, end)
  <2>1. \A b \in last .. end - 1 : JumpsTo(docs, region \o f, <<index, Len(region)>>, b)
    BY <1>6, <1>7
  <2>2. last =< end
    BY <1>1, <1>7
  <2> QED
    BY <1>1, <1>8, <2>1, <2>2, JumpsAdded
<1>10. PICK t : t = WriteBlock(s, block, docs)
  OBVIOUS
<1>11. /\ t.jumps = added \o <<>> /\ t.last = end /\ t.out = region \o f
       /\ t.index = index + Cardinality(within)
  BY <1>1, <1>3, <1>4, <1>5, <1>7, <1>8, <1>10 DEF WriteBlock, Listed
<1>12. t.index = Cardinality(Passed(docs, end))
  <2>1. Passed(docs, last) = Passed(docs, block)
    BY <1>1, PassedSame DEF Empty
  <2>2. Cardinality(Passed(docs, block + 1)) = Cardinality(Passed(docs, block)) + Cardinality(OfBlock(docs, block))
    BY PassedGrows
  <2>3. Cardinality(within) = Cardinality(OfBlock(docs, block))
    BY <1>2, WithinCounts
  <2> QED
    BY <1>5, <1>7, <1>11, <2>1, <2>2, <2>3
<1>13. region \o f \in Seq(Cells)
  BY JoinedSeqs
<1> QED
  BY <1>7, <1>9, <1>10, <1>11, <1>12, <1>13 DEF Written

Turning(turn, docs, blocks, n) ==
    turn = [k \in 0 .. n |-> IF k = 0 THEN NoBlocks ELSE WriteBlock(turn[k - 1], blocks[k], docs)]

LEMMA TurnsExist ==
    ASSUME NEW docs, NEW blocks, NEW n \in Nat PROVE \E turn : Turning(turn, docs, blocks, n)
<1>1. PICK P : P = {m \in Nat : \E turn : Turning(turn, docs, blocks, m)}
  OBVIOUS
<1>2. 0 \in P
  <2>1. PICK turn : turn = [k \in 0 .. 0 |-> NoBlocks]
    OBVIOUS
  <2>2. \A k \in 0 .. 0 : k = 0
    OBVIOUS
  <2>3. Turning(turn, docs, blocks, 0)
    BY <2>1, <2>2 DEF Turning
  <2> QED
    BY <1>1, <2>3
<1>3. ASSUME NEW m \in P PROVE m + 1 \in P
  <2>1. m \in Nat /\ \E turn : Turning(turn, docs, blocks, m)
    BY <1>1
  <2>2. PICK turn : Turning(turn, docs, blocks, m)
    BY <2>1
  <2>3. PICK e \in Nat : e = m + 1
    BY <2>1
  <2>4. PICK more : more = [k \in 0 .. e |-> IF k = e THEN WriteBlock(turn[m], blocks[e], docs) ELSE turn[k]]
    OBVIOUS
  <2>5. ASSUME NEW k \in 0 .. e
        PROVE  more[k] = IF k = 0 THEN NoBlocks ELSE WriteBlock(more[k - 1], blocks[k], docs)
    <3>1. CASE k = e
      <4>1. k # 0 /\ k - 1 = m /\ m \in 0 .. e /\ m # e
        BY <2>1, <2>3, <3>1
      <4>2. more[m] = turn[m] /\ more[k] = WriteBlock(turn[m], blocks[e], docs)
        BY <2>4, <3>1, <4>1
      <4> QED
        BY <3>1, <4>1, <4>2
    <3>2. CASE k # e
      <4>1. k \in 0 .. m
        BY <2>1, <2>3, <3>2
      <4>2. turn[k] = IF k = 0 THEN NoBlocks ELSE WriteBlock(turn[k - 1], blocks[k], docs)
        BY <2>2, <4>1 DEF Turning
      <4>3. more[k] = turn[k]
        BY <2>4, <3>2
      <4>4. k # 0 => more[k - 1] = turn[k - 1]
        <5>1. k # 0 => k - 1 \in 0 .. e /\ k - 1 # e
          BY <2>1, <2>3, <4>1
        <5> QED
          BY <2>4, <5>1
      <4> QED
        BY <4>2, <4>3, <4>4
    <3> QED
      BY <3>1, <3>2
  <2>6. Turning(more, docs, blocks, e)
    BY <2>4, <2>5 DEF Turning
  <2> QED
    BY <1>1, <2>3, <2>6
<1>4. P = Nat
  <2>1. P \in SUBSET Nat
    BY <1>1
  <2> QED
    BY <1>2, <1>3, <2>1, NatSteps
<1> QED
  BY <1>1, <1>4

BlocksAre(docs, blocks, n) == blocks = Blocks(docs) /\ n = Len(blocks)

LEMMA TurnsOfBitSet ==
    ASSUME NEW docs, NEW n \in Nat, NEW blocks, BlocksAre(docs, blocks, n)
    PROVE  \E turn : Turning(turn, docs, blocks, n) /\ write_bit_set(docs) = EndBitSet(turn[n])
<1> DEFINE Def(turn) == turn = [k \in 0 .. n |-> IF k = 0 THEN NoBlocks ELSE WriteBlock(turn[k - 1], blocks[k], docs)]
<1> DEFINE T == CHOOSE turn : Def(turn)
<1>1. PICK turn : Turning(turn, docs, blocks, n)
  BY TurnsExist
<1>2. Def(turn)
  BY <1>1 DEF Turning
<1>3. Def(T)
  BY <1>2
<1>4. blocks = Blocks(docs) /\ n = Len(Blocks(docs))
  BY DEF BlocksAre
<1>5. write_bit_set(docs) = EndBitSet(T[n])
  BY <1>4 DEF write_bit_set
<1> HIDE DEF T
<1>6. Turning(T, docs, blocks, n)
  BY <1>3 DEF Turning
<1> QED
  BY <1>5, <1>6

Ordered(docs, blocks, n) ==
    /\ n \in Nat /\ \A k \in 1 .. n : blocks[k] \in Nat /\ OfBlock(docs, blocks[k]) # {}
    /\ \A j, k \in 1 .. n : j < k => blocks[j] < blocks[k]
    /\ \A b \in Nat : OfBlock(docs, b) # {} => \E k \in 1 .. n : blocks[k] = b

LEMMA BlocksOrdered ==
    ASSUME DisiAssumption, NEW docs \in SUBSET Nat, IsFiniteSet(docs)
    PROVE  \E n \in Nat : \E blocks : BlocksAre(docs, blocks, n) /\ Ordered(docs, blocks, n)
<1>1. BLOCK_SIZE \in Nat \ {0}
  BY DEF DisiAssumption
<1>2. PICK S : S = {d \div BLOCK_SIZE : d \in docs}
  OBVIOUS
<1>3. \A d \in docs : d \div BLOCK_SIZE \in Nat
  BY <1>1, InBlock
<1>4. S \in SUBSET Nat
  BY <1>2, <1>3
<1>5. IsFiniteSet(S)
  <2>1. PICK f : f = [d \in docs |-> d \div BLOCK_SIZE]
    OBVIOUS
  <2>2. f \in Surjection(docs, S)
    BY <1>2, <2>1 DEF Surjection
  <2> QED
    BY <2>2, FS_Surjection
<1> DEFINE blocks == InOrder(S)
<1>6. PICK n \in Nat :
         /\ n = Cardinality(S) /\ blocks \in Seq(S) /\ Len(blocks) = n
         /\ DOMAIN blocks = 1 .. n
         /\ \A x \in S : \E k \in 1 .. n : blocks[k] = x
         /\ \A j, k \in 1 .. n : j < k => blocks[j] < blocks[k]
  BY <1>4, <1>5, InOrderIsOrdered
<1>7. BlocksAre(docs, blocks, n)
  BY <1>2, <1>6 DEF BlocksAre, Blocks
<1>8. ASSUME NEW k \in 1 .. n PROVE blocks[k] \in Nat /\ OfBlock(docs, blocks[k]) # {}
  <2>1. blocks[k] \in S
    BY <1>6, ElementOfSeq
  <2>2. PICK d \in docs : blocks[k] = d \div BLOCK_SIZE
    BY <1>2, <2>1
  <2> QED
    BY <1>4, <2>1, <2>2 DEF OfBlock
<1>9. ASSUME NEW b \in Nat, OfBlock(docs, b) # {} PROVE \E k \in 1 .. n : blocks[k] = b
  <2>1. b \in S
    BY <1>2, <1>9 DEF OfBlock
  <2> QED
    BY <1>6, <2>1
<1>10. Ordered(docs, blocks, n)
  BY <1>6, <1>8, <1>9 DEF Ordered
<1> QED
  BY <1>7, <1>10

EndOfTurn(blocks, k) == IF k = 0 THEN 0 ELSE blocks[k] + 1

LEMMA TurnsWritten ==
    ASSUME DisiAssumption, NEW docs \in SUBSET Nat, IsFiniteSet(docs), NEW blocks, NEW n \in Nat,
           Ordered(docs, blocks, n), NEW turn, Turning(turn, docs, blocks, n)
    PROVE  Written(docs, turn[n]) /\ turn[n].last = EndOfTurn(blocks, n)
<1>1. PICK P : P = {k \in Nat : k =< n => Written(docs, turn[k]) /\ turn[k].last = EndOfTurn(blocks, k)}
  OBVIOUS
<1>2. 0 \in P
  <2>1. 0 \in 0 .. n
    OBVIOUS
  <2>2. turn[0] = NoBlocks
    BY <2>1 DEF Turning
  <2> QED
    BY <1>1, <2>2, NothingWritten DEF EndOfTurn, NoBlocks
<1>3. ASSUME NEW k \in P PROVE k + 1 \in P
  <2> SUFFICES ASSUME k + 1 =< n
               PROVE  Written(docs, turn[k + 1]) /\ turn[k + 1].last = EndOfTurn(blocks, k + 1)
    BY <1>1
  <2>1. k \in Nat /\ k =< n
    BY <1>1
  <2>2. PICK s, last : /\ s = turn[k] /\ last = s.last
                       /\ Written(docs, s) /\ last = EndOfTurn(blocks, k)
    BY <1>1, <2>1
  <2>3. PICK j \in 1 .. n : j = k + 1 /\ j - 1 = k /\ j # 0
    BY <2>1
  <2>4. PICK block \in Nat : block = blocks[j]
    BY DEF Ordered
  <2>5. turn[j] = WriteBlock(s, block, docs)
    <3>1. j \in 0 .. n
      BY <2>3
    <3>2. turn[j] = IF j = 0 THEN NoBlocks ELSE WriteBlock(turn[j - 1], blocks[j], docs)
      BY <3>1 DEF Turning
    <3> QED
      BY <2>2, <2>3, <2>4, <3>2
  <2>6. last \in Nat /\ last =< block
    <3>1. CASE k = 0
      BY <2>2, <3>1 DEF EndOfTurn
    <3>2. CASE k # 0
      <4>1. k \in 1 .. n /\ k < j
        BY <2>1, <2>3, <3>2
      <4>2. PICK before \in Nat : before = blocks[k] /\ before < block
        BY <2>4, <4>1 DEF Ordered
      <4>3. last = before + 1
        BY <2>2, <3>2, <4>2 DEF EndOfTurn
      <4> QED
        BY <4>2, <4>3
    <3> QED
      BY <3>1, <3>2
  <2>7. ASSUME NEW c \in last .. block - 1, OfBlock(docs, c) # {} PROVE FALSE
    <3>1. c \in Nat /\ last =< c /\ c < block
      BY <2>6
    <3>2. PICK i \in 1 .. n : blocks[i] = c
      BY <2>7, <3>1 DEF Ordered
    <3>3. CASE i >= j
      <4>1. i = j \/ j < i
        BY <3>3
      <4>2. j < i => block < c
        BY <2>4, <3>2 DEF Ordered
      <4> QED
        BY <2>4, <3>1, <3>2, <4>1, <4>2
    <3>4. CASE ~(i >= j)
      <4>1. k # 0 /\ k \in 1 .. n /\ (i = k \/ i < k)
        BY <2>1, <2>3, <3>4
      <4>2. PICK before \in Nat : before = blocks[k]
        BY <4>1 DEF Ordered
      <4>3. last = before + 1
        BY <2>2, <4>1, <4>2 DEF EndOfTurn
      <4>4. i < k => c < before
        BY <3>2, <4>1, <4>2 DEF Ordered
      <4>5. c =< before
        BY <3>1, <3>2, <4>1, <4>2, <4>4
      <4> QED
        BY <3>1, <4>2, <4>3, <4>5
    <3> QED
      BY <3>3, <3>4
  <2>8. Empty(docs, last, block)
    BY <2>7 DEF Empty
  <2>9. Written(docs, WriteBlock(s, block, docs)) /\ WriteBlock(s, block, docs).last = block + 1
    BY <2>2, <2>6, <2>8, BlockWritten
  <2>10. EndOfTurn(blocks, j) = block + 1
    BY <2>3, <2>4 DEF EndOfTurn
  <2> QED
    BY <2>3, <2>5, <2>9, <2>10
<1>4. P = Nat
  <2>1. P \in SUBSET Nat
    BY <1>1
  <2> QED
    BY <1>2, <1>3, <2>1, NatSteps
<1> QED
  BY <1>1, <1>4

LEMMA EndWritten ==
    ASSUME DisiAssumption, NEW docs \in SUBSET Nat, IsFiniteSet(docs), NEW s, Written(docs, s),
           s.last =< SENTINEL_BLOCK, OfBlock(docs, s.last) = {}
    PROVE  JumpTable(docs, EndBitSet(s).region, EndBitSet(s).jumps, s.last + 1)
<1> DEFINE jumps == s.jumps
<1>1. PICK region \in Seq(Cells), last \in Nat :
         region = s.out /\ last = s.last /\ JumpTable(docs, region, jumps, last)
  BY DEF Written
<1>2. PICK f \in Seq(Cells) : /\ f = flush_block(SENTINEL_BLOCK, {BLOCK_SIZE - 1})
                             /\ Len(f) > 1 /\ f[1] = SENTINEL_BLOCK
  <2>1. PICK within : within = {BLOCK_SIZE - 1}
    OBVIOUS
  <2>2. within \in SUBSET Nat /\ IsFiniteSet(within) /\ SENTINEL_BLOCK \in Nat
    <3>1. BLOCK_SIZE - 1 \in Nat /\ SENTINEL_BLOCK \in Nat
      BY DEF DisiAssumption
    <3> QED
      BY <2>1, <3>1, FS_Singleton
  <2> QED
    BY <2>1, <2>2, FlushedBlock
<1>3. PICK index \in Nat : index = s.index /\ index = Cardinality(Passed(docs, last))
  BY <1>1, PassedGrows DEF Written
<1>4. PICK m \in Nat, n \in Nat : m = Len(region) /\ n = Len(f) /\ n > 1
  BY <1>2, ElementOfSeq
<1>5. PICK grown \in Seq(Cells) : grown = region \o f /\ Len(grown) = m + n /\ \A i \in 1 .. n : grown[m + i] = f[i]
  <2>1. region \o f \in Seq(Cells) /\ Joined(region, f, region \o f)
    BY JoinedSeqs
  <2>2. PICK g : g = region \o f
    OBVIOUS
  <2>3. g \in Seq(Cells) /\ Joined(region, f, g)
    BY <2>1, <2>2
  <2> QED
    BY <1>4, <2>2, <2>3 DEF Joined
<1>6. JumpsTo(docs, grown, <<index, m>>, last)
  <2>1. PICK at \in Nat : at = m + 1 /\ at \in 1 .. m + n
    BY <1>4
  <2>2. grown[at] = SENTINEL_BLOCK
    <3>1. 1 \in 1 .. n
      BY <1>4
    <3> QED
      BY <1>2, <1>5, <2>1, <3>1
  <2>3. ~Dense(docs, last)
    <3>1. Cardinality(OfBlock(docs, last)) = 0
      BY <1>1, FS_EmptySet
    <3> QED
      BY <3>1 DEF Dense, DisiAssumption
  <2>4. PointsTo(docs, grown, at, last)
    BY <1>1, <1>5, <2>1, <2>2, <2>3 DEF PointsTo
  <2>5. PICK jump : jump = <<index, m>>
    OBVIOUS
  <2>6. jump \in Int \X Int /\ jump[1] = index /\ jump[2] = m
    BY <2>5
  <2> QED
    BY <1>3, <2>1, <2>4, <2>5, <2>6 DEF JumpsTo
<1>7. PICK end \in Nat : end = last + 1
  OBVIOUS
<1>8. PICK added : added = add_jumps(jumps, Len(region), index, last, end)
  OBVIOUS
<1>9. JumpTable(docs, grown, added, end)
  <2>1. last =< end /\ \A b \in last .. end - 1 : b = last
    BY <1>7
  <2>2. \A b \in last .. end - 1 : JumpsTo(docs, region \o f, <<index, Len(region)>>, b)
    BY <1>4, <1>5, <1>6, <2>1
  <2> QED
    BY <1>1, <1>5, <1>8, <2>1, <2>2, JumpsAdded
<1>10. PICK count \in Nat : count =< end /\ count = IF last + 1 = 2 THEN 0 ELSE last + 1
  BY <1>7
<1>11. PICK tail \in Seq(Cells) : tail = SubSeq(added, 1, count)
  <2>1. PICK J : J = Int \X Int
    OBVIOUS
  <2>2. added \in Seq(J) /\ Len(added) = end
    BY <1>9, <2>1 DEF JumpTable
  <2>3. ASSUME NEW i \in 1 .. count PROVE added[i] \in J
    <3>1. i \in 1 .. end
      BY <1>10
    <3> QED
      BY <2>2, <3>1, ElementOfSeq
  <2>4. SubSeq(added, 1, count) \in Seq(J)
    BY <1>10, <2>3, SubSeqProperties
  <2>5. J \subseteq Cells
    BY <2>1 DEF Cells
  <2> QED
    BY <2>4, <2>5, SeqGrows
<1>12. PICK w : w = EndBitSet(s)
  OBVIOUS
<1>13. w.region = grown \o tail /\ w.jumps = added
  BY <1>1, <1>2, <1>3, <1>5, <1>7, <1>8, <1>10, <1>11, <1>12 DEF EndBitSet
<1>14. ASSUME NEW b \in 0 .. end - 1 PROVE JumpsTo(docs, grown \o tail, added[b + 1], b)
  <2>1. JumpsTo(docs, grown, added[b + 1], b)
    BY <1>9 DEF JumpTable
  <2> QED
    BY <2>1, LeadsOn
<1>15. JumpTable(docs, grown \o tail, added, end)
  BY <1>9, <1>14 DEF JumpTable
<1> QED
  BY <1>1, <1>7, <1>12, <1>13, <1>15

LEMMA JumpsOfSet ==
    ASSUME DisiAssumption, NEW docs \in SUBSET Nat, IsFiniteSet(docs), NEW top \in docs,
           \A d \in docs : d =< top, NEW q \in Nat, OfBlock(docs, q) # {}, top < (q + 1) * BLOCK_SIZE,
           q < SENTINEL_BLOCK
    PROVE  JumpTable(docs, write_bit_set(docs).region, write_bit_set(docs).jumps, q + 2)
<1>1. BLOCK_SIZE \in Nat \ {0}
  BY DEF DisiAssumption
<1> PICK n \in Nat : \E blocks : BlocksAre(docs, blocks, n) /\ Ordered(docs, blocks, n)
  BY BlocksOrdered
<1>2. PICK blocks : BlocksAre(docs, blocks, n) /\ Ordered(docs, blocks, n)
  OBVIOUS
<1>3. PICK turn : Turning(turn, docs, blocks, n) /\ write_bit_set(docs) = EndBitSet(turn[n])
  BY <1>2, TurnsOfBitSet
<1>4. PICK s : s = turn[n] /\ Written(docs, s) /\ s.last = EndOfTurn(blocks, n)
  BY <1>2, <1>3, TurnsWritten
<1>5. PICK e \in Nat : e = q + 1
  OBVIOUS
<1>6. ASSUME NEW b \in Nat, OfBlock(docs, b) # {} PROVE b < e
  <2>1. PICK d \in docs : d \div BLOCK_SIZE = b
    BY <1>6 DEF OfBlock
  <2>2. d < e * BLOCK_SIZE
    <3>1. PICK bound \in Nat : bound = e * BLOCK_SIZE
      BY <1>1
    <3>2. d \in Nat /\ top \in Nat /\ d =< top /\ top < bound
      BY <1>5, <3>1
    <3> QED
      BY <3>1, <3>2
  <2>3. d < e * BLOCK_SIZE <=> d \div BLOCK_SIZE < e
    BY <1>1, InBlock
  <2> QED
    BY <2>1, <2>2, <2>3
<1>7. PICK k \in 1 .. n : blocks[k] = q
  BY <1>2 DEF Ordered
<1>8. blocks[n] = q
  <2>1. n \in 1 .. n /\ (k = n \/ k < n)
    BY <1>7
  <2>2. PICK last \in Nat : last = blocks[n] /\ OfBlock(docs, last) # {}
    BY <1>2, <2>1 DEF Ordered
  <2>3. k < n => q < last
    BY <1>2, <1>7, <2>1, <2>2 DEF Ordered
  <2>4. last < e
    BY <1>6, <2>2
  <2> QED
    BY <1>5, <1>7, <2>1, <2>2, <2>3, <2>4
<1>9. s.last = e
  <2>1. n # 0
    BY <1>7
  <2> QED
    BY <1>4, <1>5, <1>8, <2>1 DEF EndOfTurn
<1>10. OfBlock(docs, e) = {}
  BY <1>6
<1>11. e =< SENTINEL_BLOCK
  BY <1>5 DEF DisiAssumption
<1>12. JumpTable(docs, EndBitSet(s).region, EndBitSet(s).jumps, s.last + 1)
  BY <1>4, <1>9, <1>10, <1>11, EndWritten
<1>13. s.last + 1 = q + 2
  BY <1>5, <1>9
<1> QED
  BY <1>3, <1>4, <1>12, <1>13

LEMMA JumpsOfTable ==
    ASSUME NEW docs, NEW w, NEW n, JumpTable(docs, w.region, w.jumps, n), NEW b \in 0 .. n - 1
    PROVE  JumpLeads(docs, w, b)
<1>1. PICK jump, at : jump = w.jumps[b + 1] /\ at = jump[2] + 1 /\ JumpsTo(docs, w.region, jump, b)
  BY DEF JumpTable
<1>2. /\ jump[1] = Cardinality({d \in docs : d < b * BLOCK_SIZE})
      /\ PointsTo(docs, w.region, at, b)
  BY <1>1 DEF JumpsTo, Passed
<1>3. PICK within : within = OfBlock(docs, b) /\ within = {d \in docs : d \div BLOCK_SIZE = b}
  BY DEF OfBlock
<1>4. w.region[at] >= b /\ (within # {} => w.region[at] = b)
  BY <1>2, <1>3 DEF PointsTo
<1>5. ASSUME Cardinality(within) > MAX_ARRAY_LENGTH, Cardinality(within) < BLOCK_SIZE,
             NEW r \in 0 .. CeilDiv(BLOCK_WORDS, RANK_WORDS) - 1
      PROVE  w.region[at + 2 + r] = Cardinality({d \in within : d % BLOCK_SIZE < r * RANK_WORDS * WORD})
  <2>1. Ranked(docs, w.region, at, b)
    BY <1>2, <1>3, <1>5 DEF PointsTo, Dense
  <2>2. r \in 0 .. Ranking - 1
    BY DEF Ranking
  <2>3. w.region[at + 2 + r] = Cardinality(DocsBelow(docs, b, Mark(r)))
    BY <2>1, <2>2 DEF Ranked
  <2> QED
    BY <1>3, <2>3 DEF DocsBelow, Mark
<1> QED
  BY <1>1, <1>2, <1>3, <1>4, <1>5 DEF JumpLeads

(* The table of jumps and the ranks lead where they should, for any documents
   of any field and any size of blocks, words and ranks: every turn of
   write_bit_set fills the jumps in from the last block done up to its own, and
   none of the blocks between has a document (add_jumps, flush_block,
   create_rank).  No document is in the block of NO_MORE_DOCS. *)
THEOREM JumpsAlwaysLead ==
    ASSUME DisiAssumption, SegmentsAssumption PROVE Spec => []JumpsLead
<1>1. Init => fields \in Segments
  BY DEF Init
<1>2. fields \in Segments /\ [Next]_vars => (fields \in Segments)'
  BY DEF Next, AddField, Finish, PlanEntry, DecodeColumn, vars
<1>3. fields \in Segments => JumpsLead
  <2> SUFFICES ASSUME fields \in Segments, NEW i \in DOMAIN fields, fields[i].docs # {},
                      NEW b \in 0 .. (Max(fields[i].docs) \div BLOCK_SIZE) + 1
               PROVE  JumpLeads(fields[i].docs, write_bit_set(fields[i].docs), b)
    BY DEF JumpsLead
  <2>1. PICK size \in Nat \ {0} : size = BLOCK_SIZE
    BY DEF DisiAssumption
  <2>2. PICK m \in Nat : m = MaxDoc - 1 /\ m < SENTINEL_BLOCK * size
    <3>1. MaxDoc \in Nat /\ MaxDoc =< SENTINEL_BLOCK * size /\ fields[i].docs \subseteq 0 .. MaxDoc - 1
      BY <2>1 DEF SegmentsAssumption
    <3>2. SENTINEL_BLOCK * size \in Nat
      BY <2>1 DEF DisiAssumption
    <3>3. MaxDoc # 0
      BY <3>1
    <3> QED
      BY <3>1, <3>2, <3>3
  <2>3. PICK docs \in SUBSET (0 .. m) : docs = fields[i].docs /\ docs # {}
    BY <2>2 DEF SegmentsAssumption
  <2>4. docs \in SUBSET Nat /\ IsFiniteSet(docs)
    <3>1. PICK interval : interval = 0 .. m /\ IsFiniteSet(interval)
      BY FS_Interval
    <3>2. docs \in SUBSET interval
      BY <3>1
    <3>3. IsFiniteSet(docs)
      BY <3>1, <3>2, FS_Subset
    <3>4. \A d \in docs : d \in Nat
      OBVIOUS
    <3> QED
      BY <3>3, <3>4
  <2>5. PICK top \in docs : top = Max(docs) /\ \A d \in docs : d =< top
    BY <2>2, <2>3, MaxIsGreatest
  <2>6. PICK q \in Nat : /\ q = top \div size
                         /\ \A c \in Nat : top < c * size <=> q < c
    BY <2>1, <2>4, InBlock
  <2>7. OfBlock(docs, q) # {}
    BY <2>1, <2>5, <2>6 DEF OfBlock
  <2>8. q < SENTINEL_BLOCK /\ top < (q + 1) * size
    <3>1. PICK c \in Nat : c = q + 1
      OBVIOUS
    <3>2. top < c * size
      BY <2>6, <3>1
    <3>3. PICK bound \in Nat : bound = SENTINEL_BLOCK * size
      BY <2>1 DEF DisiAssumption
    <3>4. top < SENTINEL_BLOCK * size
      BY <2>2, <2>3, <3>3
    <3>5. SENTINEL_BLOCK \in Nat
      BY DEF DisiAssumption
    <3> QED
      BY <2>6, <3>1, <3>2, <3>4, <3>5
  <2>9. JumpTable(docs, write_bit_set(docs).region, write_bit_set(docs).jumps, q + 2)
    BY <2>1, <2>4, <2>5, <2>7, <2>8, JumpsOfSet
  <2>10. PICK n : n = q + 2
    OBVIOUS
  <2>11. b \in 0 .. n - 1
    BY <2>1, <2>3, <2>5, <2>6, <2>10
  <2>12. PICK w : w = write_bit_set(docs)
    OBVIOUS
  <2>13. JumpTable(docs, w.region, w.jumps, n)
    BY <2>9, <2>10, <2>12
  <2>14. JumpLeads(docs, w, b)
    BY <2>11, <2>13, JumpsOfTable
  <2> QED
    BY <2>3, <2>12, <2>14
<1> QED
  BY <1>1, <1>2, <1>3, PTL DEF Spec

-----------------------------------------------------------------------------
(* The numbers of a field.  Widths.                                        *)

LEMMA Widths ==
    ASSUME CodecAssumption
    PROVE  /\ WidthAssumption /\ W \in Nat /\ W > 2
           /\ CodecWidths \subseteq 1 .. W /\ W \in CodecWidths /\ CodecDocs \in Nat
  BY DEF CodecAssumption, WidthAssumption

(* unsigned_bits_required returns a width of the format in which the number,
   taken as unsigned, fits. *)
LEMMA BitsAreEnough ==
    ASSUME CodecAssumption, NEW m \in Int
    PROVE  /\ unsigned_bits_required(m) \in CodecWidths
           /\ Unsigned(m) < Pow2[unsigned_bits_required(m)]
<1>1. W \in Nat /\ W > 2 /\ CodecWidths \subseteq 1 .. W /\ W \in CodecWidths
  BY Widths
<1>2. PICK u \in Nat : u = Unsigned(m) /\ u < Pow2[W]
  <2>1. Modulus \in Nat
    BY Widths, Ranges DEF Positive
  <2> QED
    BY <2>1, Widths, WrapFacts DEF Modulus
<1> DEFINE Fits(k) == Unsigned(m) < Pow2[k] /\ (k = 1 \/ Pow2[k - 1] =< Unsigned(m))
           raw == CHOOSE k \in 1 .. W : Fits(k)
           Enough(w) == w >= raw /\ \A x \in CodecWidths : x >= raw => w =< x
<1>3. \E k \in 1 .. W : Fits(k)
  <2> DEFINE T == {k \in Nat : k >= 1 /\ u < Pow2[k]}
  <2>1. PICK k \in T : \A l \in T : k =< l
    <3>1. T \in SUBSET Nat /\ W \in T
      BY <1>1, <1>2
    <3> QED
      BY <3>1, NatLeast
  <2>2. k \in 1 .. W
    BY <1>1, <1>2, <2>1
  <2>3. ASSUME k # 1 PROVE Pow2[k - 1] =< u
    <3>1. k - 1 \in Nat /\ k - 1 >= 1 /\ ~ (k =< k - 1) /\ Pow2[k - 1] \in Nat
      BY <2>2, <2>3, PowerAt DEF Positive
    <3> QED
      BY <2>1, <3>1
  <2> QED
    BY <1>2, <2>1, <2>2, <2>3
<1>4. raw \in 1 .. W /\ Fits(raw)
  <2> HIDE DEF Fits
  <2> QED
    BY <1>3
<1> HIDE DEF raw
<1>5. \E w \in CodecWidths : Enough(w)
  <2>0. PICK r \in 1 .. W : r = raw
    BY <1>4
  <2> DEFINE T == {x \in CodecWidths : x >= r}
  <2>1. T \in SUBSET Nat /\ W \in T
    <3>1. r \in Int /\ W >= r
      BY <1>1, <2>0
    <3>2. CodecWidths \subseteq Nat /\ W \in CodecWidths
      BY <1>1
    <3>3. T \subseteq Nat /\ W \in T
      BY <3>1, <3>2
    <3> QED
      BY <3>3
  <2>2. PICK w \in T : \A x \in T : w =< x
    <3> HIDE DEF T
    <3> QED
      BY <2>1, NatLeast
  <2> QED
    BY <2>0, <2>2
<1>6. unsigned_bits_required(m) = CHOOSE w \in CodecWidths : Enough(w)
  BY DEF unsigned_bits_required, raw
<1>7. PICK w \in CodecWidths : w = unsigned_bits_required(m) /\ Enough(w)
  <2> HIDE DEF Enough
  <2> QED
    BY <1>5, <1>6
<1>8. Pow2[raw] =< Pow2[w]
  BY <1>1, <1>4, <1>7, PowersGrow
<1>9. Pow2[raw] \in Nat /\ Pow2[w] \in Nat /\ u < Pow2[raw]
  BY <1>1, <1>2, <1>4, <1>7, PowerAt DEF Positive
<1> QED
  BY <1>2, <1>7, <1>8, <1>9

-----------------------------------------------------------------------------
(* Division.                                                               *)

LEMMA DivisionByOne ==
    ASSUME WidthAssumption, NEW x \in Int64 PROVE WrappingDiv(x, 1) = x
<1>1. x \in Int
  BY Ranges DEF Positive
<1>2. Abs(1) = 1 /\ Abs(x) \div 1 = Abs(x)
  BY <1>1 DEF Abs
<1>3. WrappingDiv(x, 1) = Wrap(x)
  <2>1. CASE x < 0
    BY <1>1, <1>2, <2>1 DEF WrappingDiv, Abs
  <2>2. CASE ~ (x < 0)
    BY <1>1, <1>2, <2>2 DEF WrappingDiv, Abs
  <2> QED
    BY <2>1, <2>2
<1> QED
  BY <1>1, <1>3, WrapFacts

\* Dividing a multiple that is not negative.
LEMMA DivisionIsExact ==
    ASSUME WidthAssumption, NEW g \in Positive, NEW k \in Nat, g * k \in 0 .. High
    PROVE  WrappingDiv(g * k, g) = k /\ k \in 0 .. High
<1>1. g \in Nat /\ g # 0 /\ High \in Nat /\ 0 .. High \subseteq Int64
  BY Ranges DEF Positive
<1>2. k =< g * k
  <2>1. PICK c \in Nat : g = c + 1
    BY <1>1
  <2>2. g * k = c * k + k /\ c * k >= 0
    BY <2>1
  <2> QED
    BY <2>2
<1>3. (g * k + 0) \div g = k
  BY <1>1, ModUnique
<1>4. PICK x \in 0 .. High : x = g * k
  OBVIOUS
<1>5. x \div g = k
  BY <1>1, <1>3, <1>4
<1>6. Abs(x) = x /\ Abs(g) = g /\ ~ (x < 0) /\ ~ (g < 0)
  BY <1>1 DEF Abs
<1>7. WrappingDiv(x, g) = Wrap(k)
  BY <1>5, <1>6 DEF WrappingDiv
<1>8. k \in 0 .. High
  BY <1>1, <1>2, <1>4
<1> QED
  BY <1>1, <1>4, <1>7, <1>8, WrapFacts

-----------------------------------------------------------------------------
(* One value in each layout.  A layout is an entry's bpv, table, min and   *)
(* gcd; of a stored value the reader has the number u of its bits.         *)

\* What the reader makes of the bits u.
MadeOf(e, u) == IF e.table # <<>> THEN e.table[u + 1] ELSE Wrap(e.min + e.gcd * u)

\* The value v fits the layout, reads back, and narrow deltas do not wrap.
Keeps(e, v) ==
    \E u \in Nat : /\ Packed(e, v) \in Int64 /\ Unsigned(Packed(e, v)) = u
                   /\ u < Pow2[e.bpv] /\ MadeOf(e, u) = v
                   /\ e.table = <<>> /\ ~ (e.bpv = W /\ e.gcd = 1) => v - e.min \in Int64

LEMMA Int64AreInts == ASSUME WidthAssumption PROVE Int64 \subseteq Int /\ 0 \in Int64
<1>1. PICK q \in Positive : Int64 = -(2 * q) .. 2 * q - 1
  BY Ranges
<1> QED
  BY <1>1 DEF Positive

LEMMA Int64Counts ==
    ASSUME WidthAssumption, NEW S \in SUBSET Int64
    PROVE  IsFiniteSet(S) /\ Cardinality(S) \in Nat /\ Cardinality(S) =< Modulus
<1>1. PICK q \in Positive : Modulus = 4 * q /\ Int64 = -(2 * q) .. 2 * q - 1
  BY Ranges
<1>2. IsFiniteSet(Int64) /\ Cardinality(Int64) = Modulus
  BY <1>1, FS_Interval DEF Positive
<1> QED
  BY <1>2, FS_Subset, FS_CardinalityType

\* The last width but one is where the numbers turn negative.
LEMMA NarrowWidths ==
    ASSUME CodecAssumption, NEW w \in CodecWidths, w # W, NEW u \in Nat, u < Pow2[w]
    PROVE  u \in 0 .. High
<1>1. W - 1 \in Nat /\ w \in Nat /\ w =< W - 1
  BY Widths
<1>2. Pow2[w] =< Pow2[W - 1] /\ Pow2[w] \in Nat /\ Pow2[W - 1] \in Nat
  BY <1>1, PowersGrow, PowerAt DEF Positive
<1> QED
  BY <1>2 DEF High

LEMMA TableKeeps ==
    ASSUME CodecAssumption, NEW S \in SUBSET Int64, NEW v \in S, NEW e,
           Cardinality(S) > 1, e.table = InOrder(S),
           e.bpv = unsigned_bits_required(Cardinality(S) - 1), e.bpv # W
    PROVE  Keeps(e, v) /\ e.table # <<>>
<1>1. WidthAssumption /\ IsFiniteSet(S) /\ S \in SUBSET Int
  BY Widths, Int64Counts, Ranges DEF Positive
<1>2. PICK n \in Nat : n = Cardinality(S) /\ n > 1 /\ n =< Modulus
  BY <1>1, Int64Counts
<1>3. PICK t \in Seq(S) : /\ t = InOrder(S) /\ Len(t) = n /\ DOMAIN t = 1 .. n
                          /\ \E k \in 1 .. n : t[k] = v
                          /\ \A j, k \in 1 .. n : j < k => t[j] < t[k]
                          /\ \A j \in 1 .. n : t[j] \in S
  <2>1. /\ InOrder(S) \in Seq(S) /\ Len(InOrder(S)) = n /\ DOMAIN InOrder(S) = 1 .. n
        /\ \E k \in 1 .. n : InOrder(S)[k] = v
        /\ \A j, k \in 1 .. n : j < k => InOrder(S)[j] < InOrder(S)[k]
    BY <1>1, <1>2, IntsInOrder
  <2>2. \A j \in 1 .. n : InOrder(S)[j] \in S
    BY <2>1, ElementOfSeq
  <2> QED
    BY <2>1, <2>2
<1>4. PICK k \in 1 .. n : t[k] = v /\ k = CHOOSE i \in DOMAIN t : t[i] = v
  BY <1>3
<1>5. e.bpv \in CodecWidths /\ Unsigned(n - 1) < Pow2[e.bpv] /\ Pow2[e.bpv] \in Nat
  <2>1. e.bpv \in CodecWidths /\ Unsigned(n - 1) < Pow2[e.bpv]
    BY <1>2, BitsAreEnough
  <2>2. PICK w \in CodecWidths : w = e.bpv
    BY <2>1
  <2>3. w \in Nat
    BY Widths
  <2> QED
    BY <2>1, <2>2, <2>3, PowerAt DEF Positive
<1>6. PICK M \in Positive : M = Modulus
  BY <1>1, Ranges
<1>7. \A x \in 0 .. n - 1 : Unsigned(x) = x
  BY <1>1, <1>2, <1>6, WrapFacts DEF Positive
<1>8. k - 1 \in Nat /\ k - 1 < Pow2[e.bpv] /\ Unsigned(k - 1) = k - 1
  <2>1. Unsigned(n - 1) = n - 1 /\ Unsigned(k - 1) = k - 1
    BY <1>2, <1>7
  <2> QED
    BY <1>2, <1>5, <2>1
<1>9. k - 1 \in Int64
  <2>1. k - 1 \in 0 .. High
    BY <1>5, <1>8, NarrowWidths
  <2> QED
    BY <1>1, <2>1, Ranges DEF Positive
<1>10. e.table = t /\ t # <<>>
  BY <1>2, <1>3
<1>11. Packed(e, v) = k - 1
  BY <1>4, <1>10 DEF Packed
<1>12. MadeOf(e, k - 1) = v
  BY <1>4, <1>8, <1>10 DEF MadeOf
<1> QED
  BY <1>8, <1>9, <1>10, <1>11, <1>12 DEF Keeps
\* Deltas to the minimum, or with lo = 0 the values themselves.
HasDeltas(e, lo, hi) ==
    /\ e.table = <<>> /\ e.gcd = 1 /\ e.min = lo
    /\ e.bpv = unsigned_bits_required(Wrap(hi - lo))

LEMMA DeltaKeeps ==
    ASSUME CodecAssumption, NEW lo \in Int64, NEW hi \in Int64, NEW v \in lo .. hi,
           NEW e, HasDeltas(e, lo, hi)
    PROVE  Keeps(e, v)
<1>0. /\ e.table = <<>> /\ e.gcd = 1 /\ e.min = lo
      /\ e.bpv = unsigned_bits_required(Wrap(hi - lo))
  BY DEF HasDeltas
<1>1. WidthAssumption
  BY Widths
<1>2. PICK q \in Positive : /\ Modulus = 4 * q /\ Int64 = -(2 * q) .. 2 * q - 1
                            /\ High = 2 * q - 1
  BY <1>1, Ranges
<1>3. PICK x \in Nat, y \in Nat : x = v - lo /\ y = hi - lo /\ x =< y /\ y < Modulus
  BY <1>2 DEF Positive
<1>4. /\ Wrap(x) \in Int64 /\ Unsigned(Wrap(x)) = x /\ Wrap(y) \in Int64 /\ Unsigned(Wrap(y)) = y
  <2>1. x \in 0 .. Modulus - 1 /\ y \in 0 .. Modulus - 1 /\ x \in Int /\ y \in Int
    BY <1>2, <1>3 DEF Positive
  <2> QED
    BY <1>1, <2>1, WrapFacts
<1>5. PICK w \in CodecWidths : w = e.bpv /\ y < Pow2[w] /\ w \in Nat /\ Pow2[w] \in Nat
  <2>1. Wrap(y) \in Int /\ e.bpv = unsigned_bits_required(Wrap(y))
    BY <1>0, <1>2, <1>3, <1>4
  <2>2. e.bpv \in CodecWidths /\ y < Pow2[e.bpv]
    BY <1>4, <2>1, BitsAreEnough
  <2>3. PICK w \in CodecWidths : w = e.bpv
    BY <2>2
  <2>4. w \in Nat
    BY Widths
  <2> QED
    BY <2>2, <2>3, <2>4, PowerAt DEF Positive
<1>6. Packed(e, v) = Wrap(x)
  <2>1. Packed(e, v) = WrappingDiv(Wrap(x), 1)
    BY <1>0, <1>3 DEF Packed
  <2> QED
    BY <1>1, <1>4, <2>1, DivisionByOne
<1>7. MadeOf(e, x) = v
  <2>1. v \in Int64 /\ e.min + e.gcd * x = v
    BY <1>0, <1>2, <1>3 DEF Positive
  <2>2. Wrap(v) = v
    BY <1>1, <1>2, <2>1, WrapFacts
  <2> QED
    BY <1>0, <2>1, <2>2 DEF MadeOf
<1>8. ASSUME ~ (e.bpv = W /\ e.gcd = 1) PROVE v - e.min \in Int64
  <2>1. w # W /\ x < Pow2[w]
    BY <1>0, <1>3, <1>5, <1>8
  <2>2. x \in 0 .. High
    BY <1>5, <2>1, NarrowWidths
  <2> QED
    BY <1>0, <1>2, <1>3, <2>2 DEF Positive
<1>9. x < Pow2[e.bpv]
  BY <1>3, <1>5
<1> QED
  BY <1>0, <1>4, <1>6, <1>7, <1>8, <1>9 DEF Keeps

\* Deltas that are multiples of g.
HasQuotients(e, lo, hi, g) ==
    /\ e.table = <<>> /\ e.gcd = g /\ e.min = lo
    /\ e.bpv = unsigned_bits_required(WrappingDiv(Wrap(hi - lo), g))

LEMMA QuotientKeeps ==
    ASSUME CodecAssumption, NEW lo \in Int64, NEW hi \in Int64, NEW v \in lo .. hi,
           hi - lo \in 0 .. High, NEW g \in Positive, NEW k \in Nat, NEW l \in Nat,
           v - lo = g * k, hi - lo = g * l, NEW e, HasQuotients(e, lo, hi, g)
    PROVE  Keeps(e, v)
<1>0. /\ e.table = <<>> /\ e.gcd = g /\ e.min = lo
      /\ e.bpv = unsigned_bits_required(WrappingDiv(Wrap(hi - lo), g))
  BY DEF HasQuotients
<1>1. WidthAssumption
  BY Widths
<1>2. PICK q \in Positive : /\ Modulus = 4 * q /\ Int64 = -(2 * q) .. 2 * q - 1
                            /\ High = 2 * q - 1
  BY <1>1, Ranges
<1>3. PICK x \in Nat, y \in Nat : x = v - lo /\ y = hi - lo /\ x =< y /\ x \in 0 .. High
                                  /\ y \in 0 .. High /\ x = g * k /\ y = g * l
  <2>1. PICK a \in Nat, b \in Nat : a = v - lo /\ b = hi - lo /\ a =< b /\ b \in 0 .. High
    BY <1>2 DEF Positive
  <2>2. a \in 0 .. High
    BY <1>2, <2>1 DEF Positive
  <2> QED
    BY <2>1, <2>2
<1>4. WrappingDiv(x, g) = k /\ WrappingDiv(y, g) = l /\ k \in 0 .. High /\ l \in 0 .. High
  BY <1>1, <1>3, DivisionIsExact
<1>5. Wrap(x) = x /\ Wrap(y) = y /\ Unsigned(k) = k /\ Unsigned(l) = l
  <2>1. x \in Int64 /\ y \in Int64 /\ k \in 0 .. Modulus - 1 /\ l \in 0 .. Modulus - 1
    BY <1>2, <1>3, <1>4 DEF Positive
  <2> QED
    BY <1>1, <2>1, WrapFacts
<1>6. k =< l
  <2>1. ASSUME l < k PROVE FALSE
    <3>1. PICK d \in Positive : k = l + d
      <4>1. k - l \in Positive /\ k = l + (k - l)
        BY <2>1 DEF Positive
      <4> QED
        BY <4>1
    <3>2. g * k = g * l + g * d
      BY <3>1 DEF Positive
    <3>3. g * d > 0 /\ g * l \in Nat /\ g * d \in Nat
      BY DEF Positive
    <3> QED
      BY <1>3, <3>2, <3>3
  <2> QED
    BY <2>1
<1>7. PICK w \in CodecWidths : w = e.bpv /\ l < Pow2[w] /\ w \in Nat /\ Pow2[w] \in Nat
  <2>1. e.bpv = unsigned_bits_required(l)
    BY <1>0, <1>3, <1>4, <1>5
  <2>2. e.bpv \in CodecWidths /\ l < Pow2[e.bpv]
    BY <1>5, <2>1, BitsAreEnough
  <2>3. PICK w \in CodecWidths : w = e.bpv
    BY <2>2
  <2>4. w \in Nat
    BY Widths
  <2> QED
    BY <2>2, <2>3, <2>4, PowerAt DEF Positive
<1>8. Packed(e, v) = k
  BY <1>0, <1>3, <1>4, <1>5 DEF Packed
<1>9. MadeOf(e, k) = v
  <2>1. v \in Int64 /\ e.min + e.gcd * k = v
    BY <1>0, <1>2, <1>3 DEF Positive
  <2>2. Wrap(v) = v
    BY <1>1, <1>2, <2>1, WrapFacts
  <2> QED
    BY <1>0, <2>1, <2>2 DEF MadeOf
<1>10. v - e.min \in Int64 /\ k \in Int64 /\ k < Pow2[e.bpv]
  BY <1>0, <1>2, <1>3, <1>4, <1>6, <1>7 DEF Positive
<1> QED
  BY <1>0, <1>5, <1>8, <1>9, <1>10 DEF Keeps
-----------------------------------------------------------------------------
(* The layout the writer picks from exact statistics.                      *)

LayoutOf(e, l) == e.bpv = l.bpv /\ e.table = l.table /\ e.min = l.min /\ e.gcd = l.gcd

\* A common divisor of the differences to one value divides all of them.
LEMMA DividesDeltas ==
    ASSUME WidthAssumption, NEW first \in HalfRange, NEW v \in HalfRange, NEW lo \in HalfRange,
           lo =< v, lo =< first, NEW g \in Positive,
           Divides(g, Abs(v - first)), Divides(g, Abs(lo - first))
    PROVE  v - lo \in 0 .. High /\ \E k \in Nat : v - lo = g * k
<1>1. PICK q \in Positive : HalfRange = -q .. q - 1 /\ High = 2 * q - 1
  BY Ranges
<1>2. PICK a \in Nat, x \in Nat : a = first - lo /\ x = v - lo /\ x \in 0 .. High
  BY <1>1 DEF Positive
<1>3. Abs(lo - first) = a
  BY <1>1, <1>2 DEF Abs, Positive
<1>4. Divides(g, x)
  <2>1. CASE first =< v
    <3>1. PICK b \in Nat : b = v - first /\ x = a + b /\ Abs(v - first) = b
      <4>1. v - first \in Nat /\ x = a + (v - first) /\ Abs(v - first) = v - first
        BY <1>1, <1>2, <2>1 DEF Abs, Positive
      <4> QED
        BY <4>1
    <3>2. Divides(g, a) /\ Divides(g, b)
      BY <1>3, <3>1
    <3> QED
      BY <3>1, <3>2, DividesSums
  <2>2. CASE ~ (first =< v)
    <3>1. PICK b \in Nat : b = first - v /\ b + x = a /\ Abs(v - first) = b
      <4>1. first - v \in Nat /\ (first - v) + x = a /\ Abs(v - first) = first - v
        BY <1>1, <1>2, <2>2 DEF Abs, Positive
      <4> QED
        BY <4>1
    <3>2. Divides(g, b + x) /\ Divides(g, b)
      BY <1>3, <3>1
    <3> QED
      BY <3>1, <3>2, DividesSums
  <2> QED
    BY <2>1, <2>2
<1>5. PICK k \in Nat : x = g * k
  BY <1>2, <1>4, Quotient
<1> QED
  BY <1>2, <1>5

\* What the statistics say where the values differ.
LEMMA DifferentValues ==
    ASSUME WidthAssumption, NEW first \in Int64, NEW S \in SUBSET Int64, first \in S,
           NEW s, Summarises(s, first, S)
    PROVE  /\ s.min \in S /\ s.max \in S /\ \A v \in S : v \in s.min .. s.max
           /\ s.gcd \in 0 .. High /\ TableIs(s.unique, S)
           /\ s.min < s.max => s.gcd \in Positive
           /\ s.gcd # 1 => /\ S \subseteq HalfRange
                           /\ CommonOf(s.gcd, Differences(S, first))
<1>1. S \cup {first} = S
  OBVIOUS
<1>2. /\ s.min \in S /\ \A v \in S : s.min =< v
      /\ s.max \in S /\ \A v \in S : v =< s.max
      /\ GcdIs(s.gcd, first, S) /\ TableIs(s.unique, S)
  BY <1>1 DEF Summarises, LeastIs, GreatestIs
<1>3. PICK q \in Positive : Int64 = -(2 * q) .. 2 * q - 1 /\ High = 2 * q - 1
  BY Ranges
<1>4. s.gcd \in 0 .. High
  BY <1>2 DEF GcdIs
<1>5. s.gcd # 1 => S \subseteq HalfRange /\ CommonOf(s.gcd, Differences(S, first))
  BY <1>2 DEF GcdIs
<1>6. ASSUME s.min < s.max, s.gcd = 0 PROVE FALSE
  <2>1. CommonOf(0, Differences(S, first))
    BY <1>5, <1>6
  <2>2. PICK w \in S : w # first
    <3>1. s.min # s.max
      <4>1. PICK a \in Int64, b \in Int64 : a = s.min /\ b = s.max
        BY <1>2
      <4>2. a \in Int /\ b \in Int
        BY Int64AreInts
      <4> QED
        BY <4>1, <4>2, <1>6
    <3> QED
      BY <1>2, <3>1
  <2>3. PICK d \in Positive : d = Abs(w - first)
    <3>1. Abs(w - first) \in Positive
      BY <1>3, <2>2 DEF Abs, Positive
    <3> QED
      BY <3>1
  <2>4. d + 1 \in Positive /\ ~ (d + 1 =< d)
    BY DEF Positive
  <2>5. Divides(d + 1, d)
    <3>1. Divides(d + 1, 0) /\ d \in Differences(S, first)
      BY <2>3, <2>4, DividesSimple DEF Differences
    <3> QED
      BY <2>1, <2>4, <3>1 DEF CommonOf
  <2> QED
    BY <2>4, <2>5, DividesSimple
<1>7. \A v \in S : v \in s.min .. s.max
  BY <1>2, <1>3
<1>8. s.min < s.max => s.gcd \in Positive
  BY <1>3, <1>4, <1>6 DEF Positive
<1> QED
  BY <1>2, <1>4, <1>5, <1>7, <1>8
LEMMA DivisionIsWhole ==
    ASSUME WidthAssumption, NEW x \in Int64, NEW g \in Positive PROVE WrappingDiv(x, g) \in Int
<1>1. x \in Int /\ Abs(x) \in Int /\ Abs(g) \in Positive
  <2>1. x \in Int
    BY Ranges DEF Positive
  <2> QED
    BY <2>1 DEF Abs, Positive
<1>2. PICK y \in Int : y = Abs(x) \div Abs(g)
  BY <1>1, ModFacts
<1>3. WrappingDiv(x, g) = Wrap(y) \/ WrappingDiv(x, g) = Wrap(-y)
  BY <1>2 DEF WrappingDiv
<1>4. Wrap(y) \in Int64 /\ Wrap(-y) \in Int64 /\ Int64 \subseteq Int
  <2>1. -y \in Int
    OBVIOUS
  <2> QED
    BY <2>1, WrapFacts, Int64AreInts
<1> QED
  BY <1>3, <1>4

LEMMA DeltaWidthIsWidth ==
    ASSUME CodecAssumption, NEW s, NEW lo \in Int64, NEW hi \in Int64, NEW g \in Positive,
           lo = s.min, hi = s.max, g = s.gcd
    PROVE  DeltaWidth(s) \in CodecWidths /\ Wrap(hi - lo) \in Int64
           /\ DeltaWidth(s) = unsigned_bits_required(WrappingDiv(Wrap(hi - lo), g))
<1>1. WidthAssumption /\ hi - lo \in Int
  BY Widths, Ranges DEF Positive
<1>2. Wrap(hi - lo) \in Int64
  BY <1>1, WrapFacts
<1>3. PICK m \in Int : m = WrappingDiv(Wrap(hi - lo), g)
  BY <1>1, <1>2, DivisionIsWhole
<1>4. DeltaWidth(s) = unsigned_bits_required(m)
  BY <1>3 DEF DeltaWidth
<1> QED
  BY <1>2, <1>3, <1>4, BitsAreEnough

LEMMA ConstantKeeps ==
    ASSUME NEW s, s.min >= s.max, NEW e, LayoutOf(e, Layout(s))
    PROVE  e.bpv = 0 /\ e.table = <<>> /\ e.min = s.min /\ e.gcd = s.gcd
  BY DEF LayoutOf, Layout

LEMMA LayoutIsTable ==
    ASSUME CodecAssumption, NEW S \in SUBSET Int64, NEW s, TableIs(s.unique, S),
           NEW lo \in Int64, NEW hi \in Int64, NEW g \in Positive,
           lo = s.min, hi = s.max, g = s.gcd,
           ~ (s.min >= s.max), PrefersTable(s), NEW e, LayoutOf(e, Layout(s))
    PROVE  /\ Cardinality(S) > 1 /\ e.table = InOrder(S) /\ Cardinality(S) =< TableLimit
           /\ e.bpv = unsigned_bits_required(Cardinality(S) - 1)
           /\ e.bpv \in CodecWidths /\ e.bpv # W /\ e.min = 0 /\ e.gcd = 1
<1>1. /\ e.bpv = unsigned_bits_required(Cardinality(s.unique.set) - 1)
      /\ e.table = InOrder(s.unique.set) /\ e.min = 0 /\ e.gcd = 1
  BY DEF LayoutOf, Layout
<1>2. /\ s.unique.some /\ Cardinality(s.unique.set) > 1
      /\ unsigned_bits_required(Cardinality(s.unique.set) - 1) < DeltaWidth(s)
  BY DEF PrefersTable
<1>3. s.unique = [some |-> TRUE, set |-> S] /\ Cardinality(S) =< TableLimit
  <2>1. CASE Cardinality(S) =< TableLimit
    BY <2>1 DEF TableIs
  <2>2. CASE ~ (Cardinality(S) =< TableLimit)
    <3>1. ~ s.unique.some
      BY <2>2 DEF TableIs, NoTable
    <3> QED
      BY <1>2, <3>1
  <2> QED
    BY <2>1, <2>2
<1>4. s.unique.set = S
  BY <1>3
<1>5. PICK n \in Nat : n = Cardinality(S)
  BY Widths, Int64Counts
<1>6. PICK b \in CodecWidths : b = e.bpv /\ b = unsigned_bits_required(n - 1)
  <2>1. n - 1 \in Int
    OBVIOUS
  <2> QED
    BY <1>1, <1>4, <1>5, <2>1, BitsAreEnough
<1>7. PICK w \in CodecWidths : w = DeltaWidth(s)
  BY DeltaWidthIsWidth
<1>8. b < w /\ b \in 1 .. W /\ w \in 1 .. W /\ W \in Nat
  BY <1>2, <1>4, <1>5, <1>6, <1>7, Widths
<1> QED
  BY <1>1, <1>2, <1>3, <1>4, <1>6, <1>8

LEMMA LayoutIsDelta ==
    ASSUME CodecAssumption, NEW s, NEW lo \in Int64, NEW hi \in Int64, NEW g \in Positive,
           lo = s.min, hi = s.max, g = s.gcd, NEW v \in lo .. hi,
           ~ (s.min >= s.max), ~ PrefersTable(s), NEW e, LayoutOf(e, Layout(s))
    PROVE  /\ e.bpv \in CodecWidths /\ e.table = <<>> /\ e.gcd = g /\ e.min \in {0, lo}
           /\ g = 1 => Keeps(e, v)
           /\ g # 1 => HasQuotients(e, lo, hi, g)
<1>1. /\ e.bpv = DeltaWidth(s) /\ e.table = <<>> /\ e.gcd = g
      /\ e.min = IF DropsMin(s) THEN 0 ELSE lo
  BY DEF LayoutOf, Layout
<1>2. /\ DeltaWidth(s) \in CodecWidths /\ Wrap(hi - lo) \in Int64
      /\ DeltaWidth(s) = unsigned_bits_required(WrappingDiv(Wrap(hi - lo), g))
  BY DeltaWidthIsWidth
<1>3. ASSUME g # 1 PROVE HasQuotients(e, lo, hi, g)
  BY <1>1, <1>2, <1>3 DEF HasQuotients, DropsMin
<1>4. ASSUME g = 1 PROVE Keeps(e, v)
  <2>1. e.bpv = unsigned_bits_required(Wrap(hi - lo))
    <3>1. WrappingDiv(Wrap(hi - lo), 1) = Wrap(hi - lo)
      BY <1>2, DivisionByOne, Widths
    <3> QED
      BY <1>1, <1>2, <1>4, <3>1
  <2>2. CASE DropsMin(s)
    <3>1. lo > 0 /\ unsigned_bits_required(hi) = unsigned_bits_required(Wrap(hi - lo))
      BY <2>2 DEF DropsMin
    <3>2. PICK z \in Int64 : z = 0 /\ hi - z = hi
      BY Widths, Int64AreInts
    <3>3. Wrap(hi - z) = hi
      BY <3>2, Widths, WrapFacts, Int64AreInts
    <3>4. v \in z .. hi
      BY <3>1, <3>2, Widths, Int64AreInts
    <3>5. HasDeltas(e, z, hi)
      BY <1>1, <1>4, <2>1, <2>2, <3>1, <3>2, <3>3 DEF HasDeltas
    <3> QED
      BY <3>4, <3>5, DeltaKeeps
  <2>3. CASE ~ DropsMin(s)
    <3>1. HasDeltas(e, lo, hi)
      BY <1>1, <1>4, <2>1, <2>3 DEF HasDeltas
    <3> QED
      BY <3>1, DeltaKeeps
  <2> QED
    BY <2>2, <2>3
<1> QED
  BY <1>1, <1>2, <1>3, <1>4

\* An entry for the statistics of S keeps every value of S.
EntryKeeps(e, s, S) ==
    IF s.min >= s.max THEN e.bpv = 0 /\ e.table = <<>> /\ \A v \in S : e.min = v
    ELSE e.bpv \in CodecWidths /\ \A v \in S : Keeps(e, v)

EntryShape(e, S) ==
    /\ e.bpv \in CodecWidths \cup {0} /\ e.min \in Int64 /\ e.gcd \in Int64
    /\ e.table = <<>> \/ (e.table = InOrder(S) /\ Cardinality(S) =< TableLimit)

LEMMA LayoutKeeps ==
    ASSUME CodecAssumption, NEW first \in Int64, NEW S \in SUBSET Int64, first \in S,
           NEW s, Summarises(s, first, S), NEW e, LayoutOf(e, Layout(s))
    PROVE  EntryKeeps(e, s, S) /\ EntryShape(e, S)
<1>1. WidthAssumption /\ Int64 \subseteq Int /\ 0 \in Int64
  BY Widths, Int64AreInts
<1>2. /\ s.min \in S /\ s.max \in S /\ \A v \in S : v \in s.min .. s.max
      /\ s.gcd \in 0 .. High /\ TableIs(s.unique, S)
      /\ s.min < s.max => s.gcd \in Positive
      /\ s.gcd # 1 => S \subseteq HalfRange /\ CommonOf(s.gcd, Differences(S, first))
  BY <1>1, DifferentValues
<1>3. PICK lo \in S, hi \in S : lo = s.min /\ hi = s.max
  BY <1>2
<1>4. lo \in Int64 /\ hi \in Int64 /\ lo \in Int /\ hi \in Int
  BY <1>1
<1>5. 0 .. High \subseteq Int64 /\ 1 \in Int64
  <2>1. PICK q \in Positive : Int64 = -(2 * q) .. 2 * q - 1 /\ High = 2 * q - 1
    BY <1>1, Ranges
  <2> QED
    BY <2>1 DEF Positive
<1>6. CASE s.min >= s.max
  <2>1. e.bpv = 0 /\ e.table = <<>> /\ e.min = lo /\ e.gcd = s.gcd
    BY <1>3, <1>6, ConstantKeeps
  <2>2. \A v \in S : v = lo
    BY <1>1, <1>2, <1>3, <1>4, <1>6
  <2> QED
    BY <1>2, <1>4, <1>5, <1>6, <2>1, <2>2 DEF EntryKeeps, EntryShape
<1>7. CASE ~ (s.min >= s.max)
  <2>1. PICK g \in Positive : g = s.gcd
    <3>1. lo < hi
      BY <1>3, <1>4, <1>7
    <3> QED
      BY <1>2, <1>3, <3>1
  <2>2. CASE PrefersTable(s)
    <3>1. /\ Cardinality(S) > 1 /\ e.table = InOrder(S) /\ Cardinality(S) =< TableLimit
          /\ e.bpv = unsigned_bits_required(Cardinality(S) - 1)
          /\ e.bpv \in CodecWidths /\ e.bpv # W /\ e.min = 0 /\ e.gcd = 1
      BY <1>2, <1>3, <1>4, <1>7, <2>1, <2>2, LayoutIsTable
    <3>2. \A v \in S : Keeps(e, v)
      BY <3>1, TableKeeps
    <3> QED
      BY <1>1, <1>5, <1>7, <3>1, <3>2 DEF EntryKeeps, EntryShape
  <2>3. CASE ~ PrefersTable(s)
    <3>1. ASSUME NEW v \in S
          PROVE  /\ e.bpv \in CodecWidths /\ e.table = <<>> /\ e.gcd = g /\ e.min \in {0, lo}
                 /\ g = 1 => Keeps(e, v)
                 /\ g # 1 => HasQuotients(e, lo, hi, g)
      <4>1. v \in lo .. hi
        BY <1>2, <1>3
      <4> QED
        BY <1>3, <1>4, <1>7, <2>1, <2>3, <4>1, LayoutIsDelta
    <3>2. ASSUME NEW v \in S, g # 1 PROVE Keeps(e, v)
      <4>1. S \subseteq HalfRange /\ CommonOf(g, Differences(S, first))
        BY <1>2, <2>1, <3>2
      <4>2. \A w \in S : Divides(g, Abs(w - first))
        <5>1. Divides(g, g)
          BY DividesSimple
        <5> QED
          BY <4>1, <5>1 DEF CommonOf, Differences
      <4>3. /\ first \in HalfRange /\ v \in HalfRange /\ lo \in HalfRange /\ hi \in HalfRange
            /\ Divides(g, Abs(v - first)) /\ Divides(g, Abs(lo - first))
            /\ Divides(g, Abs(hi - first))
        BY <4>1, <4>2
      <4>4. lo =< v /\ lo =< first /\ lo =< hi /\ v \in lo .. hi
        BY <1>2, <1>3, <1>4
      <4>5. PICK k \in Nat : v - lo = g * k
        BY <1>1, <4>3, <4>4, DividesDeltas
      <4>6. hi - lo \in 0 .. High
        BY <1>1, <4>3, <4>4, DividesDeltas
      <4>7. PICK l \in Nat : hi - lo = g * l
        BY <1>1, <4>3, <4>4, DividesDeltas
      <4>8. HasQuotients(e, lo, hi, g)
        BY <3>1, <3>2
      <4> QED
        BY <1>4, <4>4, <4>5, <4>6, <4>7, <4>8, QuotientKeeps
    <3>3. \A v \in S : Keeps(e, v)
      BY <3>1, <3>2
    <3>4. e.gcd \in Int64 /\ e.min \in Int64
      BY <1>1, <1>2, <1>4, <1>5, <2>1, <3>1
    <3> QED
      BY <1>7, <3>1, <3>3, <3>4 DEF EntryKeeps, EntryShape
  <2> QED
    BY <2>2, <2>3
<1> QED
  BY <1>6, <1>7

-----------------------------------------------------------------------------
(* The arguments of a call.                                                *)

\* The first value of the concatenation is the first of the first part.
LEMMA FlattenFirst ==
    ASSUME NEW S, NEW seqs \in Seq(Seq(S)), Len(seqs) # 0, seqs[1] # <<>>
    PROVE  FlattenSeq(seqs) # <<>> /\ FlattenSeq(seqs)[1] = seqs[1][1]
<1>1. PICK n \in Nat : n = Len(seqs) /\ n # 0
  OBVIOUS
<1>2. PICK f \in [1 .. n -> Seq(S)] : Flattens(f, n, seqs) /\ FlattenSeq(seqs) = f[n]
  BY <1>1, FlattenSeqFlattens
<1>3. PICK T : T = Seq(S)
  OBVIOUS
<1>4. \A i \in 1 .. n : seqs[i] \in T
  <2>1. seqs \in Seq(T)
    BY <1>3
  <2> QED
    BY <1>1, <2>1, ElementOfSeq
<1> DEFINE P == {m \in Nat : m + 1 =< n => Len(f[m + 1]) # 0 /\ f[m + 1][1] = seqs[1][1]}
<1>5. 0 \in P
  <2>0. 1 \in 1 .. n
    BY <1>1
  <2>1. f[1] = seqs[1] /\ f[1] \in Seq(S)
    BY <1>2, <2>0 DEF Flattens
  <2>2. Len(f[1]) # 0
    BY <2>1, EmptySeq
  <2> QED
    BY <2>1, <2>2
<1>6. ASSUME NEW m \in P PROVE m + 1 \in P
  <2>1. m \in Nat
    OBVIOUS
  <2>2. ASSUME (m + 1) + 1 =< n
        PROVE  Len(f[(m + 1) + 1]) # 0 /\ f[(m + 1) + 1][1] = seqs[1][1]
    <3>1. PICK j \in 1 .. n : j = m + 1 /\ j + 1 \in 1 .. n /\ j + 1 # 1 /\ (j + 1) - 1 = j
      BY <2>1, <2>2
    <3>2. f[j + 1] = f[j] \o seqs[j + 1]
      BY <1>2, <3>1 DEF Flattens
    <3>3. PICK a \in Seq(S) : a = f[j] /\ Len(a) # 0 /\ a[1] = seqs[1][1]
      BY <3>1, <1>2
    <3>4. PICK b \in Seq(S) : b = seqs[j + 1]
      BY <1>3, <1>4, <3>1
    <3>5. Len(a \o b) # 0 /\ (a \o b)[1] = a[1]
      <4>1. /\ Len(a \o b) = Len(a) + Len(b) /\ Len(a) \in Nat /\ Len(b) \in Nat
            /\ \A i \in 1 .. Len(a) + Len(b) : (a \o b)[i] = IF i <= Len(a) THEN a[i] ELSE b[i - Len(a)]
        BY ConcatProperties
      <4>2. 1 \in 1 .. Len(a) + Len(b) /\ 1 <= Len(a)
        BY <3>3, <4>1
      <4> QED
        BY <4>1, <4>2
    <3> QED
      BY <3>1, <3>2, <3>3, <3>4, <3>5
  <2> QED
    BY <2>1, <2>2
<1>7. P = Nat
  <2>1. P \in SUBSET Nat
    OBVIOUS
  <2> HIDE DEF P
  <2> QED
    BY <1>5, <1>6, <2>1, NatSteps
<1>8. PICK k \in Nat : k + 1 = n
  <2>1. n - 1 \in Nat /\ (n - 1) + 1 = n
    BY <1>1
  <2> QED
    BY <2>1
<1>9. Len(f[n]) # 0 /\ f[n][1] = seqs[1][1]
  <2>1. k \in P
    <3> HIDE DEF P
    <3> QED
      BY <1>7
  <2>2. k + 1 =< n
    BY <1>8
  <2> QED
    BY <1>8, <2>1, <2>2
<1> QED
  BY <1>2, <1>9

LEMMA CallFacts ==
    ASSUME CodecAssumption, call \in Inputs
    PROVE  /\ call.lane \in {"flat", "chunks"} /\ call.docs \in Seq(Nat)
           /\ call.chunks \in Seq(Seq(Int64)) /\ AllValues \in Seq(Int64)
           /\ call.lane = "chunks" => call.docs = <<>>
           /\ AllValues # <<>> /\ ~ FirstIsMissing => FirstValue = AllValues[1]
<1>1. /\ call.lane \in {"flat", "chunks"} /\ call.docs \in Seq(Nat)
      /\ call.chunks \in Seq(Seq(Int64)) /\ (call.lane = "chunks" => call.docs = <<>>)
  BY DEF CodecAssumption
<1>2. PICK c \in Seq(Seq(Int64)) : c = call.chunks
  BY <1>1
<1>3. AllValues \in Seq(Int64)
  BY <1>2, FlattenType DEF AllValues
<1>4. ASSUME AllValues # <<>>, ~ FirstIsMissing PROVE FirstValue = AllValues[1]
  <2>1. c[1] # <<>> /\ FlattenSeq(c) # <<>>
    BY <1>2, <1>4 DEF FirstIsMissing, AllValues
  <2>2. Len(c) # 0
    <3>1. ASSUME Len(c) = 0 PROVE FALSE
      <4>1. c = <<>>
        BY <3>1, EmptySeq
      <4> QED
        BY <2>1, <4>1, FlattenEmpty
    <3> QED
      BY <3>1
  <2>3. FlattenSeq(c)[1] = c[1][1]
    BY <2>1, <2>2, FlattenFirst
  <2> QED
    BY <1>2, <2>3 DEF AllValues, FirstValue
<1> QED
  BY <1>1, <1>3, <1>4
-----------------------------------------------------------------------------
(* The docs of a flat call.                                                *)

Ascends(docs, n) ==
    /\ docs \in Seq(Nat) /\ n \in Nat
    /\ \A i \in 1 .. Len(docs) - 1 : docs[i] < docs[i + 1]
    /\ docs # <<>> => docs[Len(docs)] < n

LEMMA AscendsFar ==
    ASSUME NEW docs, NEW n, Ascends(docs, n)
    PROVE  /\ Len(docs) \in Nat /\ DOMAIN docs = 1 .. Len(docs)
           /\ \A i \in 1 .. Len(docs) : docs[i] \in 0 .. n - 1
           /\ \A i, j \in 1 .. Len(docs) : i < j => docs[i] < docs[j]
<1>1. PICK l \in Nat : l = Len(docs) /\ DOMAIN docs = 1 .. l
  BY DEF Ascends
<1>2. n \in Nat /\ \A i \in 1 .. l : docs[i] \in Nat
  BY <1>1, ElementOfSeq DEF Ascends
<1>3. \A i \in 1 .. l - 1 : docs[i] < docs[i + 1]
  BY <1>1 DEF Ascends
<1> DEFINE P == {m \in Nat : \A i \in 1 .. l : i + m + 1 =< l => docs[i] < docs[i + m + 1]}
<1>4. 0 \in P
  <2>1. ASSUME NEW i \in 1 .. l, i + 1 =< l PROVE docs[i] < docs[i + 1]
    <3>1. i \in 1 .. l - 1
      BY <2>1
    <3> QED
      BY <1>3, <3>1
  <2> QED
    BY <2>1
<1>5. ASSUME NEW m \in P PROVE m + 1 \in P
  <2>1. m \in Nat
    OBVIOUS
  <2>2. ASSUME NEW i \in 1 .. l, i + (m + 1) + 1 =< l PROVE docs[i] < docs[i + (m + 1) + 1]
    <3>1. PICK j \in 1 .. l - 1 : j = i + m + 1 /\ j + 1 = i + (m + 1) + 1 /\ j + 1 \in 1 .. l
      <4>1. i + m + 1 \in 1 .. l - 1 /\ (i + m + 1) + 1 = i + (m + 1) + 1
            /\ (i + m + 1) + 1 \in 1 .. l
        BY <2>1, <2>2
      <4> QED
        BY <4>1
    <3>2. docs[i] < docs[j] /\ docs[j] < docs[j + 1]
      <4>1. docs[i] < docs[i + m + 1]
        BY <2>2, <3>1
      <4> QED
        BY <1>3, <3>1, <4>1
    <3>3. docs[i] \in Nat /\ docs[j] \in Nat /\ docs[j + 1] \in Nat
      BY <1>2, <3>1
    <3>4. docs[i] < docs[j + 1]
      BY <3>2, <3>3
    <3> QED
      BY <3>1, <3>4
  <2> QED
    BY <2>1, <2>2
<1>6. P = Nat
  <2>1. P \in SUBSET Nat
    OBVIOUS
  <2> HIDE DEF P
  <2> QED
    BY <1>4, <1>5, <2>1, NatSteps
<1>7. ASSUME NEW i \in 1 .. l, NEW j \in 1 .. l, i < j PROVE docs[i] < docs[j]
  <2>1. PICK m \in Nat : j = i + m + 1
    <3>1. j - i - 1 \in Nat /\ j = i + (j - i - 1) + 1
      BY <1>7
    <3> QED
      BY <3>1
  <2>2. m \in P
    <3> HIDE DEF P
    <3> QED
      BY <1>6
  <2>3. i + m + 1 =< l
    BY <2>1
  <2> QED
    BY <2>1, <2>2, <2>3
<1>8. ASSUME NEW i \in 1 .. l PROVE docs[i] \in 0 .. n - 1
  <2>1. l \in 1 .. l /\ docs # <<>>
    BY <1>1, EmptySeq DEF Ascends
  <2>2. docs[l] < n /\ docs[l] \in Nat /\ docs[i] \in Nat
    BY <1>1, <1>2, <2>1 DEF Ascends
  <2>3. i = l \/ docs[i] < docs[l]
    BY <1>7, <2>1
  <2>4. docs[i] =< docs[l]
    BY <2>2, <2>3
  <2> QED
    BY <1>2, <2>2, <2>4
<1> QED
  BY <1>1, <1>7, <1>8

LEMMA AscendsCounts ==
    ASSUME NEW docs, NEW n, Ascends(docs, n), NEW i \in 0 .. Len(docs)
    PROVE  IsFiniteSet({docs[k] : k \in 1 .. i}) /\ Cardinality({docs[k] : k \in 1 .. i}) = i
<1> DEFINE First(m) == {docs[k] : k \in 1 .. m}
<1>1. PICK l \in Nat : l = Len(docs) /\ \A a, b \in 1 .. l : a < b => docs[a] < docs[b]
  BY AscendsFar
<1>2. \A a \in 1 .. l : docs[a] \in Int
  BY <1>1, AscendsFar
<1> DEFINE P == {m \in Nat : m =< l => IsFiniteSet(First(m)) /\ Cardinality(First(m)) = m}
<1>3. 0 \in P
  <2>1. First(0) = {}
    OBVIOUS
  <2> QED
    BY <2>1, FS_EmptySet
<1>4. ASSUME NEW m \in P PROVE m + 1 \in P
  <2>1. m \in Nat
    OBVIOUS
  <2>2. ASSUME m + 1 =< l PROVE IsFiniteSet(First(m + 1)) /\ Cardinality(First(m + 1)) = m + 1
    <3>1. IsFiniteSet(First(m)) /\ Cardinality(First(m)) = m
      BY <2>1, <2>2
    <3>2. First(m + 1) = First(m) \cup {docs[m + 1]}
      <4>1. 1 .. m + 1 = 1 .. m \cup {m + 1}
        BY <2>1
      <4> QED
        BY <4>1
    <3>3. docs[m + 1] \notin First(m)
      <4>1. ASSUME NEW k \in 1 .. m, docs[k] = docs[m + 1] PROVE FALSE
        <5>1. k \in 1 .. l /\ m + 1 \in 1 .. l /\ k < m + 1
          BY <2>1, <2>2
        <5> QED
          BY <1>1, <1>2, <4>1, <5>1
      <4> QED
        BY <4>1
    <3> HIDE DEF First
    <3> QED
      BY <2>1, <3>1, <3>2, <3>3, FS_AddElement
  <2> QED
    BY <2>1, <2>2
<1>5. P = Nat
  <2>1. P \in SUBSET Nat
    OBVIOUS
  <2> HIDE DEF P
  <2> QED
    BY <1>3, <1>4, <2>1, NatSteps
<1>6. i \in P
  <2>1. i \in Nat
    OBVIOUS
  <2> HIDE DEF P
  <2> QED
    BY <1>5, <2>1
<1>7. i =< l
  BY <1>1
<1> QED
  BY <1>6, <1>7

\* The place of a document is the number of documents up to it.
LEMMA PlaceOfDoc ==
    ASSUME NEW docs, NEW n, Ascends(docs, n), NEW i \in 1 .. Len(docs)
    PROVE  Cardinality({d \in Range(docs) : d =< docs[i]}) = i
<1>1. PICK l \in Nat : /\ l = Len(docs) /\ DOMAIN docs = 1 .. l
                       /\ \A a, b \in 1 .. l : a < b => docs[a] < docs[b]
  BY AscendsFar
<1>2. \A a \in 1 .. l : docs[a] \in Int
  BY <1>1, AscendsFar
<1>3. ASSUME NEW k \in 1 .. l PROVE docs[k] =< docs[i] <=> k =< i
  BY <1>1, <1>2
<1>4. {d \in Range(docs) : d =< docs[i]} = {docs[k] : k \in 1 .. i}
  <2>1. Range(docs) = {docs[k] : k \in 1 .. l}
    BY <1>1 DEF Range
  <2>2. \A k \in 1 .. l : k =< i <=> k \in 1 .. i
    OBVIOUS
  <2>3. 1 .. i \subseteq 1 .. l
    BY <1>1
  <2> QED
    BY <1>3, <2>1, <2>2, <2>3
<1>5. i \in 0 .. Len(docs)
  BY <1>1
<1> QED
  BY <1>4, <1>5, AscendsCounts

\* As many as there are documents are all of them.
LEMMA AllDocsAscend ==
    ASSUME NEW docs, NEW n, Ascends(docs, n), Len(docs) = n, NEW i \in 1 .. n
    PROVE  docs[i] = i - 1
<1>1. PICK l \in Nat : /\ l = Len(docs) /\ l = n /\ DOMAIN docs = 1 .. l
                       /\ \A a \in 1 .. l : docs[a] \in 0 .. l - 1
  BY AscendsFar
<1>2. Range(docs) = {docs[k] : k \in 1 .. l} /\ l \in 0 .. Len(docs)
  BY <1>1 DEF Range
<1>3. IsFiniteSet(Range(docs)) /\ Cardinality(Range(docs)) = l
  BY <1>2, AscendsCounts
<1>4. IsFiniteSet(0 .. l - 1) /\ Cardinality(0 .. l - 1) = l
  BY FirstNumbers
<1>5. Range(docs) \subseteq 0 .. l - 1
  BY <1>1, <1>2
<1>6. Range(docs) = 0 .. l - 1
  BY <1>3, <1>4, <1>5, FS_Subset
<1>7. PICK d \in 0 .. l - 1 : d = docs[i]
  BY <1>1
<1>8. {x \in 0 .. l - 1 : x =< d} = 0 .. d
  BY <1>1
<1>9. Cardinality(0 .. d) = d + 1
  <2>1. d \in Int /\ 0 \in Int /\ 0 =< d
    BY <1>1
  <2>2. Cardinality(0 .. d) = IF 0 > d THEN 0 ELSE d - 0 + 1
    BY <2>1, FS_Interval
  <2> QED
    BY <2>1, <2>2
<1>10. Cardinality({x \in Range(docs) : x =< docs[i]}) = i
  BY <1>1, PlaceOfDoc
<1>11. d + 1 = i
  BY <1>6, <1>7, <1>8, <1>9, <1>10
<1> QED
  BY <1>1, <1>7, <1>11

-----------------------------------------------------------------------------
(* The inductive invariant.  What the writer knows at each of its places:  *)
(* before it begins, nothing; in the loop, the statistics of the values it *)
(* has been through; after it, those of all values and the layout they     *)
(* lead to; when written, every value packed in that layout.               *)

IsEntry(e) ==
    e = [docsWithField |-> e.docsWithField, docs |-> e.docs, numValues |-> e.numValues,
         table |-> e.table, bpv |-> e.bpv, min |-> e.min, gcd |-> e.gcd]

NoLayout(e) == e.bpv = 0 /\ e.table = <<>> /\ e.min = 0 /\ e.gcd = 0

Begun ==
    /\ Accepted /\ ~ FirstIsMissing /\ IsEntry(entry)
    /\ entry.docsWithField = DocsWithField
    /\ entry.docs = IF DocsWithField = 0 THEN call.docs ELSE <<>>
    /\ entry.numValues = Len(AllValues)

FirstValues(n) == {AllValues[k] : k \in 1 .. n}
Scanned(n) == Summarises(stats, FirstValue, FirstValues(n))
Laid ==
    /\ taken = Len(AllValues) /\ Scanned(Len(AllValues))
    /\ LayoutOf(entry, Layout(stats))
PackedValues ==
    IF entry.bpv > 0 THEN [i \in DOMAIN AllValues |-> Packed(entry, AllValues[i])] ELSE <<>>

Unbegun == {"called", "refused", "panicked"}
Decided == {"pack", "written", "read"}

CodecIInv ==
    /\ call \in Inputs /\ taken \in 0 .. Len(AllValues)
    /\ phase \in Unbegun \cup {"stats"} \cup Decided
    /\ phase \in Unbegun =>
           stats = NoStats /\ entry = NoEntry /\ payload = <<>> /\ taken = 0
    /\ phase \notin Unbegun => Begun
    /\ phase = "stats" =>
           AllValues # <<>> /\ NoLayout(entry) /\ payload = <<>> /\ Scanned(taken)
    /\ phase \in Decided /\ AllValues # <<>> => Laid
    /\ phase \in Decided /\ AllValues = <<>> =>
           phase # "pack" /\ NoLayout(entry) /\ stats = NoStats
    /\ phase = "pack" => payload = <<>> /\ entry.bpv > 0
    /\ phase \in {"written", "read"} => payload = PackedValues
    /\ phase = "read" => column = DecodesTo

LEMMA CallKept ==
    ASSUME call' = call
    PROVE  /\ AllValues' = AllValues /\ FirstValue' = FirstValue
           /\ (Accepted' <=> Accepted) /\ (FirstIsMissing' <=> FirstIsMissing)
           /\ DocsWithField' = DocsWithField
           /\ \A n : FirstValues(n)' = FirstValues(n)
<1>1. AllValues' = AllValues
  BY DEF AllValues
<1> QED
  BY <1>1 DEF FirstValue, Accepted, FirstIsMissing, DocsWithField, NumDocsWithValue, FirstValues

LEMMA CodecBegins == ASSUME CodecAssumption, CodecInit PROVE CodecIInv
<1>1. call \in Inputs /\ phase = "called" /\ taken = 0 /\ stats = NoStats /\ entry = NoEntry
      /\ payload = <<>>
  BY DEF CodecInit
<1>2. Len(AllValues) \in Nat
  BY <1>1, CallFacts
<1>3. taken \in 0 .. Len(AllValues)
  BY <1>1, <1>2
<1> QED
  BY <1>1, <1>3 DEF CodecIInv, Unbegun, Decided

\* The statistics of one more value.
LEMMA ScanGrows ==
    ASSUME CodecAssumption, call \in Inputs, NEW n \in Nat, n < Len(AllValues),
           ~ FirstIsMissing, AllValues # <<>>, NEW s, Summarises(s, FirstValue, FirstValues(n))
    PROVE  Summarises(AddValue(s, FirstValue, AllValues[n + 1]), FirstValue, FirstValues(n + 1))
<1>1. PICK vs \in Seq(Int64) : vs = AllValues /\ FirstValue = vs[1]
  BY CallFacts
<1>2. PICK l \in Nat : l = Len(vs) /\ n < l /\ \A k \in 1 .. l : vs[k] \in Int64
  BY <1>1, ElementOfSeq
<1>3. 1 \in 1 .. l /\ n + 1 \in 1 .. l
  BY <1>2
<1>4. PICK first \in Int64, v \in Int64 : first = vs[1] /\ v = vs[n + 1]
  BY <1>2, <1>3
<1> DEFINE S == {vs[k] : k \in 1 .. n}
<1>5. S \in SUBSET Int64 /\ IsFiniteSet(S)
  <2>1. S \in SUBSET Int64
    BY <1>2
  <2> HIDE DEF S
  <2> QED
    BY <2>1, Widths, Int64Counts
<1>6. S = {} => v = first
  <2>1. n # 0 => vs[1] \in S
    BY <1>2
  <2>2. n = 0 => v = first
    BY <1>4
  <2> QED
    BY <2>1, <2>2
<1>7. S # {} => first \in S
  <2>1. n = 0 => S = {}
    OBVIOUS
  <2>2. n # 0 => vs[1] \in S
    BY <1>2
  <2> QED
    BY <1>4, <2>1, <2>2
<1>8. {vs[k] : k \in 1 .. n + 1} = S \cup {v}
  <2>1. 1 .. n + 1 = 1 .. n \cup {n + 1}
    OBVIOUS
  <2> QED
    BY <1>4, <2>1
<1>9. FirstValues(n) = S /\ FirstValues(n + 1) = S \cup {v}
  BY <1>1, <1>8 DEF FirstValues
<1> HIDE DEF S
<1>10. Summarises(AddValue(s, first, v), first, S \cup {v})
  BY <1>1, <1>4, <1>5, <1>6, <1>7, <1>9, Widths, SummaryGrows
<1> QED
  BY <1>1, <1>4, <1>9, <1>10

LEMMA ScanBegins ==
    ASSUME CodecAssumption, call \in Inputs, ~ FirstIsMissing, AllValues # <<>>
    PROVE  Summarises(StatsOfFirst(FirstValue), FirstValue, FirstValues(0))
<1>1. PICK vs \in Seq(Int64) : vs = AllValues /\ FirstValue = vs[1] /\ vs # <<>>
  BY CallFacts
<1>2. 1 \in 1 .. Len(vs)
  BY <1>1, EmptySeq
<1>3. PICK first \in Int64 : first = FirstValue
  BY <1>1, <1>2, ElementOfSeq
<1>4. FirstValues(0) = {}
  BY DEF FirstValues
<1> QED
  BY <1>3, <1>4, Widths, SummaryBegins
LEMMA TakenKept ==
    ASSUME CodecAssumption, CodecIInv PROVE Len(AllValues) \in Nat /\ taken \in Nat
  BY CallFacts DEF CodecIInv

\* Unbegun steps and the empty entry.
LEMMA BeginEntryStep ==
    ASSUME CodecAssumption, CodecIInv, BeginEntry PROVE CodecIInv'
<1>1. /\ call \in Inputs /\ taken = 0 /\ stats = NoStats /\ entry = NoEntry /\ payload = <<>>
      /\ taken \in 0 .. Len(AllValues)
  BY DEF CodecIInv, BeginEntry, Unbegun
<1>2. /\ call' = call /\ taken' = taken /\ payload' = payload
      /\ entry' = [NoEntry EXCEPT !.docsWithField = DocsWithField,
                                  !.docs = IF DocsWithField = 0 THEN call.docs ELSE <<>>,
                                  !.numValues = Len(AllValues)]
      /\ Accepted /\ ~ FirstIsMissing
  BY DEF BeginEntry
<1>3. /\ AllValues' = AllValues /\ FirstValue' = FirstValue
      /\ (Accepted' <=> Accepted) /\ (FirstIsMissing' <=> FirstIsMissing)
      /\ DocsWithField' = DocsWithField
      /\ \A n : FirstValues(n)' = FirstValues(n)
  BY <1>2, CallKept
<1>4. /\ IsEntry(entry') /\ NoLayout(entry') /\ entry'.docsWithField = DocsWithField
      /\ entry'.docs = (IF DocsWithField = 0 THEN call.docs ELSE <<>>)
      /\ entry'.numValues = Len(AllValues)
  BY <1>2 DEF NoEntry, IsEntry, NoLayout
<1>5. Begun'
  BY <1>2, <1>3, <1>4 DEF Begun
<1>6. taken' \in 0 .. Len(AllValues')
  BY <1>1, <1>2, <1>3
<1>7. CASE AllValues = <<>>
  <2>1. phase' = "written" /\ stats' = NoStats
    BY <1>1, <1>7 DEF BeginEntry
  <2>2. PackedValues' = <<>>
    BY <1>4 DEF PackedValues, NoLayout
  <2> QED
    BY <1>1, <1>2, <1>3, <1>4, <1>5, <1>6, <1>7, <2>1, <2>2 DEF CodecIInv, Unbegun, Decided
<1>8. CASE AllValues # <<>>
  <2>1. phase' = "stats" /\ stats' = StatsOfFirst(FirstValue)
    BY <1>8 DEF BeginEntry
  <2>2. Scanned(taken)'
    <3>1. Summarises(StatsOfFirst(FirstValue), FirstValue, FirstValues(0))
      BY <1>1, <1>2, <1>8, ScanBegins
    <3> QED
      BY <1>1, <1>2, <1>3, <2>1, <3>1 DEF Scanned, FirstValues
  <2> QED
    BY <1>1, <1>2, <1>3, <1>4, <1>5, <1>6, <1>8, <2>1, <2>2 DEF CodecIInv, Unbegun, Decided
<1> QED
  BY <1>7, <1>8

LEMMA StopStep ==
    ASSUME CodecAssumption, CodecIInv, Refuse \/ Panic PROVE CodecIInv'
<1>1. /\ call' = call /\ taken' = taken /\ stats' = stats /\ entry' = entry
      /\ payload' = payload /\ phase = "called" /\ phase' \in {"refused", "panicked"}
  BY DEF Refuse, Panic
<1>2. AllValues' = AllValues
  BY <1>1 DEF AllValues
<1> QED
  BY <1>1, <1>2 DEF CodecIInv, Unbegun, Decided

LEMMA FoldValueStep ==
    ASSUME CodecAssumption, CodecIInv, FoldValue PROVE CodecIInv'
<1>1. /\ call \in Inputs /\ phase = "stats" /\ Begun /\ AllValues # <<>> /\ NoLayout(entry)
      /\ payload = <<>> /\ Scanned(taken)
  BY DEF CodecIInv, FoldValue, Unbegun
<1>2. /\ call' = call /\ phase' = phase /\ entry' = entry /\ payload' = payload
      /\ taken' = taken + 1 /\ taken < Len(AllValues)
      /\ stats' = AddValue(stats, FirstValue, AllValues[taken + 1])
  BY DEF FoldValue
<1>3. /\ AllValues' = AllValues /\ FirstValue' = FirstValue
      /\ (Accepted' <=> Accepted) /\ (FirstIsMissing' <=> FirstIsMissing)
      /\ DocsWithField' = DocsWithField
      /\ \A n : FirstValues(n)' = FirstValues(n)
  BY <1>2, CallKept
<1>4. Begun'
  BY <1>1, <1>2, <1>3 DEF Begun
<1>5. Len(AllValues) \in Nat /\ taken \in Nat
  BY TakenKept
<1>6. taken' \in 0 .. Len(AllValues')
  BY <1>2, <1>3, <1>5
<1>7. Scanned(taken)'
  <2>1. PICK n \in Nat : n = taken
    BY <1>5
  <2>2. ~ FirstIsMissing
    BY <1>1 DEF Begun
  <2>3. Summarises(AddValue(stats, FirstValue, AllValues[n + 1]), FirstValue, FirstValues(n + 1))
    BY <1>1, <1>2, <2>1, <2>2, ScanGrows DEF Scanned
  <2>4. FirstValues(taken)' = FirstValues(n + 1)
    BY <1>2, <1>3, <2>1 DEF FirstValues
  <2> QED
    BY <1>2, <1>3, <2>1, <2>3, <2>4 DEF Scanned
<1> QED
  BY <1>1, <1>2, <1>3, <1>4, <1>6, <1>7 DEF CodecIInv, Unbegun, Decided

LEMMA ChooseLayoutStep ==
    ASSUME CodecAssumption, CodecIInv, ChooseLayout PROVE CodecIInv'
<1>1. /\ call \in Inputs /\ phase = "stats" /\ Begun /\ AllValues # <<>> /\ NoLayout(entry)
      /\ payload = <<>> /\ Scanned(taken) /\ taken \in 0 .. Len(AllValues)
  BY DEF CodecIInv, ChooseLayout, Unbegun
<1>2. /\ call' = call /\ taken' = taken /\ stats' = stats /\ payload' = payload
      /\ taken = Len(AllValues)
      /\ entry' = [entry EXCEPT !.bpv = Layout(stats).bpv, !.table = Layout(stats).table,
                                !.min = Layout(stats).min, !.gcd = Layout(stats).gcd]
      /\ phase' = IF entry'.bpv > 0 THEN "pack" ELSE "written"
  BY DEF ChooseLayout
<1>3. /\ AllValues' = AllValues /\ FirstValue' = FirstValue
      /\ (Accepted' <=> Accepted) /\ (FirstIsMissing' <=> FirstIsMissing)
      /\ DocsWithField' = DocsWithField
      /\ \A n : FirstValues(n)' = FirstValues(n)
  BY <1>2, CallKept
<1>4. /\ IsEntry(entry') /\ entry'.docsWithField = entry.docsWithField
      /\ entry'.docs = entry.docs /\ entry'.numValues = entry.numValues
      /\ LayoutOf(entry', Layout(stats))
  <2>1. IsEntry(entry)
    BY <1>1 DEF Begun
  <2>2. PICK l : l = Layout(stats)
    OBVIOUS
  <2>3. entry' = [docsWithField |-> entry.docsWithField, docs |-> entry.docs,
                  numValues |-> entry.numValues, table |-> l.table, bpv |-> l.bpv,
                  min |-> l.min, gcd |-> l.gcd]
    BY <1>2, <2>1, <2>2 DEF IsEntry
  <2> QED
    BY <2>2, <2>3 DEF IsEntry, LayoutOf
<1>5. Begun'
  BY <1>1, <1>2, <1>3, <1>4 DEF Begun
<1>6. taken' \in 0 .. Len(AllValues')
  BY <1>1, <1>2, <1>3
<1>7. Laid'
  <2>1. Scanned(Len(AllValues))'
    BY <1>1, <1>2, <1>3 DEF Scanned, FirstValues
  <2> QED
    BY <1>2, <1>3, <1>4, <2>1 DEF Laid
<1>8. CASE entry'.bpv > 0
  BY <1>1, <1>2, <1>3, <1>5, <1>6, <1>7, <1>8 DEF CodecIInv, Unbegun, Decided
<1>9. CASE ~ (entry'.bpv > 0)
  <2>1. PackedValues' = <<>>
    BY <1>9 DEF PackedValues
  <2> QED
    BY <1>1, <1>2, <1>3, <1>5, <1>6, <1>7, <1>9, <2>1 DEF CodecIInv, Unbegun, Decided
<1> QED
  BY <1>8, <1>9

LEMMA PackStep ==
    ASSUME CodecAssumption, CodecIInv, Pack PROVE CodecIInv'
<1>1. /\ call \in Inputs /\ taken \in 0 .. Len(AllValues) /\ Begun
      /\ AllValues # <<>> /\ Laid /\ entry.bpv > 0
  BY DEF CodecIInv, Pack, Unbegun, Decided
<1>2. /\ call' = call /\ taken' = taken /\ stats' = stats /\ entry' = entry
      /\ phase' = "written"
      /\ payload' = [i \in DOMAIN AllValues |-> Packed(entry, AllValues[i])]
  BY DEF Pack
<1>3. /\ AllValues' = AllValues /\ FirstValue' = FirstValue
      /\ (Accepted' <=> Accepted) /\ (FirstIsMissing' <=> FirstIsMissing)
      /\ DocsWithField' = DocsWithField
      /\ \A n : FirstValues(n)' = FirstValues(n)
  BY <1>2, CallKept
<1>4. Begun'
  BY <1>1, <1>2, <1>3 DEF Begun
<1>5. Laid'
  BY <1>1, <1>2, <1>3 DEF Laid, Scanned, FirstValues
<1>6. payload' = PackedValues'
  BY <1>1, <1>2, <1>3 DEF PackedValues
<1> QED
  BY <1>1, <1>2, <1>3, <1>4, <1>5, <1>6 DEF CodecIInv, Unbegun, Decided

LEMMA ReadStep ==
    ASSUME CodecAssumption, CodecIInv, Read PROVE CodecIInv'
<1>1. /\ call \in Inputs /\ taken \in 0 .. Len(AllValues) /\ Begun
      /\ AllValues # <<>> => Laid
      /\ AllValues = <<>> => NoLayout(entry) /\ stats = NoStats
      /\ payload = PackedValues
  BY DEF CodecIInv, Read, Unbegun, Decided
<1>2. /\ call' = call /\ taken' = taken /\ stats' = stats /\ entry' = entry
      /\ phase' = "read" /\ payload' = payload /\ column' = DecodesTo
  BY DEF Read
<1>3. /\ AllValues' = AllValues /\ FirstValue' = FirstValue
      /\ (Accepted' <=> Accepted) /\ (FirstIsMissing' <=> FirstIsMissing)
      /\ DocsWithField' = DocsWithField
      /\ \A n : FirstValues(n)' = FirstValues(n)
  BY <1>2, CallKept
<1>4. Begun'
  BY <1>1, <1>2, <1>3 DEF Begun
<1>5. AllValues # <<>> => Laid'
  BY <1>1, <1>2, <1>3 DEF Laid, Scanned, FirstValues
<1>6. payload' = PackedValues'
  BY <1>1, <1>2, <1>3 DEF PackedValues
<1>7. DecodesTo' = DecodesTo
  <2>1. DecodedValues' = DecodedValues
    BY <1>2 DEF DecodedValues, DecodeValue, Unpacked, BlockKind
  <2> QED
    BY <1>2, <2>1 DEF DecodesTo
<1> QED
  BY <1>1, <1>2, <1>3, <1>4, <1>5, <1>6, <1>7 DEF CodecIInv, Unbegun, Decided

LEMMA CodecStep ==
    ASSUME CodecAssumption, CodecIInv, [CodecNext]_codecVars PROVE CodecIInv'
<1>1. CASE UNCHANGED codecVars
  <2>1. /\ call' = call /\ phase' = phase /\ taken' = taken /\ stats' = stats
        /\ entry' = entry /\ payload' = payload /\ column' = column
    BY <1>1 DEF codecVars
  <2>2. /\ AllValues' = AllValues /\ FirstValue' = FirstValue
        /\ (Accepted' <=> Accepted) /\ (FirstIsMissing' <=> FirstIsMissing)
        /\ DocsWithField' = DocsWithField
        /\ \A n : FirstValues(n)' = FirstValues(n)
    BY <2>1, CallKept
  <2>3. (Begun' <=> Begun) /\ (NoLayout(entry)' <=> NoLayout(entry))
    BY <2>1, <2>2 DEF Begun, NoLayout
  <2>4. (Laid' <=> Laid) /\ (Scanned(taken)' <=> Scanned(taken))
    BY <2>1, <2>2 DEF Laid, Scanned, FirstValues
  <2>5. PackedValues' = PackedValues
    BY <2>1, <2>2 DEF PackedValues
  <2>6. DecodesTo' = DecodesTo
    <3>1. DecodedValues' = DecodedValues
      BY <2>1 DEF DecodedValues, DecodeValue, Unpacked, BlockKind
    <3> QED
      BY <2>1, <3>1 DEF DecodesTo
  <2> QED
    BY <2>1, <2>2, <2>3, <2>4, <2>5, <2>6 DEF CodecIInv
<1>2. CASE CodecNext
  BY <1>2, StopStep, BeginEntryStep, FoldValueStep, ChooseLayoutStep, PackStep, ReadStep
     DEF CodecNext
<1> QED
  BY <1>1, <1>2

-----------------------------------------------------------------------------
(* What the invariant implies.                                             *)

\* After the loop the entry keeps every value.
LEMMA DecidedKeeps ==
    ASSUME CodecAssumption, CodecIInv, phase \in Decided, AllValues # <<>>
    PROVE  /\ EntryKeeps(entry, stats, FirstValues(Len(AllValues)))
           /\ EntryShape(entry, FirstValues(Len(AllValues)))
           /\ FirstValues(Len(AllValues)) \in SUBSET Int64
           /\ \A i \in DOMAIN AllValues : AllValues[i] \in FirstValues(Len(AllValues))
           /\ Summarises(stats, FirstValue, FirstValues(Len(AllValues)))
           /\ FirstValue \in Int64 /\ FirstValue = AllValues[1] /\ Begun
<1>1. Laid /\ Begun /\ call \in Inputs
  BY DEF CodecIInv, Unbegun, Decided
<1>2. ~ FirstIsMissing
  BY <1>1 DEF Begun
<1>3. PICK vs \in Seq(Int64) : vs = AllValues /\ FirstValue = vs[1] /\ vs # <<>>
  BY <1>1, <1>2, CallFacts
<1>4. PICK l \in Nat : l = Len(vs) /\ DOMAIN vs = 1 .. l /\ 1 \in 1 .. l
                       /\ \A k \in 1 .. l : vs[k] \in Int64
  BY <1>3, EmptySeq, ElementOfSeq
<1>5. PICK S : S = FirstValues(l) /\ S = {vs[k] : k \in 1 .. l}
  BY <1>3 DEF FirstValues
<1>6. S \in SUBSET Int64 /\ vs[1] \in S /\ vs[1] \in Int64 /\ \A i \in DOMAIN vs : vs[i] \in S
  BY <1>4, <1>5
<1>7. Summarises(stats, vs[1], S) /\ LayoutOf(entry, Layout(stats))
  BY <1>1, <1>3, <1>4, <1>5 DEF Laid, Scanned
<1>8. EntryKeeps(entry, stats, S) /\ EntryShape(entry, S)
  BY <1>6, <1>7, LayoutKeeps
<1> QED
  BY <1>1, <1>3, <1>4, <1>5, <1>6, <1>7, <1>8

\* A stored number: what pack put down and what is read of it.
LEMMA StoredNumbers ==
    ASSUME CodecAssumption, CodecIInv, phase \in Decided, AllValues # <<>>, entry.bpv > 0,
           NEW i \in DOMAIN AllValues
    PROVE  Keeps(entry, AllValues[i]) /\ entry.bpv \in CodecWidths
<1>1. /\ EntryKeeps(entry, stats, FirstValues(Len(AllValues)))
      /\ AllValues[i] \in FirstValues(Len(AllValues))
  BY DecidedKeeps
<1>2. ~ (stats.min >= stats.max)
  BY <1>1 DEF EntryKeeps
<1> QED
  BY <1>1, <1>2 DEF EntryKeeps

LEMMA PayloadFits ==
    ASSUME CodecAssumption, CodecIInv
    PROVE  payload \in Seq(Int64) /\ \A i \in DOMAIN payload : Unsigned(payload[i]) < Pow2[entry.bpv]
<1>1. CASE payload = <<>>
  BY <1>1
<1>2. CASE payload # <<>>
  <2>1. phase \in {"written", "read"} /\ payload = PackedValues /\ call \in Inputs
    BY <1>2 DEF CodecIInv, Unbegun, Decided
  <2>2. phase \in Decided /\ AllValues # <<>> /\ entry.bpv > 0
    <3>1. entry.bpv > 0
      BY <1>2, <2>1 DEF PackedValues
    <3>2. AllValues = <<>> => NoLayout(entry)
      BY <2>1 DEF CodecIInv, Decided
    <3>3. AllValues = <<>> => entry.bpv = 0
      BY <3>2 DEF NoLayout
    <3> QED
      BY <2>1, <3>1, <3>3 DEF Decided
  <2>3. payload = [i \in DOMAIN AllValues |-> Packed(entry, AllValues[i])]
    BY <2>1, <2>2 DEF PackedValues
  <2>4. PICK l \in Nat : DOMAIN AllValues = 1 .. l
    <3>1. PICK vs \in Seq(Int64) : vs = AllValues
      BY <2>1, CallFacts
    <3> QED
      BY <3>1
  <2>5. ASSUME NEW i \in 1 .. l
        PROVE  payload[i] \in Int64 /\ Unsigned(payload[i]) < Pow2[entry.bpv]
    <3>1. Keeps(entry, AllValues[i])
      BY <2>2, <2>4, StoredNumbers
    <3> QED
      BY <2>3, <2>4, <3>1 DEF Keeps
  <2>6. payload \in [1 .. l -> Int64]
    BY <2>3, <2>4, <2>5
  <2>7. payload \in Seq(Int64) /\ DOMAIN payload = 1 .. l
    BY <2>6, FunctionIsSeq
  <2> QED
    BY <2>5, <2>7
<1> QED
  BY <1>1, <1>2

\* What is decoded is the column of values.
LEMMA DecodesEveryValue ==
    ASSUME CodecAssumption, CodecIInv, phase = "read"
    PROVE  /\ DecodedValues = [i \in 1 .. Len(AllValues) |-> DecodeValue(i)]
           /\ \A i \in 1 .. Len(AllValues) : DecodedValues[i] = AllValues[i]
<1>1. Begun /\ payload = PackedValues /\ phase \in Decided /\ call \in Inputs
  BY DEF CodecIInv, Unbegun, Decided
<1>2. entry.numValues = Len(AllValues)
  BY <1>1 DEF Begun
<1>3. DecodedValues = [i \in 1 .. Len(AllValues) |-> DecodeValue(i)]
  BY <1>2 DEF DecodedValues
<1>4. PICK l \in Nat : l = Len(AllValues) /\ DOMAIN AllValues = 1 .. l /\ (l # 0 => AllValues # <<>>)
  <2>1. PICK vs \in Seq(Int64) : vs = AllValues
    BY <1>1, CallFacts
  <2> QED
    BY <2>1
<1>5. ASSUME NEW i \in 1 .. l PROVE DecodeValue(i) = AllValues[i]
  <2>1. AllValues # <<>> /\ entry.numValues # 0 /\ i \in DOMAIN AllValues
    BY <1>2, <1>4
  <2>2. /\ EntryKeeps(entry, stats, FirstValues(Len(AllValues)))
        /\ EntryShape(entry, FirstValues(Len(AllValues)))
        /\ AllValues[i] \in FirstValues(Len(AllValues))
    BY <1>1, <2>1, DecidedKeeps
  <2>3. CASE entry.bpv = 0
    <3>1. stats.min >= stats.max
      <4>1. 0 \notin CodecWidths
        BY Widths
      <4> QED
        BY <2>2, <2>3, <4>1 DEF EntryKeeps
    <3>2. entry.min = AllValues[i]
      BY <2>2, <3>1 DEF EntryKeeps
    <3>3. BlockKind = "constant"
      BY <2>1, <2>3 DEF BlockKind
    <3> QED
      BY <3>2, <3>3 DEF DecodeValue
  <2>4. CASE entry.bpv # 0
    <3>1. entry.bpv > 0
      BY <2>2, <2>4, Widths DEF EntryShape
    <3>2. Keeps(entry, AllValues[i]) /\ entry.bpv \in CodecWidths
      BY <1>1, <2>1, <3>1, StoredNumbers
    <3>3. PICK u \in Nat : /\ Unsigned(Packed(entry, AllValues[i])) = u /\ u < Pow2[entry.bpv]
                           /\ MadeOf(entry, u) = AllValues[i]
      BY <3>2 DEF Keeps
    <3>4. payload[i] = Packed(entry, AllValues[i])
      BY <1>1, <2>1, <3>1 DEF PackedValues
    <3>5. Unpacked(payload[i]) = u
      <4>1. PICK m \in Positive : m = Pow2[entry.bpv]
        <5>1. PICK w \in Nat : w = entry.bpv
          BY <3>2, Widths
        <5>2. Pow2[w] \in Positive
          BY PowerAt
        <5> QED
          BY <5>1, <5>2
      <4>2. u \in 0 .. m - 1
        BY <3>3, <4>1 DEF Positive
      <4>3. (m * 0 + u) % m = u
        BY <4>2, ModUnique
      <4>4. m * 0 + u = u
        BY DEF Positive
      <4> QED
        BY <3>3, <3>4, <4>1, <4>3, <4>4 DEF Unpacked
    <3>6. CASE entry.table # <<>>
      BY <2>1, <2>4, <3>3, <3>5, <3>6 DEF BlockKind, DecodeValue, MadeOf
    <3>7. CASE entry.table = <<>>
      <4>1. Wrap(entry.min + entry.gcd * u) = AllValues[i]
        BY <3>3, <3>7 DEF MadeOf
      <4>2. CASE entry.gcd # 1
        BY <2>1, <2>4, <3>5, <3>7, <4>1, <4>2 DEF BlockKind, DecodeValue
      <4>3. CASE entry.gcd = 1
        <5>1. entry.gcd * u = u
          BY <4>3
        <5>2. Wrap(entry.min + u) = AllValues[i]
          BY <4>1, <5>1
        <5>3. CASE entry.min # 0
          BY <2>1, <2>4, <3>5, <3>7, <4>3, <5>2, <5>3 DEF BlockKind, DecodeValue
        <5>4. CASE entry.min = 0
          <6>1. entry.min + u = u
            BY <5>4
          <6>2. Wrap(u) = AllValues[i]
            BY <5>2, <6>1
          <6> QED
            BY <2>1, <2>4, <3>5, <3>7, <4>3, <5>4, <6>2 DEF BlockKind, DecodeValue
        <5> QED
          BY <5>3, <5>4
      <4> QED
        BY <4>2, <4>3
    <3> QED
      BY <3>6, <3>7
  <2> QED
    BY <2>3, <2>4
<1> QED
  BY <1>3, <1>4, <1>5
\* The docs of an accepted call, and what the entry says of them.
LEMMA AcceptedDocs ==
    ASSUME CodecAssumption, call \in Inputs, Accepted
    PROVE  /\ call.lane = "chunks" => Len(AllValues) = CodecDocs /\ call.docs = <<>>
           /\ call.lane # "chunks" => Ascends(call.docs, CodecDocs) /\ Len(call.docs) = Len(AllValues)
           /\ DocsWithField = -2 => NumDocsWithValue = 0
           /\ DocsWithField = -1 => NumDocsWithValue = CodecDocs
           /\ DocsWithField = 0 => NumDocsWithValue # 0 /\ NumDocsWithValue # CodecDocs
           /\ DocsWithField \in {-2, -1, 0}
  BY CallFacts, Widths DEF Accepted, Ascends, DocsWithField

LEMMA CountsFit ==
    ASSUME CodecAssumption, CodecIInv, phase \in {"written", "read"} PROVE CountFits
<1>1. Begun /\ call \in Inputs
  BY DEF CodecIInv, Unbegun, Decided
<1>2. /\ entry.docsWithField = DocsWithField /\ entry.numValues = Len(AllValues) /\ Accepted
      /\ entry.docs = IF DocsWithField = 0 THEN call.docs ELSE <<>>
  BY <1>1 DEF Begun
<1>3. CASE DocsWithField = -2
  BY <1>2, <1>3 DEF CountFits
<1>4. CASE DocsWithField = -1
  <2>1. NumDocsWithValue = CodecDocs
    BY <1>1, <1>2, <1>4, AcceptedDocs
  <2>2. Len(AllValues) = CodecDocs
    BY <1>1, <1>2, <2>1, AcceptedDocs DEF NumDocsWithValue
  <2> QED
    BY <1>2, <1>4, <2>2 DEF CountFits
<1>5. CASE DocsWithField = 0
  <2>1. NumDocsWithValue # CodecDocs
    BY <1>1, <1>2, <1>5, AcceptedDocs
  <2>2. call.lane # "chunks"
    BY <1>1, <1>2, <2>1, AcceptedDocs DEF NumDocsWithValue
  <2>3. Len(call.docs) = Len(AllValues)
    BY <1>1, <1>2, <2>2, AcceptedDocs
  <2> QED
    BY <1>2, <1>5, <2>3 DEF CountFits
<1> QED
  BY <1>1, <1>2, <1>3, <1>4, <1>5, AcceptedDocs

\* Where every document has a value, they are in order.
LEMMA DenseDocs ==
    ASSUME CodecAssumption, call \in Inputs, Accepted, DocsWithField = -1
    PROVE  /\ Len(AllValues) = CodecDocs /\ DOMAIN SentDocs = 1 .. CodecDocs
           /\ \A i \in 1 .. CodecDocs : SentDocs[i] = i - 1
<1>1. NumDocsWithValue = CodecDocs
  BY AcceptedDocs
<1>2. Len(AllValues) = CodecDocs
  BY <1>1, AcceptedDocs DEF NumDocsWithValue
<1>3. CASE call.lane = "chunks"
  BY <1>2, <1>3 DEF SentDocs
<1>4. CASE call.lane # "chunks"
  <2>1. Ascends(call.docs, CodecDocs) /\ Len(call.docs) = CodecDocs
    BY <1>2, <1>4, AcceptedDocs
  <2>2. \A i \in 1 .. CodecDocs : call.docs[i] = i - 1
    BY <2>1, AllDocsAscend
  <2>3. DOMAIN call.docs = 1 .. CodecDocs
    BY <2>1, AscendsFar
  <2> QED
    BY <1>2, <1>4, <2>2, <2>3 DEF SentDocs
<1> QED
  BY <1>3, <1>4

LEMMA EveryDocReadsBack ==
    ASSUME CodecAssumption, CodecIInv, phase = "read" PROVE ReadsBack
<1>1. Begun /\ call \in Inputs /\ column = DecodesTo
  BY DEF CodecIInv, Unbegun, Decided
<1>2. /\ entry.docsWithField = DocsWithField /\ Accepted
      /\ entry.docs = IF DocsWithField = 0 THEN call.docs ELSE <<>>
  BY <1>1 DEF Begun
<1>3. \A i \in 1 .. Len(AllValues) : DecodedValues[i] = AllValues[i]
  BY DecodesEveryValue
<1>4. CodecDocs \in Nat
  BY Widths
<1> SUFFICES ASSUME NEW d \in 0 .. CodecDocs - 1
             PROVE  IF d \in Range(SentDocs)
                    THEN column[d] = [valid |-> TRUE,
                                      v |-> AllValues[CHOOSE i \in DOMAIN SentDocs : SentDocs[i] = d]]
                    ELSE ~ column[d].valid
  BY DEF ReadsBack
<1>5. CASE DocsWithField = -2
  <2>1. ~ column[d].valid
    BY <1>1, <1>2, <1>5 DEF DecodesTo
  <2>2. NumDocsWithValue = 0 /\ CodecDocs # 0
    BY <1>1, <1>2, <1>4, <1>5, AcceptedDocs
  <2>3. call.lane # "chunks"
    BY <1>1, <1>2, <2>2, AcceptedDocs DEF NumDocsWithValue
  <2>4. SentDocs = call.docs /\ Ascends(call.docs, CodecDocs)
    BY <1>1, <1>2, <2>3, AcceptedDocs DEF SentDocs
  <2>5. Len(call.docs) = 0
    BY <2>2 DEF NumDocsWithValue
  <2>6. DOMAIN call.docs = {}
    BY <2>4, <2>5, AscendsFar
  <2> QED
    BY <2>1, <2>4, <2>6 DEF Range
<1>6. CASE DocsWithField = -1
  <2>1. column[d] = [valid |-> TRUE, v |-> DecodedValues[d + 1]]
    BY <1>1, <1>2, <1>6 DEF DecodesTo
  <2>2. /\ Len(AllValues) = CodecDocs /\ DOMAIN SentDocs = 1 .. CodecDocs
        /\ \A i \in 1 .. CodecDocs : SentDocs[i] = i - 1
    BY <1>1, <1>2, <1>6, DenseDocs
  <2>3. d + 1 \in 1 .. CodecDocs /\ SentDocs[d + 1] = d
    BY <1>4, <2>2
  <2>4. \A i \in DOMAIN SentDocs : SentDocs[i] = d => i = d + 1
    BY <1>4, <2>2
  <2>5. (CHOOSE i \in DOMAIN SentDocs : SentDocs[i] = d) = d + 1 /\ d \in Range(SentDocs)
    BY <2>2, <2>3, <2>4 DEF Range
  <2>6. DecodedValues[d + 1] = AllValues[d + 1]
    BY <1>3, <2>2, <2>3
  <2> QED
    BY <2>1, <2>5, <2>6
<1>7. CASE DocsWithField = 0
  <2>1. NumDocsWithValue # 0 /\ NumDocsWithValue # CodecDocs
    BY <1>1, <1>2, <1>7, AcceptedDocs
  <2>2. call.lane # "chunks"
    BY <1>1, <1>2, <2>1, AcceptedDocs DEF NumDocsWithValue
  <2>3. SentDocs = call.docs /\ Ascends(call.docs, CodecDocs) /\ Len(call.docs) = Len(AllValues)
    BY <1>1, <1>2, <2>2, AcceptedDocs DEF SentDocs
  <2>4. column[d] = IF d \in Range(SentDocs)
                    THEN [valid |-> TRUE,
                          v |-> DecodedValues[Cardinality({e \in Range(SentDocs) : e =< d})]]
                    ELSE [valid |-> FALSE, v |-> 0]
    BY <1>1, <1>2, <1>7, <2>3 DEF DecodesTo
  <2>5. CASE d \notin Range(SentDocs)
    BY <2>4, <2>5
  <2>6. CASE d \in Range(SentDocs)
    <3>1. PICK i \in 1 .. Len(SentDocs) : SentDocs[i] = d
      BY <2>3, <2>6, AscendsFar DEF Range
    <3>2. /\ DOMAIN SentDocs = 1 .. Len(SentDocs) /\ Len(SentDocs) \in Nat
          /\ \A j, k \in 1 .. Len(SentDocs) : j < k => SentDocs[j] < SentDocs[k]
          /\ \A j \in 1 .. Len(SentDocs) : SentDocs[j] \in 0 .. CodecDocs - 1
      BY <2>3, AscendsFar
    <3>3. \A j \in 1 .. Len(SentDocs) : SentDocs[j] = d => j = i
      BY <1>4, <3>1, <3>2
    <3>4. (CHOOSE j \in DOMAIN SentDocs : SentDocs[j] = d) = i
      BY <3>1, <3>2, <3>3
    <3>5. Cardinality({e \in Range(SentDocs) : e =< d}) = i
      BY <2>3, <3>1, PlaceOfDoc
    <3>6. DecodedValues[i] = AllValues[i]
      BY <1>3, <2>3, <3>1
    <3> QED
      BY <2>4, <2>6, <3>4, <3>5, <3>6
  <2> QED
    BY <2>5, <2>6
<1> QED
  BY <1>1, <1>2, <1>5, <1>6, <1>7, AcceptedDocs

LEMMA CodecTyped == ASSUME CodecAssumption, CodecIInv PROVE CodecTypeOK
<1>1. /\ phase \in Unbegun \cup {"stats"} \cup Decided /\ call \in Inputs
      /\ WidthAssumption /\ 0 \in Int64
  BY Widths, Int64AreInts DEF CodecIInv
<1>2. PICK high \in Nat : high = High
  BY <1>1, Ranges DEF Positive
<1>3. payload \in Seq(Int64)
  BY PayloadFits
<1>4. TableLimit \in Nat /\ 0 =< TableLimit
  BY <1>1 DEF WidthAssumption
<1>5. CASE phase \in Unbegun
  <2>1. stats = NoStats /\ entry = NoEntry
    BY <1>5 DEF CodecIInv
  <2>2. entry.docsWithField = -2 /\ entry.bpv = 0 /\ entry.min = 0 /\ entry.gcd = 0
        /\ Len(entry.table) = 0 /\ stats.gcd = 0
    BY <2>1 DEF NoStats, StatsOfFirst, NoEntry
  <2> QED
    BY <1>1, <1>2, <1>3, <1>4, <1>5, <2>2 DEF CodecTypeOK, Unbegun, Decided
<1>6. CASE phase \notin Unbegun
  <2>1. Begun
    BY <1>6 DEF CodecIInv
  <2>2. entry.docsWithField \in {-2, -1, 0}
    BY <1>1, <2>1, AcceptedDocs DEF Begun
  <2>3. CASE NoLayout(entry)
    <3>1. entry.bpv = 0 /\ entry.min = 0 /\ entry.gcd = 0 /\ Len(entry.table) = 0
      BY <2>3 DEF NoLayout
    <3>2. stats.gcd \in 0 .. High
      <4>1. CASE phase = "stats"
        <5>1. Scanned(taken)
          BY <4>1 DEF CodecIInv
        <5> QED
          BY <5>1 DEF Scanned, Summarises, GcdIs
      <4>2. CASE phase # "stats"
        <5>1. phase \in Decided
          BY <1>1, <1>6, <4>2
        <5>2. CASE AllValues = <<>>
          <6>1. stats = NoStats
            BY <5>1, <5>2 DEF CodecIInv
          <6>2. stats.gcd = 0
            BY <6>1 DEF NoStats, StatsOfFirst
          <6> QED
            BY <1>2, <6>2
        <5>3. CASE AllValues # <<>>
          <6>1. Summarises(stats, FirstValue, FirstValues(Len(AllValues)))
            BY <5>1, <5>3, DecidedKeeps
          <6> QED
            BY <6>1 DEF Summarises, GcdIs
        <5> QED
          BY <5>2, <5>3
      <4> QED
        BY <4>1, <4>2
    <3> QED
      BY <1>1, <1>3, <1>4, <1>6, <2>2, <3>1, <3>2 DEF CodecTypeOK, Unbegun, Decided
  <2>4. CASE ~ NoLayout(entry)
    <3>1. phase \in Decided /\ AllValues # <<>>
      BY <1>1, <1>6, <2>4 DEF CodecIInv
    <3>2. PICK S \in SUBSET Int64 : EntryShape(entry, S) /\ Summarises(stats, FirstValue, S)
      BY <3>1, DecidedKeeps
    <3>3. stats.gcd \in 0 .. High
      BY <3>2 DEF Summarises, GcdIs
    <3>4. entry.bpv \in CodecWidths \cup {0} /\ entry.min \in Int64 /\ entry.gcd \in Int64
      BY <3>2 DEF EntryShape
    <3>5. Len(entry.table) =< TableLimit
      <4>1. CASE entry.table = <<>>
        BY <1>4, <4>1
      <4>2. CASE entry.table # <<>>
        <5>1. entry.table = InOrder(S) /\ Cardinality(S) =< TableLimit
          BY <3>2, <4>2 DEF EntryShape
        <5>2. S \in SUBSET Int /\ IsFiniteSet(S)
          BY <1>1, Int64AreInts, Int64Counts
        <5> QED
          BY <5>1, <5>2, IntsInOrder
      <4> QED
        BY <4>1, <4>2
    <3> QED
      BY <1>1, <1>3, <2>2, <3>1, <3>3, <3>4, <3>5 DEF CodecTypeOK, Decided
  <2> QED
    BY <2>3, <2>4
<1> QED
  BY <1>5, <1>6

LEMMA CodecIsExact == ASSUME CodecAssumption, CodecIInv PROVE StatsAreExact
<1> SUFFICES ASSUME phase \in Decided, entry.numValues > 0 PROVE stats = StatsOf(AllValues)
  BY DEF StatsAreExact, Decided
<1>1. Begun /\ call \in Inputs
  BY DEF CodecIInv, Unbegun, Decided
<1>2. Len(AllValues) > 0
  BY <1>1 DEF Begun
<1>3. PICK vs \in Seq(Int64) : vs = AllValues /\ vs # <<>>
  BY <1>1, <1>2, CallFacts
<1>4. PICK S : /\ S = {vs[k] : k \in DOMAIN vs}
               /\ Summarises(stats, vs[1], S)
  <2>1. FirstValues(Len(AllValues)) = {vs[k] : k \in DOMAIN vs}
    BY <1>3 DEF FirstValues
  <2> QED
    BY <1>3, <2>1, DecidedKeeps
<1>5. stats = StatsOf(vs)
  BY <1>3, <1>4, Widths, SummaryIsStats
<1> QED
  BY <1>3, <1>5

LEMMA CodecIsNarrow == ASSUME CodecAssumption, CodecIInv PROVE NarrowPlansNeverWrap
<1> SUFFICES ASSUME phase = "pack", entry.table = <<>>, ~ (entry.bpv = W /\ entry.gcd = 1),
                    NEW i \in DOMAIN AllValues
             PROVE  AllValues[i] - entry.min \in Int64
  BY DEF NarrowPlansNeverWrap
<1>1. entry.bpv > 0 /\ phase \in Decided /\ AllValues # <<>>
  BY DEF CodecIInv, Decided
<1>2. Keeps(entry, AllValues[i])
  BY <1>1, StoredNumbers
<1> QED
  BY <1>2 DEF Keeps

LEMMA CodecRoundTrips == ASSUME CodecAssumption, CodecIInv PROVE RoundTrip
  BY CountsFit, PayloadFits, EveryDocReadsBack DEF RoundTrip

-----------------------------------------------------------------------------
(* The theorems.                                                           *)

LEMMA CodecInvariant == ASSUME CodecAssumption PROVE CodecSpec => []CodecIInv
  BY CodecBegins, CodecStep, PTL DEF CodecSpec

(* At every step of the writer and of the reader the entry has a width of the
   format, a base and a divisor of W bits and a table within its limit, and
   the payload numbers of W bits (write_values, numeric_entry_into_plan). *)
THEOREM CodecTypeCorrect == ASSUME CodecAssumption PROVE CodecSpec => []CodecTypeOK
  BY CodecInvariant, CodecTyped, PTL

(* The statistics of the loop, over any split into chunks, are the least, the
   greatest, the greatest common divisor and the distinct values of the
   concatenation ("MUST equal stats(concat)", write.rs:51). *)
THEOREM StatisticsAreExact == ASSUME CodecAssumption PROVE CodecSpec => []StatsAreExact
  BY CodecInvariant, CodecIsExact, PTL

(* No layout but the full width with divisor 1 subtracts past W bits ("real
   plans never wrap", gpu/src/encode.rs:147). *)
THEOREM RealPlansNeverWrap == ASSUME CodecAssumption PROVE CodecSpec => []NarrowPlansNeverWrap
  BY CodecInvariant, CodecIsNarrow, PTL

(* For any width of integers, any values and any documents: what the writer
   puts down in whichever layout it picks, the reader opens, every number fits
   its bits, and every document reads back the value it was sent (write_values
   against numeric_entry_into_plan, decode_block and decode_numeric). *)
THEOREM NumbersReadBack == ASSUME CodecAssumption PROVE CodecSpec => []RoundTrip
  BY CodecInvariant, CodecRoundTrips, PTL
=============================================================================
