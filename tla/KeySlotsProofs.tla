---- MODULE KeySlotsProofs ----
(***************************************************************************)
(* Proofs about KeySlots, for any fan-out, slice width, bytes, keys and    *)
(* endpoints: the comparisons of the code are the order of strings, and    *)
(* the permutation word lists the keys in that order through insertions,   *)
(* deletions and splits.                                                   *)
(***************************************************************************)
EXTENDS KeySlots, PermutationProofs, SequenceTheorems, FiniteSetTheorems

-----------------------------------------------------------------------------
(* The order of slices.                                                    *)

Slices == [1 .. W -> Nat]

\* At byte i the slice a is less than b, and before it they are the same.
FirstLess(a, b, i) == a[i] < b[i] /\ \A j \in 1 .. i - 1 : a[j] = b[j]
SliceLess(a, b) == \E i \in 1 .. W : FirstLess(a, b, i)

\* What every comparison of keys comes to: the slices, then the lengths.
Lex(a, m, b, n) == SliceLess(a, b) \/ (a = b /\ m < n)

\* A slice is its bytes.
LEMMA SliceBytes ==
    ASSUME NEW a \in Slices, NEW b \in Slices, \A i \in 1 .. W : a[i] = b[i]
    PROVE  a = b
<1>1. a = [i \in 1 .. W |-> a[i]] /\ b = [i \in 1 .. W |-> b[i]]
  BY DEF Slices
<1>2. [i \in 1 .. W |-> a[i]] = [i \in 1 .. W |-> b[i]]
  OBVIOUS
<1> QED BY <1>1, <1>2

\* Slices that are not the same differ first at some byte.
LEMMA FirstDifference ==
    ASSUME NEW a \in Slices, NEW b \in Slices, NEW n \in 0 .. W,
           \E i \in 1 .. n : a[i] # b[i]
    PROVE  \E i \in 1 .. n : a[i] # b[i] /\ \A j \in 1 .. i - 1 : a[j] = b[j]
<1> DEFINE D == {i \in 1 .. n : a[i] # b[i]}
<1>1. W \in Nat /\ D \in SUBSET Nat /\ D # {}
  BY KeyAssumption
<1>2. PICK i \in D : \A j \in D : i <= j
  <2> HIDE DEF D
  <2> QED BY <1>1, Least
<1>3. \A j \in 1 .. i - 1 : a[j] = b[j]
  BY <1>1, <1>2
<1> QED BY <1>2, <1>3

\* memcmp finds the first difference.
LEMMA Memcmp ==
    ASSUME NEW a \in Slices, NEW b \in Slices, NEW n \in 0 .. W
    PROVE  /\ memcmp(a, b, n) \in Int
           /\ memcmp(a, b, n) = 0 <=> \A i \in 1 .. n : a[i] = b[i]
           /\ memcmp(a, b, n) < 0 <=> \E i \in 1 .. n : FirstLess(a, b, i)
           /\ memcmp(a, b, n) > 0 <=> \E i \in 1 .. n : FirstLess(b, a, i)
<1> DEFINE D == {i \in 1 .. n : a[i] # b[i]}
           i == CHOOSE x \in D : \A y \in D : x <= y
<1>1. W \in Nat /\ n \in Nat /\ \A j \in 1 .. n : a[j] \in Nat /\ b[j] \in Nat
  BY KeyAssumption DEF Slices
<1>2. memcmp(a, b, n) = IF D = {} THEN 0 ELSE IF a[i] < b[i] THEN -1 ELSE 1
  BY DEF memcmp
<1>3. CASE D = {}
  <2>1. \A j \in 1 .. n : a[j] = b[j]
    BY <1>3
  <2>2. \A j \in 1 .. n : ~FirstLess(a, b, j) /\ ~FirstLess(b, a, j)
    BY <1>1, <2>1 DEF FirstLess
  <2> QED BY <1>2, <1>3, <2>1, <2>2
<1>4. CASE D # {}
  <2>1. D \in SUBSET Nat
    BY <1>1
  <2>2. \E x \in D : \A y \in D : x <= y
    <3> HIDE DEF D
    <3> QED BY <1>4, <2>1, Least
  <2>3. i \in D /\ \A y \in D : i <= y
    <3> HIDE DEF D
    <3> QED BY <2>2
  <2>4. i \in 1 .. n /\ a[i] # b[i] /\ a[i] \in Nat /\ b[i] \in Nat
    BY <1>1, <2>3
  <2>5. \A j \in 1 .. i - 1 : a[j] = b[j]
    BY <1>1, <2>3, <2>4
  <2>6. memcmp(a, b, n) = IF a[i] < b[i] THEN -1 ELSE 1
    BY <1>2, <1>4
  <2> HIDE DEF i, D
  <2>7. FirstLess(a, b, i) <=> a[i] < b[i]
    BY <2>5 DEF FirstLess
  <2>8. FirstLess(b, a, i) <=> ~(a[i] < b[i])
    BY <2>4, <2>5 DEF FirstLess
  <2>9. \A j \in 1 .. n : FirstLess(a, b, j) \/ FirstLess(b, a, j) => j = i
    <3> SUFFICES ASSUME NEW j \in 1 .. n, FirstLess(a, b, j) \/ FirstLess(b, a, j), j # i
                 PROVE  FALSE
      OBVIOUS
    <3>1. a[j] # b[j]
      BY <1>1 DEF FirstLess
    <3>2. CASE j < i
      BY <1>1, <2>4, <2>5, <3>1, <3>2
    <3>3. CASE i < j
      BY <1>1, <2>4, <3>3 DEF FirstLess
    <3> QED BY <1>1, <2>4, <3>2, <3>3
  <2> QED BY <2>4, <2>6, <2>7, <2>8, <2>9
<1> QED BY <1>3, <1>4

\* The order of slices is strict and total.
LEMMA SliceOrder ==
    ASSUME NEW a \in Slices, NEW b \in Slices
    PROVE  /\ ~SliceLess(a, a)
           /\ SliceLess(a, b) => ~SliceLess(b, a) /\ a # b
           /\ SliceLess(a, b) \/ a = b \/ SliceLess(b, a)
           /\ \A c \in Slices : SliceLess(a, b) /\ SliceLess(b, c) => SliceLess(a, c)
<1>1. W \in Nat /\ \A j \in 1 .. W : a[j] \in Nat /\ b[j] \in Nat
  BY KeyAssumption DEF Slices
<1>2. ~SliceLess(a, a)
  BY <1>1 DEF SliceLess, FirstLess
<1>3. ASSUME SliceLess(a, b), SliceLess(b, a) PROVE FALSE
  <2>1. PICK i \in 1 .. W : FirstLess(a, b, i)
    BY <1>3 DEF SliceLess
  <2>2. PICK j \in 1 .. W : FirstLess(b, a, j)
    BY <1>3 DEF SliceLess
  <2>3. i < j \/ i = j \/ j < i
    BY <1>1
  <2> QED BY <1>1, <2>1, <2>2, <2>3 DEF FirstLess
<1>4. ASSUME a # b PROVE SliceLess(a, b) \/ SliceLess(b, a)
  <2>1. \E i \in 1 .. W : a[i] # b[i]
    BY <1>4, SliceBytes
  <2>2. PICK i \in 1 .. W : a[i] # b[i] /\ \A j \in 1 .. i - 1 : a[j] = b[j]
    BY <1>1, <2>1, FirstDifference
  <2>3. a[i] < b[i] \/ b[i] < a[i]
    BY <1>1, <2>2
  <2> QED BY <2>2, <2>3 DEF SliceLess, FirstLess
<1>5. ASSUME NEW c \in Slices, SliceLess(a, b), SliceLess(b, c) PROVE SliceLess(a, c)
  <2>1. PICK i \in 1 .. W : FirstLess(a, b, i)
    BY <1>5 DEF SliceLess
  <2>2. PICK j \in 1 .. W : FirstLess(b, c, j)
    BY <1>5 DEF SliceLess
  <2>3. \A l \in 1 .. W : c[l] \in Nat
    BY DEF Slices
  <2>4. CASE i <= j
    <3>1. a[i] < c[i]
      BY <1>1, <2>1, <2>2, <2>3, <2>4 DEF FirstLess
    <3>2. \A l \in 1 .. i - 1 : a[l] = c[l]
      BY <1>1, <2>1, <2>2, <2>4 DEF FirstLess
    <3> QED BY <3>1, <3>2 DEF SliceLess, FirstLess
  <2>5. CASE j < i
    <3>1. a[j] < c[j]
      BY <1>1, <2>1, <2>2, <2>3, <2>5 DEF FirstLess
    <3>2. \A l \in 1 .. j - 1 : a[l] = c[l]
      BY <1>1, <2>1, <2>2, <2>5 DEF FirstLess
    <3> QED BY <3>1, <3>2 DEF SliceLess, FirstLess
  <2> QED BY <1>1, <2>4, <2>5
<1> QED BY <1>2, <1>3, <1>4, <1>5

\* A slice that is zero from some byte on is less than any other that is the same
\* up to there.
LEMMA ZeroTail ==
    ASSUME NEW a \in Slices, NEW b \in Slices, NEW m \in 0 .. W,
           \A i \in 1 .. m : a[i] = b[i],
           \A i \in 1 .. W : i > m => a[i] = 0
    PROVE  SliceLess(a, b) \/ a = b
<1> SUFFICES ASSUME a # b PROVE SliceLess(a, b)
  OBVIOUS
<1>1. W \in Nat /\ \A j \in 1 .. W : a[j] \in Nat /\ b[j] \in Nat
  BY KeyAssumption DEF Slices
<1>2. \E i \in 1 .. W : a[i] # b[i]
  BY SliceBytes
<1>3. PICK i \in 1 .. W : a[i] # b[i] /\ \A j \in 1 .. i - 1 : a[j] = b[j]
  BY <1>1, <1>2, FirstDifference
<1>4. i > m
  BY <1>1, <1>3
<1>5. a[i] < b[i]
  BY <1>1, <1>3, <1>4
<1> QED BY <1>3, <1>5 DEF SliceLess, FirstLess

-----------------------------------------------------------------------------
(* The order of strings and keys.                                          *)

\* The bytes of a slice are those of the string, then zeros.
LEMMA SliceIs ==
    ASSUME NEW s \in Seq(Nat)
    PROVE  /\ Slice(s) \in Slices /\ Len(s) \in Nat
           /\ \A i \in 1 .. Len(s) : s[i] \in Nat
           /\ \A i \in 1 .. W : Slice(s)[i] = IF i <= Len(s) THEN s[i] ELSE 0
<1>1. Len(s) \in Nat /\ W \in Nat /\ \A i \in 1 .. Len(s) : s[i] \in Nat
  BY KeyAssumption
<1>2. \A i \in 1 .. W : Slice(s)[i] = IF i <= Len(s) THEN s[i] ELSE 0
  BY DEF Slice
<1>3. \A i \in 1 .. W : Slice(s)[i] \in Nat
  BY <1>1, <1>2
<1>4. Slice(s) = [i \in 1 .. W |-> Slice(s)[i]]
  BY DEF Slice
<1> QED BY <1>1, <1>2, <1>3, <1>4 DEF Slices

\* If no byte behind the slices decides, the order of two strings is that of their
\* slices and lengths.
LEMMA StringOrder ==
    ASSUME NEW s \in Seq(Nat), NEW t \in Seq(Nat),
           \/ Len(s) <= W \/ Len(t) <= W
           \/ Len(s) = W + 1 /\ Len(t) = W + 1 /\ s[W + 1] = t[W + 1]
    PROVE  Less(s, t) <=> Lex(Slice(s), Len(s), Slice(t), Len(t))
<1> DEFINE a == Slice(s)
           b == Slice(t)
           m == Len(s)
           n == Len(t)
<1>1. W \in Nat /\ m \in Nat /\ n \in Nat /\ a \in Slices /\ b \in Slices
  BY SliceIs, KeyAssumption
<1>2. /\ \A i \in 1 .. m : s[i] \in Nat
      /\ \A i \in 1 .. n : t[i] \in Nat
      /\ \A i \in 1 .. W : a[i] = IF i <= m THEN s[i] ELSE 0
      /\ \A i \in 1 .. W : b[i] = IF i <= n THEN t[i] ELSE 0
  BY SliceIs
<1>3. Less(s, t) <=> \E i \in 1 .. n : /\ \A j \in 1 .. i - 1 : j \in 1 .. m /\ s[j] = t[j]
                                       /\ i \in 1 .. m => s[i] < t[i]
  <2>1. DOMAIN s = 1 .. m /\ DOMAIN t = 1 .. n
    OBVIOUS
  <2> HIDE DEF m, n
  <2> QED BY <2>1 DEF Less
<1>4. \/ m <= W \/ n <= W
      \/ m = W + 1 /\ n = W + 1 /\ s[W + 1] = t[W + 1]
  OBVIOUS
<1> HIDE DEF a, b, m, n
<1>5. ASSUME Less(s, t) PROVE Lex(a, m, b, n)
  <2>1. PICK i \in 1 .. n : /\ \A j \in 1 .. i - 1 : j \in 1 .. m /\ s[j] = t[j]
                            /\ i \in 1 .. m => s[i] < t[i]
    BY <1>3, <1>5
  <2>2. CASE i <= W /\ i <= m
    <3>1. a[i] < b[i]
      BY <1>1, <1>2, <2>1, <2>2
    <3>2. \A j \in 1 .. i - 1 : a[j] = b[j]
      BY <1>1, <1>2, <2>1, <2>2
    <3> QED BY <1>1, <2>2, <3>1, <3>2 DEF Lex, SliceLess, FirstLess
  <2>3. CASE i <= W /\ i > m
    <3>1. m = i - 1
      <4>1. i - 1 = 0 \/ i - 1 \in 1 .. m
        BY <1>1, <2>1, SMTT(40)
      <4> QED BY <1>1, <2>3, <4>1
    <3>2. \A j \in 1 .. m : a[j] = b[j]
      BY <1>1, <1>2, <2>1, <2>3, <3>1
    <3>3. \A j \in 1 .. W : j > m => a[j] = 0
      BY <1>1, <1>2
    <3>4. SliceLess(a, b) \/ a = b
      <4>1. m \in 0 .. W
        BY <1>1, <2>3, <3>1
      <4> QED BY <1>1, <3>2, <3>3, <4>1, ZeroTail
    <3> QED BY <1>1, <2>1, <2>3, <3>4 DEF Lex
  <2>4. CASE i > W
    <3>1. \A j \in 1 .. W : a[j] = b[j]
      BY <1>1, <1>2, <2>1, <2>4
    <3>2. a = b
      BY <1>1, <3>1, SliceBytes
    <3>3. m < n
      <4>1. CASE i \in 1 .. m
        <5>1. m = W + 1 /\ n = W + 1 /\ s[W + 1] = t[W + 1]
          BY <1>1, <1>4, <2>1, <2>4, <4>1
        <5>2. i = W + 1
          BY <1>1, <2>4, <4>1, <5>1
        <5> QED BY <1>1, <1>2, <2>1, <4>1, <5>1, <5>2
      <4> QED BY <1>1, <4>1
    <3> QED BY <3>2, <3>3 DEF Lex
  <2> QED BY <1>1, <2>2, <2>3, <2>4
<1>6. ASSUME Lex(a, m, b, n) PROVE Less(s, t)
  <2>1. ASSUME m + 1 <= n, \A j \in 1 .. m : s[j] = t[j]
        PROVE  Less(s, t)
    <3>1. m + 1 \in 1 .. n /\ m + 1 \notin 1 .. m /\ \A j \in 1 .. (m + 1) - 1 : j \in 1 .. m
      BY <1>1, <2>1
    <3> QED BY <1>3, <2>1, <3>1
  <2>2. CASE SliceLess(a, b)
    <3>1. PICK i \in 1 .. W : FirstLess(a, b, i)
      BY <2>2 DEF SliceLess
    <3>2. a[i] < b[i] /\ \A j \in 1 .. i - 1 : a[j] = b[j]
      BY <3>1 DEF FirstLess
    <3>3. a[i] \in Nat /\ b[i] \in Nat
      BY <1>1 DEF Slices
    <3>4. i <= n
      BY <1>1, <1>2, <3>2, <3>3
    <3>5. CASE i <= m + 1
      <4>1. \A j \in 1 .. i - 1 : j \in 1 .. m /\ s[j] = t[j]
        BY <1>1, <1>2, <3>2, <3>4, <3>5
      <4>2. i \in 1 .. m => s[i] < t[i]
        BY <1>1, <1>2, <3>2, <3>4
      <4>3. i \in 1 .. n
        BY <1>1, <3>4
      <4> QED BY <1>3, <4>1, <4>2, <4>3
    <3>6. CASE i > m + 1
      <4>1. \A j \in 1 .. m : s[j] = t[j]
        BY <1>1, <1>2, <3>2, <3>4, <3>6
      <4> QED BY <1>1, <2>1, <3>4, <3>6, <4>1
    <3> QED BY <1>1, <3>5, <3>6
  <2>3. CASE a = b /\ m < n
    <3>1. \A j \in 1 .. m : s[j] = t[j]
      BY <1>1, <1>2, <1>4, <2>3
    <3> QED BY <1>1, <2>1, <2>3, <3>1
  <2> QED BY <1>6, <2>2, <2>3 DEF Lex
<1>7. Less(s, t) <=> Lex(a, m, b, n)
  BY <1>5, <1>6
<1> QED BY <1>7 DEF a, b, m, n

\* The keys of a layer: a slice, zero behind the length, and the length, W + 1
\* for a link.
Key ==
    {k \in [ks : [1 .. W -> Byte], kl : 0 .. W + 1] :
        \A i \in 1 .. W : i > k.kl => k.ks[i] = 0}

\* The parts of a key, and its string.
LEMMA KeyFacts ==
    ASSUME NEW k \in Key
    PROVE  /\ k = [ks |-> k.ks, kl |-> k.kl]
           /\ k.ks \in Slices /\ k.kl \in 0 .. W + 1 /\ W \in Nat /\ W >= 1
           /\ \A i \in 1 .. W : i > k.kl => k.ks[i] = 0
           /\ String(k) \in Seq(Nat) /\ Len(String(k)) = k.kl
           /\ k.kl > W => String(k)[W + 1] = 0
           /\ Slice(String(k)) = k.ks
<1>1. W \in Nat /\ W >= 1 /\ Byte \subseteq Nat /\ 0 \in Nat
  BY KeyAssumption
<1>2. /\ k = [ks |-> k.ks, kl |-> k.kl] /\ k.ks \in [1 .. W -> Byte] /\ k.kl \in 0 .. W + 1
      /\ \A i \in 1 .. W : i > k.kl => k.ks[i] = 0
  BY DEF Key
<1>3. k.ks \in Slices
  BY <1>1, <1>2 DEF Slices
<1>4. k.ks \in Seq(Nat) /\ Len(k.ks) = W
  BY <1>1, <1>3 DEF Slices
<1>5. CASE k.kl > W
  <2>1. String(k) = Append(k.ks, 0) /\ k.kl = W + 1
    BY <1>1, <1>2, <1>5 DEF String
  <2>2. /\ String(k) \in Seq(Nat) /\ Len(String(k)) = W + 1 /\ String(k)[W + 1] = 0
        /\ \A i \in 1 .. W : String(k)[i] = k.ks[i]
    BY <1>1, <1>4, <2>1
  <2>3. Slice(String(k)) \in Slices /\ \A i \in 1 .. W : Slice(String(k))[i] = k.ks[i]
    BY <1>1, <2>2, SliceIs
  <2> QED BY <1>1, <1>2, <1>3, <2>1, <2>2, <2>3, SliceBytes
<1>6. CASE k.kl <= W
  <2>1. String(k) = SubSeq(k.ks, 1, k.kl)
    BY <1>1, <1>2, <1>6 DEF String
  <2>2. /\ String(k) \in Seq(Nat) /\ Len(String(k)) = k.kl
        /\ \A i \in 1 .. k.kl : String(k)[i] = k.ks[i]
    BY <1>1, <1>2, <1>4, <1>6, <2>1
  <2>3. Slice(String(k)) \in Slices /\ \A i \in 1 .. W : Slice(String(k))[i] = k.ks[i]
    BY <1>1, <1>2, <2>2, SliceIs
  <2> QED BY <1>1, <1>2, <1>3, <1>6, <2>2, <2>3, SliceBytes
<1> QED BY <1>1, <1>2, <1>5, <1>6

\* What put, get and remove search for is a key.
LEMMA KeyOfIsKey ==
    ASSUME NEW v \in Seq(Byte)
    PROVE  KeyOf(v) \in Key
<1>1. W \in Nat /\ W >= 1 /\ Byte \subseteq Nat /\ 0 \in Byte /\ Len(v) \in Nat
  BY KeyAssumption
<1>2. \A i \in 1 .. Len(v) : v[i] \in Byte
  OBVIOUS
<1>3. Slice(v) = [i \in 1 .. W |-> Slice(v)[i]]
  BY DEF Slice
<1>4. \A i \in 1 .. W : Slice(v)[i] = IF i <= Len(v) THEN v[i] ELSE 0
  BY DEF Slice
<1>5. \A i \in 1 .. W : Slice(v)[i] \in Byte
  BY <1>1, <1>2, <1>4
<1>6. Slice(v) \in [1 .. W -> Byte]
  BY <1>3, <1>5
<1> DEFINE n == IF Len(v) > W THEN W + 1 ELSE Len(v)
<1>7. KeyOf(v) = [ks |-> Slice(v), kl |-> n] /\ n \in 0 .. W + 1
  BY <1>1 DEF KeyOf
<1>8. \A i \in 1 .. W : i > n => Slice(v)[i] = 0
  BY <1>1, <1>4
<1> HIDE DEF n
<1>9. KeyOf(v).ks = Slice(v) /\ KeyOf(v).kl = n
  BY <1>7
<1>10. KeyOf(v) \in [ks : [1 .. W -> Byte], kl : 0 .. W + 1]
  BY <1>6, <1>7
<1> QED BY <1>8, <1>9, <1>10 DEF Key

\* Keys are the same if slice and length are.
LEMMA SameKey ==
    ASSUME NEW a \in Key, NEW b \in Key
    PROVE  a = b <=> a.ks = b.ks /\ a.kl = b.kl
BY KeyFacts

\* Keys are in the order of their slices, then lengths.
LEMMA KeyLessIs ==
    ASSUME NEW a \in Key, NEW b \in Key
    PROVE  KeyLess(a, b) <=> Lex(a.ks, a.kl, b.ks, b.kl)
<1>1. /\ String(a) \in Seq(Nat) /\ Len(String(a)) = a.kl /\ Slice(String(a)) = a.ks
      /\ a.kl \in 0 .. W + 1 /\ W \in Nat /\ (a.kl > W => String(a)[W + 1] = 0)
  BY KeyFacts
<1>2. /\ String(b) \in Seq(Nat) /\ Len(String(b)) = b.kl /\ Slice(String(b)) = b.ks
      /\ b.kl \in 0 .. W + 1 /\ (b.kl > W => String(b)[W + 1] = 0)
  BY KeyFacts
<1>3. \/ Len(String(a)) <= W \/ Len(String(b)) <= W
      \/ /\ Len(String(a)) = W + 1 /\ Len(String(b)) = W + 1
         /\ String(a)[W + 1] = String(b)[W + 1]
  BY <1>1, <1>2
<1>4. Less(String(a), String(b))
        <=> Lex(Slice(String(a)), Len(String(a)), Slice(String(b)), Len(String(b)))
  BY <1>1, <1>2, <1>3, StringOrder
<1> QED BY <1>1, <1>2, <1>4 DEF KeyLess

\* The order of keys is strict and total.
LEMMA KeyOrder ==
    ASSUME NEW a \in Key, NEW b \in Key
    PROVE  /\ ~KeyLess(a, a)
           /\ KeyLess(a, b) => ~KeyLess(b, a) /\ a # b
           /\ KeyLess(a, b) \/ a = b \/ KeyLess(b, a)
<1>1. a.ks \in Slices /\ b.ks \in Slices /\ a.kl \in Nat /\ b.kl \in Nat
  BY KeyFacts
<1>2. /\ ~SliceLess(a.ks, a.ks)
      /\ SliceLess(a.ks, b.ks) => ~SliceLess(b.ks, a.ks) /\ a.ks # b.ks
      /\ SliceLess(a.ks, b.ks) \/ a.ks = b.ks \/ SliceLess(b.ks, a.ks)
  BY <1>1, SliceOrder
<1>3. ~SliceLess(b.ks, b.ks)
  BY <1>1, SliceOrder
<1>4. /\ KeyLess(a, b) <=> Lex(a.ks, a.kl, b.ks, b.kl)
      /\ KeyLess(b, a) <=> Lex(b.ks, b.kl, a.ks, a.kl)
      /\ KeyLess(a, a) <=> Lex(a.ks, a.kl, a.ks, a.kl)
  BY KeyLessIs
<1>5. a = b <=> a.ks = b.ks /\ a.kl = b.kl
  BY SameKey
<1> QED BY <1>1, <1>2, <1>3, <1>4, <1>5 DEF Lex

\* The order of keys is transitive.
LEMMA KeyTransitive ==
    ASSUME NEW a \in Key, NEW b \in Key, NEW c \in Key, KeyLess(a, b), KeyLess(b, c)
    PROVE  KeyLess(a, c)
<1>1. /\ a.ks \in Slices /\ b.ks \in Slices /\ c.ks \in Slices
      /\ a.kl \in Nat /\ b.kl \in Nat /\ c.kl \in Nat
  BY KeyFacts
<1>2. SliceLess(a.ks, b.ks) /\ SliceLess(b.ks, c.ks) => SliceLess(a.ks, c.ks)
  BY <1>1, SliceOrder
<1>3. Lex(a.ks, a.kl, b.ks, b.kl) /\ Lex(b.ks, b.kl, c.ks, c.kl)
  BY KeyLessIs
<1>4. Lex(a.ks, a.kl, c.ks, c.kl)
  BY <1>1, <1>2, <1>3 DEF Lex
<1> QED BY <1>4, KeyLessIs

\* The whole slices, compared: all of the three outcomes.
LEMMA SliceCompare ==
    ASSUME NEW a \in Slices, NEW b \in Slices
    PROVE  /\ memcmp(a, b, W) \in Int
           /\ memcmp(a, b, W) = 0 <=> a = b
           /\ memcmp(a, b, W) < 0 <=> SliceLess(a, b)
           /\ memcmp(a, b, W) > 0 <=> SliceLess(b, a)
<1>1. W \in 0 .. W
  BY KeyAssumption
<1>2. (\A i \in 1 .. W : a[i] = b[i]) <=> a = b
  BY SliceBytes
<1> QED BY <1>1, <1>2, Memcmp DEF SliceLess

\* The searches of a border node stop at a key for equality exactly when it is
\* the key, whatever its zero bytes ...
LEMMA MatchesIs ==
    ASSUME NEW a \in Key, NEW b \in Key
    PROVE  Matches(a, b) <=> a = b
<1>1. /\ a.ks \in Slices /\ a.kl \in 0 .. W + 1 /\ W \in Nat /\ W >= 1
      /\ \A i \in 1 .. W : i > a.kl => a.ks[i] = 0
  BY KeyFacts
<1>2. /\ b.ks \in Slices /\ b.kl \in 0 .. W + 1
      /\ \A i \in 1 .. W : i > b.kl => b.ks[i] = 0
  BY KeyFacts
<1>3. memcmp(a.ks, b.ks, W) = 0 <=> a.ks = b.ks
  BY <1>1, <1>2, SliceCompare
<1>4. a = b <=> a.ks = b.ks /\ a.kl = b.kl
  BY SameKey
<1>5. a.kl = 0 /\ b.kl = 0 => a.ks = b.ks
  <2> SUFFICES ASSUME a.kl = 0, b.kl = 0 PROVE a.ks = b.ks
    OBVIOUS
  <2>1. \A i \in 1 .. W : a.ks[i] = 0 /\ b.ks[i] = 0
    BY <1>1, <1>2
  <2> QED BY <1>1, <1>2, <2>1, SliceBytes
<1>6. a.kl > W /\ b.kl > W => a.kl = b.kl
  BY <1>1, <1>2
<1> QED BY <1>3, <1>4, <1>5, <1>6 DEF Matches

\* ... and as too far when the string is before it.
LEMMA BeforeIs ==
    ASSUME NEW a \in Key, NEW b \in Key
    PROVE  Before(a, b) <=> KeyLess(a, b)
<1>1. a.ks \in Slices /\ b.ks \in Slices
  BY KeyFacts
<1>2. /\ memcmp(a.ks, b.ks, W) = 0 <=> a.ks = b.ks
      /\ memcmp(a.ks, b.ks, W) < 0 <=> SliceLess(a.ks, b.ks)
  BY <1>1, SliceCompare
<1> QED BY <1>2, KeyLessIs DEF Before, Lex

\* The least of the two lengths and W.
LEMMA CompLength ==
    ASSUME NEW a, NEW b, a.kl \in Nat, b.kl \in Nat
    PROVE  /\ comp_length(a, b) \in {a.kl, b.kl, W} /\ comp_length(a, b) \in 0 .. W
           /\ comp_length(a, b) <= a.kl /\ comp_length(a, b) <= b.kl
<1> DEFINE S == {a.kl, b.kl, W}
<1>1. W \in Nat /\ S \in SUBSET Nat /\ S # {}
  BY KeyAssumption
<1>2. comp_length(a, b) = CHOOSE x \in S : \A y \in S : x <= y
  BY DEF comp_length, Min
<1>3. comp_length(a, b) \in S /\ \A y \in S : comp_length(a, b) <= y
  <2>1. \E x \in S : \A y \in S : x <= y
    <3> HIDE DEF S
    <3> QED BY <1>1, Least
  <2> HIDE DEF S
  <2> QED BY <1>2, <2>1
<1> QED BY <1>1, <1>3

\* Interior nodes compare fewer bytes: with a key b whose bytes behind its length
\* are zero, it is enough that the first difference is seen or the lengths tell.
LEMMA PrefixSeesLess ==
    ASSUME NEW a, a.ks \in Slices, a.kl \in Nat, NEW b \in Key,
           \/ SliceLess(a.ks, b.ks)
           \/ a.ks = b.ks /\ a.kl < b.kl
    PROVE  PrefixBefore(a, b)
<1> DEFINE n == comp_length(a, b)
<1>1. /\ b.ks \in Slices /\ b.kl \in Nat /\ W \in Nat
      /\ \A i \in 1 .. W : i > b.kl => b.ks[i] = 0
  BY KeyFacts
<1>2. n \in {a.kl, b.kl, W} /\ n \in 0 .. W /\ n <= a.kl /\ n <= b.kl
  BY <1>1, CompLength
<1>3. /\ memcmp(a.ks, b.ks, n) = 0 <=> \A i \in 1 .. n : a.ks[i] = b.ks[i]
      /\ memcmp(a.ks, b.ks, n) < 0 <=> \E i \in 1 .. n : FirstLess(a.ks, b.ks, i)
  BY <1>1, <1>2, Memcmp
<1>4. PrefixBefore(a, b) <=> \/ memcmp(a.ks, b.ks, n) < 0
                             \/ memcmp(a.ks, b.ks, n) = 0 /\ a.kl < b.kl
  BY DEF PrefixBefore
<1> HIDE DEF n
<1>5. CASE SliceLess(a.ks, b.ks)
  <2>1. PICK i \in 1 .. W : FirstLess(a.ks, b.ks, i)
    BY <1>5 DEF SliceLess
  <2>2. a.ks[i] < b.ks[i] /\ \A j \in 1 .. i - 1 : a.ks[j] = b.ks[j]
    BY <2>1 DEF FirstLess
  <2>3. a.ks[i] \in Nat /\ b.ks[i] \in Nat
    BY <1>1 DEF Slices
  <2>4. i <= b.kl
    BY <1>1, <2>2, <2>3
  <2>5. CASE i <= n
    <3>1. i \in 1 .. n
      BY <1>2, <2>5
    <3> QED BY <1>3, <1>4, <2>1, <3>1
  <2>6. CASE i > n
    <3>1. n = a.kl /\ a.kl < b.kl
      BY <1>1, <1>2, <2>4, <2>6
    <3>2. \A j \in 1 .. n : a.ks[j] = b.ks[j]
      BY <1>1, <1>2, <2>2, <2>6
    <3> QED BY <1>3, <1>4, <3>1, <3>2
  <2> QED BY <1>1, <1>2, <2>5, <2>6
<1>6. CASE a.ks = b.ks /\ a.kl < b.kl
  BY <1>3, <1>4, <1>6
<1> QED BY <1>5, <1>6

\* The comparison of interior nodes and splits is the order of strings too.
LEMMA PrefixBeforeIs ==
    ASSUME NEW a \in Key, NEW b \in Key
    PROVE  PrefixBefore(a, b) <=> KeyLess(a, b)
<1> DEFINE n == comp_length(a, b)
<1>1. /\ a.ks \in Slices /\ a.kl \in 0 .. W + 1 /\ W \in Nat
      /\ \A i \in 1 .. W : i > a.kl => a.ks[i] = 0
      /\ b.ks \in Slices /\ b.kl \in 0 .. W + 1
  BY KeyFacts
<1>2. n \in {a.kl, b.kl, W} /\ n \in 0 .. W /\ n <= a.kl /\ n <= b.kl
  BY <1>1, CompLength
<1>3. /\ memcmp(a.ks, b.ks, n) = 0 <=> \A i \in 1 .. n : a.ks[i] = b.ks[i]
      /\ memcmp(a.ks, b.ks, n) < 0 <=> \E i \in 1 .. n : FirstLess(a.ks, b.ks, i)
  BY <1>1, <1>2, Memcmp
<1>4. PrefixBefore(a, b) <=> \/ memcmp(a.ks, b.ks, n) < 0
                             \/ memcmp(a.ks, b.ks, n) = 0 /\ a.kl < b.kl
  BY DEF PrefixBefore
<1>5. KeyLess(a, b) <=> Lex(a.ks, a.kl, b.ks, b.kl)
  BY KeyLessIs
<1> HIDE DEF n
<1>6. ASSUME KeyLess(a, b) PROVE PrefixBefore(a, b)
  BY <1>1, <1>5, <1>6, PrefixSeesLess DEF Lex
<1>7. CASE memcmp(a.ks, b.ks, n) < 0
  <2>1. PICK i \in 1 .. n : FirstLess(a.ks, b.ks, i)
    BY <1>3, <1>7
  <2>2. i \in 1 .. W
    BY <1>1, <1>2
  <2> QED BY <1>5, <1>6, <2>1, <2>2, <1>4, <1>7 DEF Lex, SliceLess
<1>8. CASE memcmp(a.ks, b.ks, n) = 0 /\ a.kl < b.kl
  <2>1. n = a.kl
    BY <1>1, <1>2, <1>8
  <2>2. SliceLess(a.ks, b.ks) \/ a.ks = b.ks
    BY <1>1, <1>2, <1>3, <1>8, <2>1, ZeroTail
  <2> QED BY <1>4, <1>5, <1>8, <2>2 DEF Lex
<1> QED BY <1>4, <1>6, <1>7, <1>8

-----------------------------------------------------------------------------
(* Scans.                                                                  *)

\* A scan leaves out a key of the node exactly if it is before the left endpoint,
\* and a link exactly if all below it is.
LEMMA ScanSkipsRight ==
    ASSUME NEW l \in Seq(Nat), NEW k \in Key, NEW exclusive \in BOOLEAN
    PROVE  ScanSkips(l, exclusive, k) <=>
              IF k.kl > W THEN Less(k.ks, l) /\ ~IsPrefix(k.ks, l)
              ELSE Less(String(k), l) \/ (String(k) = l /\ exclusive)
<1>1. /\ k.ks \in Slices /\ k.kl \in 0 .. W + 1 /\ W \in Nat /\ W >= 1
      /\ String(k) \in Seq(Nat) /\ Len(String(k)) = k.kl /\ Slice(String(k)) = k.ks
  BY KeyFacts
<1>2. /\ Slice(l) \in Slices /\ Len(l) \in Nat
      /\ \A i \in 1 .. W : Slice(l)[i] = IF i <= Len(l) THEN l[i] ELSE 0
  BY SliceIs
<1>3. /\ memcmp(Slice(l), k.ks, W) = 0 <=> Slice(l) = k.ks
      /\ memcmp(Slice(l), k.ks, W) > 0 <=> SliceLess(k.ks, Slice(l))
  BY <1>1, <1>2, SliceCompare
<1>4. k.ks \in Seq(Nat) /\ Len(k.ks) = W /\ DOMAIN k.ks = 1 .. W
  BY <1>1 DEF Slices
<1>5. Slice(k.ks) = k.ks
  <2>1. Slice(k.ks) \in Slices /\ \A i \in 1 .. W : Slice(k.ks)[i] = k.ks[i]
    BY <1>1, <1>4, SliceIs
  <2> QED BY <1>1, <2>1, SliceBytes
<1>6. CASE k.kl > W
  <2>1. ScanSkips(l, exclusive, k) <=> SliceLess(k.ks, Slice(l))
    BY <1>1, <1>3, <1>6 DEF ScanSkips
  <2>2. Less(k.ks, l) <=> SliceLess(k.ks, Slice(l)) \/ (k.ks = Slice(l) /\ W < Len(l))
    BY <1>1, <1>4, <1>5, StringOrder DEF Lex
  <2>3. IsPrefix(k.ks, l) <=> W <= Len(l) /\ \A i \in 1 .. W : k.ks[i] = l[i]
    <3> DEFINE p == SubSeq(k.ks, 1, W)
               q == SubSeq(l, 1, W)
    <3>1. p \in Seq(Nat) /\ Len(p) = W /\ \A i \in 1 .. W : p[i] = k.ks[i]
      BY <1>1, <1>4, SMTT(40)
    <3>2. ASSUME W <= Len(l)
          PROVE  q \in Seq(Nat) /\ Len(q) = W /\ \A i \in 1 .. W : q[i] = l[i]
      BY <1>1, <1>2, <3>2
    <3>3. IsPrefix(k.ks, l) <=> W <= Len(l) /\ p = q
      BY <1>4 DEF IsPrefix
    <3> HIDE DEF p, q
    <3>4. ASSUME W <= Len(l), \A i \in 1 .. W : k.ks[i] = l[i] PROVE p = q
      <4>1. Len(p) = Len(q) /\ \A i \in 1 .. Len(p) : p[i] = q[i]
        BY <3>1, <3>2, <3>4
      <4> QED BY <3>1, <3>2, <3>4, <4>1, SeqEqual
    <3>5. ASSUME W <= Len(l), p = q PROVE \A i \in 1 .. W : k.ks[i] = l[i]
      BY <3>1, <3>2, <3>5
    <3> QED BY <3>3, <3>4, <3>5
  <2>4. ASSUME SliceLess(k.ks, Slice(l)) PROVE ~IsPrefix(k.ks, l)
    <3> SUFFICES ASSUME IsPrefix(k.ks, l) PROVE FALSE
      OBVIOUS
    <3>1. \A i \in 1 .. W : Slice(l)[i] = k.ks[i]
      BY <1>1, <1>2, <2>3
    <3>2. Slice(l) = k.ks
      BY <1>1, <1>2, <3>1, SliceBytes
    <3> QED BY <1>1, <2>4, <3>2, SliceOrder
  <2>5. ASSUME k.ks = Slice(l), W < Len(l) PROVE IsPrefix(k.ks, l)
    BY <1>1, <1>2, <2>3, <2>5
  <2> QED BY <1>6, <2>1, <2>2, <2>4, <2>5
<1>7. CASE k.kl <= W
  <2>1. ScanSkips(l, exclusive, k) <=>
          \/ SliceLess(k.ks, Slice(l))
          \/ k.ks = Slice(l) /\ (k.kl < Len(l) \/ (k.kl = Len(l) /\ exclusive))
    BY <1>1, <1>2, <1>3, <1>7 DEF ScanSkips
  <2>2. Less(String(k), l) <=> SliceLess(k.ks, Slice(l)) \/ (k.ks = Slice(l) /\ k.kl < Len(l))
    BY <1>1, <1>7, StringOrder DEF Lex
  <2>3. String(k) = l <=> k.ks = Slice(l) /\ k.kl = Len(l)
    <3>1. ASSUME k.ks = Slice(l), k.kl = Len(l) PROVE String(k) = l
      <4>1. \A i \in 1 .. k.kl : String(k)[i] = Slice(String(k))[i]
        BY <1>1, <1>7, SliceIs
      <4>2. \A i \in 1 .. k.kl : String(k)[i] = l[i]
        BY <1>1, <1>2, <1>7, <3>1, <4>1
      <4> QED BY <1>1, <3>1, <4>2
    <3> QED BY <1>1, <3>1
  <2> QED BY <1>1, <1>7, <2>1, <2>2, <2>3
<1> QED BY <1>1, <1>6, <1>7

\* On its way down a scan may go too far to the left, never to the right: a length
\* cut to its type only makes the endpoint shorter.
LEMMA ScanGoesLeft ==
    ASSUME NEW l \in Seq(Byte), NEW b \in Key, KeyLess(KeyOf(l), b)
    PROVE  PrefixBefore(ScanKeyOf(l), b)
<1>1. Byte \subseteq Nat /\ LenPeriod \in Nat /\ LenPeriod > 0 /\ W \in Nat
  BY KeyAssumption
<1>2. l \in Seq(Nat)
  <2>1. Len(l) \in Nat /\ \A i \in 1 .. Len(l) : l[i] \in Byte
    OBVIOUS
  <2>2. l = [i \in 1 .. Len(l) |-> l[i]]
    OBVIOUS
  <2> QED BY <1>1, <2>1, <2>2
<1>3. KeyOf(l) \in Key /\ KeyOf(l).ks = Slice(l)
      /\ KeyOf(l).kl = (IF Len(l) > W THEN W + 1 ELSE Len(l))
  BY KeyOfIsKey DEF KeyOf
<1>4. ScanKeyOf(l).ks = Slice(l) /\ ScanKeyOf(l).kl = Len(l) % LenPeriod
  BY DEF ScanKeyOf
<1>5. Len(l) \in Nat /\ Slice(l) \in Slices
  BY <1>2, SliceIs
<1>6. Len(l) % LenPeriod \in Nat /\ Len(l) % LenPeriod <= Len(l)
  BY <1>1, <1>5
<1>7. b.kl \in 0 .. W + 1
  BY KeyFacts
<1>8. SliceLess(Slice(l), b.ks) \/ (Slice(l) = b.ks /\ KeyOf(l).kl < b.kl)
  BY <1>3, KeyLessIs DEF Lex
<1>9. SliceLess(Slice(l), b.ks) \/ (Slice(l) = b.ks /\ Len(l) % LenPeriod < b.kl)
  BY <1>1, <1>3, <1>5, <1>6, <1>7, <1>8
<1> QED BY <1>4, <1>5, <1>6, <1>9, PrefixSeesLess

-----------------------------------------------------------------------------
(* The searches in a border node.                                          *)

\* The first n ranks of the word are slots.
IsNode(w, s, n) ==
    w \in Word /\ s \in [Slot -> Key] /\ n \in 0 .. L /\ \A i \in 1 .. n : w[i] \in Slot

\* They list the keys S in order, and the word is zero above.
NodeLists(w, s, n, S) ==
    /\ IsNode(w, s, n)
    /\ \A i, j \in 1 .. n : i < j => KeyLess(s[w[i]], s[w[j]])
    /\ S = {s[w[i]] : i \in 1 .. n}
    /\ \A j \in n + 1 .. L : w[j] = 0

\* A node [word, slot] of which that is true, and the count is n.
Holds(x, n, S) == x.word[0] = n /\ NodeLists(x.word, x.slot, n, S)

\* The key in the slot a split takes the pivot from.
FirstSlot(x) == x.slot[0]

\* The keys at some of its ranks.
KeysAt(w, s, a, b) == {s[w[i]] : i \in a .. b}

\* A cleared slot has the key of the empty string.
LEMMA ClearedIsKey == Cleared \in Key
<1>1. 0 \in Byte /\ W \in Nat
  BY KeyAssumption
<1>2. [i \in 1 .. W |-> 0] \in [1 .. W -> Byte] /\ 0 \in 0 .. W + 1
  BY <1>1
<1>3. Cleared \in [ks : [1 .. W -> Byte], kl : 0 .. W + 1]
  BY <1>2 DEF Cleared
<1>4. \A i \in 1 .. W : Cleared.ks[i] = 0
  BY DEF Cleared
<1> QED BY <1>3, <1>4 DEF Key

\* The keys of a node are keys, its slots numbers.
LEMMA NodeFacts ==
    ASSUME NEW w, NEW s, NEW n, IsNode(w, s, n)
    PROVE  /\ L \in Nat /\ L >= 3 /\ n \in Nat /\ n <= L /\ w[0] \in 0 .. L
           /\ \A i \in 1 .. n : w[i] \in Slot /\ w[i] \in Nat /\ w[i] # L /\ s[w[i]] \in Key
           /\ \A i \in 1 .. n : i - 1 \in 0 .. L - 1 /\ At(w, s, i - 1) = s[w[i]]
                                /\ get_index_of_rank(w, i - 1) = w[i]
<1>1. L \in Nat /\ L >= 3
  BY LAssumption, KeyAssumption
<1>2. w \in Word /\ s \in [Slot -> Key] /\ n \in 0 .. L /\ \A i \in 1 .. n : w[i] \in Slot
  BY DEF IsNode
<1>3. w[0] \in 0 .. L
  BY <1>2, WordType
<1>4. ASSUME NEW i \in 1 .. n
      PROVE  /\ w[i] \in Slot /\ w[i] \in Nat /\ w[i] # L /\ s[w[i]] \in Key
             /\ i - 1 \in 0 .. L - 1 /\ get_index_of_rank(w, i - 1) = w[i]
  <2>1. w[i] \in Slot /\ w[i] \in Nat /\ w[i] # L
    BY <1>1, <1>2 DEF Slot
  <2>2. s[w[i]] \in Key
    BY <1>2, <2>1
  <2>3. i - 1 \in 0 .. L - 1 /\ (i - 1) + 1 = i
    BY <1>1, <1>2
  <2>4. get_index_of_rank(w, i - 1) = w[i]
    BY <1>2, <2>3, IndexOfRank
  <2> QED BY <2>1, <2>2, <2>3, <2>4
<1> QED BY <1>1, <1>2, <1>3, <1>4 DEF At

\* The search stops at the first key that is not before k.
LEMMA StopsAtIs ==
    ASSUME NEW w, NEW s, IsNode(w, s, w[0]), NEW k \in Key
    PROVE  /\ StopsAt(w, s, k) \in 0 .. w[0]
           /\ \A i \in 1 .. w[0] : i <= StopsAt(w, s, k) => KeyLess(s[w[i]], k)
           /\ \A i \in 1 .. w[0] : i = StopsAt(w, s, k) + 1 => ~KeyLess(s[w[i]], k)
<1> DEFINE n == w[0]
           S == {r \in Ranks(w) : Matches(k, At(w, s, r)) \/ Before(k, At(w, s, r))}
<1>1. /\ n \in Nat /\ n <= L /\ L \in Nat
      /\ \A i \in 1 .. n : s[w[i]] \in Key /\ At(w, s, i - 1) = s[w[i]]
  BY NodeFacts
<1>2. StopsAt(w, s, k) = IF S = {} THEN n ELSE CHOOSE x \in S : \A y \in S : x =< y
  BY DEF StopsAt, Min, get_cnk
<1>3. \A r \in S : r \in 0 .. n - 1
  BY DEF Ranks, get_cnk
<1>4. \A i \in 1 .. n : i - 1 \in S <=> ~KeyLess(s[w[i]], k)
  <2> TAKE i \in 1 .. n
  <2>1. i - 1 \in Ranks(w)
    BY <1>1 DEF Ranks, get_cnk
  <2>2. i - 1 \in S <=> k = s[w[i]] \/ KeyLess(k, s[w[i]])
    BY <1>1, <2>1, MatchesIs, BeforeIs
  <2> QED BY <1>1, <2>2, KeyOrder
<1>5. CASE S = {}
  <2>1. StopsAt(w, s, k) = n
    BY <1>2, <1>5
  <2>2. \A i \in 1 .. n : KeyLess(s[w[i]], k)
    BY <1>4, <1>5
  <2> QED BY <1>1, <2>1, <2>2
<1>6. CASE S # {}
  <2>1. S \in SUBSET Nat
    BY <1>1, <1>3
  <2> HIDE DEF S
  <2>2. \E x \in S : \A y \in S : x <= y
    BY <1>6, <2>1, Least
  <2> DEFINE r == StopsAt(w, s, k)
  <2>3. r \in S /\ \A y \in S : r <= y
    BY <1>2, <1>6, <2>2
  <2> HIDE DEF r
  <2>4. r \in 0 .. n - 1
    BY <1>3, <2>3
  <2>5. \A i \in 1 .. n : i <= r => KeyLess(s[w[i]], k)
    BY <1>1, <1>4, <2>3, <2>4
  <2>6. ~KeyLess(s[w[r + 1]], k)
    <3>1. r + 1 \in 1 .. n /\ (r + 1) - 1 = r
      BY <1>1, <2>4
    <3> QED BY <1>4, <2>3, <3>1
  <2>7. r \in 0 .. n
    BY <1>1, <2>4
  <2> QED BY <2>5, <2>6, <2>7 DEF r
<1> QED BY <1>5, <1>6

\* get_lv_of returns a slot with the key, or L.
LEMMA LookupFinds ==
    ASSUME NEW w, NEW s, IsNode(w, s, w[0]), NEW k \in Key
    PROVE  /\ get_lv_of(w, s, k) # L =>
                \E i \in 1 .. w[0] : get_lv_of(w, s, k) = w[i] /\ s[w[i]] = k
           /\ \A i \in 1 .. w[0] :
                 s[w[i]] = k /\ (\A j \in 1 .. i - 1 : KeyLess(s[w[j]], k))
                    => get_lv_of(w, s, k) = w[i]
<1> DEFINE n == w[0]
           r == StopsAt(w, s, k)
<1>1. /\ n \in Nat /\ n <= L /\ L \in Nat
      /\ \A i \in 1 .. n : /\ s[w[i]] \in Key /\ At(w, s, i - 1) = s[w[i]] /\ w[i] # L
                           /\ get_index_of_rank(w, i - 1) = w[i]
  BY NodeFacts
<1>2. /\ r \in 0 .. n
      /\ \A i \in 1 .. n : i <= r => KeyLess(s[w[i]], k)
      /\ \A i \in 1 .. n : i = r + 1 => ~KeyLess(s[w[i]], k)
  BY StopsAtIs
<1>3. get_lv_of(w, s, k) = IF r < n /\ Matches(k, At(w, s, r)) THEN get_index_of_rank(w, r) ELSE L
  BY DEF get_lv_of, get_cnk
<1> HIDE DEF r
<1>4. r < n => /\ r + 1 \in 1 .. n /\ At(w, s, r) = s[w[r + 1]]
               /\ get_index_of_rank(w, r) = w[r + 1] /\ s[w[r + 1]] \in Key
  <2> SUFFICES ASSUME r < n
               PROVE  /\ r + 1 \in 1 .. n /\ At(w, s, r) = s[w[r + 1]]
                      /\ get_index_of_rank(w, r) = w[r + 1] /\ s[w[r + 1]] \in Key
    OBVIOUS
  <2>1. r + 1 \in 1 .. n /\ (r + 1) - 1 = r
    BY <1>1, <1>2
  <2> QED BY <1>1, <2>1
<1>5. r < n => (Matches(k, At(w, s, r)) <=> k = s[w[r + 1]])
  BY <1>4, MatchesIs
<1>6. ASSUME get_lv_of(w, s, k) # L
      PROVE  \E i \in 1 .. n : get_lv_of(w, s, k) = w[i] /\ s[w[i]] = k
  BY <1>3, <1>4, <1>5, <1>6
<1>7. ASSUME NEW i \in 1 .. n, s[w[i]] = k, \A j \in 1 .. i - 1 : KeyLess(s[w[j]], k)
      PROVE  get_lv_of(w, s, k) = w[i]
  <2>1. ~KeyLess(k, k)
    BY KeyOrder
  <2>2. ~(i <= r)
    BY <1>2, <1>7, <2>1
  <2>3. r + 1 \in 1 .. n
    BY <1>1, <1>2, <2>2
  <2>4. ~(r + 1 <= i - 1)
    BY <1>2, <1>7, <2>3
  <2>5. i = r + 1 /\ r < n
    BY <1>1, <1>2, <2>2, <2>4
  <2> QED BY <1>3, <1>4, <1>5, <1>7, <2>5
<1> QED BY <1>6, <1>7

-----------------------------------------------------------------------------
(* The stores of an insertion and of a deletion.                           *)

\* A store of the count alone.
LEMMA CountStored ==
    ASSUME NEW w, NEW s, NEW n, NEW S, NodeLists(w, s, n, S), NEW c \in 0 .. L
    PROVE  NodeLists(set_cnk(w, c), s, n, S) /\ set_cnk(w, c)[0] = c
<1>1. L \in Nat /\ n \in Nat /\ n <= L
  BY NodeFacts DEF NodeLists
<1>2. w \in [0 .. L -> 0 .. L]
  BY DEF NodeLists, IsNode, Word
<1> DEFINE v == set_cnk(w, c)
<1>3. v \in [0 .. L -> 0 .. L] /\ v[0] = c /\ \A j \in 1 .. L : v[j] = w[j]
  BY <1>1, <1>2 DEF set_cnk
<1> HIDE DEF v
<1>4. v \in Word
  BY <1>3 DEF Word
<1>5. \A i \in 1 .. n : v[i] = w[i]
  BY <1>1, <1>3
<1>6. ASSUME NEW j \in n + 1 .. L PROVE v[j] = 0
  <2>1. j \in 1 .. L /\ w[j] = 0
    BY <1>1 DEF NodeLists
  <2> QED BY <1>3, <2>1
<1>7. {s[w[i]] : i \in 1 .. n} = {s[v[i]] : i \in 1 .. n}
  BY <1>5
<1>8. NodeLists(v, s, n, S)
  BY <1>4, <1>5, <1>6, <1>7 DEF NodeLists, IsNode
<1> QED BY <1>3, <1>8 DEF v

\* The key goes to a slot no rank names.
LEMMA SlotStored ==
    ASSUME NEW w, NEW s, NEW S, NodeLists(w, s, w[0], S), w[0] < L, NEW k \in Key
    PROVE  /\ get_empty_slot(w) \in Slot
           /\ NodeLists(w, [s EXCEPT ![get_empty_slot(w)] = k], w[0], S)
           /\ [s EXCEPT ![get_empty_slot(w)] = k][get_empty_slot(w)] = k
           /\ \A i \in 1 .. w[0] : [s EXCEPT ![get_empty_slot(w)] = k][w[i]] = s[w[i]]
           /\ \A p \in Slot : (\E i \in 1 .. w[0] : w[i] = p)
                                => [s EXCEPT ![get_empty_slot(w)] = k][p] = s[p]
<1> DEFINE pos == get_empty_slot(w)
           u == [s EXCEPT ![pos] = k]
<1>1. w \in Word /\ s \in [Slot -> Key] /\ \A i \in 1 .. w[0] : w[i] \in Slot
  BY DEF NodeLists, IsNode
<1>2. pos \in Slot /\ pos \notin Live(w)
  BY <1>1, EmptySlot
<1>3. \A i \in 1 .. w[0] : w[i] # pos
  BY <1>1, <1>2, LiveNibbles
<1> HIDE DEF pos
<1>4. u \in [Slot -> Key] /\ u[pos] = k /\ \A p \in Slot : p # pos => u[p] = s[p]
  BY <1>1, <1>2
<1> HIDE DEF u
<1>5. \A i \in 1 .. w[0] : u[w[i]] = s[w[i]]
  BY <1>1, <1>3, <1>4
<1>6. {s[w[i]] : i \in 1 .. w[0]} = {u[w[i]] : i \in 1 .. w[0]}
  BY <1>5
<1>7. NodeLists(w, u, w[0], S)
  BY <1>4, <1>5, <1>6 DEF NodeLists, IsNode
<1> QED BY <1>2, <1>3, <1>4, <1>5, <1>7 DEF u, pos

\* The rank of a key among those of a node.
RankOf(w, s, n, k, r) ==
    /\ r \in 0 .. n
    /\ \A i \in 1 .. n : IF i <= r THEN KeyLess(s[w[i]], k) ELSE KeyLess(k, s[w[i]])

\* compute_rank_if_insert computes it.
LEMMA RankComputed ==
    ASSUME NEW w, NEW s, NEW S, NodeLists(w, s, w[0], S), NEW k \in Key, k \notin S
    PROVE  RankOf(w, s, w[0], k, compute_rank_if_insert(w, s, k))
<1> DEFINE n == w[0]
           r == StopsAt(w, s, k)
<1>1. IsNode(w, s, n) /\ \A i, j \in 1 .. n : i < j => KeyLess(s[w[i]], s[w[j]])
  BY DEF NodeLists
<1>2. n \in Nat /\ \A i \in 1 .. n : s[w[i]] \in Key
  BY <1>1, NodeFacts
<1>3. /\ r \in 0 .. n
      /\ \A i \in 1 .. n : i <= r => KeyLess(s[w[i]], k)
      /\ \A i \in 1 .. n : i = r + 1 => ~KeyLess(s[w[i]], k)
  BY <1>1, StopsAtIs
<1>4. \A i \in 1 .. n : s[w[i]] # k
  BY DEF NodeLists
<1> HIDE DEF r
<1>5. ASSUME NEW i \in 1 .. n, ~(i <= r) PROVE KeyLess(k, s[w[i]])
  <2>1. r + 1 \in 1 .. n
    BY <1>2, <1>3, <1>5
  <2>2. KeyLess(k, s[w[r + 1]])
    BY <1>2, <1>3, <1>4, <2>1, KeyOrder
  <2>3. CASE i = r + 1
    BY <2>2, <2>3
  <2>4. CASE i # r + 1
    <3>1. KeyLess(s[w[r + 1]], s[w[i]])
      BY <1>1, <1>2, <1>3, <1>5, <2>1, <2>4
    <3> QED BY <1>2, <2>1, <2>2, <3>1, KeyTransitive
  <2> QED BY <2>3, <2>4
<1>6. RankOf(w, s, n, k, r)
  BY <1>3, <1>5 DEF RankOf
<1> QED BY <1>6 DEF r, compute_rank_if_insert

\* The store of the word puts the new slot at its rank.
LEMMA WordInserted ==
    ASSUME NEW w, NEW s, NEW n \in Nat, NEW S, NodeLists(w, s, n, S), w[0] = n + 1, n < L,
           NEW pos \in Slot, NEW r, RankOf(w, s, n, s[pos], r)
    PROVE  /\ NodeLists(insert(w, r, pos), s, n + 1, S \cup {s[pos]})
           /\ insert(w, r, pos)[0] = n + 1
           /\ r > 0 => insert(w, r, pos)[1] = w[1]
<1> DEFINE v == insert(w, r, pos)
           k == s[pos]
<1>1. /\ L \in Nat /\ w \in Word /\ s \in [Slot -> Key] /\ r \in 0 .. n /\ r \in 0 .. L - 1
      /\ k \in Key /\ r < w[0]
  BY LAssumption DEF NodeLists, IsNode, RankOf
<1>2. /\ v \in Word
      /\ \A j \in 0 .. L : v[j] = IF j = 0 THEN w[0]
                                  ELSE IF j <= r THEN w[j]
                                  ELSE IF j = r + 1 THEN pos
                                  ELSE IF r = w[0] - 1 THEN 0 ELSE w[j - 1]
  BY <1>1, InsertWord
<1> HIDE DEF v, k
<1>3. v[0] = n + 1 /\ (r > 0 => v[1] = w[1])
  BY <1>1, <1>2
<1>4. /\ \A i \in 1 .. r : v[i] = w[i] /\ i \in 1 .. n
      /\ v[r + 1] = pos /\ r + 1 \in 1 .. n + 1
      /\ \A i \in r + 2 .. n + 1 : v[i] = w[i - 1] /\ i - 1 \in r + 1 .. n
  BY <1>1, <1>2
<1>5. ASSUME NEW j \in n + 2 .. L PROVE v[j] = 0
  <2>1. j \in 0 .. L /\ j # 0 /\ ~(j <= r) /\ j # r + 1 /\ j - 1 \in n + 1 .. L
    BY <1>1
  <2>2. w[j - 1] = 0
    BY <2>1 DEF NodeLists
  <2> QED BY <1>2, <2>1, <2>2
<1>6. \A i \in 1 .. n : w[i] \in Slot
  BY DEF NodeLists, IsNode
<1>7. \A i \in 1 .. n + 1 : i \in 1 .. r \/ i = r + 1 \/ i \in r + 2 .. n + 1
  BY <1>1
<1>8. \A i \in 1 .. n + 1 : v[i] \in Slot
  BY <1>1, <1>4, <1>6, <1>7
<1>9. ASSUME NEW i \in 1 .. n + 1, NEW j \in 1 .. n + 1, i < j
      PROVE  KeyLess(s[v[i]], s[v[j]])
  <2>1. \A a, b \in 1 .. n : a < b => KeyLess(s[w[a]], s[w[b]])
    BY DEF NodeLists
  <2>2. \A a \in 1 .. n : IF a <= r THEN KeyLess(s[w[a]], k) ELSE KeyLess(k, s[w[a]])
    BY DEF RankOf, k
  <2>3. CASE j \in 1 .. r
    BY <1>1, <1>4, <1>9, <2>1, <2>3
  <2>4. CASE j = r + 1
    <3>1. i \in 1 .. r /\ i \in 1 .. n /\ i <= r
      BY <1>1, <1>9, <2>4
    <3> QED BY <1>4, <2>2, <2>4, <3>1 DEF k
  <2>5. CASE j \in r + 2 .. n + 1
    <3>1. j - 1 \in 1 .. n /\ ~(j - 1 <= r) /\ v[j] = w[j - 1]
      BY <1>1, <1>4, <2>5
    <3>2. CASE i \in 1 .. r
      BY <1>1, <1>4, <2>1, <2>5, <3>1, <3>2
    <3>3. CASE i = r + 1
      BY <1>4, <2>2, <3>1, <3>3 DEF k
    <3>4. CASE i \in r + 2 .. n + 1
      <4>1. i - 1 \in 1 .. n /\ i - 1 < j - 1
        BY <1>1, <1>9, <3>4
      <4> QED BY <1>4, <2>1, <3>1, <3>4, <4>1
    <3> QED BY <1>7, <3>2, <3>3, <3>4
  <2> QED BY <1>7, <2>3, <2>4, <2>5
<1>10. S \cup {k} = {s[v[i]] : i \in 1 .. n + 1}
  <2>1. S = {s[w[i]] : i \in 1 .. n}
    BY DEF NodeLists
  <2>2. ASSUME NEW i \in 1 .. n + 1 PROVE s[v[i]] \in S \cup {k}
    <3>1. CASE i \in 1 .. r
      BY <1>4, <2>1, <3>1
    <3>2. CASE i = r + 1
      BY <1>4, <3>2 DEF k
    <3>3. CASE i \in r + 2 .. n + 1
      <4>1. i - 1 \in 1 .. n /\ v[i] = w[i - 1]
        BY <1>1, <1>4, <3>3
      <4> QED BY <2>1, <4>1
    <3> QED BY <1>7, <3>1, <3>2, <3>3
  <2>3. ASSUME NEW i \in 1 .. n PROVE \E j \in 1 .. n + 1 : s[w[i]] = s[v[j]]
    <3>1. CASE i <= r
      <4>1. i \in 1 .. r /\ i \in 1 .. n + 1
        BY <1>1, <3>1
      <4> QED BY <1>4, <4>1
    <3>2. CASE i > r
      <4>1. i + 1 \in r + 2 .. n + 1 /\ i + 1 \in 1 .. n + 1 /\ (i + 1) - 1 = i
        BY <1>1, <3>2
      <4> QED BY <1>4, <4>1
    <3> QED BY <1>1, <3>1, <3>2
  <2>4. \E j \in 1 .. n + 1 : k = s[v[j]]
    BY <1>4 DEF k
  <2> QED BY <2>1, <2>2, <2>3, <2>4
<1>11. n + 1 \in 0 .. L /\ (n + 1) + 1 = n + 2
  BY <1>1
<1>12. NodeLists(v, s, n + 1, S \cup {k})
  BY <1>1, <1>2, <1>5, <1>8, <1>9, <1>10, <1>11 DEF NodeLists, IsNode
<1> QED BY <1>3, <1>12 DEF v, k

\* insert_lv_at as a whole.
LEMMA LvInserted ==
    ASSUME NEW x, NEW n \in Nat, NEW S, Holds(x, n, S), n < L,
           NEW k \in Key, NEW r, RankOf(x.word, x.slot, n, k, r)
    PROVE  /\ Holds(InsertLvAt(x, k, r), n + 1, S \cup {k})
           /\ x.word[1] = 0 /\ r > 0 => FirstSlot(InsertLvAt(x, k, r)) = FirstSlot(x)
<1> DEFINE w == x.word
           pos == get_empty_slot(w)
           u == [x.slot EXCEPT ![pos] = k]
           w1 == set_cnk(w, n + 1)
<1>1. w[0] = n /\ NodeLists(w, x.slot, n, S)
  BY DEF Holds
<1>2. /\ InsertLvAt(x, k, r).word = insert(w1, r, pos)
      /\ InsertLvAt(x, k, r).slot = u
  BY <1>1 DEF InsertLvAt, inc_key_num, get_cnk
<1>3. L \in Nat /\ n + 1 \in 0 .. L
  BY LAssumption
<1>4. /\ pos \in Slot /\ NodeLists(w, u, n, S) /\ u[pos] = k
      /\ \A i \in 1 .. n : u[w[i]] = x.slot[w[i]]
  BY <1>1, SlotStored
<1> HIDE DEF pos, u
<1>5. NodeLists(w1, u, n, S) /\ w1[0] = n + 1
  BY <1>3, <1>4, CountStored
<1>6. \A i \in 1 .. n : w1[i] = w[i]
  <2>1. w \in [0 .. L -> 0 .. L]
    BY <1>1 DEF NodeLists, IsNode, Word
  <2>2. \A i \in 1 .. n : i \in 0 .. L /\ i # 0
    BY <1>3
  <2> QED BY <2>1, <2>2 DEF set_cnk
<1> HIDE DEF w1
<1>7. RankOf(w1, u, n, u[pos], r)
  BY <1>4, <1>6 DEF RankOf
<1>8. /\ NodeLists(insert(w1, r, pos), u, n + 1, S \cup {u[pos]})
      /\ insert(w1, r, pos)[0] = n + 1
      /\ r > 0 => insert(w1, r, pos)[1] = w1[1]
  BY <1>3, <1>4, <1>5, <1>7, WordInserted
<1>9. r > 0 => u[w[1]] = x.slot[w[1]]
  <2> SUFFICES ASSUME r > 0 PROVE u[w[1]] = x.slot[w[1]]
    OBVIOUS
  <2>1. 1 \in 1 .. n
    BY DEF RankOf
  <2> QED BY <1>4, <2>1
<1> QED BY <1>2, <1>4, <1>8, <1>9 DEF Holds, FirstSlot

\* delete_rank takes the key of the rank out of the list.
LEMMA WordDeleted ==
    ASSUME NEW w, NEW s, NEW S, NodeLists(w, s, w[0], S), NEW i \in 1 .. w[0]
    PROVE  /\ NodeLists(delete_rank(w, i - 1), s, w[0] - 1, S \ {s[w[i]]})
           /\ delete_rank(w, i - 1)[0] = w[0]
<1> DEFINE n == w[0]
           r == i - 1
           v == delete_rank(w, r)
<1>1. /\ L \in Nat /\ w \in Word /\ s \in [Slot -> Key] /\ n \in 0 .. L /\ r \in 0 .. L - 1
      /\ r \in Nat /\ r < n /\ i = r + 1 /\ n - 1 \in 0 .. L
  BY LAssumption DEF NodeLists, IsNode
<1>2. /\ v \in Word
      /\ \A j \in 0 .. L : v[j] = IF j = 0 THEN n
                                  ELSE IF j <= r THEN w[j]
                                  ELSE IF r = n - 1 \/ j = L THEN 0 ELSE w[j + 1]
  BY <1>1, DeleteWord
<1>3. /\ \A a \in 1 .. n : w[a] \in Slot /\ s[w[a]] \in Key
      /\ \A a, b \in 1 .. n : a < b => KeyLess(s[w[a]], s[w[b]])
      /\ S = {s[w[a]] : a \in 1 .. n}
      /\ \A j \in n + 1 .. L : w[j] = 0
  BY DEF NodeLists, IsNode
<1> HIDE DEF n, r, v
<1>4. v[0] = n
  BY <1>1, <1>2
<1>5. \A a \in 1 .. n - 1 : IF a <= r THEN v[a] = w[a] /\ a \in 1 .. n
                            ELSE v[a] = w[a + 1] /\ a + 1 \in 1 .. n
  BY <1>1, <1>2
<1>6. ASSUME NEW j \in (n - 1) + 1 .. L PROVE v[j] = 0
  <2>1. j \in 0 .. L /\ j # 0 /\ ~(j <= r)
    BY <1>1
  <2>2. CASE j = L
    BY <1>2, <2>1, <2>2
  <2>3. CASE j # L
    <3>1. j + 1 \in n + 1 .. L
      BY <1>1, <2>3
    <3>2. w[j + 1] = 0
      BY <1>3, <3>1
    <3> QED BY <1>2, <2>1, <3>2
  <2> QED BY <2>2, <2>3
<1>7. \A a \in 1 .. n - 1 : v[a] \in Slot
  BY <1>3, <1>5
<1>8. ASSUME NEW a \in 1 .. n - 1, NEW b \in 1 .. n - 1, a < b
      PROVE  KeyLess(s[v[a]], s[v[b]])
  <2>1. CASE b <= r
    BY <1>1, <1>3, <1>5, <1>8, <2>1
  <2>2. CASE a <= r /\ ~(b <= r)
    BY <1>1, <1>3, <1>5, <1>8, <2>2
  <2>3. CASE ~(a <= r)
    BY <1>1, <1>3, <1>5, <1>8, <2>3
  <2> QED BY <1>1, <1>8, <2>1, <2>2, <2>3
<1>9. S \ {s[w[i]]} = {s[v[a]] : a \in 1 .. n - 1}
  <2>1. \A a \in 1 .. n : a # i => s[w[a]] # s[w[i]]
    <3> SUFFICES ASSUME NEW a \in 1 .. n, a # i, s[w[a]] = s[w[i]] PROVE FALSE
      OBVIOUS
    <3>1. i \in 1 .. n /\ (a < i \/ i < a)
      BY <1>1
    <3>2. KeyLess(s[w[a]], s[w[a]])
      BY <1>3, <3>1
    <3> QED BY <1>3, <3>2, KeyOrder
  <2>2. ASSUME NEW a \in 1 .. n - 1 PROVE \E b \in 1 .. n : b # i /\ s[v[a]] = s[w[b]]
    <3>1. CASE a <= r
      BY <1>1, <1>5, <3>1
    <3>2. CASE ~(a <= r)
      <4>1. a + 1 \in 1 .. n /\ a + 1 # i /\ v[a] = w[a + 1]
        BY <1>1, <1>5, <3>2
      <4> QED BY <4>1
    <3> QED BY <3>1, <3>2
  <2>3. ASSUME NEW b \in 1 .. n, b # i PROVE \E a \in 1 .. n - 1 : s[v[a]] = s[w[b]]
    <3>1. CASE b < i
      <4>1. b \in 1 .. n - 1 /\ b <= r
        BY <1>1, <3>1
      <4> QED BY <1>5, <4>1
    <3>2. CASE b > i
      <4>1. b - 1 \in 1 .. n - 1 /\ ~(b - 1 <= r) /\ (b - 1) + 1 = b
        BY <1>1, <3>2
      <4> QED BY <1>5, <4>1
    <3> QED BY <1>1, <2>3, <3>1, <3>2
  <2> QED BY <1>3, <2>1, <2>2, <2>3
<1>10. NodeLists(v, s, n - 1, S \ {s[w[i]]})
  BY <1>1, <1>2, <1>6, <1>7, <1>8, <1>9 DEF NodeLists, IsNode
<1> QED BY <1>4, <1>10 DEF n, r, v

-----------------------------------------------------------------------------
(* Splits of a border node.                                                *)

\* The fan-out is odd, and both halves have keys.
LEMMA Halves ==
    /\ L \in Nat /\ L >= 3 /\ remaining \in Nat /\ remaining >= 1 /\ remaining < L
    /\ L - remaining \in Nat /\ L - remaining >= 1
BY LAssumption, KeyAssumption DEF remaining

\* Deleting the upper ranks one by one leaves the lower ranks and zeros.  The words
\* in between have the ranks that were not deleted yet behind them.
LEMMA ShrunkIs ==
    ASSUME NEW w \in Word, w[0] = L
    PROVE  /\ Shrunk(w) \in Word /\ Shrunk(w)[0] = remaining
           /\ \A j \in 1 .. remaining : Shrunk(w)[j] = w[j]
           /\ \A j \in remaining + 1 .. L : Shrunk(w)[j] = 0
<1> DEFINE d == L - remaining
           F == CHOOSE f : f = [i \in 0 .. d |-> IF i = 0 THEN w
                                                ELSE dec_key_num(delete_rank(f[i - 1], remaining))]
           between(i) == [j \in 0 .. L |-> IF j = 0 THEN L - i
                                          ELSE IF j <= remaining THEN w[j]
                                          ELSE IF j + i <= L THEN w[j + i] ELSE 0]
           g == [i \in 0 .. d |-> between(i)]
<1>1. /\ L \in Nat /\ remaining \in Nat /\ remaining >= 1 /\ remaining < L /\ d \in Nat /\ d >= 1
      /\ \A j \in 0 .. L : w[j] \in 0 .. L
  BY Halves, WordType
<1>2. Shrunk(w) = F[d]
  BY DEF Shrunk
<1>3. ASSUME NEW i \in 0 .. d PROVE between(i) \in Word
  <2>1. \A j \in 0 .. L : between(i)[j] \in 0 .. L
    BY <1>1
  <2> QED BY <2>1 DEF Word
<1>4. between(0) = w
  <2>2. \A j \in 0 .. L : between(0)[j] = w[j]
    BY <1>1
  <2> HIDE DEF between
  <2>1. between(0) \in Word
    <3>1. 0 \in 0 .. d
      BY <1>1
    <3> QED BY <1>3, <3>1
  <2>3. between(0) = [j \in 0 .. L |-> between(0)[j]] /\ w = [j \in 0 .. L |-> w[j]]
    BY <2>1 DEF Word
  <2> QED BY <2>2, <2>3
<1>5. ASSUME NEW i \in 1 .. d
      PROVE  between(i) = dec_key_num(delete_rank(between(i - 1), remaining))
  <2> DEFINE u == between(i - 1)
             v == delete_rank(u, remaining)
             x == dec_key_num(v)
  <2>1. i - 1 \in 0 .. d /\ i \in 0 .. d
    BY <1>1
  <2>2. u \in Word
    BY <1>3, <2>1
  <2>3. \A j \in 0 .. L : u[j] = IF j = 0 THEN L - (i - 1)
                                ELSE IF j <= remaining THEN w[j]
                                ELSE IF j + (i - 1) <= L THEN w[j + (i - 1)] ELSE 0
    OBVIOUS
  <2>4. u[0] = L - (i - 1) /\ remaining < u[0] /\ remaining \in 0 .. L - 1
    BY <1>1, <2>3
  <2> HIDE DEF u
  <2>5. /\ v \in Word
        /\ \A j \in 0 .. L : v[j] = IF j = 0 THEN u[0]
                                    ELSE IF j <= remaining THEN u[j]
                                    ELSE IF remaining = u[0] - 1 \/ j = L THEN 0 ELSE u[j + 1]
    BY <2>2, <2>4, DeleteWord
  <2> HIDE DEF v
  <2>6. x = [v EXCEPT ![0] = u[0] - 1]
    <3>1. v[0] = u[0]
      BY <1>1, <2>5
    <3> QED BY <3>1 DEF dec_key_num, set_cnk, get_cnk
  <2>7. ASSUME NEW j \in 0 .. L PROVE x[j] = between(i)[j]
    <3>1. between(i)[j] = IF j = 0 THEN L - i
                          ELSE IF j <= remaining THEN w[j]
                          ELSE IF j + i <= L THEN w[j + i] ELSE 0
      OBVIOUS
    <3> HIDE DEF between
    <3>2. CASE j = 0
      <4>1. x[0] = u[0] - 1
        BY <1>1, <2>5, <2>6 DEF Word
      <4> QED BY <1>1, <2>4, <3>1, <3>2, <4>1
    <3>3. CASE j # 0
      <4>1. x[j] = v[j]
        BY <2>5, <2>6, <3>3 DEF Word
      <4>2. CASE j <= remaining
        BY <1>1, <2>3, <2>5, <3>1, <3>3, <4>1, <4>2
      <4>3. CASE j > remaining
        <5>1. CASE remaining = u[0] - 1
          BY <1>1, <2>4, <2>5, <3>1, <3>3, <4>1, <4>3, <5>1
        <5>2. CASE j = L
          BY <1>1, <2>5, <3>1, <3>3, <4>1, <4>3, <5>2
        <5>3. CASE remaining # u[0] - 1 /\ j # L
          <6>1. j + 1 \in 0 .. L /\ j + 1 # 0 /\ ~(j + 1 <= remaining)
                /\ (j + 1) + (i - 1) = j + i
            BY <1>1, <4>3, <5>3
          <6>2. v[j] = u[j + 1]
            BY <1>1, <2>5, <3>3, <4>3, <5>3
          <6>3. u[j + 1] = IF j + i <= L THEN w[j + i] ELSE 0
            BY <2>3, <6>1
          <6> QED BY <1>1, <3>1, <3>3, <4>1, <4>3, <6>2, <6>3
        <5> QED BY <5>1, <5>2, <5>3
      <4> QED BY <1>1, <4>2, <4>3
    <3> QED BY <3>2, <3>3
  <2>8. x = [j \in 0 .. L |-> x[j]]
    BY <2>5, <2>6 DEF Word
  <2>9. between(i) = [j \in 0 .. L |-> between(i)[j]]
    OBVIOUS
  <2> HIDE DEF x, between
  <2>10. between(i) = x
    BY <2>7, <2>8, <2>9
  <2> QED BY <2>10 DEF x, v, u
<1> HIDE DEF between
<1>6. g = [i \in 0 .. d |-> IF i = 0 THEN w ELSE dec_key_num(delete_rank(g[i - 1], remaining))]
  <2>1. \A i \in 0 .. d : g[i] = IF i = 0 THEN w
                                 ELSE dec_key_num(delete_rank(g[i - 1], remaining))
    <3> TAKE i \in 0 .. d
    <3>1. CASE i = 0
      BY <1>1, <1>4, <3>1
    <3>2. CASE i # 0
      <4>1. i \in 1 .. d /\ i - 1 \in 0 .. d
        BY <1>1, <3>2
      <4> QED BY <1>5, <3>2, <4>1
    <3> QED BY <3>1, <3>2
  <2> QED BY <2>1
<1> HIDE DEF g
<1>7. F = [i \in 0 .. d |-> IF i = 0 THEN w ELSE dec_key_num(delete_rank(F[i - 1], remaining))]
  BY <1>6
<1> HIDE DEF F
<1>8. \A i \in 0 .. d : F[i] = g[i]
  <2> DEFINE bad == {i \in 0 .. d : F[i] # g[i]}
  <2> SUFFICES ASSUME bad # {} PROVE FALSE
    OBVIOUS
  <2>1. bad \in SUBSET Nat
    BY <1>1
  <2>2. PICK i \in bad : \A j \in bad : i <= j
    <3> HIDE DEF bad
    <3> QED BY <2>1, Least
  <2>3. /\ F[i] = IF i = 0 THEN w ELSE dec_key_num(delete_rank(F[i - 1], remaining))
        /\ g[i] = IF i = 0 THEN w ELSE dec_key_num(delete_rank(g[i - 1], remaining))
    BY <1>6, <1>7
  <2>4. i # 0
    BY <2>2, <2>3
  <2>5. i - 1 \in 0 .. d /\ i - 1 \notin bad
    BY <1>1, <2>2, <2>4
  <2>6. F[i - 1] = g[i - 1]
    BY <2>5
  <2> QED BY <2>2, <2>3, <2>6
<1>9. Shrunk(w) = between(d)
  BY <1>1, <1>2, <1>8 DEF g
<1>10. between(d) \in Word
  BY <1>1, <1>3
<1>11. /\ between(d)[0] = remaining
       /\ \A j \in 1 .. remaining : between(d)[j] = w[j]
       /\ \A j \in remaining + 1 .. L : between(d)[j] = 0
  <2>1. \A j \in 0 .. L : between(d)[j] = IF j = 0 THEN L - d
                                         ELSE IF j <= remaining THEN w[j]
                                         ELSE IF j + d <= L THEN w[j + d] ELSE 0
    BY DEF between
  <2>2. L - d = remaining /\ 0 \in 0 .. L
    BY <1>1
  <2>3. \A j \in 1 .. remaining : j \in 0 .. L /\ j # 0 /\ j <= remaining
    BY <1>1
  <2>4. \A j \in remaining + 1 .. L : j \in 0 .. L /\ j # 0 /\ ~(j <= remaining) /\ ~(j + d <= L)
    BY <1>1
  <2> HIDE DEF d
  <2> QED BY <2>1, <2>2, <2>3, <2>4
<1> QED BY <1>9, <1>10, <1>11

\* The two halves list the lower and the upper ranks.
LEMMA HalvesList ==
    ASSUME NEW w, NEW s, NEW S, NodeLists(w, s, L, S), w[0] = L
    PROVE  /\ Holds(LowerHalf(w, s), remaining, KeysAt(w, s, 1, remaining))
           /\ \A i \in 1 .. remaining :
                 LowerHalf(w, s).slot[LowerHalf(w, s).word[i]] = s[w[i]]
           /\ Holds(UpperHalf(w, s), L - remaining, KeysAt(w, s, remaining + 1, L))
           /\ UpperHalf(w, s).word[1] = 0
           /\ UpperHalf(w, s).slot[0] = s[w[remaining + 1]]
           /\ \A i \in 1 .. L - remaining :
                 UpperHalf(w, s).slot[UpperHalf(w, s).word[i]] = s[w[remaining + i]]
<1> DEFINE m == remaining
           d == L - remaining
           lw == Shrunk(w)
           gone == {get_index_of_rank(w, r) : r \in m .. L - 1}
           ls == [p \in Slot |-> IF p \in gone THEN Cleared ELSE s[p]]
           uw == split_dest(d)
           us == [p \in Slot |-> IF p < d THEN At(w, s, m + p) ELSE Cleared]
<1>1. L \in Nat /\ L >= 3 /\ m \in Nat /\ m >= 1 /\ m < L /\ d \in Nat /\ d >= 1 /\ m + d = L
  BY Halves
<1>2. /\ LowerHalf(w, s).word = lw /\ LowerHalf(w, s).slot = ls
      /\ UpperHalf(w, s).word = uw /\ UpperHalf(w, s).slot = us
  BY DEF LowerHalf, UpperHalf
<1>3. /\ w \in Word /\ s \in [Slot -> Key]
      /\ \A i \in 1 .. L : w[i] \in Slot /\ s[w[i]] \in Key
      /\ \A i, j \in 1 .. L : i < j => KeyLess(s[w[i]], s[w[j]])
  BY DEF NodeLists, IsNode
<1>4. \A i \in 1 .. L : get_index_of_rank(w, i - 1) = w[i] /\ At(w, s, i - 1) = s[w[i]]
  BY NodeFacts DEF NodeLists
<1>5. Cleared \in Key
  BY ClearedIsKey
<1>6. \A i, j \in 1 .. L : w[i] = w[j] => i = j
  <2> SUFFICES ASSUME NEW i \in 1 .. L, NEW j \in 1 .. L, w[i] = w[j], i # j PROVE FALSE
    OBVIOUS
  <2>1. i < j \/ j < i
    BY <1>1
  <2>2. KeyLess(s[w[i]], s[w[i]])
    BY <1>3, <2>1
  <2> QED BY <1>3, <2>2, KeyOrder
<1>7. /\ lw \in Word /\ lw[0] = m /\ \A j \in 1 .. m : lw[j] = w[j]
      /\ \A j \in m + 1 .. L : lw[j] = 0
  BY <1>3, ShrunkIs
<1>8. \A i \in 1 .. m : w[i] \notin gone
  <2> SUFFICES ASSUME NEW i \in 1 .. m, w[i] \in gone PROVE FALSE
    OBVIOUS
  <2>1. PICK r \in m .. L - 1 : w[i] = get_index_of_rank(w, r)
    OBVIOUS
  <2>2. r + 1 \in 1 .. L /\ (r + 1) - 1 = r /\ i \in 1 .. L /\ r + 1 # i
    BY <1>1
  <2>3. w[i] = w[r + 1]
    BY <1>4, <2>1, <2>2
  <2> QED BY <1>6, <2>2, <2>3
<1>9. ls \in [Slot -> Key]
  BY <1>3, <1>5
<1> HIDE DEF lw, gone
<1>10. \A i \in 1 .. m : ls[lw[i]] = s[w[i]] /\ i \in 1 .. L
  BY <1>1, <1>3, <1>7, <1>8
<1> HIDE DEF ls
<1>11. NodeLists(lw, ls, m, {s[w[i]] : i \in 1 .. m})
  <2>1. {s[w[i]] : i \in 1 .. m} = {ls[lw[i]] : i \in 1 .. m}
    BY <1>10
  <2>2. \A i \in 1 .. m : lw[i] \in Slot
    BY <1>3, <1>7, <1>10
  <2>3. \A i, j \in 1 .. m : i < j => KeyLess(ls[lw[i]], ls[lw[j]])
    BY <1>3, <1>10
  <2>4. m \in 0 .. L
    BY <1>1
  <2> HIDE DEF m
  <2> QED BY <1>7, <1>9, <2>1, <2>2, <2>3, <2>4 DEF NodeLists, IsNode
<1>12. \A j \in 0 .. L : uw[j] = IF j = 0 THEN d ELSE IF j <= d THEN j - 1 ELSE 0
  BY DEF split_dest
<1>13. uw \in Word
  <2>1. \A j \in 0 .. L : uw[j] \in 0 .. L
    BY <1>1, <1>12
  <2>2. uw = [j \in 0 .. L |-> uw[j]]
    BY DEF split_dest
  <2> HIDE DEF uw
  <2> QED BY <2>1, <2>2 DEF Word
<1>14. \A i \in 1 .. d : uw[i] = i - 1 /\ i - 1 \in Slot /\ m + i \in 1 .. L
  <2> TAKE i \in 1 .. d
  <2>1. i \in 0 .. L /\ i # 0 /\ i <= d /\ i - 1 \in 0 .. L - 1 /\ m + i \in 1 .. L
    BY <1>1
  <2> QED BY <1>12, <2>1 DEF Slot
<1>15. \A i \in 1 .. d : us[i - 1] = s[w[m + i]]
  <2> TAKE i \in 1 .. d
  <2>1. i - 1 \in Slot /\ i - 1 < d /\ m + (i - 1) = (m + i) - 1 /\ m + i \in 1 .. L
    BY <1>1, <1>14
  <2>2. us[i - 1] = At(w, s, (m + i) - 1)
    BY <2>1
  <2> QED BY <1>4, <2>1, <2>2
<1>16. us \in [Slot -> Key]
  <2> SUFFICES ASSUME NEW p \in Slot PROVE us[p] \in Key
    OBVIOUS
  <2>1. CASE p < d
    <3>1. p + 1 \in 1 .. d /\ (p + 1) - 1 = p
      BY <1>1, <2>1 DEF Slot
    <3>2. us[p] = s[w[m + (p + 1)]]
      BY <1>15, <3>1
    <3> QED BY <1>3, <1>14, <3>1, <3>2
  <2>2. CASE ~(p < d)
    BY <1>5, <2>2
  <2> QED BY <2>1, <2>2
<1> HIDE DEF uw, us
<1>17. \A i \in 1 .. d : us[uw[i]] = s[w[m + i]]
  BY <1>14, <1>15
<1>18. NodeLists(uw, us, d, {s[w[i]] : i \in m + 1 .. L})
  <2>1. \A i \in m + 1 .. L : i - m \in 1 .. d /\ m + (i - m) = i
    BY <1>1
  <2>2. \A i \in 1 .. d : m + i \in m + 1 .. L
    BY <1>1
  <2>3. {s[w[i]] : i \in m + 1 .. L} = {us[uw[i]] : i \in 1 .. d}
    BY <1>17, <2>1, <2>2
  <2>4. \A i \in 1 .. d : uw[i] \in Slot
    BY <1>14
  <2>5. \A i, j \in 1 .. d : i < j => KeyLess(us[uw[i]], us[uw[j]])
    <3> SUFFICES ASSUME NEW i \in 1 .. d, NEW j \in 1 .. d, i < j
                 PROVE  KeyLess(us[uw[i]], us[uw[j]])
      OBVIOUS
    <3>1. m + i \in 1 .. L /\ m + j \in 1 .. L /\ m + i < m + j
      BY <1>1
    <3> QED BY <1>3, <1>17, <3>1
  <2>6. \A j \in d + 1 .. L : uw[j] = 0
    BY <1>1, <1>12
  <2>7. d \in 0 .. L
    BY <1>1
  <2> HIDE DEF m, d
  <2> QED BY <1>13, <1>16, <2>3, <2>4, <2>5, <2>6, <2>7 DEF NodeLists, IsNode
<1>19. uw[0] = d /\ uw[1] = 0 /\ us[0] = s[w[m + 1]]
  <2>1. 0 \in 0 .. L /\ 1 \in 1 .. d /\ 1 - 1 = 0
    BY <1>1
  <2> QED BY <1>12, <1>14, <1>15, <2>1
<1> QED BY <1>2, <1>7, <1>10, <1>11, <1>17, <1>18, <1>19 DEF Holds, KeysAt

\* The key of the put goes to the half where it belongs.
LEMMA ToLeftIs ==
    ASSUME NEW w, NEW s, NEW S, NodeLists(w, s, L, S), NEW k \in Key, k \notin S,
           NEW r, RankOf(w, s, L, k, r)
    PROVE  /\ ToLeft(k, s[w[remaining + 1]], r) <=> KeyLess(k, s[w[remaining + 1]])
           /\ KeyLess(k, s[w[remaining + 1]]) <=> r <= remaining
           /\ s[w[remaining + 1]] \in Key
<1> DEFINE f == s[w[remaining + 1]]
           c == memcmp(k.ks, f.ks, comp_length(k, f))
<1>1. L \in Nat /\ remaining \in Nat /\ remaining + 1 \in 1 .. L /\ r \in 0 .. L
  BY Halves DEF RankOf
<1>2. f \in Key /\ f # k
  BY <1>1 DEF NodeLists, IsNode
<1>3. r <= remaining <=> ~(remaining + 1 <= r)
  BY <1>1
<1>4. IF remaining + 1 <= r THEN KeyLess(f, k) ELSE KeyLess(k, f)
  BY <1>1 DEF RankOf
<1> HIDE DEF f
<1>5. KeyLess(f, k) => ~KeyLess(k, f)
  BY <1>2, KeyOrder
<1>6. KeyLess(k, f) <=> r <= remaining
  BY <1>3, <1>4, <1>5
<1>7. KeyLess(k, f) <=> c < 0 \/ (c = 0 /\ k.kl < f.kl)
  BY <1>2, PrefixBeforeIs DEF PrefixBefore
<1>8. ToLeft(k, f, r) <=> k.kl = 0 \/ c < 0 \/ (c = 0 /\ (k.kl < f.kl \/ r < remaining))
  BY DEF ToLeft
<1>9. k.kl = 0 => KeyLess(k, f)
  <2> SUFFICES ASSUME k.kl = 0 PROVE KeyLess(k, f)
    OBVIOUS
  <2>1. /\ k.ks \in Slices /\ W \in Nat /\ \A i \in 1 .. W : i > k.kl => k.ks[i] = 0
        /\ f.ks \in Slices /\ f.kl \in 0 .. W + 1
    BY <1>2, KeyFacts
  <2>2. SliceLess(k.ks, f.ks) \/ k.ks = f.ks
    <3>1. 0 \in 0 .. W /\ \A i \in 1 .. W : i > 0 => k.ks[i] = 0
      BY <2>1
    <3>2. \A i \in 1 .. 0 : k.ks[i] = f.ks[i]
      OBVIOUS
    <3> QED BY <2>1, <3>1, <3>2, ZeroTail
  <2>3. k.ks = f.ks => k.kl < f.kl
    BY <1>2, <2>1, SameKey
  <2> QED BY <1>2, <2>2, <2>3, KeyLessIs DEF Lex
<1>10. r < remaining => r <= remaining
  BY <1>1
<1> HIDE DEF c
<1> QED BY <1>2, <1>6, <1>7, <1>8, <1>9, <1>10 DEF f

\* border_split as a whole: each half lists the keys on its side of the pivot, the
\* first key of the new node, which stays in slot 0.
LEMMA SplitResult ==
    ASSUME NEW w, NEW s, NEW S, NodeLists(w, s, L, S), w[0] = L, NEW k \in Key, k \notin S,
           NEW r, RankOf(w, s, L, k, r),
           NEW lower \in BOOLEAN, lower <=> ToLeft(k, UpperHalf(w, s).slot[0], r),
           NEW x, x = IF lower THEN InsertLvAt(LowerHalf(w, s), k, r) ELSE LowerHalf(w, s),
           NEW y, y = IF lower THEN UpperHalf(w, s)
                      ELSE InsertLvAt(UpperHalf(w, s), k, r - remaining)
    PROVE  /\ y.slot[0] \in Key /\ y.word[0] # 0
           /\ Holds(x, x.word[0], {j \in S \cup {k} : KeyLess(j, y.slot[0])})
           /\ Holds(y, y.word[0], {j \in S \cup {k} : ~KeyLess(j, y.slot[0])})
<1> DEFINE m == remaining
           d == L - remaining
           left == LowerHalf(w, s)
           right == UpperHalf(w, s)
           p == s[w[m + 1]]
           A == KeysAt(w, s, 1, m)
           B == KeysAt(w, s, m + 1, L)
<1>1. L \in Nat /\ L >= 3 /\ m \in Nat /\ m >= 1 /\ m < L /\ d \in Nat /\ d >= 1 /\ m + d = L
  BY Halves
<1>2. /\ Holds(left, m, A)
      /\ \A i \in 1 .. m : left.slot[left.word[i]] = s[w[i]]
      /\ Holds(right, d, B)
      /\ right.word[1] = 0 /\ right.slot[0] = p
      /\ \A i \in 1 .. d : right.slot[right.word[i]] = s[w[m + i]]
  BY HalvesList
<1>3. /\ ToLeft(k, p, r) <=> KeyLess(k, p)
      /\ KeyLess(k, p) <=> r <= m
      /\ p \in Key
  BY ToLeftIs
<1>4. lower <=> KeyLess(k, p)
  BY <1>2, <1>3
<1>5. /\ \A i \in 1 .. L : s[w[i]] \in Key
      /\ \A i, j \in 1 .. L : i < j => KeyLess(s[w[i]], s[w[j]])
      /\ S = {s[w[i]] : i \in 1 .. L}
  BY DEF NodeLists, IsNode
<1>6. /\ r \in 0 .. L
      /\ \A i \in 1 .. L : IF i <= r THEN KeyLess(s[w[i]], k) ELSE KeyLess(k, s[w[i]])
  BY DEF RankOf
<1> HIDE DEF left, right
<1>7. S = A \cup B
  <2>1. \A i \in 1 .. L : i \in 1 .. m \/ i \in m + 1 .. L
    BY <1>1
  <2>2. /\ \A i \in 1 .. m : i \in 1 .. L
        /\ \A i \in m + 1 .. L : i \in 1 .. L
    BY <1>1
  <2> QED BY <1>5, <2>1, <2>2 DEF KeysAt
<1>8. \A a \in A : KeyLess(a, p)
  <2>1. \A i \in 1 .. m : i \in 1 .. L /\ m + 1 \in 1 .. L /\ i < m + 1
    BY <1>1
  <2> QED BY <1>5, <2>1 DEF KeysAt
<1>9. \A b \in B : ~KeyLess(b, p)
  <2> SUFFICES ASSUME NEW i \in m + 1 .. L PROVE ~KeyLess(s[w[i]], p)
    BY DEF KeysAt
  <2>1. i \in 1 .. L /\ m + 1 \in 1 .. L
    BY <1>1
  <2>2. CASE i = m + 1
    BY <1>3, <2>2, KeyOrder
  <2>3. CASE i # m + 1
    <3>1. m + 1 < i
      BY <1>1, <2>3
    <3>2. KeyLess(p, s[w[i]]) /\ s[w[i]] \in Key
      BY <1>5, <2>1, <3>1
    <3> QED BY <1>3, <3>2, KeyOrder
  <2> QED BY <2>2, <2>3
<1> HIDE DEF p, A, B
<1>10. CASE lower
  <2>1. x = InsertLvAt(left, k, r) /\ y = right
    BY <1>10 DEF left, right
  <2>2. r \in 0 .. m
    BY <1>1, <1>3, <1>4, <1>6, <1>10
  <2>3. \A i \in 1 .. m : i \in 1 .. L
    BY <1>1
  <2>4. RankOf(left.word, left.slot, m, k, r)
    BY <1>2, <1>6, <2>2, <2>3 DEF RankOf
  <2>5. Holds(x, m + 1, A \cup {k})
    <3>1. m \in Nat /\ m < L /\ Holds(left, m, A)
      BY <1>1, <1>2
    <3> HIDE DEF m
    <3>2. Holds(InsertLvAt(left, k, r), m + 1, A \cup {k})
      BY <2>4, <3>1, LvInserted
    <3> QED BY <2>1, <3>2
  <2>6. A \cup {k} = {j \in S \cup {k} : KeyLess(j, p)}
    BY <1>4, <1>7, <1>8, <1>9, <1>10
  <2>7. B = {j \in S \cup {k} : ~KeyLess(j, p)}
    BY <1>4, <1>7, <1>8, <1>9, <1>10
  <2>8. d # 0
    BY <1>1
  <2>9. x.word[0] = m + 1 /\ y.word[0] = d
    BY <1>2, <2>1, <2>5 DEF Holds
  <2> QED BY <1>2, <1>3, <2>1, <2>5, <2>6, <2>7, <2>8, <2>9
<1>11. CASE ~lower
  <2>1. x = left /\ y = InsertLvAt(right, k, r - m)
    BY <1>11 DEF left, right
  <2>2. r - m \in 1 .. d /\ r - m \in 0 .. d /\ r - m > 0 /\ d < L
    BY <1>1, <1>3, <1>4, <1>6, <1>11
  <2>3. \A i \in 1 .. d : m + i \in 1 .. L /\ (m + i <= r <=> i <= r - m)
    BY <1>1, <1>6
  <2>4. \A i \in 1 .. d : IF i <= r - m THEN KeyLess(s[w[m + i]], k) ELSE KeyLess(k, s[w[m + i]])
    BY <1>6, <2>3
  <2>5. RankOf(right.word, right.slot, d, k, r - m)
    BY <1>2, <2>2, <2>4 DEF RankOf
  <2>6. /\ Holds(y, d + 1, B \cup {k})
        /\ y.slot[0] = right.slot[0]
    <3> DEFINE q == r - m
    <3>1. d \in Nat /\ d < L /\ Holds(right, d, B) /\ q > 0 /\ right.word[1] = 0
      BY <1>1, <1>2, <2>2
    <3>2. RankOf(right.word, right.slot, d, k, q) /\ y = InsertLvAt(right, k, q)
      BY <2>1, <2>5
    <3> HIDE DEF d, q
    <3>3. Holds(InsertLvAt(right, k, q), d + 1, B \cup {k})
      BY <3>1, <3>2, LvInserted
    <3>4. FirstSlot(InsertLvAt(right, k, q)) = FirstSlot(right)
      BY <3>1, <3>2, LvInserted, ZenonT(60)
    <3> QED BY <3>2, <3>3, <3>4 DEF FirstSlot
  <2>7. B \cup {k} = {j \in S \cup {k} : ~KeyLess(j, p)}
    BY <1>4, <1>7, <1>8, <1>9, <1>11
  <2>8. A = {j \in S \cup {k} : KeyLess(j, p)}
    BY <1>4, <1>7, <1>8, <1>9, <1>11
  <2>9. d + 1 # 0
    BY <1>1
  <2>10. x.word[0] = m /\ y.word[0] = d + 1
    BY <1>2, <2>1, <2>6 DEF Holds
  <2> QED BY <1>2, <1>3, <2>1, <2>6, <2>7, <2>8, <2>9, <2>10
<1> QED BY <1>10, <1>11

-----------------------------------------------------------------------------
(* Pivots.                                                                 *)

\* Keys in order.
Ascending(ps) ==
    ps \in Seq(Key) /\ \A i, j \in 1 .. Len(ps) : i < j => KeyLess(ps[i], ps[j])

\* The keys of a are before p, those of b behind it.
Between(a, p, b) == (\A k \in ToSet(a) : KeyLess(k, p)) /\ (\A k \in ToSet(b) : KeyLess(p, k))

\* What a sequence of keys has.
LEMMA SeqFacts ==
    ASSUME NEW ps \in Seq(Key)
    PROVE  /\ Len(ps) \in Nat /\ DOMAIN ps = 1 .. Len(ps)
           /\ \A i \in 1 .. Len(ps) : ps[i] \in Key
           /\ ToSet(ps) = {ps[i] : i \in 1 .. Len(ps)}
           /\ ToSet(ps) \subseteq Key
<1>1. Len(ps) \in Nat /\ DOMAIN ps = 1 .. Len(ps) /\ \A i \in 1 .. Len(ps) : ps[i] \in Key
  OBVIOUS
<1> QED BY <1>1 DEF ToSet

\* A part of keys in order.
LEMMA PartAscends ==
    ASSUME NEW ps, Ascending(ps), NEW a \in 1 .. Len(ps) + 1, NEW b \in a - 1 .. Len(ps)
    PROVE  /\ Ascending(SubSeq(ps, a, b)) /\ Len(SubSeq(ps, a, b)) = b - a + 1
           /\ ToSet(SubSeq(ps, a, b)) = {ps[i] : i \in a .. b}
<1> DEFINE q == SubSeq(ps, a, b)
           n == b - a + 1
<1>1. ps \in Seq(Key) /\ \A i, j \in 1 .. Len(ps) : i < j => KeyLess(ps[i], ps[j])
  BY DEF Ascending
<1>2. Len(ps) \in Nat /\ a \in Nat /\ b \in Nat /\ n \in Nat
  BY <1>1, SeqFacts
<1>3. /\ \A i \in 1 .. n : i + a - 1 \in a .. b /\ i + a - 1 \in 1 .. Len(ps)
      /\ \A i \in a .. b : i - a + 1 \in 1 .. n /\ (i - a + 1) + a - 1 = i
  BY <1>2
<1>4. q = [i \in 1 .. n |-> ps[i + a - 1]]
  BY <1>1, <1>2
<1>5. q \in Seq(Key) /\ Len(q) = n /\ \A i \in 1 .. n : q[i] = ps[i + a - 1]
  <2>1. \A i \in 1 .. n : ps[i + a - 1] \in Key
    BY <1>1, <1>3
  <2> QED BY <1>2, <1>4, <2>1
<1> HIDE DEF q
<1>6. ASSUME NEW i \in 1 .. n, NEW j \in 1 .. n, i < j PROVE KeyLess(q[i], q[j])
  <2>1. i + a - 1 < j + a - 1
    BY <1>2, <1>6
  <2> QED BY <1>1, <1>3, <1>5, <2>1
<1>7. ToSet(q) = {q[i] : i \in 1 .. n}
  BY <1>5, SeqFacts
<1>8. ToSet(q) = {ps[i] : i \in a .. b}
  <2>1. ASSUME NEW i \in 1 .. n PROVE \E j \in a .. b : q[i] = ps[j]
    BY <1>3, <1>5
  <2>2. ASSUME NEW j \in a .. b PROVE \E i \in 1 .. n : ps[j] = q[i]
    <3>1. j - a + 1 \in 1 .. n /\ (j - a + 1) + a - 1 = j
      BY <1>3
    <3>2. q[j - a + 1] = ps[(j - a + 1) + a - 1]
      BY <1>5, <3>1
    <3> QED BY <3>1, <3>2
  <2> HIDE DEF n
  <2>3. ASSUME NEW x \in ToSet(q) PROVE x \in {ps[i] : i \in a .. b}
    BY <1>7, <2>1
  <2>4. ASSUME NEW x \in {ps[i] : i \in a .. b} PROVE x \in ToSet(q)
    <3>1. PICK j \in a .. b : x = ps[j]
      OBVIOUS
    <3>2. PICK i \in 1 .. n : ps[j] = q[i]
      BY <2>2
    <3> QED BY <1>7, <3>1, <3>2
  <2> QED BY <2>3, <2>4
<1> QED BY <1>5, <1>6, <1>8 DEF Ascending, q

\* Keys in order, with one between them.
LEMMA JoinAscends ==
    ASSUME NEW a, Ascending(a), NEW p \in Key, NEW b, Ascending(b), Between(a, p, b)
    PROVE  /\ Ascending(a \o <<p>> \o b) /\ Len(a \o <<p>> \o b) = Len(a) + 1 + Len(b)
           /\ ToSet(a \o <<p>> \o b) = ToSet(a) \cup {p} \cup ToSet(b)
<1> DEFINE q == a \o <<p>> \o b
           m == Len(a)
           n == Len(b)
<1>1. /\ a \in Seq(Key) /\ \A i, j \in 1 .. m : i < j => KeyLess(a[i], a[j])
      /\ b \in Seq(Key) /\ \A i, j \in 1 .. n : i < j => KeyLess(b[i], b[j])
  BY DEF Ascending
<1>2. /\ m \in Nat /\ n \in Nat
      /\ ToSet(a) = {a[i] : i \in 1 .. m} /\ ToSet(b) = {b[i] : i \in 1 .. n}
      /\ \A i \in 1 .. m : a[i] \in Key
      /\ \A i \in 1 .. n : b[i] \in Key
  BY <1>1, SeqFacts
<1>3. /\ q \in Seq(Key) /\ Len(q) = m + 1 + n
      /\ \A i \in 1 .. m : q[i] = a[i]
      /\ q[m + 1] = p
      /\ \A i \in 1 .. n : q[m + 1 + i] = b[i]
  BY <1>1, <1>2
<1> HIDE DEF q, m, n
<1>4. \A i \in 1 .. m + 1 + n :
         i \in 1 .. m \/ i = m + 1 \/ \E j \in 1 .. n : i = m + 1 + j
  <2> SUFFICES ASSUME NEW i \in 1 .. m + 1 + n, ~(i \in 1 .. m), i # m + 1
               PROVE  \E j \in 1 .. n : i = m + 1 + j
    OBVIOUS
  <2>1. i - m - 1 \in 1 .. n /\ i = m + 1 + (i - m - 1)
    BY <1>2
  <2> QED BY <2>1
<1>5. ToSet(q) = {q[i] : i \in 1 .. m + 1 + n}
  BY <1>3, SeqFacts
<1>6. /\ \A i \in 1 .. m : i \in 1 .. m + 1 + n
      /\ m + 1 \in 1 .. m + 1 + n
      /\ \A i \in 1 .. n : m + 1 + i \in 1 .. m + 1 + n
  BY <1>2
<1>7. ToSet(q) = ToSet(a) \cup {p} \cup ToSet(b)
  <2>1. ASSUME NEW i \in 1 .. m + 1 + n PROVE q[i] \in ToSet(a) \cup {p} \cup ToSet(b)
    <3>1. CASE i \in 1 .. m
      BY <1>2, <1>3, <3>1
    <3>2. CASE i = m + 1
      BY <1>3, <3>2
    <3>3. ASSUME NEW j \in 1 .. n, i = m + 1 + j PROVE q[i] \in ToSet(b)
      BY <1>2, <1>3, <3>3
    <3> QED BY <1>4, <3>1, <3>2, <3>3
  <2>2. ASSUME NEW x \in ToSet(a) \cup {p} \cup ToSet(b)
        PROVE  \E i \in 1 .. m + 1 + n : x = q[i]
    BY <1>2, <1>3, <1>6
  <2> QED BY <1>5, <2>1, <2>2
<1>8. /\ \A i \in 1 .. m : KeyLess(a[i], p)
      /\ \A i \in 1 .. n : KeyLess(p, b[i])
  BY <1>2 DEF Between
<1>9. ASSUME NEW i \in 1 .. m, NEW j \in 1 .. n PROVE KeyLess(a[i], b[j])
  BY <1>2, <1>8, KeyTransitive
<1>10. ASSUME NEW i \in 1 .. m + 1 + n, NEW j \in 1 .. m + 1 + n, i < j
       PROVE  KeyLess(q[i], q[j])
  <2>1. CASE j \in 1 .. m
    <3>1. i \in 1 .. m
      BY <1>2, <1>10, <2>1
    <3> QED BY <1>1, <1>3, <1>10, <2>1, <3>1 DEF m
  <2>2. CASE j = m + 1
    <3>1. i \in 1 .. m
      BY <1>2, <1>10, <2>2
    <3> QED BY <1>3, <1>8, <2>2, <3>1
  <2>3. ASSUME NEW y \in 1 .. n, j = m + 1 + y PROVE KeyLess(q[i], q[j])
    <3>1. CASE i \in 1 .. m
      BY <1>3, <1>9, <2>3, <3>1
    <3>2. CASE i = m + 1
      BY <1>3, <1>8, <2>3, <3>2
    <3>3. ASSUME NEW x \in 1 .. n, i = m + 1 + x PROVE KeyLess(q[i], q[j])
      <4>1. x < y
        BY <1>2, <1>10, <2>3, <3>3
      <4> QED BY <1>1, <1>3, <2>3, <3>3, <4>1 DEF n
    <3> QED BY <1>4, <3>1, <3>2, <3>3
  <2> QED BY <1>4, <2>1, <2>2, <2>3
<1> QED BY <1>3, <1>7, <1>10 DEF Ascending, q, m, n

\* The descent takes k to the child behind the last pivot that is not behind k.
LEMMA ChildOf ==
    ASSUME NEW ps, Ascending(ps), NEW k \in Key
    PROVE  /\ get_child_of(ps, k) \in 0 .. Len(ps)
           /\ \A i \in 1 .. Len(ps) : KeyLess(k, ps[i]) <=> i > get_child_of(ps, k)
<1> DEFINE n == Len(ps)
           S == {i \in DOMAIN ps : PrefixBefore(k, ps[i])}
           c == get_child_of(ps, k)
<1>1. ps \in Seq(Key) /\ \A i, j \in 1 .. n : i < j => KeyLess(ps[i], ps[j])
  BY DEF Ascending
<1>2. n \in Nat /\ DOMAIN ps = 1 .. n /\ \A i \in 1 .. n : ps[i] \in Key
  BY <1>1, SeqFacts
<1>3. c = IF S = {} THEN n ELSE (CHOOSE x \in S : \A y \in S : x =< y) - 1
  BY DEF get_child_of, Min
<1>4. \A i \in 1 .. n : i \in S <=> KeyLess(k, ps[i])
  BY <1>2, PrefixBeforeIs
<1>5. S \subseteq 1 .. n /\ S \in SUBSET Nat
  BY <1>2
<1> HIDE DEF S, c, n
<1>6. CASE S = {}
  BY <1>2, <1>3, <1>4, <1>6 DEF c, n
<1>7. CASE S # {}
  <2>1. \E x \in S : \A y \in S : x <= y
    BY <1>5, <1>7, Least
  <2>2. PICK x : x \in S /\ (\A y \in S : x <= y) /\ c = x - 1
    BY <1>3, <1>7, <2>1
  <2>3. c \in 0 .. n /\ x \in 1 .. n /\ x = c + 1 /\ c \in Nat
    BY <1>2, <1>5, <2>2
  <2>4. ASSUME NEW i \in 1 .. n PROVE KeyLess(k, ps[i]) <=> i > c
    <3>1. CASE i <= c
      <4>1. ~(x <= i)
        BY <1>2, <2>3, <3>1
      <4> QED BY <1>2, <1>4, <2>2, <2>3, <3>1, <4>1
    <3>2. CASE i = x
      BY <1>4, <2>2, <2>3, <3>2
    <3>3. CASE i > x
      <4>1. KeyLess(ps[x], ps[i]) /\ KeyLess(k, ps[x])
        BY <1>1, <1>4, <2>2, <2>3, <3>3
      <4>2. KeyLess(k, ps[i])
        BY <1>2, <2>3, <4>1, KeyTransitive
      <4> QED BY <1>2, <2>3, <3>3, <4>2
    <3> QED BY <1>2, <2>3, <3>1, <3>2, <3>3
  <2> QED BY <2>3, <2>4 DEF c, n
<1> QED BY <1>6, <1>7

\* insert of an interior node keeps the pivots in order.
LEMMA PivotInserted ==
    ASSUME NEW ps, Ascending(ps), NEW k \in Key, k \notin ToSet(ps)
    PROVE  /\ Ascending(insert_pivot(ps, k)) /\ Len(insert_pivot(ps, k)) = Len(ps) + 1
           /\ ToSet(insert_pivot(ps, k)) = ToSet(ps) \cup {k}
<1> DEFINE n == Len(ps)
           c == get_child_of(ps, k)
           a == SubSeq(ps, 1, c)
           b == SubSeq(ps, c + 1, n)
<1>1. /\ n \in Nat /\ \A i \in 1 .. n : ps[i] \in Key
      /\ ToSet(ps) = {ps[i] : i \in 1 .. n}
  BY SeqFacts DEF Ascending
<1>2. c \in 0 .. n /\ \A i \in 1 .. n : KeyLess(k, ps[i]) <=> i > c
  BY ChildOf
<1>3. insert_pivot(ps, k) = a \o <<k>> \o b
  <2> HIDE DEF c
  <2>1. (c + 1) - 1 = c
    BY <1>1, <1>2
  <2> QED BY <2>1 DEF insert_pivot, InsertAt, c
<1> HIDE DEF c
<1>4. /\ 1 \in 1 .. n + 1 /\ c \in 1 - 1 .. n /\ c - 1 + 1 = c
      /\ c + 1 \in 1 .. n + 1 /\ n \in (c + 1) - 1 .. n /\ n - (c + 1) + 1 = n - c
  BY <1>1, <1>2
<1>5. Ascending(a) /\ Len(a) = c /\ ToSet(a) = {ps[i] : i \in 1 .. c}
  BY <1>4, PartAscends
<1>6. Ascending(b) /\ Len(b) = n - c /\ ToSet(b) = {ps[i] : i \in c + 1 .. n}
  BY <1>4, PartAscends, ZenonT(60)
<1> HIDE DEF a, b
<1>7. /\ \A i \in 1 .. c : i \in 1 .. n /\ ~(i > c)
      /\ \A i \in c + 1 .. n : i \in 1 .. n /\ i > c
      /\ \A i \in 1 .. n : i \in 1 .. c \/ i \in c + 1 .. n
  BY <1>1, <1>2
<1>8. Between(a, k, b)
  <2>1. ASSUME NEW i \in 1 .. c PROVE KeyLess(ps[i], k)
    <3>1. ~KeyLess(k, ps[i]) /\ ps[i] \in Key /\ ps[i] # k
      BY <1>1, <1>2, <1>7
    <3> QED BY <3>1, KeyOrder
  <2>2. ASSUME NEW i \in c + 1 .. n PROVE KeyLess(k, ps[i])
    BY <1>2, <1>7
  <2> QED BY <1>5, <1>6, <2>1, <2>2 DEF Between
<1>9. /\ Ascending(a \o <<k>> \o b) /\ Len(a \o <<k>> \o b) = Len(a) + 1 + Len(b)
      /\ ToSet(a \o <<k>> \o b) = ToSet(a) \cup {k} \cup ToSet(b)
  BY <1>5, <1>6, <1>8, JoinAscends
<1>10. ToSet(ps) = ToSet(a) \cup ToSet(b)
  BY <1>1, <1>5, <1>6, <1>7
<1>11. c + 1 + (n - c) = n + 1
  BY <1>1, <1>2
<1> QED BY <1>3, <1>5, <1>6, <1>9, <1>10, <1>11

\* interior_split keeps every pivot: one goes up, the others are on its two sides.
LEMMA PivotsSplit ==
    ASSUME NEW ps, Ascending(ps), Len(ps) = L, NEW k \in Key, k \notin ToSet(ps),
           NEW x, x = interior_split(ps, k)
    PROVE  /\ x = [left |-> x.left, pivot |-> x.pivot, right |-> x.right]
           /\ Ascending(x.left) /\ Ascending(x.right)
           /\ Len(x.left) \in 1 .. L /\ Len(x.right) \in 1 .. L
           /\ \E p \in Key :
                 /\ x.pivot = <<p>> /\ Between(x.left, p, x.right)
                 /\ ToSet(ps) \cup {k} = ToSet(x.left) \cup {p} \cup ToSet(x.right)
<1> DEFINE m == L \div 2
           p == ps[m + 1]
           a == SubSeq(ps, 1, m)
           b == SubSeq(ps, m + 2, L)
<1>1. L \in Nat /\ m \in Nat /\ m >= 1 /\ m % 2 = 1 /\ L = 2 * m + 1
  BY LAssumption, KeyAssumption
<1>2. /\ \A i \in 1 .. L : ps[i] \in Key
      /\ ToSet(ps) = {ps[i] : i \in 1 .. L}
      /\ \A i, j \in 1 .. L : i < j => KeyLess(ps[i], ps[j])
  BY SeqFacts DEF Ascending
<1>3. x = IF PrefixBefore(k, p)
          THEN [left |-> insert_pivot(a, k), pivot |-> <<p>>, right |-> b]
          ELSE [left |-> a, pivot |-> <<p>>, right |-> insert_pivot(b, k)]
  <2>1. m + 1 + m = L
    BY <1>1
  <2> QED BY <1>1, <2>1 DEF interior_split, pivot_key_pos
<1>4. /\ m + 1 \in 1 .. L /\ 1 \in 1 .. L + 1 /\ m \in 1 - 1 .. L /\ m - 1 + 1 = m
      /\ m + 2 \in 1 .. L + 1 /\ L \in (m + 2) - 1 .. L /\ L - (m + 2) + 1 = m
      /\ m \in 1 .. L /\ m + 1 \in 1 .. L
  BY <1>1
<1> HIDE DEF m
<1>5. Ascending(a) /\ Len(a) = m /\ ToSet(a) = {ps[i] : i \in 1 .. m}
  <2>1. 1 \in 1 .. Len(ps) + 1 /\ m \in 1 - 1 .. Len(ps)
    BY <1>4
  <2>2. Ascending(a) /\ Len(a) = m - 1 + 1 /\ ToSet(a) = {ps[i] : i \in 1 .. m}
    BY <2>1, PartAscends
  <2> QED BY <1>4, <2>2
<1>6. Ascending(b) /\ Len(b) = m /\ ToSet(b) = {ps[i] : i \in m + 2 .. L}
  <2>1. m + 2 \in 1 .. Len(ps) + 1 /\ L \in (m + 2) - 1 .. Len(ps)
    BY <1>4
  <2>2. Ascending(b) /\ Len(b) = L - (m + 2) + 1 /\ ToSet(b) = {ps[i] : i \in m + 2 .. L}
    BY <2>1, PartAscends
  <2> QED BY <1>4, <2>2
<1> HIDE DEF a, b
<1>7. /\ \A i \in 1 .. m : i \in 1 .. L /\ i < m + 1
      /\ \A i \in m + 2 .. L : i \in 1 .. L /\ m + 1 < i
      /\ \A i \in 1 .. L : i \in 1 .. m \/ i = m + 1 \/ i \in m + 2 .. L
  BY <1>1
<1>8. p \in Key /\ p # k
  BY <1>2, <1>4
<1>9. /\ \A j \in ToSet(a) : KeyLess(j, p)
      /\ \A j \in ToSet(b) : KeyLess(p, j)
  BY <1>2, <1>4, <1>5, <1>6, <1>7, SMTT(40)
<1>10. ToSet(ps) = ToSet(a) \cup {p} \cup ToSet(b)
  <2>1. ASSUME NEW i \in 1 .. L PROVE ps[i] \in ToSet(a) \cup {p} \cup ToSet(b)
    BY <1>5, <1>6, <1>7
  <2>2. ToSet(a) \subseteq ToSet(ps)
    BY <1>2, <1>5, <1>7
  <2>3. ToSet(b) \subseteq ToSet(ps)
    BY <1>2, <1>6, <1>7
  <2>4. p \in ToSet(ps)
    BY <1>2, <1>4
  <2> HIDE DEF p
  <2> QED BY <1>2, <2>1, <2>2, <2>3, <2>4
<1> HIDE DEF p
<1>11. CASE PrefixBefore(k, p)
  <2>1. KeyLess(k, p)
    BY <1>8, <1>11, PrefixBeforeIs
  <2>2. x = [left |-> insert_pivot(a, k), pivot |-> <<p>>, right |-> b]
    BY <1>3, <1>11
  <2>3. k \notin ToSet(a)
    BY <1>10
  <2>4. /\ Ascending(insert_pivot(a, k)) /\ Len(insert_pivot(a, k)) = m + 1
        /\ ToSet(insert_pivot(a, k)) = ToSet(a) \cup {k}
    BY <1>5, <2>3, PivotInserted
  <2>5. Between(insert_pivot(a, k), p, b)
    BY <1>9, <2>1, <2>4 DEF Between
  <2>6. ToSet(ps) \cup {k} = ToSet(insert_pivot(a, k)) \cup {p} \cup ToSet(b)
    BY <1>10, <2>4
  <2> QED BY <1>4, <1>6, <1>8, <2>2, <2>4, <2>5, <2>6
<1>12. CASE ~PrefixBefore(k, p)
  <2>1. KeyLess(p, k)
    BY <1>8, <1>12, PrefixBeforeIs, KeyOrder
  <2>2. x = [left |-> a, pivot |-> <<p>>, right |-> insert_pivot(b, k)]
    BY <1>3, <1>12
  <2>3. k \notin ToSet(b)
    BY <1>10
  <2>4. /\ Ascending(insert_pivot(b, k)) /\ Len(insert_pivot(b, k)) = m + 1
        /\ ToSet(insert_pivot(b, k)) = ToSet(b) \cup {k}
    BY <1>6, <2>3, PivotInserted
  <2>5. Between(a, p, insert_pivot(b, k))
    BY <1>9, <2>1, <2>4 DEF Between
  <2>6. ToSet(ps) \cup {k} = ToSet(a) \cup {p} \cup ToSet(insert_pivot(b, k))
    BY <1>10, <2>4
  <2> QED BY <1>4, <1>5, <1>8, <2>2, <2>4, <2>5, <2>6
<1> QED BY <1>11, <1>12

\* So many keys in order are as many.
LEMMA CardListed ==
    ASSUME NEW n \in Nat, NEW f, \A i \in 1 .. n : f[i] \in Key,
           \A i, j \in 1 .. n : i < j => KeyLess(f[i], f[j])
    PROVE  Cardinality({f[i] : i \in 1 .. n}) = n
<1> DEFINE T == {f[i] : i \in 1 .. n}
           g == [i \in 1 .. n |-> f[i]]
<1>1. \A i, j \in 1 .. n : f[i] = f[j] => i = j
  <2> SUFFICES ASSUME NEW i \in 1 .. n, NEW j \in 1 .. n, f[i] = f[j], i # j PROVE FALSE
    OBVIOUS
  <2>1. i < j \/ j < i
    OBVIOUS
  <2>2. KeyLess(f[i], f[i])
    BY <2>1
  <2> QED BY <2>2, KeyOrder
<1>2. g \in [1 .. n -> T] /\ \A i \in 1 .. n : g[i] = f[i]
  OBVIOUS
<1>3. \A t \in T : \E i \in 1 .. n : g[i] = t
  OBVIOUS
<1> HIDE DEF g, T
<1>4. g \in Bijection(1 .. n, T)
  BY <1>1, <1>2, <1>3 DEF Bijection, Injection, Surjection, IsInjective
<1>5. ExistsBijection(1 .. n, T)
  BY <1>4 DEF ExistsBijection
<1>6. IsFiniteSet(1 .. n) /\ Cardinality(1 .. n) = n
  BY FS_Interval
<1>7. Cardinality(T) = Cardinality(1 .. n)
  BY <1>5, <1>6, FS_Bijection
<1> QED BY <1>6, <1>7 DEF T

-----------------------------------------------------------------------------
(* The inductive invariant: what is looked at is one of these.             *)

\* A border node between updates.
NodeMode ==
    /\ pending = Nothing /\ sibling = NoNode /\ pivots = NoPivots
    /\ NodeLists(word, slot, word[0], held)

\* A border node between the two stores of an insertion: the ranks are those of
\* before, one less than the count, and the new key waits in its slot.
InsertMode ==
    /\ pending = [op |-> "insert", rank |-> pending.rank, pos |-> pending.pos]
    /\ sibling = NoNode /\ pivots = NoPivots
    /\ word[0] \in 1 .. L /\ pending.pos \in Slot
    /\ NodeLists(word, slot, word[0] - 1, KeysAt(word, slot, 1, word[0] - 1))
    /\ RankOf(word, slot, word[0] - 1, slot[pending.pos], pending.rank)
    /\ held = KeysAt(word, slot, 1, word[0] - 1) \cup {slot[pending.pos]}

\* A border node between the two stores of a deletion.
DeleteMode ==
    /\ pending = [op |-> "delete", rank |-> pending.rank, pos |-> pending.pos]
    /\ sibling = NoNode /\ pivots = NoPivots
    /\ word[0] \in 1 .. L /\ NodeLists(word, slot, word[0] - 1, held)

\* The two nodes of a split.
SplitMode ==
    /\ pending = Nothing /\ pivots = NoPivots
    /\ sibling.word[0] # 0 /\ Pivot \in Key
    /\ NodeLists(word, slot, word[0], {k \in held : KeyLess(k, Pivot)})
    /\ Holds(sibling, sibling.word[0], {k \in held : ~KeyLess(k, Pivot)})

\* An interior node, or the two of a split and their pivot.
ParentMode ==
    /\ pending = Nothing /\ sibling = NoNode
    /\ pivots = [left |-> pivots.left, pivot |-> pivots.pivot, right |-> pivots.right]
    /\ Ascending(pivots.left) /\ Len(pivots.left) \in 1 .. L
    /\ \/ pivots.pivot = <<>> /\ pivots.right = <<>> /\ held = ToSet(pivots.left)
       \/ \E p \in Key :
             /\ pivots.pivot = <<p>>
             /\ Ascending(pivots.right) /\ Len(pivots.right) \in 1 .. L
             /\ Between(pivots.left, p, pivots.right)
             /\ held = ToSet(pivots.left) \cup {p} \cup ToSet(pivots.right)

IInv ==
    /\ held \subseteq Key
    /\ NodeMode \/ InsertMode \/ DeleteMode \/ SplitMode \/ ParentMode

\* Which of them, from what the actions test.
LEMMA ModeOf ==
    ASSUME IInv
    PROVE  /\ Ready => NodeMode
           /\ pending.op = "insert" => InsertMode
           /\ pending.op = "delete" => DeleteMode
           /\ sibling # NoNode => SplitMode
           /\ pivots # NoPivots => ParentMode
           /\ pivots.left # <<>> => ParentMode
           /\ pivots.pivot # <<>> => ParentMode
<1>1. Nothing.op = "none" /\ NoPivots.left = <<>> /\ NoPivots.pivot = <<>>
  BY DEF Nothing, NoPivots
<1>2. InsertMode => pending.op = "insert" /\ sibling = NoNode /\ pivots = NoPivots
  BY DEF InsertMode
<1>3. DeleteMode => pending.op = "delete" /\ sibling = NoNode /\ pivots = NoPivots
  BY DEF DeleteMode
<1>4. NodeMode => pending = Nothing /\ sibling = NoNode /\ pivots = NoPivots
  BY DEF NodeMode
<1>5. SplitMode => pending = Nothing /\ sibling # NoNode /\ pivots = NoPivots
  <2>1. NoNode.word[0] = 0
    BY LAssumption DEF NoNode, EmptyWord
  <2> QED BY <2>1 DEF SplitMode
<1>6. ParentMode => pending = Nothing /\ sibling = NoNode /\ pivots # NoPivots
  <2>1. Len(<<>>) = 0
    OBVIOUS
  <2> QED BY <1>1, <2>1 DEF ParentMode
<1>7. NodeMode \/ InsertMode \/ DeleteMode \/ SplitMode \/ ParentMode
  BY DEF IInv
<1> QED BY <1>1, <1>2, <1>3, <1>4, <1>5, <1>6, <1>7 DEF Ready

\* What was searched and not found is not in the node.
LEMMA NotFound ==
    ASSUME NEW w, NEW s, NEW S, NodeLists(w, s, w[0], S), NEW k \in Key, get_lv_of(w, s, k) = L
    PROVE  k \notin S
<1> SUFFICES ASSUME k \in S PROVE FALSE
  OBVIOUS
<1>1. IsNode(w, s, w[0]) /\ \A i, j \in 1 .. w[0] : i < j => KeyLess(s[w[i]], s[w[j]])
  BY DEF NodeLists
<1>2. w[0] \in Nat /\ \A i \in 1 .. w[0] : w[i] # L
  BY <1>1, NodeFacts
<1>3. PICK i \in 1 .. w[0] : s[w[i]] = k
  BY DEF NodeLists
<1>4. \A j \in 1 .. i - 1 : j \in 1 .. w[0] /\ j < i
  BY <1>2
<1>5. get_lv_of(w, s, k) = w[i]
  BY <1>1, <1>3, <1>4, LookupFinds
<1> QED BY <1>2, <1>5

\* An empty node lists nothing.
LEMMA EmptyNode ==
    NodeLists(NoNode.word, NoNode.slot, 0, {}) /\ NoNode.word[0] = 0
<1>1. L \in Nat /\ L >= 3
  BY Halves
<1>2. Cleared \in Key
  BY ClearedIsKey
<1>3. NoNode.word = [j \in 0 .. L |-> 0] /\ NoNode.slot = [p \in Slot |-> Cleared]
  BY DEF NoNode, EmptyWord
<1>4. NoNode.word \in Word /\ NoNode.slot \in [Slot -> Key]
  BY <1>1, <1>2, <1>3 DEF Word
<1>5. NoNode.word[0] = 0 /\ \A j \in 0 + 1 .. L : NoNode.word[j] = 0
  BY <1>1, <1>3
<1>6. 0 \in 0 .. L /\ 1 .. 0 = {}
  BY <1>1
<1> QED BY <1>4, <1>5, <1>6 DEF NodeLists, IsNode

LEMMA InitInv == ASSUME Init PROVE IInv
<1>1. NodeMode
  <2>1. word[0] = 0
    BY EmptyNode DEF Init
  <2> QED BY <2>1, EmptyNode DEF Init, NodeMode
<1>2. held \subseteq Key
  BY DEF Init
<1> QED BY <1>1, <1>2 DEF IInv

-----------------------------------------------------------------------------
(* Every step keeps it.                                                    *)

\* insert_lv_at up to its first store.
LEMMA IncKeyNumKeeps == ASSUME IInv, NEW k \in Key, IncKeyNum(k) PROVE IInv'
<1> DEFINE n == word[0]
           pos == get_empty_slot(word)
           u == [slot EXCEPT ![pos] = k]
           r == compute_rank_if_insert(word, slot, k)
<1>1. NodeMode
  BY ModeOf DEF IncKeyNum
<1>2. NodeLists(word, slot, n, held)
  BY <1>1 DEF NodeMode
<1>3. L \in Nat /\ n \in Nat /\ n < L /\ n + 1 \in 0 .. L /\ n + 1 \in 1 .. L /\ (n + 1) - 1 = n
  <2>1. IsNode(word, slot, n)
    BY <1>2 DEF NodeLists
  <2>2. n \in Nat /\ L \in Nat
    BY <2>1, NodeFacts
  <2> QED BY <2>2 DEF IncKeyNum, get_cnk
<1>4. /\ slot' = u /\ word' = set_cnk(word, n + 1) /\ held' = held \cup {k}
      /\ pending' = [op |-> "insert", rank |-> r, pos |-> pos]
      /\ sibling' = sibling /\ pivots' = pivots /\ get_lv_of(word, slot, k) = L
  BY DEF IncKeyNum, inc_key_num, get_cnk
<1>5. k \notin held
  BY <1>2, <1>4, NotFound
<1>6. RankOf(word, slot, n, k, r)
  BY <1>2, <1>5, RankComputed
<1>7. /\ pos \in Slot /\ NodeLists(word, u, n, held) /\ u[pos] = k
      /\ \A i \in 1 .. n : u[word[i]] = slot[word[i]]
  <2>1. word[0] < L
    BY <1>3
  <2>2. pos \in Slot /\ NodeLists(word, u, word[0], held) /\ u[pos] = k
    BY <1>2, <2>1, SlotStored
  <2>3. \A i \in 1 .. word[0] : u[word[i]] = slot[word[i]]
    BY <1>2, <2>1, SlotStored, ZenonT(60)
  <2> QED BY <2>2, <2>3
<1> HIDE DEF pos, u, r
<1>8. NodeLists(word', u, n, held) /\ word'[0] = n + 1
  BY <1>3, <1>4, <1>7, CountStored
<1>9. \A i \in 1 .. n : word'[i] = word[i]
  <2>1. word \in [0 .. L -> 0 .. L]
    BY <1>2 DEF NodeLists, IsNode, Word
  <2>2. \A i \in 1 .. n : i \in 0 .. L /\ i # 0
    BY <1>3
  <2> QED BY <1>4, <2>1, <2>2 DEF set_cnk
<1> HIDE DEF n
<1>10. RankOf(word', u, n, u[pos], r)
  BY <1>6, <1>7, <1>9 DEF RankOf
<1>11. held = KeysAt(word', u, 1, n)
  BY <1>8 DEF NodeLists, KeysAt
<1>12. InsertMode'
  <2>1. word'[0] - 1 = n /\ word'[0] \in 1 .. L
    BY <1>3, <1>8
  <2>2. sibling' = NoNode' /\ pivots' = NoPivots'
    BY <1>1, <1>4 DEF NodeMode, NoNode, NoPivots
  <2>3. pending'.pos = pos /\ pending'.rank = r
    BY <1>4
  <2> QED BY <1>4, <1>7, <1>8, <1>10, <1>11, <2>1, <2>2, <2>3 DEF InsertMode
<1>13. held' \subseteq Key
  BY <1>4 DEF IInv
<1> QED BY <1>12, <1>13 DEF IInv

\* insert_lv_at, second store.
LEMMA InsertKeeps == ASSUME IInv, Insert PROVE IInv'
<1> DEFINE n == word[0] - 1
           S == KeysAt(word, slot, 1, n)
           pos == pending.pos
           r == pending.rank
<1>1. InsertMode
  BY ModeOf DEF Insert
<1>2. /\ word[0] \in 1 .. L /\ pos \in Slot /\ NodeLists(word, slot, n, S)
      /\ RankOf(word, slot, n, slot[pos], r) /\ held = S \cup {slot[pos]}
      /\ sibling = NoNode /\ pivots = NoPivots
  BY <1>1 DEF InsertMode
<1>3. L \in Nat /\ n \in Nat /\ n < L /\ word[0] = n + 1
  BY <1>2, LAssumption
<1>4. /\ word' = insert(word, r, pos) /\ pending' = Nothing
      /\ slot' = slot /\ sibling' = sibling /\ pivots' = pivots /\ held' = held
  BY DEF Insert
<1> HIDE DEF n, S, pos, r
<1>5. NodeLists(insert(word, r, pos), slot, n + 1, S \cup {slot[pos]})
      /\ insert(word, r, pos)[0] = n + 1
  BY <1>2, <1>3, WordInserted
<1>6. NodeMode'
  <2>1. sibling' = NoNode' /\ pivots' = NoPivots' /\ pending' = Nothing'
    BY <1>2, <1>4 DEF NoNode, NoPivots, Nothing
  <2> QED BY <1>2, <1>4, <1>5, <2>1 DEF NodeMode
<1> QED BY <1>4, <1>6 DEF IInv

\* delete_of and the first store of delete_at: the rank found is that of the key.
LEMMA DeleteRankKeeps == ASSUME IInv, NEW k \in Key, DeleteRank(k) PROVE IInv'
<1> DEFINE n == word[0]
<1>1. NodeMode
  BY ModeOf DEF DeleteRank
<1>2. NodeLists(word, slot, n, held) /\ IsNode(word, slot, n)
  BY <1>1 DEF NodeMode, NodeLists
<1>3. /\ L \in Nat /\ n \in Nat /\ n <= L
      /\ \A i \in 1 .. n : slot[word[i]] \in Key /\ At(word, slot, i - 1) = slot[word[i]]
  BY <1>2, NodeFacts
<1>4. PICK r \in Ranks(word) :
         /\ At(word, slot, r).kl = k.kl
         /\ k.kl = 0 \/ memcmp(At(word, slot, r).ks, k.ks, W) = 0
         /\ word' = delete_rank(word, r)
         /\ pending' = [op |-> "delete", rank |-> r, pos |-> get_index_of_rank(word, r)]
  BY DEF DeleteRank
<1>5. held' = held \ {k} /\ slot' = slot /\ sibling' = sibling /\ pivots' = pivots
  BY DEF DeleteRank
<1> DEFINE i == r + 1
<1>6. i \in 1 .. n /\ i - 1 = r /\ n \in 1 .. L
  BY <1>3 DEF Ranks, get_cnk
<1> HIDE DEF i
<1>7. slot[word[i]] = k
  <2>1. At(word, slot, r) = slot[word[i]] /\ slot[word[i]] \in Key
    BY <1>3, <1>6
  <2>2. Matches(At(word, slot, r), k)
    BY <1>4 DEF Matches
  <2> QED BY <2>1, <2>2, MatchesIs
<1>8. /\ NodeLists(delete_rank(word, i - 1), slot, word[0] - 1, held \ {slot[word[i]]})
      /\ delete_rank(word, i - 1)[0] = word[0]
  BY <1>2, <1>6, WordDeleted
<1>9. DeleteMode'
  <2>1. sibling' = NoNode' /\ pivots' = NoPivots'
    BY <1>1, <1>5 DEF NodeMode, NoNode, NoPivots
  <2>2. word'[0] = n /\ NodeLists(word', slot', word'[0] - 1, held')
    BY <1>4, <1>5, <1>6, <1>7, <1>8
  <2>3. pending' = [op |-> "delete", rank |-> pending'.rank, pos |-> pending'.pos]
    BY <1>4
  <2> QED BY <1>6, <2>1, <2>2, <2>3 DEF DeleteMode
<1> QED BY <1>5, <1>9 DEF IInv

\* delete_at, second store.
LEMMA DecKeyNumKeeps == ASSUME IInv, DecKeyNum PROVE IInv'
<1> DEFINE n == word[0] - 1
<1>1. DeleteMode
  BY ModeOf DEF DecKeyNum
<1>2. /\ word[0] \in 1 .. L /\ NodeLists(word, slot, n, held)
      /\ sibling = NoNode /\ pivots = NoPivots
  BY <1>1 DEF DeleteMode
<1>3. n \in 0 .. L
  BY <1>2, LAssumption
<1>4. /\ word' = set_cnk(word, n) /\ pending' = Nothing
      /\ slot' = slot /\ sibling' = sibling /\ pivots' = pivots /\ held' = held
  BY DEF DecKeyNum, dec_key_num, get_cnk
<1> HIDE DEF n
<1>5. NodeLists(set_cnk(word, n), slot, n, held) /\ set_cnk(word, n)[0] = n
  BY <1>2, <1>3, CountStored
<1>6. NodeMode'
  <2>1. sibling' = NoNode' /\ pivots' = NoPivots' /\ pending' = Nothing'
    BY <1>2, <1>4 DEF NoNode, NoPivots, Nothing
  <2> QED BY <1>2, <1>4, <1>5, <2>1 DEF NodeMode
<1> QED BY <1>4, <1>6 DEF IInv

\* border_split.
LEMMA BorderSplitKeeps == ASSUME IInv, NEW k \in Key, border_split(k) PROVE IInv'
<1> DEFINE r == compute_rank_if_insert(word, slot, k)
           lower == ToLeft(k, UpperHalf(word, slot).slot[0], r)
           x == IF lower THEN InsertLvAt(LowerHalf(word, slot), k, r) ELSE LowerHalf(word, slot)
           y == IF lower THEN UpperHalf(word, slot)
                ELSE InsertLvAt(UpperHalf(word, slot), k, r - remaining)
<1>1. NodeMode
  BY ModeOf DEF border_split
<1>2. NodeLists(word, slot, word[0], held) /\ pending = Nothing /\ pivots = NoPivots
  BY <1>1 DEF NodeMode
<1>3. /\ word[0] = L /\ get_lv_of(word, slot, k) = L
      /\ word' = x.word /\ slot' = x.slot /\ sibling' = y
      /\ held' = held \cup {k} /\ pivots' = pivots /\ pending' = pending
  BY DEF border_split, get_cnk
<1>4. NodeLists(word, slot, L, held)
  BY <1>2, <1>3
<1>5. k \notin held
  BY <1>2, <1>3, NotFound
<1>6. RankOf(word, slot, L, k, r)
  BY <1>2, <1>3, <1>5, RankComputed
<1>7. lower \in BOOLEAN
  BY DEF ToLeft
<1> HIDE DEF r
<1>8. /\ y.slot[0] \in Key /\ y.word[0] # 0
      /\ Holds(x, x.word[0], {j \in held \cup {k} : KeyLess(j, y.slot[0])})
      /\ Holds(y, y.word[0], {j \in held \cup {k} : ~KeyLess(j, y.slot[0])})
  <2> HIDE DEF lower
  <2>1. lower <=> ToLeft(k, UpperHalf(word, slot).slot[0], r)
    BY DEF lower
  <2>2. /\ x = IF lower THEN InsertLvAt(LowerHalf(word, slot), k, r) ELSE LowerHalf(word, slot)
        /\ y = IF lower THEN UpperHalf(word, slot)
               ELSE InsertLvAt(UpperHalf(word, slot), k, r - remaining)
    OBVIOUS
  <2> HIDE DEF x, y
  <2> QED BY <1>3, <1>4, <1>5, <1>6, <1>7, <2>1, <2>2, SplitResult, SMTT(40)
<1> HIDE DEF x, y
<1>9. SplitMode'
  <2>1. Pivot' = y.slot[0]
    BY <1>3 DEF Pivot
  <2>2. NodeLists(word', slot', word'[0], {j \in held' : KeyLess(j, Pivot')})
    BY <1>3, <1>8, <2>1 DEF Holds
  <2>3. Holds(sibling', sibling'.word[0], {j \in held' : ~KeyLess(j, Pivot')})
    BY <1>3, <1>8, <2>1
  <2>4. sibling'.word[0] # 0 /\ Pivot' \in Key
    BY <1>3, <1>8, <2>1
  <2>5. pending' = Nothing' /\ pivots' = NoPivots'
    BY <1>2, <1>3 DEF Nothing, NoPivots
  <2> QED BY <2>2, <2>3, <2>4, <2>5 DEF SplitMode
<1>10. held' \subseteq Key
  BY <1>3 DEF IInv
<1> QED BY <1>9, <1>10 DEF IInv

\* A half of a split is looked at.
LEMMA FollowNodeKeeps == ASSUME IInv, FollowLeft \/ FollowRight PROVE IInv'
<1>1. SplitMode
  BY ModeOf DEF FollowLeft, FollowRight
<1>2. /\ NodeLists(word, slot, word[0], {k \in held : KeyLess(k, Pivot)})
      /\ NodeLists(sibling.word, sibling.slot, sibling.word[0], {k \in held : ~KeyLess(k, Pivot)})
      /\ pending = Nothing /\ pivots = NoPivots
  BY <1>1 DEF SplitMode, Holds
<1>3. pending' = Nothing /\ pivots' = NoPivots /\ sibling' = NoNode
  BY <1>2 DEF FollowLeft, FollowRight
<1>4. NodeLists(word', slot', word'[0], held') /\ held' \subseteq held
  <2>1. CASE FollowLeft
    <3>1. word' = word /\ slot' = slot /\ held' = {k \in held : KeyLess(k, Pivot)}
      BY <2>1 DEF FollowLeft
    <3> QED BY <1>2, <3>1
  <2>2. CASE FollowRight
    <3>1. /\ word' = sibling.word /\ slot' = sibling.slot
          /\ held' = {k \in held : ~KeyLess(k, Pivot)}
      BY <2>2 DEF FollowRight
    <3> QED BY <1>2, <3>1
  <2> QED BY <2>1, <2>2
<1>5. NodeMode'
  <2>1. sibling' = NoNode' /\ pivots' = NoPivots' /\ pending' = Nothing'
    BY <1>3 DEF NoNode, NoPivots, Nothing
  <2> QED BY <1>4, <2>1 DEF NodeMode
<1>6. held' \subseteq Key
  BY <1>4 DEF IInv
<1> QED BY <1>5, <1>6 DEF IInv

\* One pivot.
LEMMA OnePivot ==
    ASSUME NEW p \in Key
    PROVE  Ascending(<<p>>) /\ Len(<<p>>) = 1 /\ ToSet(<<p>>) = {p}
<1>1. <<p>> \in Seq(Key) /\ Len(<<p>>) = 1 /\ <<p>>[1] = p
  OBVIOUS
<1>2. ToSet(<<p>>) = {<<p>>[i] : i \in 1 .. 1}
  BY <1>1, SeqFacts
<1>3. 1 .. 1 = {1}
  OBVIOUS
<1>4. \A i, j \in 1 .. 1 : ~(i < j)
  BY <1>3
<1>5. Ascending(<<p>>)
  BY <1>1, <1>4 DEF Ascending
<1> QED BY <1>1, <1>2, <1>3, <1>5

\* The new parent of the two nodes is looked at.
LEMMA FollowParentKeeps == ASSUME IInv, FollowParent PROVE IInv'
<1>1. SplitMode
  BY ModeOf DEF FollowParent
<1>2. Pivot \in Key /\ pending = Nothing
  BY <1>1 DEF SplitMode
<1>3. /\ pivots' = [left |-> <<Pivot>>, pivot |-> <<>>, right |-> <<>>] /\ held' = {Pivot}
      /\ sibling' = NoNode /\ pending' = pending
  BY DEF FollowParent, NoPivots
<1>4. L \in Nat /\ L >= 3
  BY Halves
<1>5. ParentMode'
  <2>1. sibling' = NoNode' /\ pending' = Nothing'
    BY <1>2, <1>3 DEF NoNode, Nothing
  <2>2. Ascending(pivots'.left) /\ Len(pivots'.left) = 1 /\ held' = ToSet(pivots'.left)
    BY <1>2, <1>3, OnePivot
  <2>3. Len(pivots'.left) \in 1 .. L
    BY <1>4, <2>2
  <2> QED BY <1>3, <2>1, <2>2, <2>3 DEF ParentMode
<1> QED BY <1>2, <1>3, <1>5 DEF IInv

\* A half of a split interior node is looked at.
LEMMA FollowHalfKeeps == ASSUME IInv, FollowHalf PROVE IInv'
<1>1. ParentMode
  BY ModeOf DEF FollowHalf
<1>2. /\ pending = Nothing /\ sibling = NoNode
      /\ Ascending(pivots.left) /\ Len(pivots.left) \in 1 .. L
      /\ Ascending(pivots.right) /\ Len(pivots.right) \in 1 .. L
  BY <1>1 DEF ParentMode, FollowHalf
<1>3. PICK half \in {pivots.left, pivots.right} :
         /\ pivots' = [left |-> half, pivot |-> <<>>, right |-> <<>>] /\ held' = ToSet(half)
  BY DEF FollowHalf, NoPivots
<1>4. Ascending(half) /\ Len(half) \in 1 .. L
  BY <1>2, <1>3
<1>5. ParentMode'
  <2>1. sibling' = NoNode' /\ pending' = Nothing'
    BY <1>2 DEF FollowHalf, NoNode, Nothing
  <2> QED BY <1>3, <1>4, <2>1 DEF ParentMode
<1>6. held' \subseteq Key
  BY <1>3, <1>4, SeqFacts DEF Ascending
<1> QED BY <1>5, <1>6 DEF IInv

\* A pivot arrives at the interior node.
LEMMA AddPivotKeeps == ASSUME IInv, NEW k \in Key, AddPivot(k) PROVE IInv'
<1> DEFINE ps == pivots.left
<1>1. ParentMode
  BY ModeOf DEF AddPivot
<1>2. /\ pending = Nothing /\ sibling = NoNode
      /\ pivots = [left |-> ps, pivot |-> <<>>, right |-> <<>>]
      /\ Ascending(ps) /\ Len(ps) \in 1 .. L /\ held = ToSet(ps)
  <2>1. pivots.pivot = <<>>
    BY DEF AddPivot
  <2>2. \A p \in Key : <<p>> # <<>>
    OBVIOUS
  <2> QED BY <1>1, <2>1, <2>2 DEF ParentMode
<1>3. k \notin ToSet(ps)
  BY <1>2 DEF AddPivot
<1>4. /\ pivots' = IF Len(ps) = L THEN interior_split(ps, k)
                   ELSE [pivots EXCEPT !.left = insert_pivot(ps, k)]
      /\ held' = held \cup {k} /\ sibling' = sibling /\ pending' = pending
  BY DEF AddPivot
<1>5. L \in Nat
  BY LAssumption
<1>6. sibling' = NoNode' /\ pending' = Nothing'
  BY <1>2, <1>4 DEF NoNode, Nothing
<1> HIDE DEF ps
<1>7. ParentMode'
  <2>1. CASE Len(ps) = L
    <3>1. pivots' = interior_split(ps, k)
      BY <1>4, <2>1
    <3>2. /\ pivots' = [left |-> pivots'.left, pivot |-> pivots'.pivot, right |-> pivots'.right]
          /\ Ascending(pivots'.left) /\ Ascending(pivots'.right)
          /\ Len(pivots'.left) \in 1 .. L /\ Len(pivots'.right) \in 1 .. L
          /\ \E p \in Key :
                /\ pivots'.pivot = <<p>> /\ Between(pivots'.left, p, pivots'.right)
                /\ ToSet(ps) \cup {k} = ToSet(pivots'.left) \cup {p} \cup ToSet(pivots'.right)
      BY <1>2, <1>3, <2>1, <3>1, PivotsSplit
    <3>3. held' = ToSet(ps) \cup {k}
      BY <1>2, <1>4
    <3> QED BY <1>6, <3>2, <3>3 DEF ParentMode
  <2>2. CASE Len(ps) # L
    <3>1. pivots' = [left |-> insert_pivot(ps, k), pivot |-> <<>>, right |-> <<>>]
      BY <1>2, <1>4, <2>2
    <3>2. /\ Ascending(insert_pivot(ps, k)) /\ Len(insert_pivot(ps, k)) = Len(ps) + 1
          /\ ToSet(insert_pivot(ps, k)) = ToSet(ps) \cup {k}
      BY <1>2, <1>3, PivotInserted
    <3>3. Len(insert_pivot(ps, k)) \in 1 .. L
      BY <1>2, <1>5, <2>2, <3>2
    <3>4. held' = ToSet(insert_pivot(ps, k))
      BY <1>2, <1>4, <3>2
    <3> QED BY <1>6, <3>1, <3>2, <3>3, <3>4 DEF ParentMode
  <2> QED BY <2>1, <2>2
<1>8. held' \subseteq Key
  BY <1>4 DEF IInv
<1> QED BY <1>7, <1>8 DEF IInv

LEMMA NextInv == ASSUME IInv, [Next]_vars PROVE IInv'
<1>1. \A v \in Views : KeyOf(v) \in Key
  <2>1. \A v \in Views : v \in Seq(Byte)
    BY KeyAssumption
  <2> QED BY <2>1, KeyOfIsKey
<1>2. CASE UNCHANGED vars
  BY <1>2 DEF vars, IInv, NodeMode, InsertMode, DeleteMode, SplitMode, ParentMode, Pivot,
              NoNode, NoPivots, Nothing
<1>3. ASSUME NEW v \in Views,
             IncKeyNum(KeyOf(v)) \/ DeleteRank(KeyOf(v)) \/ border_split(KeyOf(v))
                \/ AddPivot(KeyOf(v))
      PROVE  IInv'
  BY <1>1, <1>3, IncKeyNumKeeps, DeleteRankKeeps, BorderSplitKeeps, AddPivotKeeps
<1>4. CASE Insert \/ DecKeyNum
  BY <1>4, InsertKeeps, DecKeyNumKeeps
<1>5. CASE FollowLeft \/ FollowRight \/ FollowParent \/ FollowHalf
  BY <1>5, FollowNodeKeeps, FollowParentKeeps, FollowHalfKeeps
<1> QED BY <1>2, <1>3, <1>4, <1>5 DEF Next

\* The invariant holds throughout.
LEMMA Invariant == Spec => []IInv
<1>1. Init => IInv
  BY InitInv
<1>2. IInv /\ [Next]_vars => IInv'
  BY NextInv
<1> QED BY <1>1, <1>2, PTL DEF Spec

-----------------------------------------------------------------------------
(* What follows from it.                                                   *)

\* The first ranks of the word, as a list.
LEMMA RanksList ==
    ASSUME NEW w, NEW s, NEW n, NEW S, NodeLists(w, s, n, S), n <= w[0]
    PROVE  /\ Lists(SubSeq(Listed(w, s), 1, n), S)
           /\ n = w[0] => Lists(Listed(w, s), S)
           /\ Cardinality(S) = n
<1> DEFINE q == SubSeq(Listed(w, s), 1, n)
           f == Listed(w, s)
<1>1. /\ IsNode(w, s, n) /\ \A i, j \in 1 .. n : i < j => KeyLess(s[w[i]], s[w[j]])
      /\ S = {s[w[i]] : i \in 1 .. n}
  BY DEF NodeLists
<1>2. /\ n \in Nat /\ n <= L /\ w[0] \in Nat
      /\ \A i \in 1 .. n : s[w[i]] \in Key /\ At(w, s, i - 1) = s[w[i]]
  BY <1>1, NodeFacts
<1>3. f = [i \in 1 .. w[0] |-> At(w, s, i - 1)]
  BY DEF Listed, get_cnk
<1>4. \A i \in 1 .. n : i \in 1 .. w[0] /\ f[i] = s[w[i]]
  BY <1>2, <1>3
<1>5. DOMAIN q = 1 .. n /\ \A i \in 1 .. n : q[i] = f[i]
  <2>1. q = [i \in 1 .. n |-> f[i]]
    <3> DEFINE T == {At(w, s, i - 1) : i \in 1 .. w[0]}
    <3>1. f \in Seq(T) /\ Len(f) = w[0]
      <4>1. f \in [1 .. w[0] -> T]
        BY <1>3
      <4> HIDE DEF f, T
      <4> QED BY <1>2, <4>1
    <3> HIDE DEF f, T
    <3>2. /\ SubSeq(f, 1, n) \in Seq(T) /\ Len(SubSeq(f, 1, n)) = n
          /\ \A i \in 1 .. n : SubSeq(f, 1, n)[i] = f[i]
      BY <1>2, <3>1
    <3> QED BY <3>2 DEF f
  <2> QED BY <2>1
<1> HIDE DEF q, f
<1>6. ASSUME NEW g, DOMAIN g = 1 .. n, \A i \in 1 .. n : g[i] = s[w[i]]
      PROVE  Lists(g, S)
  <2>1. {g[i] : i \in DOMAIN g} = {s[w[i]] : i \in 1 .. n}
    BY <1>6
  <2>2. \A i, j \in DOMAIN g : i < j => KeyLess(g[i], g[j])
    BY <1>1, <1>6
  <2> QED BY <1>1, <2>1, <2>2 DEF Lists, ToSet
<1>7. Lists(q, S)
  BY <1>4, <1>5, <1>6
<1>8. n = w[0] => Lists(f, S)
  BY <1>3, <1>4, <1>6
<1>9. Cardinality(S) = n
  <2> DEFINE g == [i \in 1 .. n |-> s[w[i]]]
  <2>1. \A i \in 1 .. n : g[i] = s[w[i]]
    OBVIOUS
  <2>2. S = {g[i] : i \in 1 .. n}
    BY <1>1
  <2> HIDE DEF g
  <2>3. /\ \A i \in 1 .. n : g[i] \in Key
        /\ \A i, j \in 1 .. n : i < j => KeyLess(g[i], g[j])
    BY <1>1, <1>2, <2>1
  <2> QED BY <1>2, <2>2, <2>3, CardListed
<1> QED BY <1>7, <1>8, <1>9 DEF q, f

\* insert, delete_rank, the count and border_split keep the word the list of the
\* node's keys in the order of their strings, for keys of any bytes, and a word
\* seen in the middle of a deletion still lists those that stay.
THEOREM WordRepresents == Spec => []Represents
<1>1. ASSUME IInv PROVE Represents
  <2>1. ASSUME Ready
        PROVE  /\ Lists(Listed(word, slot), held)
               /\ \A j \in get_cnk(word) + 1 .. L : word[j] = 0
    <3>1. NodeLists(word, slot, word[0], held)
      BY <1>1, <2>1, ModeOf DEF NodeMode
    <3>2. word[0] <= word[0]
      BY <3>1, NodeFacts DEF NodeLists
    <3>3. Lists(Listed(word, slot), held)
      BY <3>1, <3>2, RanksList
    <3> QED BY <3>1, <3>3 DEF NodeLists, get_cnk
  <2>2. ASSUME pending.op = "delete"
        PROVE  /\ get_cnk(word) = Cardinality(held) + 1
               /\ Lists(SubSeq(Listed(word, slot), 1, Cardinality(held)), held)
               /\ get_index_of_rank(word, Cardinality(held)) = 0
    <3> DEFINE n == word[0] - 1
    <3>1. word[0] \in 1 .. L /\ NodeLists(word, slot, n, held)
      BY <1>1, <2>2, ModeOf DEF DeleteMode
    <3>2. L \in Nat /\ n \in 0 .. L - 1 /\ n <= word[0] /\ word[0] = n + 1 /\ n + 1 \in n + 1 .. L
      BY <3>1, LAssumption
    <3>3. word \in Word /\ word[n + 1] = 0
      BY <3>1, <3>2 DEF NodeLists, IsNode
    <3> HIDE DEF n
    <3>4. Cardinality(held) = n /\ Lists(SubSeq(Listed(word, slot), 1, n), held)
      BY <3>1, <3>2, RanksList
    <3>5. get_index_of_rank(word, n) = 0
      BY <3>2, <3>3, IndexOfRank
    <3> QED BY <3>2, <3>4, <3>5 DEF get_cnk
  <2> QED BY <2>1, <2>2 DEF Represents
<1> QED BY <1>1, Invariant, PTL

\* get_lv_of finds every key of the node and nothing for another, whatever zero
\* bytes, empty strings and links are in it, and in the middle of a deletion at
\* most what is left in slot 0 besides.
THEOREM SearchesExact == Spec => []LookupExact
<1>1. ASSUME IInv PROVE LookupExact
  <2> SUFFICES ASSUME pending.op # "insert", sibling = NoNode, pivots = NoPivots, NEW v \in Views
               PROVE  LET k == KeyOf(v)
                          p == get_lv_of(word, slot, k)
                      IN  /\ k \in held => p # L
                          /\ p # L => /\ slot[p] = k
                                      /\ k \in held \/ (pending.op = "delete" /\ p = 0)
    BY DEF LookupExact
  <2> DEFINE k == KeyOf(v)
             p == get_lv_of(word, slot, k)
  <2>1. k \in Key
    <3>1. v \in Seq(Byte)
      BY KeyAssumption
    <3> QED BY <3>1, KeyOfIsKey
  <2>2. PICK n : /\ NodeLists(word, slot, n, held) /\ word[0] \in 0 .. L
                 /\ n = word[0] \/ (pending.op = "delete" /\ word[0] = n + 1)
    <3>1. NodeMode \/ DeleteMode
      <4>1. /\ NodeMode \/ InsertMode \/ DeleteMode \/ SplitMode \/ ParentMode
            /\ InsertMode => pending.op = "insert"
        BY <1>1 DEF IInv, InsertMode
      <4>2. ~SplitMode
        <5>1. NoNode.word[0] = 0
          BY EmptyNode
        <5> QED BY <5>1 DEF SplitMode
      <4>3. ~ParentMode
        <5>1. NoPivots.left = <<>> /\ Len(<<>>) = 0
          BY DEF NoPivots
        <5> QED BY <5>1 DEF ParentMode
      <4> QED BY <4>1, <4>2, <4>3
    <3>2. CASE NodeMode
      <4>1. NodeLists(word, slot, word[0], held)
        BY <3>2 DEF NodeMode
      <4>2. word[0] \in 0 .. L
        BY <4>1, NodeFacts DEF NodeLists
      <4> QED BY <4>1, <4>2
    <3>3. CASE DeleteMode
      <4>1. /\ NodeLists(word, slot, word[0] - 1, held) /\ word[0] \in 1 .. L
            /\ pending.op = "delete"
        BY <3>3 DEF DeleteMode
      <4>2. word[0] \in 0 .. L /\ word[0] = (word[0] - 1) + 1
        BY <4>1, LAssumption
      <4> QED BY <4>1, <4>2
    <3> QED BY <3>1, <3>2, <3>3
  <2>3. /\ L \in Nat /\ L >= 3 /\ n \in Nat /\ n <= word[0] /\ word[0] \in Nat
        /\ \A i \in 1 .. n : word[i] \in Slot /\ word[i] # L
    BY <2>2, NodeFacts DEF NodeLists
  <2>4. \A i \in 1 .. word[0] : i \in 1 .. n \/ (i \in n + 1 .. L /\ pending.op = "delete")
    BY <2>2, <2>3
  <2>5. \A i \in n + 1 .. L : word[i] = 0
    BY <2>2 DEF NodeLists
  <2>6. IsNode(word, slot, word[0])
    <3>1. 0 \in Slot
      BY <2>3 DEF Slot
    <3>2. \A i \in 1 .. word[0] : word[i] \in Slot
      BY <2>3, <2>4, <2>5, <3>1
    <3> QED BY <2>2, <3>2 DEF NodeLists, IsNode
  <2>7. /\ held = {slot[word[i]] : i \in 1 .. n}
        /\ \A i, j \in 1 .. n : i < j => KeyLess(slot[word[i]], slot[word[j]])
    BY <2>2 DEF NodeLists
  <2> HIDE DEF k
  <2>8. ASSUME k \in held PROVE p # L
    <3>1. PICK i \in 1 .. n : slot[word[i]] = k
      BY <2>7, <2>8
    <3>2. i \in 1 .. word[0] /\ \A j \in 1 .. i - 1 : j \in 1 .. n /\ j < i
      BY <2>3
    <3>3. p = word[i]
      BY <2>1, <2>6, <2>7, <3>1, <3>2, LookupFinds
    <3> QED BY <2>3, <3>3
  <2>9. ASSUME p # L
        PROVE  slot[p] = k /\ (k \in held \/ (pending.op = "delete" /\ p = 0))
    <3>1. PICK i \in 1 .. word[0] : p = word[i] /\ slot[word[i]] = k
      BY <2>1, <2>6, <2>9, LookupFinds
    <3> QED BY <2>4, <2>5, <2>7, <3>1
  <2> QED BY <2>8, <2>9 DEF k
<1> QED BY <1>1, Invariant, PTL

\* The child of one pivot.
LEMMA ChildOfOne ==
    ASSUME NEW p, NEW k
    PROVE  get_child_of(<<p>>, k) = IF PrefixBefore(k, p) THEN 0 ELSE 1
<1> DEFINE S == {i \in DOMAIN <<p>> : PrefixBefore(k, <<p>>[i])}
<1>1. DOMAIN <<p>> = {1} /\ <<p>>[1] = p /\ Len(<<p>>) = 1
  OBVIOUS
<1>2. S = IF PrefixBefore(k, p) THEN {1} ELSE {}
  BY <1>1
<1>3. get_child_of(<<p>>, k) = IF S = {} THEN 1 ELSE (CHOOSE x \in S : \A y \in S : x =< y) - 1
  BY <1>1 DEF get_child_of, Min
<1> HIDE DEF S
<1>4. CASE PrefixBefore(k, p)
  <2>1. (CHOOSE x \in S : \A y \in S : x =< y) = 1
    BY <1>2, <1>4
  <2> QED BY <1>2, <1>3, <1>4, <2>1
<1>5. CASE ~PrefixBefore(k, p)
  BY <1>2, <1>3, <1>5
<1> QED BY <1>4, <1>5

\* border_split and interior_split leave the descent right: with the pivot they
\* make, get_child_of takes every key to the side that has it, and every pivot
\* is kept, in order.
THEOREM DescentIsRight == Spec => []DescentRight
<1>1. ASSUME IInv PROVE DescentRight
  <2>1. ASSUME sibling # NoNode
        PROVE  /\ Lists(Listed(word, slot), {k \in held : get_child_of(<<Pivot>>, k) = 0})
               /\ Lists(Listed(sibling.word, sibling.slot),
                        {k \in held : get_child_of(<<Pivot>>, k) = 1})
    <3>1. /\ Pivot \in Key /\ held \subseteq Key
          /\ NodeLists(word, slot, word[0], {k \in held : KeyLess(k, Pivot)})
          /\ NodeLists(sibling.word, sibling.slot, sibling.word[0],
                       {k \in held : ~KeyLess(k, Pivot)})
      BY <1>1, <2>1, ModeOf DEF SplitMode, Holds, IInv
    <3> DEFINE p == Pivot
    <3> HIDE DEF p
    <3>2. p \in Key
      BY <3>1 DEF p
    <3>3. \A k \in held : /\ KeyLess(k, p) <=> get_child_of(<<p>>, k) = 0
                          /\ ~KeyLess(k, p) <=> get_child_of(<<p>>, k) = 1
      <4> TAKE k \in held
      <4>1. PrefixBefore(k, p) <=> KeyLess(k, p)
        BY <3>1, <3>2, PrefixBeforeIs
      <4>2. get_child_of(<<p>>, k) = IF PrefixBefore(k, p) THEN 0 ELSE 1
        BY ChildOfOne
      <4> QED BY <4>1, <4>2
    <3>4. /\ {k \in held : KeyLess(k, p)} = {k \in held : get_child_of(<<p>>, k) = 0}
          /\ {k \in held : ~KeyLess(k, p)} = {k \in held : get_child_of(<<p>>, k) = 1}
      BY <3>3
    <3>5. word[0] <= word[0] /\ sibling.word[0] <= sibling.word[0]
      BY <3>1, NodeFacts DEF NodeLists
    <3>6. Lists(Listed(word, slot), {k \in held : KeyLess(k, Pivot)})
      BY <3>1, <3>5, RanksList
    <3>7. Lists(Listed(sibling.word, sibling.slot), {k \in held : ~KeyLess(k, Pivot)})
      BY <3>1, <3>5, RanksList
    <3> QED BY <3>4, <3>6, <3>7 DEF p
  <2>2. ASSUME pivots # NoPivots,
               NEW all, all = pivots.left \o pivots.pivot \o pivots.right
        PROVE  /\ Lists(all, held)
               /\ \A v \in Views : get_child_of(all, KeyOf(v)) =
                                     Cardinality({k \in held : ~KeyLess(KeyOf(v), k)})
    <3>1. Ascending(all) /\ held = ToSet(all)
      <4>1. /\ Ascending(pivots.left)
            /\ \/ pivots.pivot = <<>> /\ pivots.right = <<>> /\ held = ToSet(pivots.left)
               \/ \E p \in Key :
                     /\ pivots.pivot = <<p>>
                     /\ Ascending(pivots.right) /\ Between(pivots.left, p, pivots.right)
                     /\ held = ToSet(pivots.left) \cup {p} \cup ToSet(pivots.right)
        BY <1>1, <2>2, ModeOf DEF ParentMode
      <4>2. CASE pivots.pivot = <<>> /\ pivots.right = <<>> /\ held = ToSet(pivots.left)
        <5>1. pivots.left \in Seq(Key)
          BY <4>1 DEF Ascending
        <5>2. pivots.left \o <<>> = pivots.left
          BY <5>1, ConcatEmptySeq
        <5>3. all = pivots.left
          BY <2>2, <4>2, <5>2
        <5> QED BY <4>1, <4>2, <5>3
      <4>3. ASSUME NEW p \in Key, pivots.pivot = <<p>>,
                   Ascending(pivots.right), Between(pivots.left, p, pivots.right),
                   held = ToSet(pivots.left) \cup {p} \cup ToSet(pivots.right)
            PROVE  Ascending(all) /\ held = ToSet(all)
        <5>1. all = pivots.left \o <<p>> \o pivots.right
          BY <2>2, <4>3
        <5> QED BY <4>1, <4>3, <5>1, JoinAscends
      <4> QED BY <4>1, <4>2, <4>3
    <3>2. /\ Len(all) \in Nat /\ DOMAIN all = 1 .. Len(all)
          /\ held = {all[i] : i \in 1 .. Len(all)}
          /\ \A i \in 1 .. Len(all) : all[i] \in Key
          /\ \A i, j \in 1 .. Len(all) : i < j => KeyLess(all[i], all[j])
      BY <3>1, SeqFacts DEF Ascending
    <3>3. Lists(all, held)
      BY <3>1, <3>2 DEF Lists
    <3>4. ASSUME NEW v \in Views
          PROVE  get_child_of(all, KeyOf(v)) = Cardinality({k \in held : ~KeyLess(KeyOf(v), k)})
      <4> DEFINE q == KeyOf(v)
                 c == get_child_of(all, q)
      <4>1. q \in Key
        <5>1. v \in Seq(Byte)
          BY KeyAssumption
        <5> QED BY <5>1, KeyOfIsKey
      <4> HIDE DEF q
      <4>2. /\ c \in 0 .. Len(all)
            /\ \A i \in 1 .. Len(all) : KeyLess(q, all[i]) <=> i > c
        BY <3>1, <4>1, ChildOf
      <4> HIDE DEF c
      <4>3. c \in Nat /\ \A i \in 1 .. c : i \in 1 .. Len(all) /\ ~(i > c)
        BY <3>2, <4>2
      <4>4. {k \in held : ~KeyLess(q, k)} = {all[i] : i \in 1 .. c}
        <5>1. ASSUME NEW i \in 1 .. Len(all), ~KeyLess(q, all[i]) PROVE i \in 1 .. c
          BY <3>2, <4>2, <4>3, <5>1
        <5>2. ASSUME NEW i \in 1 .. c PROVE all[i] \in held /\ ~KeyLess(q, all[i])
          BY <3>2, <4>2, <4>3
        <5>3. ASSUME NEW k \in held, ~KeyLess(q, k) PROVE \E i \in 1 .. c : k = all[i]
          BY <3>2, <5>1, <5>3
        <5> QED BY <5>2, <5>3
      <4>5. Cardinality({all[i] : i \in 1 .. c}) = c
        BY <3>2, <4>3, CardListed
      <4> QED BY <4>4, <4>5 DEF c, q
    <3> QED BY <3>3, <3>4
  <2> QED BY <2>1, <2>2 DEF DescentRight
<1> QED BY <1>1, Invariant, PTL

\* scan_border skips what is before its left endpoint and nothing else, and the
\* descent of a scan is never to the right of its endpoint, however long that is.
THEOREM ScanBoundsHold == Spec => []ScanBounds
<1>1. ASSUME IInv PROVE ScanBounds
  <2>1. \A l \in Ends : l \in Seq(Byte) /\ l \in Seq(Nat)
    <3>1. Byte \subseteq Nat /\ \A l \in Ends : l \in Seq(Byte)
      BY KeyAssumption
    <3>2. \A l \in Seq(Byte) : Len(l) \in Nat /\ l = [i \in 1 .. Len(l) |-> l[i]]
                               /\ \A i \in 1 .. Len(l) : l[i] \in Byte
      OBVIOUS
    <3>3. \A l \in Seq(Byte) : l \in Seq(Nat)
      BY <3>1, <3>2
    <3> QED BY <3>1, <3>3
  <2>2. ASSUME NEW l \in Ends, NEW k \in held, NEW exclusive \in BOOLEAN
        PROVE  ScanSkips(l, exclusive, k) <=>
                 IF k.kl > W THEN Less(k.ks, l) /\ ~IsPrefix(k.ks, l)
                 ELSE Less(String(k), l) \/ (String(k) = l /\ exclusive)
    <3>1. k \in Key
      BY <1>1 DEF IInv
    <3> QED BY <2>1, <3>1, ScanSkipsRight
  <2>3. ASSUME sibling # NoNode, NEW l \in Ends, KeyLess(KeyOf(l), Pivot)
        PROVE  get_child_of(<<Pivot>>, ScanKeyOf(l)) # 1
    <3>1. Pivot \in Key
      BY <1>1, <2>3, ModeOf DEF SplitMode
    <3>2. PrefixBefore(ScanKeyOf(l), Pivot)
      BY <2>1, <2>3, <3>1, ScanGoesLeft
    <3>3. get_child_of(<<Pivot>>, ScanKeyOf(l)) = 0
      BY <3>2, ChildOfOne
    <3> QED BY <3>3
  <2> QED BY <2>2, <2>3 DEF ScanBounds
<1> QED BY <1>1, Invariant, PTL
====
