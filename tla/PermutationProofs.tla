---- MODULE PermutationProofs ----
(***************************************************************************)
(* What the operations on the permutation word compute, for every fan-out  *)
(* L: the nibbles of a word after insert and delete_rank, and the slot     *)
(* get_empty_slot returns.  Induction over the ranks is an appeal to the   *)
(* least rank of a nonempty set.                                           *)
(***************************************************************************)
EXTENDS PermutationOps, FiniteSetTheorems, WellFoundedInduction, TLAPS

\* The order of the natural numbers, as a relation, is well-founded.
LEMMA LessWellFounded ==
    IsWellFoundedOn({ss \in Nat \X Nat : ss[1] < ss[2]}, Nat)
BY NatLessThanWellFounded DEF OpToRel

\* A nonempty set of natural numbers has a least element: every loop of the
\* code that stops at the first rank with some property rests on this.
LEMMA Least ==
    ASSUME NEW S \in SUBSET Nat, S # {}
    PROVE  \E x \in S : \A y \in S : x <= y
<1> DEFINE R == {ss \in Nat \X Nat : ss[1] < ss[2]}
<1>1. IsWellFoundedOn(R, Nat)
  BY LessWellFounded
<1> HIDE DEF R
<1>2. PICK x \in S : \A y \in S : <<y, x>> \notin R
  BY <1>1, WFMin
<1>3. \A y \in S : ~(y < x)
  BY <1>2 DEF R
<1>4. \A y \in S : x <= y
  <2> TAKE y \in S
  <2>1. x \in Nat /\ y \in Nat
    OBVIOUS
  <2> QED BY <1>3, <2>1
<1> QED BY <1>4

\* The first n ranks are n.
LEMMA Interval ==
    ASSUME NEW n \in Nat
    PROVE  /\ IsFiniteSet(1 .. n) /\ Cardinality(1 .. n) = n
           /\ IsFiniteSet(0 .. n - 1) /\ Cardinality(0 .. n - 1) = n
<1>1. 0 \in Int /\ 1 \in Int /\ n \in Int /\ n - 1 \in Int
  OBVIOUS
<1>2. IsFiniteSet(1 .. n) /\ IsFiniteSet(0 .. n - 1)
  BY ONLY FS_Interval, <1>1, Zenon
<1>3. Cardinality(1 .. n) = IF 1 > n THEN 0 ELSE n - 1 + 1
  BY ONLY FS_Interval, <1>1, Zenon
<1>4. Cardinality(0 .. n - 1) = IF 0 > n - 1 THEN 0 ELSE (n - 1) - 0 + 1
  BY ONLY FS_Interval, <1>1, Zenon
<1> QED BY <1>2, <1>3, <1>4

\* A function into a smaller set takes some value twice.
LEMMA PigeonHole ==
    \A S, T : IsFiniteSet(S) /\ IsFiniteSet(T) /\ Cardinality(T) < Cardinality(S) =>
        \A f \in [S -> T] : \E x, y \in S : x # y /\ f[x] = f[y]
<1> SUFFICES ASSUME NEW S, NEW T, IsFiniteSet(S), IsFiniteSet(T),
                    Cardinality(T) < Cardinality(S), NEW f \in [S -> T]
             PROVE  \E x, y \in S : x # y /\ f[x] = f[y]
  OBVIOUS
<1> QED BY FS_PigeonHole, Zenon

-----------------------------------------------------------------------------
(* Nibbles.                                                                *)

\* get_index_of_rank reads the nibble above the rank.
LEMMA IndexOfRank ==
    ASSUME NEW w \in Word, NEW r \in 0 .. L - 1
    PROVE  get_index_of_rank(w, r) = w[r + 1]
BY LAssumption DEF get_index_of_rank, Shr, Word

\* The count and the slots of a word are numbers up to L.
LEMMA WordType ==
    ASSUME NEW w \in Word
    PROVE  /\ L \in Nat /\ L >= 1 /\ w[0] \in 0 .. L
           /\ \A j \in 0 .. L : w[j] \in 0 .. L
BY LAssumption DEF Word

\* The live slots of a word are its nibbles 1 to cnk.
LEMMA LiveNibbles ==
    ASSUME NEW w \in Word, NEW s
    PROVE  s \in Live(w) <=> \E i \in 1 .. w[0] : s = w[i]
<1>1. L \in Nat /\ w[0] \in 0 .. L
  BY WordType
<1>2. ASSUME NEW r \in 0 .. w[0] - 1
      PROVE  r + 1 \in 1 .. w[0] /\ get_index_of_rank(w, r) = w[r + 1]
  BY <1>1, IndexOfRank
<1>3. ASSUME NEW i \in 1 .. w[0]
      PROVE  i - 1 \in 0 .. w[0] - 1 /\ get_index_of_rank(w, i - 1) = w[i]
  <2>1. i - 1 \in 0 .. w[0] - 1 /\ (i - 1) + 1 = i
    BY <1>1
  <2> QED BY <1>2, <2>1
<1> QED BY <1>2, <1>3 DEF Live, get_cnk

\* The nibbles RightOf keeps are those of the ranks below r.
LEMMA RightOfNibbles ==
    ASSUME NEW w \in Word, NEW r \in 0 .. L, NEW j \in 0 .. L
    PROVE  RightOf(w, r)[j] = IF r # 0 /\ j <= r THEN w[j] ELSE 0
<1>1. CASE r = 0
  BY <1>1 DEF RightOf, EmptyWord
<1>2. CASE r # 0
  <2> DEFINE n == L - r
             up == Shl(w, n)
  <2>1. n \in 0 .. L
    BY LAssumption
  <2>2. \A i \in 0 .. L : up[i] = IF i >= n THEN w[i - n] ELSE 0
    BY DEF Shl
  <2>3. Shr(up, n)[j] = IF j + n <= L THEN up[j + n] ELSE 0
    BY DEF Shr
  <2>4. RightOf(w, r) = Shr(up, n)
    BY <1>2 DEF RightOf
  <2> HIDE DEF up
  <2>5. CASE j <= r
    <3>1. j + n \in 0 .. L /\ j + n <= L /\ j + n >= n /\ (j + n) - n = j
      BY <2>1, <2>5, LAssumption
    <3> HIDE DEF n
    <3> QED BY <1>2, <2>2, <2>3, <2>4, <2>5, <3>1
  <2>6. CASE j > r
    BY <2>1, <2>3, <2>4, <2>6, LAssumption
  <2> QED BY <2>5, <2>6, LAssumption
<1> QED BY <1>1, <1>2

\* insert opens a gap at the rank for the new slot: the whole word.
LEMMA InsertWord ==
    ASSUME NEW w \in Word, NEW r \in 0 .. L - 1, NEW pos \in Slot,
           r < w[0]
    PROVE  /\ insert(w, r, pos) \in Word
           /\ \A j \in 0 .. L :
                insert(w, r, pos)[j] = IF j = 0 THEN w[0]
                                       ELSE IF j <= r THEN w[j]
                                       ELSE IF j = r + 1 THEN pos
                                       ELSE IF r = w[0] - 1 THEN 0 ELSE w[j - 1]
<1> DEFINE target == [j \in 0 .. L |-> IF j = r + 1 THEN pos ELSE 0]
           left   == IF r = get_cnk(w) - 1 THEN EmptyWord ELSE Shl(Shr(w, r + 1), r + 2)
           right  == RightOf(w, r)
<1>1. L \in Nat /\ L >= 1 /\ w[0] \in 0 .. L /\ \A j \in 0 .. L : w[j] \in 0 .. L
  BY WordType
<1>2. \A j \in 0 .. L : right[j] = IF r # 0 /\ j <= r THEN w[j] ELSE 0
  BY <1>1, RightOfNibbles
<1>3. \A j \in 0 .. L : left[j] = IF r = w[0] - 1 \/ j < r + 2 THEN 0 ELSE w[j - 1]
  BY <1>1 DEF Shl, Shr, EmptyWord, get_cnk
<1>4. insert(w, r, pos) = [Or(Or(left, target), right) EXCEPT ![0] = w[0]]
  BY DEF insert, set_cnk, get_cnk
<1>5. pos \in Int
  BY <1>1 DEF Slot
<1> HIDE DEF left, right
<1>6. ASSUME NEW j \in 0 .. L
      PROVE  insert(w, r, pos)[j] = IF j = 0 THEN w[0]
                                    ELSE IF j <= r THEN w[j]
                                    ELSE IF j = r + 1 THEN pos
                                    ELSE IF r = w[0] - 1 THEN 0 ELSE w[j - 1]
  <2>1. CASE j = 0
    BY <1>1, <1>4, <2>1 DEF Or
  <2>2. CASE j # 0
    <3>1. insert(w, r, pos)[j] = IF (IF left[j] = 0 THEN target[j] ELSE left[j]) = 0
                                 THEN right[j]
                                 ELSE IF left[j] = 0 THEN target[j] ELSE left[j]
      BY <1>4, <2>2 DEF Or
    <3>2. target[j] = IF j = r + 1 THEN pos ELSE 0
      OBVIOUS
    <3>3. left[j] = IF r = w[0] - 1 \/ j < r + 2 THEN 0 ELSE w[j - 1]
      BY <1>3
    <3>4. right[j] = IF r # 0 /\ j <= r THEN w[j] ELSE 0
      BY <1>2
    <3> HIDE DEF target
    <3> QED BY <1>1, <1>5, <2>2, <3>1, <3>2, <3>3, <3>4
  <2> QED BY <2>1, <2>2
<1>7. insert(w, r, pos) \in Word
  <2>1. insert(w, r, pos) = [j \in 0 .. L |-> insert(w, r, pos)[j]]
    BY <1>4 DEF Or
  <2>2. ASSUME NEW j \in 0 .. L PROVE insert(w, r, pos)[j] \in 0 .. L
    BY <1>1, <1>6 DEF Slot
  <2> QED BY <2>1, <2>2 DEF Word
<1> QED BY <1>6, <1>7

\* The nibbles of the live ranks, and where the others come from.
LEMMA InsertNibbles ==
    ASSUME NEW w \in Word, NEW r \in 0 .. L - 1, NEW pos \in Slot,
           r < w[0]
    PROVE  /\ insert(w, r, pos) \in Word
           /\ \A j \in 0 .. w[0] :
                insert(w, r, pos)[j] = IF j <= r THEN w[j]
                                       ELSE IF j = r + 1 THEN pos ELSE w[j - 1]
           /\ \A j \in 1 .. L : \/ insert(w, r, pos)[j] \in {0, pos}
                                \/ \E i \in 1 .. L : insert(w, r, pos)[j] = w[i]
<1>1. L \in Nat /\ L >= 1 /\ w[0] \in 0 .. L /\ \A j \in 0 .. L : w[j] \in 0 .. L
  BY WordType
<1>2. ASSUME NEW j \in 0 .. L
      PROVE  insert(w, r, pos)[j] = IF j = 0 THEN w[0]
                                    ELSE IF j <= r THEN w[j]
                                    ELSE IF j = r + 1 THEN pos
                                    ELSE IF r = w[0] - 1 THEN 0 ELSE w[j - 1]
  BY InsertWord
<1>3. insert(w, r, pos) \in Word
  BY InsertWord
<1>4. \A j \in 0 .. w[0] :
        insert(w, r, pos)[j] = IF j <= r THEN w[j]
                               ELSE IF j = r + 1 THEN pos ELSE w[j - 1]
  BY <1>1, <1>2
<1>5. ASSUME NEW j \in 1 .. L
      PROVE  \/ insert(w, r, pos)[j] \in {0, pos}
             \/ \E i \in 1 .. L : insert(w, r, pos)[j] = w[i]
  <2>1. j \in 0 .. L /\ j # 0
    BY <1>1
  <2>2. CASE j <= r
    BY <1>2, <2>1, <2>2
  <2>3. CASE j = r + 1
    BY <1>1, <1>2, <2>1, <2>3
  <2>4. CASE j > r + 1
    <3>1. j - 1 \in 1 .. L
      BY <1>1, <2>4
    <3>2. insert(w, r, pos)[j] = 0 \/ insert(w, r, pos)[j] = w[j - 1]
      BY <1>1, <1>2, <2>1, <2>4
    <3> QED BY <3>1, <3>2
  <2> QED BY <1>1, <2>2, <2>3, <2>4
<1> QED BY <1>3, <1>4, <1>5

\* delete_rank closes the gap and leaves the count for dec_key_num: the whole word.
LEMMA DeleteWord ==
    ASSUME NEW w \in Word, NEW r \in 0 .. L - 1, r < w[0]
    PROVE  /\ delete_rank(w, r) \in Word
           /\ \A j \in 0 .. L :
                delete_rank(w, r)[j] = IF j = 0 THEN w[0]
                                       ELSE IF j <= r THEN w[j]
                                       ELSE IF r = w[0] - 1 \/ j = L THEN 0 ELSE w[j + 1]
<1> DEFINE left  == IF r = get_cnk(w) - 1 \/ r = L - 1
                    THEN EmptyWord ELSE Shl(Shr(w, r + 2), r + 1)
           right == RightOf(w, r)
<1>1. L \in Nat /\ L >= 1 /\ w[0] \in 0 .. L /\ \A j \in 0 .. L : w[j] \in 0 .. L
  BY WordType
<1>2. \A j \in 0 .. L : right[j] = IF r # 0 /\ j <= r THEN w[j] ELSE 0
  BY <1>1, RightOfNibbles
<1>3. \A j \in 0 .. L :
        left[j] = IF r = w[0] - 1 \/ j <= r \/ j = L THEN 0 ELSE w[j + 1]
  BY <1>1 DEF Shl, Shr, EmptyWord, get_cnk
<1>4. delete_rank(w, r) = [Or(left, right) EXCEPT ![0] = w[0]]
  BY DEF delete_rank, set_cnk, get_cnk
<1> HIDE DEF left, right
<1>5. ASSUME NEW j \in 0 .. L
      PROVE  delete_rank(w, r)[j] = IF j = 0 THEN w[0]
                                    ELSE IF j <= r THEN w[j]
                                    ELSE IF r = w[0] - 1 \/ j = L THEN 0 ELSE w[j + 1]
  <2>1. CASE j = 0
    BY <1>1, <1>4, <2>1 DEF Or
  <2>2. CASE j # 0
    <3>1. delete_rank(w, r)[j] = IF left[j] = 0 THEN right[j] ELSE left[j]
      BY <1>4, <2>2 DEF Or
    <3>2. left[j] = IF r = w[0] - 1 \/ j <= r \/ j = L THEN 0 ELSE w[j + 1]
      BY <1>3
    <3>3. right[j] = IF r # 0 /\ j <= r THEN w[j] ELSE 0
      BY <1>2
    <3> QED BY <1>1, <2>2, <3>1, <3>2, <3>3
  <2> QED BY <2>1, <2>2
<1>6. delete_rank(w, r) \in Word /\ delete_rank(w, r)[0] = w[0]
  <2>1. delete_rank(w, r) = [j \in 0 .. L |-> delete_rank(w, r)[j]]
    BY <1>4 DEF Or
  <2>2. ASSUME NEW j \in 0 .. L PROVE delete_rank(w, r)[j] \in 0 .. L
    BY <1>1, <1>5
  <2> QED BY <1>1, <1>5, <2>1, <2>2 DEF Word
<1> QED BY <1>5, <1>6

\* The nibbles of the ranks that stay, and where the others come from.
LEMMA DeleteNibbles ==
    ASSUME NEW w \in Word, NEW r \in 0 .. L - 1, r < w[0]
    PROVE  /\ delete_rank(w, r) \in Word
           /\ delete_rank(w, r)[0] = w[0]
           /\ \A j \in 1 .. w[0] - 1 :
                delete_rank(w, r)[j] = IF j <= r THEN w[j] ELSE w[j + 1]
           /\ \A j \in 1 .. L : \/ delete_rank(w, r)[j] = 0
                                \/ \E i \in 1 .. L : delete_rank(w, r)[j] = w[i]
<1>1. L \in Nat /\ L >= 1 /\ w[0] \in 0 .. L /\ \A j \in 0 .. L : w[j] \in 0 .. L
  BY WordType
<1>2. ASSUME NEW j \in 0 .. L
      PROVE  delete_rank(w, r)[j] = IF j = 0 THEN w[0]
                                    ELSE IF j <= r THEN w[j]
                                    ELSE IF r = w[0] - 1 \/ j = L THEN 0 ELSE w[j + 1]
  BY DeleteWord
<1>3. delete_rank(w, r) \in Word /\ delete_rank(w, r)[0] = w[0]
  BY <1>1, <1>2, DeleteWord
<1>4. \A j \in 1 .. w[0] - 1 :
        delete_rank(w, r)[j] = IF j <= r THEN w[j] ELSE w[j + 1]
  BY <1>1, <1>2
<1>5. ASSUME NEW j \in 1 .. L
      PROVE  \/ delete_rank(w, r)[j] = 0
             \/ \E i \in 1 .. L : delete_rank(w, r)[j] = w[i]
  <2>1. j \in 0 .. L /\ j # 0
    BY <1>1
  <2>2. CASE j <= r
    BY <1>2, <2>1, <2>2
  <2>3. CASE j > r /\ (r = w[0] - 1 \/ j = L)
    BY <1>1, <1>2, <2>1, <2>3
  <2>4. CASE j > r /\ ~(r = w[0] - 1 \/ j = L)
    <3>1. j + 1 \in 1 .. L
      BY <1>1, <2>4
    <3>2. delete_rank(w, r)[j] = w[j + 1]
      BY <1>1, <1>2, <2>1, <2>4
    <3> QED BY <3>1, <3>2
  <2> QED BY <1>1, <2>2, <2>3, <2>4
<1> QED BY <1>3, <1>4, <1>5

\* A word with room has an empty slot, and get_empty_slot returns one.
LEMMA EmptySlot ==
    ASSUME NEW w \in Word, w[0] < L
    PROVE  get_empty_slot(w) \in Slot /\ get_empty_slot(w) \notin Live(w)
<1>1. L \in Nat /\ L >= 1 /\ w[0] \in 0 .. L
  BY WordType
<1> DEFINE free == {s \in Slot : s \notin Live(w)}
<1>2. free # {}
  <2> SUFFICES ASSUME free = {} PROVE FALSE
    OBVIOUS
  <2>1. \A s \in Slot : \E i \in 1 .. w[0] : w[i] = s
    BY LiveNibbles
  <2>2. \E f : f = [s \in Slot |-> CHOOSE i \in 1 .. w[0] : w[i] = s]
    OBVIOUS
  <2> DEFINE used == 1 .. w[0]
  <2>3. PICK f : f \in [Slot -> used] /\ \A s \in Slot : w[f[s]] = s
    BY <2>1, <2>2
  <2>4. IsFiniteSet(Slot) /\ Cardinality(Slot) = L
    BY <1>1, Interval DEF Slot
  <2>5. IsFiniteSet(used) /\ Cardinality(used) = w[0]
    BY <1>1, Interval
  <2> HIDE DEF used
  <2>6. Cardinality(used) < Cardinality(Slot)
    BY <2>4, <2>5
  <2>7. f \in [Slot -> used]
    BY <2>3
  <2>8. \E x, y \in Slot : x # y /\ f[x] = f[y]
    BY ONLY <2>4, <2>5, <2>6, <2>7, PigeonHole
  <2> QED BY <2>3, <2>8
<1>3. \E s \in free : \A u \in free : s <= u
  <2>1. free \in SUBSET Nat
    BY <1>1 DEF Slot
  <2> HIDE DEF free
  <2> QED BY <1>2, <2>1, Least
<1>4. \E s \in Slot : s \notin Live(w) /\ \A u \in Slot : u < s => u \in Live(w)
  <2>1. PICK s \in free : \A u \in free : s <= u
    BY <1>3
  <2>2. \A u \in Slot : u < s => u \in Live(w)
    BY <1>1, <2>1 DEF Slot
  <2> QED BY <2>1, <2>2
<1> QED BY <1>4 DEF get_empty_slot
====
