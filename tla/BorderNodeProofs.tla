---- MODULE BorderNodeProofs ----
(***************************************************************************)
(* Proofs about BorderNode, for any fan-out, keys, threads, menus and      *)
(* number of calls.                                                        *)
(***************************************************************************)
EXTENDS BorderNode, PermutationProofs

-----------------------------------------------------------------------------
(* The inductive invariant.                                                *)

\* Where a call can be: holding the lock to insert, to update or to remove ...
InsertLabels == {"insert_slot", "insert_count", "insert_rank"}
DeleteLabels == {"delete_value", "delete_rank", "delete_count", "unlock_remove"}
Holding == InsertLabels \cup DeleteLabels \cup {"update_slot", "unlock_put"}

\* ... or reading.
ScanLabels == {"scan_border", "scan_perm", "scan_slot", "scan_check"}
Reading == ScanLabels \cup {"idle", "fetch", "perm", "keys", "check", "value", "final",
                            "lock_insert", "lock_update", "lock_remove", "absent"}

\* The variables TypeOK leaves out are functions of the threads.
DomainInv ==
    /\ pc \in [Threads -> Holding \cup Reading]
    /\ DOMAIN req = Threads /\ DOMAIN resp = Threads /\ DOMAIN seen = Threads
    /\ DOMAIN out = Threads /\ DOMAIN acc = Threads

\* One thread holds the lock, and the dirty bit is up while it inserts.
LockInv ==
    /\ \A t, u \in Threads : pc[t] \in Holding /\ pc[u] \in Holding => t = u
    /\ ver.locked <=> \E t \in Threads : pc[t] \in Holding
    /\ ~ver.splitting
    /\ ver.inserting_deleting => \E t \in Threads : pc[t] \in InsertLabels \cup {"unlock_put"}
    /\ \A t \in Threads : pc[t] \in InsertLabels => ver.inserting_deleting

\* A call is where its type and what it found let it be.
CallRight(t) ==
    /\ calls[t] <= MaxOps[t]
    /\ pc[t] = "idle" <=> resp[t].st # "pending"
    /\ pc[t] # "idle" =>
          /\ req[t].type \in {"get", "put", "insert", "remove", "scan"}
          /\ req[t].key \in Keys
          /\ req[t].val = <<t, calls[t]>> /\ req[t].val \in Values
          /\ (req[t].type = "scan") <=> (pc[t] \in ScanLabels)
    /\ pc[t] \in InsertLabels \cup {"update_slot", "unlock_put", "lock_insert", "lock_update"}
          => req[t].type \in {"put", "insert"}
    /\ pc[t] \in DeleteLabels \cup {"lock_remove", "absent"} => req[t].type = "remove"
    /\ pc[t] \in {"value", "final"} => req[t].type = "get"
    /\ pc[t] \in {"lock_insert", "absent"} => slot[t] = None
    /\ pc[t] \in {"insert_count", "insert_rank", "lock_update", "update_slot", "value"}
                 \cup DeleteLabels => slot[t] \in Slot
CallInv == \A t \in Threads : CallRight(t)

\* The keys of the node: one less than cnk between the two stores to the word.
Gap == \E t \in Threads : pc[t] \in {"insert_rank", "delete_count"}
Count == IF Gap THEN perm[0] - 1 ELSE perm[0]

InSlots(w) == \A j \in 1 .. L : w[j] \in Slot
Ascends(w, n, ks) == \A i, j \in 1 .. n : i < j => ks[w[i]] < ks[w[j]]
Has(w, n, ks, k) == \E i \in 1 .. n : ks[w[i]] = k

\* At every step, under the lock too, the node's keys are in order.
NodeInv == Count \in 0 .. L /\ InSlots(perm) /\ Ascends(perm, Count, key)

\* What t found is the only place its key can be.
Found(t) ==
    IF slot[t] = None
    THEN ~Has(perm, Count, key, req[t].key)
    ELSE /\ key[slot[t]] = req[t].key
         /\ \A i \in 1 .. Count : key[perm[i]] = req[t].key => perm[i] = slot[t]

\* What the thread with the lock knows of the node.
HolderKnows(t) ==
    /\ pc[t] \in InsertLabels \cup {"delete_count", "unlock_remove"} =>
          ~Has(perm, Count, key, req[t].key)
    /\ pc[t] \in {"insert_count", "insert_rank"} =>
          /\ \A i \in 1 .. Count : perm[i] # slot[t]
          /\ key[slot[t]] = req[t].key /\ lv[slot[t]] = req[t].val
    /\ pc[t] = "insert_rank" =>
          lw[t][0] = Count /\ \A j \in 1 .. L : lw[t][j] = perm[j]
    /\ pc[t] = "update_slot" => Found(t)
    /\ pc[t] = "unlock_put" =>
          \A i \in 1 .. Count : key[perm[i]] = req[t].key => lv[perm[i]] = req[t].val
    /\ pc[t] \in {"delete_value", "delete_rank"} =>
          (\E i \in 1 .. Count : perm[i] = slot[t]) /\ key[slot[t]] = req[t].key
HolderInv == \A t \in Threads : HolderKnows(t)

\* No insertion was begun since the fetch of t.
SameEra(t) == ver.vinsert_delete = v[t].vinsert_delete /\ ~ver.inserting_deleting

\* The word t read, up to its m-th rank, holds every key of the node.
Covers(w, m) ==
    /\ Ascends(w, m, key)
    /\ \A i \in 1 .. Count : \E j \in 1 .. m : perm[i] = w[j]

\* What a reader knows as long as no insertion was begun since its fetch.
\* Deletions may have happened, or may be half done.
ReaderKnows(t) ==
    /\ pc[t] = "keys" => InSlots(lw[t])
    /\ pc[t] = "keys" /\ SameEra(t) => \E m \in 0 .. lw[t][0] : Covers(lw[t], m)
    /\ pc[t] \in {"check", "lock_insert", "lock_update", "absent"} /\ SameEra(t) => Found(t)
ReaderInv == \A t \in Threads : ReaderKnows(t)

\* The node holds the map kv, but for the key the thread with the lock changes.
KvInv ==
    \A k \in Keys :
        /\ (\A t \in Threads : pc[t] \in {"unlock_put", "delete_rank"} => req[t].key # k) =>
              \A i \in 1 .. Count : key[perm[i]] = k => lv[perm[i]] = kv[k]
        /\ (\A t \in Threads : pc[t] \in {"delete_count", "unlock_remove"} => req[t].key # k) =>
              (~Has(perm, Count, key, k) => kv[k] = None)

\* A call has seen what the map is now.
SeenInv ==
    \A t \in Threads : pc[t] # "idle" => KV!View(req[t], kv) \in seen[t]

\* The values that are in use or were given up.
Used == retired \cup freed \cup ({lv[s] : s \in Slot} \ {None})

\* A value is in one place: in one slot, or retired, or freed.
ValueInv ==
    /\ retired \cap freed = {}
    /\ Inline => retired = {} /\ freed = {}
    /\ \A s \in Slot : lv[s] \notin retired \cup freed
    /\ ~Inline => \A r, s \in Slot : lv[r] = lv[s] /\ lv[r] # None => r = s
    /\ \A i \in 1 .. Count : 
          lv[perm[i]] # None \/ \E t \in Threads : pc[t] = "delete_rank" /\ slot[t] = perm[i]
    /\ \A t \in Threads, i \in Nat :
          <<t, i>> \in Used =>
              /\ i <= calls[t]
              /\ i = calls[t] => pc[t] \in {"idle", "insert_count", "insert_rank", "unlock_put"}

IInv ==
    /\ TypeOK /\ DomainInv /\ LockInv /\ CallInv
    /\ NodeInv /\ HolderInv /\ ReaderInv
    /\ KvInv /\ SeenInv /\ AbsenceTrue /\ ValueInv

-----------------------------------------------------------------------------
(* Facts about the constants and the words.                                *)

\* No slot and no value is None, and keys are numbers.
LEMMA Constants ==
    /\ L \in Nat /\ L >= 1
    /\ None \notin Slot /\ None \notin Values /\ Keys \subseteq Nat
    /\ \A s \in Slot : s \in 0 .. L /\ s \in Nat
BY LAssumption, NoneAssumption, BorderAssumption DEF Slot

\* The value of a call within the bound is a value.
LEMMA CallValue ==
    ASSUME NEW t \in Threads, NEW i \in Nat, 1 <= i, i <= MaxOps[t]
    PROVE  <<t, i>> \in Values
<1>1. i \in 1 .. MaxOps[t]
  BY BorderAssumption
<1> QED BY <1>1 DEF Values

\* The version word keeps its type.
LEMMA BodyType ==
    ASSUME NEW b \in Body
    PROVE  /\ InitBody \in Body /\ unlocked(b) \in Body
           /\ \A d \in BOOLEAN :
                 /\ [b EXCEPT !.locked = TRUE, !.inserting_deleting = TRUE, !.deleted = d] \in Body
                 /\ [b EXCEPT !.deleted = d] \in Body
           /\ [b EXCEPT !.locked = TRUE] \in Body
<1>1. InitBody \in Body
  BY VPeriodAssumption DEF Body, Counter, InitBody
<1>2. \A c \in Counter : inc(c) \in Counter
  BY VPeriodAssumption DEF Counter, inc
<1>3. unlocked(b) \in Body
  BY <1>2 DEF Body, unlocked
<1>4. \A d \in BOOLEAN :
         /\ [b EXCEPT !.locked = TRUE, !.inserting_deleting = TRUE, !.deleted = d] \in Body
         /\ [b EXCEPT !.deleted = d] \in Body
  BY DEF Body
<1>5. [b EXCEPT !.locked = TRUE] \in Body
  BY DEF Body
<1> QED BY <1>1, <1>3, <1>4, <1>5

\* Nothing of the other threads changes.
Only(t) ==
    \A u \in Threads :
        u # t => /\ pc'[u] = pc[u] /\ v'[u] = v[u] /\ lw'[u] = lw[u] /\ slot'[u] = slot[u]
                 /\ out'[u] = out[u] /\ acc'[u] = acc[u] /\ calls'[u] = calls[u]
                 /\ req'[u] = req[u] /\ resp'[u] = resp[u]

\* The node still has the slots it had, with their keys.
KeysKept ==
    \A i \in 1 .. Count : \E j \in 1 .. Count' :
        perm'[j] = perm[i] /\ key'[perm[i]] = key[perm[i]]

\* A call that returns resets its locals.
LEMMA ReturnFrame ==
    ASSUME TypeOK, DomainInv, NEW t \in Threads, NEW a, Return(t, a)
    PROVE  /\ pc' \in [Threads -> Holding \cup Reading] /\ pc'[t] = "idle"
           /\ v' \in [Threads -> Body] /\ lw' \in [Threads -> Word]
           /\ slot' \in [Threads -> Slot \cup {None}]
           /\ DOMAIN resp' = Threads /\ DOMAIN out' = Threads /\ DOMAIN acc' = Threads
           /\ resp'[t] = a /\ slot'[t] = None
           /\ calls' = calls /\ req' = req
           /\ Only(t)
<1>1. EmptyWord \in Word /\ InitBody \in Body
  BY LAssumption, VPeriodAssumption DEF EmptyWord, Word, InitBody, Body, Counter
<1>2. "idle" \in Reading
  BY DEF Reading
<1> QED BY <1>1, <1>2 DEF TypeOK, DomainInv, Return, Only

-----------------------------------------------------------------------------
(* Ranks and keys.                                                         *)

\* Keys in order are distinct, so a node that lacks a key has room for it.
LEMMA Room ==
    ASSUME NEW w \in Word, InSlots(w), NEW n \in 0 .. L, NEW ks \in [Slot -> Keys],
           Ascends(w, n, ks), NEW k \in Keys, ~Has(w, n, ks, k)
    PROVE  n < L
<1> SUFFICES ASSUME n = L PROVE FALSE
  BY Constants
<1> DEFINE rest == Keys \ {k}
           ranks == 1 .. L
<1>1. \E f : f = [i \in ranks |-> ks[w[i]]]
  OBVIOUS
<1>2. PICK f : f \in [ranks -> rest] /\ \A i \in ranks : f[i] = ks[w[i]]
  BY <1>1 DEF Has, InSlots
<1>3. IsFiniteSet(ranks) /\ Cardinality(ranks) = L
  BY Constants, Interval
<1>4. IsFiniteSet(Keys) /\ Cardinality(Keys) <= L
  BY BorderAssumption
<1>5. Cardinality(Keys) \in Nat
  BY <1>4, FS_CardinalityType
<1>6. IsFiniteSet(rest) /\ Cardinality(rest) = Cardinality(Keys) - 1
  BY <1>4, FS_RemoveElement
<1> HIDE DEF rest
<1>7. Cardinality(rest) < Cardinality(ranks)
  BY <1>3, <1>4, <1>5, <1>6, Constants
<1> HIDE DEF ranks
<1>8. f \in [ranks -> rest]
  BY <1>2
<1>9. PICK i, j \in ranks : i # j /\ f[i] = f[j]
  BY ONLY <1>3, <1>6, <1>7, <1>8, PigeonHole
<1>10. i \in 1 .. L /\ j \in 1 .. L /\ ks[w[i]] = ks[w[j]]
  BY <1>2, <1>9 DEF ranks
<1>11. i < j \/ j < i
  BY <1>9, <1>10, Constants
<1>12. ks[w[i]] \in Nat
  BY <1>10, Constants DEF InSlots
<1> QED BY <1>10, <1>11, <1>12 DEF Ascends

\* compute_rank_if_insert: the keys below k have the ranks below the one it

\* returns, whatever their number.
LEMMA RankToInsert ==
    ASSUME NEW w \in Word, InSlots(w), key \in [Slot -> Keys],
           Ascends(w, w[0], key), NEW k \in Keys
    PROVE  /\ compute_rank_if_insert(w, k) \in 0 .. w[0]
           /\ \A i \in 1 .. w[0] : key[w[i]] < k <=> i <= compute_rank_if_insert(w, k)
<1> DEFINE n == w[0]
           S == {i \in 0 .. n : \A j \in i + 1 .. n : ~(key[w[j]] < k)}
<1>1. L \in Nat /\ n \in 0 .. L /\ n \in Nat
  BY WordType
<1>2. ASSUME NEW i \in 1 .. n PROVE key[w[i]] \in Nat /\ k \in Nat
  <2>1. w[i] \in Slot
    BY <1>1 DEF InSlots
  <2> QED BY <2>1, Constants
<1>3. S \in SUBSET Nat /\ n \in S
  BY <1>1
<1>4. PICK r \in S : \A i \in S : r <= i
  <2> HIDE DEF S
  <2> QED BY <1>3, Least
<1>5. r \in 0 .. n
  OBVIOUS
<1>6. ASSUME NEW i \in 1 .. n PROVE key[w[i]] < k <=> i <= r
  <2>1. CASE i > r
    <3>1. i \in r + 1 .. n
      BY <1>1, <1>5, <2>1
    <3> QED BY <1>1, <1>5, <2>1, <3>1
  <2>2. CASE i <= r
    <3> SUFFICES ASSUME ~(key[w[i]] < k) PROVE FALSE
      BY <2>2
    <3>1. \A j \in i .. n : ~(key[w[j]] < k)
      <4> TAKE j \in i .. n
      <4>1. j \in 1 .. n /\ (j = i \/ i < j)
        BY <1>1
      <4>2. i < j => key[w[i]] < key[w[j]]
        BY <4>1 DEF Ascends
      <4> QED BY <1>2, <4>1, <4>2
    <3>2. i - 1 \in 0 .. n /\ (i - 1) + 1 = i
      BY <1>1
    <3>3. i - 1 \in S
      BY <3>1, <3>2
    <3> QED BY <1>1, <1>4, <1>5, <2>2, <3>3
  <2> QED BY <1>1, <1>5, <2>1, <2>2
<1>7. {q \in 0 .. n - 1 : key[get_index_of_rank(w, q)] < k} = 0 .. r - 1
  <2>1. ASSUME NEW q \in 0 .. n - 1
        PROVE  key[get_index_of_rank(w, q)] < k <=> q < r
    <3>1. q \in 0 .. L - 1 /\ q + 1 \in 1 .. n
      BY <1>1
    <3>2. get_index_of_rank(w, q) = w[q + 1]
      BY <3>1, IndexOfRank
    <3>3. key[w[q + 1]] < k <=> q + 1 <= r
      BY <1>6, <3>1
    <3> QED BY <1>1, <1>5, <3>1, <3>2, <3>3
  <2>2. ASSUME NEW q \in 0 .. n - 1 PROVE q \in 0 .. r - 1 <=> q < r
    BY <1>1, <1>5
  <2>3. 0 .. r - 1 \subseteq 0 .. n - 1
    BY <1>1, <1>5
  <2> QED BY <2>1, <2>2, <2>3
<1>8. Cardinality(0 .. r - 1) = r
  BY <1>1, <1>5, Interval
<1>9. compute_rank_if_insert(w, k) = r
  BY <1>7, <1>8 DEF compute_rank_if_insert, get_cnk
<1> HIDE DEF S, n
<1> QED BY <1>5, <1>6, <1>9 DEF n

\* The loop of get_lv_of returns a slot of the word with that key, if any.
LEMMA LookupSound ==
    ASSUME NEW w \in Word, InSlots(w), NEW k \in Keys, Lookup(w, k) # None
    PROVE  /\ Lookup(w, k) \in Slot /\ key[Lookup(w, k)] = k
           /\ \E i \in 1 .. w[0] : w[i] = Lookup(w, k)
<1> DEFINE reached == {r \in 0 .. get_cnk(w) - 1 : key[get_index_of_rank(w, r)] >= k}
           first == CHOOSE r \in reached : \A q \in reached : r <= q
<1>1. L \in Nat /\ w[0] \in 0 .. L
  BY WordType
<1>2. /\ reached # {} /\ key[get_index_of_rank(w, first)] = k
      /\ Lookup(w, k) = get_index_of_rank(w, first)
  BY DEF Lookup
<1>3. reached \in SUBSET Nat
  BY <1>1 DEF get_cnk
<1>4. \E r \in reached : \A q \in reached : r <= q
  <2> HIDE DEF reached
  <2> QED BY <1>2, <1>3, Least
<1>5. first \in reached
  <2> HIDE DEF reached
  <2> QED BY <1>4
<1>6. first \in 0 .. w[0] - 1
  <2> HIDE DEF first
  <2> QED BY <1>5 DEF get_cnk
<1> HIDE DEF first, reached
<1>7. first \in 0 .. L - 1 /\ first + 1 \in 1 .. w[0] /\ first + 1 \in 1 .. L
  BY <1>1, <1>6
<1>8. get_index_of_rank(w, first) = w[first + 1]
  BY <1>7, IndexOfRank
<1>9. w[first + 1] \in Slot
  BY <1>7 DEF InSlots
<1> QED BY <1>2, <1>7, <1>8, <1>9

\* A key within the ranks that are in order is found, whatever comes above.
LEMMA LookupComplete ==
    ASSUME NEW w \in Word, InSlots(w), key \in [Slot -> Keys],
           NEW m \in 0 .. w[0], Ascends(w, m, key),
           NEW i \in 1 .. m
    PROVE  Lookup(w, key[w[i]]) = w[i]
<1> DEFINE k == key[w[i]]
           reached == {r \in 0 .. get_cnk(w) - 1 : key[get_index_of_rank(w, r)] >= k}
           first == CHOOSE r \in reached : \A q \in reached : r <= q
<1>1. L \in Nat /\ w[0] \in 0 .. L
  BY WordType
<1>2. \A j \in 1 .. L : key[w[j]] \in Nat
  BY Constants DEF InSlots
<1>3. ASSUME NEW r \in 0 .. w[0] - 1
      PROVE  r + 1 \in 1 .. w[0] /\ get_index_of_rank(w, r) = w[r + 1]
  BY <1>1, IndexOfRank
<1>4. i - 1 \in 0 .. w[0] - 1 /\ (i - 1) + 1 = i
  BY <1>1
<1>5. i - 1 \in reached
  <2>1. get_index_of_rank(w, i - 1) = w[i]
    BY <1>3, <1>4
  <2>2. key[w[i]] \in Nat
    BY <1>1, <1>2
  <2> QED BY <1>4, <2>1, <2>2 DEF get_cnk
<1>6. reached \in SUBSET Nat
  BY <1>1 DEF get_cnk
<1>7. \E r \in reached : \A q \in reached : r <= q
  <2> HIDE DEF reached
  <2> QED BY <1>5, <1>6, Least
<1>8. first \in reached /\ \A q \in reached : first <= q
  <2> HIDE DEF reached
  <2> QED BY <1>7
<1>9. first \in 0 .. w[0] - 1 /\ key[get_index_of_rank(w, first)] >= k /\ first <= i - 1
  <2>1. first <= i - 1
    BY <1>5, <1>8
  <2> HIDE DEF first, k
  <2>2. first \in 0 .. w[0] - 1 /\ key[get_index_of_rank(w, first)] >= k
    BY <1>8 DEF get_cnk
  <2> QED BY <2>1, <2>2
<1>10. Lookup(w, k) = IF reached = {} \/ key[get_index_of_rank(w, first)] # k
                      THEN None ELSE get_index_of_rank(w, first)
  BY DEF Lookup
<1> HIDE DEF first, reached
<1>11. first + 1 \in 1 .. m /\ first + 1 <= i /\ first + 1 \in 1 .. L
  BY <1>1, <1>9
<1>12. key[w[first + 1]] >= key[w[i]]
  BY <1>3, <1>9
<1>13. first + 1 = i
  <2> SUFFICES ASSUME first + 1 # i PROVE FALSE
    OBVIOUS
  <2>1. first + 1 < i
    BY <1>1, <1>11
  <2>2. key[w[first + 1]] < key[w[i]]
    BY <1>11, <2>1 DEF Ascends
  <2>3. key[w[first + 1]] \in Nat /\ key[w[i]] \in Nat
    BY <1>1, <1>2, <1>11
  <2> QED BY <1>12, <2>2, <2>3
<1>14. get_index_of_rank(w, first) = w[i]
  BY <1>3, <1>9, <1>13
<1> QED BY <1>5, <1>10, <1>14

-----------------------------------------------------------------------------
(* Steps that only read the node.                                          *)

Reads(t) ==
    \/ FetchVersion(t) \/ ReadPermutation(t) \/ ReadKeys(t) \/ CheckVersion(t)
    \/ ReadValue(t) \/ FinalCheck(t) \/ LockRetry(t) \/ RemoveAbsent(t)
    \/ Lookup(perm, req[t].key) = None /\ LockRemove(t)
    \/ ScanBorder(t) \/ ScanPermutation(t) \/ ScanSlot(t) \/ ScanCheck(t)

\* The locals of the threads keep their types, and only t's change.
LocalFrame(t) ==
    /\ v' \in [Threads -> Body] /\ lw' \in [Threads -> Word]
    /\ slot' \in [Threads -> Slot \cup {None}]
    /\ DomainInv' /\ Only(t)

\* A reading step leaves the node and the history alone.
LEMMA ReadFrame ==
    ASSUME TypeOK, DomainInv, CallInv, ReaderInv, NEW t \in Threads, Reads(t)
    PROVE  /\ UNCHANGED <<node, history, calls, req>>
           /\ LocalFrame(t)
           /\ pc[t] \in Reading \ {"idle"} /\ pc'[t] \in Reading
<1> USE DEF node, history, local
<1>1. CASE FetchVersion(t)
  BY <1>1 DEF TypeOK, DomainInv, LocalFrame, FetchVersion, Goto, Only, Reading, ScanLabels
<1>2. CASE ReadPermutation(t)
  BY <1>2 DEF TypeOK, DomainInv, LocalFrame, ReadPermutation, Goto, Only, Reading, ScanLabels
<1>3. CASE ReadKeys(t)
  <2>1. Lookup(lw[t], req[t].key) \in Slot \cup {None}
    <3>1. InSlots(lw[t]) /\ lw[t] \in Word /\ req[t].key \in Keys
      BY <1>3 DEF ReadKeys, ReaderInv, ReaderKnows, TypeOK, CallInv, CallRight
    <3> QED BY <3>1, LookupSound
  <2> QED BY <1>3, <2>1 DEF TypeOK, DomainInv, LocalFrame, ReadKeys, Goto, Only, Reading,
                            ScanLabels
<1>4. CASE CheckVersion(t)
  <2>1. pc[t] = "check" /\ UNCHANGED <<node, history>>
    BY <1>4 DEF CheckVersion
  <2>2. CASE v' = [v EXCEPT ![t] = ver] /\ Goto(t, "perm")
             /\ UNCHANGED <<lw, slot, out, acc, calls, req, resp>>
    BY <2>1, <2>2 DEF TypeOK, DomainInv, LocalFrame, Goto, Only, Reading, ScanLabels
  <2>3. CASE Goto(t, AfterFetch(t)) /\ UNCHANGED <<local, calls, req, resp>>
    <3>1. AfterFetch(t) \in Reading
      BY DEF AfterFetch, Reading
    <3> QED BY <2>1, <2>3, <3>1 DEF TypeOK, DomainInv, LocalFrame, Goto, Only, Reading,
                                    ScanLabels
  <2>4. CASE \E a : Return(t, a)
    <3>1. PICK a : Return(t, a)
      BY <2>4
    <3> QED BY <2>1, <3>1, ReturnFrame DEF LocalFrame, Reading, DomainInv
  <2> QED BY <1>4, <2>2, <2>3, <2>4 DEF CheckVersion
<1>5. CASE ReadValue(t)
  BY <1>5 DEF TypeOK, DomainInv, LocalFrame, ReadValue, Goto, Only, Reading, ScanLabels
<1>6. CASE FinalCheck(t)
  <2>1. pc[t] = "final" /\ UNCHANGED <<node, history>>
    BY <1>6 DEF FinalCheck
  <2>2. CASE Goto(t, "fetch") /\ UNCHANGED <<local, calls, req, resp>>
    BY <2>1, <2>2 DEF TypeOK, DomainInv, LocalFrame, Goto, Only, Reading, ScanLabels
  <2>3. CASE Return(t, KV!Answer("OK", out[t]))
    BY <2>1, <2>3, ReturnFrame DEF LocalFrame, Reading, DomainInv
  <2> QED BY <1>6, <2>2, <2>3 DEF FinalCheck
<1>7. CASE LockRetry(t)
  BY <1>7 DEF TypeOK, DomainInv, LocalFrame, LockRetry, Goto, Only, Reading, ScanLabels
<1>8. CASE RemoveAbsent(t)
  <2>1. pc[t] = "absent" /\ UNCHANGED <<node, history>>
    BY <1>8 DEF RemoveAbsent
  <2>2. CASE Goto(t, "fetch") /\ UNCHANGED <<local, calls, req, resp>>
    BY <2>1, <2>2 DEF TypeOK, DomainInv, LocalFrame, Goto, Only, Reading, ScanLabels
  <2>3. CASE Return(t, KV!Answer("NOT_FOUND", None))
    BY <2>1, <2>3, ReturnFrame DEF LocalFrame, Reading, DomainInv
  <2> QED BY <1>8, <2>2, <2>3 DEF RemoveAbsent
<1>9. CASE Lookup(perm, req[t].key) = None /\ LockRemove(t)
  <2>1. pc[t] = "lock_remove" /\ Return(t, KV!Answer("NOT_FOUND", None))
        /\ UNCHANGED <<node, history>>
    BY <1>9 DEF LockRemove
  <2> QED BY <2>1, ReturnFrame DEF LocalFrame, Reading, DomainInv
<1>10. CASE ScanBorder(t)
  <2>1. pc[t] = "scan_border" /\ UNCHANGED <<node, history>>
    BY <1>10 DEF ScanBorder
  <2>2. CASE v' = [v EXCEPT ![t] = ver] /\ Goto(t, "scan_perm")
             /\ UNCHANGED <<lw, slot, out, acc, calls, req, resp>>
    BY <2>1, <2>2 DEF TypeOK, DomainInv, LocalFrame, Goto, Only, Reading, ScanLabels
  <2>3. CASE Return(t, KV!Answer("OK", <<>>))
    BY <2>1, <2>3, ReturnFrame DEF LocalFrame, Reading, ScanLabels, DomainInv
  <2> QED BY <1>10, <2>2, <2>3 DEF ScanBorder
<1>11. CASE ScanPermutation(t)
  BY <1>11 DEF TypeOK, DomainInv, LocalFrame, ScanPermutation, Goto, Only, Reading, ScanLabels
<1>12. CASE ScanSlot(t)
  <2>1. DOMAIN out' = Threads /\ \A u \in Threads : u # t => out'[u] = out[u]
    BY <1>12 DEF ScanSlot, DomainInv
  <2> QED BY <1>12, <2>1 DEF TypeOK, DomainInv, LocalFrame, ScanSlot, Goto, Only, Reading,
                             ScanLabels
<1>13. CASE ScanCheck(t)
  <2>1. pc[t] = "scan_check" /\ UNCHANGED <<node, history>>
    BY <1>13 DEF ScanCheck
  <2>2. CASE acc' = [acc EXCEPT ![t] = <<>>] /\ v' = [v EXCEPT ![t] = ver]
             /\ Goto(t, IF ver.deleted THEN "scan_border" ELSE "scan_perm")
             /\ UNCHANGED <<lw, slot, out, calls, req, resp>>
    BY <2>1, <2>2 DEF TypeOK, DomainInv, LocalFrame, Goto, Only, Reading, ScanLabels
  <2>3. CASE Return(t, KV!Answer("OK", acc[t]))
    BY <2>1, <2>3, ReturnFrame DEF LocalFrame, Reading, ScanLabels, DomainInv
  <2>4. CASE acc' = [acc EXCEPT ![t] = Append(@, out[t])] /\ Goto(t, "scan_slot")
             /\ UNCHANGED <<v, lw, slot, out, calls, req, resp>>
    BY <2>1, <2>4 DEF TypeOK, DomainInv, LocalFrame, Goto, Only, Reading, ScanLabels
  <2> QED BY <1>13, <2>2, <2>3, <2>4 DEF ScanCheck
<1> QED BY <1>1, <1>2, <1>3, <1>4, <1>5, <1>6, <1>7, <1>8, <1>9, <1>10, <1>11, <1>12, <1>13
        DEF Reads

\* The labels of readers and of the thread with the lock are different.
LEMMA LabelsDisjoint == Holding \cap Reading = {}
BY DEF Holding, Reading, InsertLabels, DeleteLabels, ScanLabels

\* A reading step leaves the facts about the node and the lock alone.
LEMMA ReadKeeps ==
    ASSUME IInv, NEW t \in Threads, Reads(t)
    PROVE  /\ TypeOK' /\ LockInv' /\ Count' = Count /\ NodeInv' /\ HolderInv'
           /\ KvInv' /\ SeenInv' /\ ValueInv'
<1>1. /\ UNCHANGED <<node, history, calls, req>> /\ LocalFrame(t)
      /\ pc[t] \in Reading \ {"idle"} /\ pc'[t] \in Reading
  BY ReadFrame DEF IInv
<1>2. /\ pc[t] \notin Holding /\ pc'[t] \notin Holding
      /\ \A u \in Threads : pc'[u] \in Holding \/ pc[u] \in Holding =>
            /\ u # t /\ pc'[u] = pc[u] /\ slot'[u] = slot[u] /\ lw'[u] = lw[u]
  BY <1>1, LabelsDisjoint DEF LocalFrame, Only
<1>3. TypeOK'
  BY <1>1 DEF IInv, TypeOK, LocalFrame, node, history
<1>4. LockInv'
  BY <1>1, <1>2 DEF IInv, LockInv, node, Holding
<1>5. Gap' <=> Gap
  BY <1>2 DEF Gap, Holding, InsertLabels, DeleteLabels
<1>6. Count' = Count
  BY <1>1, <1>5 DEF Count, node
<1>7. NodeInv'
  BY <1>1, <1>6 DEF IInv, NodeInv, node, InSlots, Ascends
<1>8. HolderInv'
  <2> SUFFICES ASSUME NEW u \in Threads, pc'[u] \in Holding
               PROVE  HolderKnows(u)'
    BY DEF HolderInv, HolderKnows, Holding, InsertLabels, DeleteLabels
  <2>1. pc'[u] = pc[u] /\ slot'[u] = slot[u] /\ lw'[u] = lw[u]
    BY <1>2
  <2> QED BY <1>1, <1>6, <2>1 DEF IInv, HolderInv, HolderKnows, node, Has, Found
<1>9. KvInv'
  <2>1. \A u \in Threads :
           (pc'[u] \in {"unlock_put", "delete_rank"} <=> pc[u] \in {"unlock_put", "delete_rank"})
           /\ (pc'[u] \in {"delete_count", "unlock_remove"}
                 <=> pc[u] \in {"delete_count", "unlock_remove"})
    BY <1>2 DEF Holding, InsertLabels, DeleteLabels
  <2> QED BY <1>1, <1>6, <2>1 DEF IInv, KvInv, node, history, Has
<1>10. SeenInv'
  BY <1>1 DEF IInv, SeenInv, history, LocalFrame, Only
<1>11. ValueInv'
  <2>1. \A u \in Threads :
           /\ pc[u] \in {"idle", "insert_count", "insert_rank", "unlock_put"} => pc'[u] = pc[u]
           /\ pc[u] = "delete_rank" => pc'[u] = pc[u] /\ slot'[u] = slot[u]
    BY <1>1, <1>2 DEF LocalFrame, Only, Holding, InsertLabels, DeleteLabels
  <2> QED BY <1>1, <1>6, <2>1 DEF IInv, ValueInv, node, history, Used
<1> QED BY <1>3, <1>4, <1>6, <1>7, <1>8, <1>9, <1>10, <1>11

\* A key that is not in the unlocked node is absent for everyone who looks.
LEMMA AbsentSeen ==
    ASSUME IInv, NEW t \in Threads, pc[t] # "idle", req[t].type # "scan",
           ~ver.locked, ~Has(perm, Count, key, req[t].key)
    PROVE  None \in seen[t]
<1>1. \A u \in Threads : pc[u] \notin {"delete_count", "unlock_remove"}
  BY DEF IInv, LockInv, Holding, DeleteLabels
<1>2. req[t].key \in Keys
  BY DEF IInv, CallInv, CallRight
<1>3. kv[req[t].key] = None
  BY <1>1, <1>2 DEF IInv, KvInv
<1>4. KV!View(req[t], kv) \in seen[t]
  BY DEF IInv, SeenInv
<1> QED BY <1>3, <1>4 DEF KV!View

\* What the other readers know stays true, as the node does not change.
LEMMA ReadOthers ==
    ASSUME IInv, NEW t \in Threads, Reads(t), NEW u \in Threads, u # t
    PROVE  CallRight(u)' /\ ReaderKnows(u)'
<1>1. UNCHANGED <<node, history, calls, req>> /\ LocalFrame(t) /\ Count' = Count
  BY ReadFrame, ReadKeeps DEF IInv
<1>2. /\ pc'[u] = pc[u] /\ v'[u] = v[u] /\ lw'[u] = lw[u] /\ slot'[u] = slot[u]
      /\ resp'[u] = resp[u] /\ req' = req /\ calls' = calls
      /\ ver' = ver /\ perm' = perm /\ key' = key
  BY <1>1 DEF LocalFrame, Only, node
<1>3. CallRight(u)'
  BY <1>2 DEF IInv, CallInv, CallRight
<1>4. ReaderKnows(u)'
  BY <1>1, <1>2 DEF IInv, ReaderInv, ReaderKnows, SameEra, Covers, Found, Has, InSlots, Ascends
<1> QED BY <1>3, <1>4

\* A call that returns knows nothing any more.
LEMMA ReturnSelf ==
    ASSUME TypeOK, DomainInv, CallInv, NEW t \in Threads, NEW a, Return(t, a), a.st # "pending"
    PROVE  CallRight(t)' /\ ReaderKnows(t)'
<1>1. pc'[t] = "idle" /\ resp'[t] = a /\ calls' = calls
  BY ReturnFrame
<1>2. CallRight(t)'
  BY <1>1 DEF CallInv, CallRight, InsertLabels, DeleteLabels
<1>3. ReaderKnows(t)'
  BY <1>1 DEF ReaderKnows
<1> QED BY <1>2, <1>3

\* ReadKeys: while no insertion was begun since the fetch, the word t read

\* holds every key of the node, so what the loop finds or misses is right.
LEMMA LookupFinds ==
    ASSUME IInv, NEW t \in Threads, pc[t] = "keys", SameEra(t)
    PROVE  LET s == Lookup(lw[t], req[t].key)
           IN  IF s = None THEN ~Has(perm, Count, key, req[t].key)
               ELSE /\ key[s] = req[t].key
                    /\ \A i \in 1 .. Count : key[perm[i]] = req[t].key => perm[i] = s
<1> DEFINE s == Lookup(lw[t], req[t].key)
<1>1. InSlots(lw[t]) /\ lw[t] \in Word /\ req[t].key \in Keys /\ key \in [Slot -> Keys]
  BY DEF IInv, ReaderInv, ReaderKnows, TypeOK, CallInv, CallRight
<1>2. PICK m \in 0 .. lw[t][0] : Covers(lw[t], m)
  BY DEF IInv, ReaderInv, ReaderKnows
<1>3. ASSUME NEW i \in 1 .. Count, key[perm[i]] = req[t].key PROVE perm[i] = s
  <2>1. PICK j \in 1 .. m : perm[i] = lw[t][j]
    BY <1>2 DEF Covers
  <2>2. Lookup(lw[t], key[lw[t][j]]) = lw[t][j]
    BY <1>1, <1>2, LookupComplete DEF Covers
  <2> QED BY <1>3, <2>1, <2>2
<1>4. CASE s = None
  <2>1. \A i \in 1 .. Count : perm[i] # None
    <3>1. \A i \in 1 .. Count : i \in 1 .. L
      BY Constants DEF IInv, NodeInv
    <3> QED BY <3>1, Constants DEF IInv, NodeInv, InSlots
  <2> QED BY <1>3, <1>4, <2>1 DEF Has
<1>5. CASE s # None
  <2>1. key[s] = req[t].key
    BY <1>1, <1>5, LookupSound
  <2> QED BY <1>3, <1>5, <2>1
<1> QED BY <1>4, <1>5

\* What t itself knows after a reading step, and that a NOT_FOUND is true.
LEMMA ReadSelf ==
    ASSUME IInv, NEW t \in Threads, Reads(t)
    PROVE  /\ CallRight(t)' /\ ReaderKnows(t)'
           /\ resp'[t].st = "NOT_FOUND" => None \in seen[t]
<1>1. /\ UNCHANGED <<node, history, calls, req>> /\ LocalFrame(t) /\ Count' = Count
      /\ CallRight(t) /\ ReaderKnows(t) /\ TypeOK /\ DomainInv /\ CallInv
  BY ReadFrame, ReadKeeps DEF IInv, CallInv, ReaderInv
<1>2. /\ ver' = ver /\ perm' = perm /\ key' = key /\ req' = req /\ calls' = calls
      /\ ~ver.locked => ~ver.inserting_deleting
  BY <1>1 DEF node, IInv, LockInv, Holding, InsertLabels
<1>3. ASSUME NEW a, Return(t, a), a.st # "pending",
             a.st = "NOT_FOUND" => None \in seen[t]
      PROVE  /\ CallRight(t)' /\ ReaderKnows(t)'
             /\ resp'[t].st = "NOT_FOUND" => None \in seen[t]
  BY <1>1, <1>3, ReturnSelf, ReturnFrame
<1>4. ASSUME UNCHANGED resp, pc[t] # "idle"
      PROVE  resp'[t].st = "NOT_FOUND" => None \in seen[t]
  BY <1>1, <1>4 DEF CallRight
<1>5. CASE FetchVersion(t)
  <2>1. pc[t] = "fetch" /\ pc'[t] = "perm" /\ resp' = resp /\ slot' = slot
    BY <1>1, <1>5 DEF FetchVersion, Goto, DomainInv
  <2>2. CallRight(t)'
    BY <1>1, <1>2, <2>1 DEF CallRight, InsertLabels, DeleteLabels, ScanLabels
  <2> QED BY <1>4, <2>1, <2>2 DEF ReaderKnows
<1>6. CASE ReadPermutation(t)
  <2>1. /\ pc[t] = "perm" /\ pc'[t] = "keys" /\ resp' = resp /\ slot' = slot /\ v' = v
        /\ lw'[t] = perm
    BY <1>1, <1>6 DEF ReadPermutation, Goto, DomainInv, TypeOK
  <2>2. CallRight(t)'
    BY <1>1, <1>2, <2>1 DEF CallRight, InsertLabels, DeleteLabels, ScanLabels
  <2>3. NodeInv /\ perm \in Word
    BY DEF IInv, TypeOK
  <2>4. Count \in 0 .. perm[0]
    BY <2>3, WordType DEF NodeInv, Count
  <2>5. (\E m \in 0 .. lw[t][0] : Covers(lw[t], m))'
    <3>1. Covers(lw[t], Count)'
      BY <1>1, <1>2, <2>1, <2>3 DEF NodeInv, Covers, Ascends
    <3> QED BY <1>1, <2>1, <2>4, <3>1
  <2>6. ReaderKnows(t)'
    BY <1>2, <2>1, <2>3, <2>5 DEF NodeInv, ReaderKnows, InSlots
  <2> QED BY <1>4, <2>1, <2>2, <2>6
<1>7. CASE ReadKeys(t)
  <2>1. /\ pc[t] = "keys" /\ pc'[t] = "check" /\ resp' = resp /\ v' = v /\ lw' = lw
        /\ slot'[t] = Lookup(lw[t], req[t].key)
    BY <1>1, <1>7 DEF ReadKeys, Goto, DomainInv, TypeOK
  <2>2. CallRight(t)'
    BY <1>1, <1>2, <2>1 DEF CallRight, InsertLabels, DeleteLabels, ScanLabels
  <2>3. ASSUME SameEra(t) PROVE Found(t)'
    BY <1>1, <1>2, <2>1, <2>3, LookupFinds DEF Found, Has
  <2>4. ReaderKnows(t)'
    BY <1>2, <2>1, <2>3 DEF ReaderKnows, SameEra
  <2> QED BY <1>4, <2>1, <2>2, <2>4
<1>8. CASE CheckVersion(t)
  <2>1. pc[t] = "check" /\ stable(ver)
    BY <1>8 DEF CheckVersion
  <2>2. CASE v' = [v EXCEPT ![t] = ver] /\ Goto(t, "perm")
             /\ UNCHANGED <<lw, slot, out, acc, calls, req, resp>>
    <3>1. pc'[t] = "perm" /\ resp' = resp /\ slot' = slot
      BY <1>1, <2>2 DEF Goto, DomainInv
    <3>2. CallRight(t)'
      BY <1>1, <1>2, <2>1, <3>1 DEF CallRight, InsertLabels, DeleteLabels, ScanLabels
    <3> QED BY <1>4, <2>1, <3>1, <3>2 DEF ReaderKnows
  <2>3. CASE ver = v[t]
    <3>1. SameEra(t) /\ Found(t)
      BY <1>1, <2>1, <2>3 DEF SameEra, stable, ReaderKnows
    <3>2. CASE req[t].type = "get" /\ slot[t] = None
               /\ Return(t, KV!Answer("NOT_FOUND", None))
      <4>1. None \in seen[t]
        BY <2>1, <3>1, <3>2, AbsentSeen DEF Found, stable
      <4> QED BY <1>3, <3>2, <4>1 DEF KV!Answer
    <3>3. CASE Return(t, KV!Answer("UNIQUE", None))
      BY <1>3, <3>3 DEF KV!Answer
    <3>4. CASE Goto(t, AfterFetch(t)) /\ UNCHANGED <<local, calls, req, resp>>
               /\ ~(req[t].type = "get" /\ slot[t] = None)
      <4>1. pc'[t] = AfterFetch(t) /\ resp' = resp /\ slot' = slot /\ v' = v
        BY <1>1, <3>4 DEF Goto, DomainInv, local
      <4>2. slot[t] \in Slot \cup {None}
        BY <1>1 DEF TypeOK
      <4>3. req[t].type \in {"get", "put", "insert", "remove"}
        BY <1>1, <2>1 DEF CallRight, ScanLabels
      <4>4. CallRight(t)'
        BY <1>1, <1>2, <2>1, <3>4, <4>1, <4>2, <4>3
           DEF CallRight, InsertLabels, DeleteLabels, ScanLabels, AfterFetch
      <4>5. Found(t)'
        BY <1>1, <1>2, <3>1, <4>1 DEF Found, Has
      <4>6. AfterFetch(t) # "keys"
        BY DEF AfterFetch
      <4>7. ReaderKnows(t)'
        BY <4>1, <4>5, <4>6 DEF ReaderKnows
      <4> QED BY <1>4, <2>1, <4>1, <4>4, <4>7
    <3> QED BY <1>8, <2>3, <3>2, <3>3, <3>4 DEF CheckVersion
  <2> QED BY <1>8, <2>2, <2>3 DEF CheckVersion
<1>9. CASE ReadValue(t)
  <2>1. pc[t] = "value" /\ pc'[t] = "final" /\ resp' = resp /\ slot' = slot
    BY <1>1, <1>9 DEF ReadValue, Goto, DomainInv
  <2>2. CallRight(t)'
    BY <1>1, <1>2, <2>1 DEF CallRight, InsertLabels, DeleteLabels, ScanLabels
  <2> QED BY <1>4, <2>1, <2>2 DEF ReaderKnows
<1>10. CASE FinalCheck(t) \/ LockRetry(t) \/ RemoveAbsent(t)
  <2>1. pc[t] \in {"final", "lock_insert", "lock_update", "lock_remove", "absent"}
    BY <1>10 DEF FinalCheck, LockRetry, RemoveAbsent
  <2>2. CASE Goto(t, "fetch") /\ UNCHANGED <<local, calls, req, resp>>
    <3>1. pc'[t] = "fetch" /\ resp' = resp /\ slot' = slot
      BY <1>1, <2>2 DEF Goto, DomainInv, local
    <3>2. CallRight(t)'
      BY <1>1, <1>2, <2>1, <3>1 DEF CallRight, InsertLabels, DeleteLabels, ScanLabels
    <3> QED BY <1>4, <2>1, <3>1, <3>2 DEF ReaderKnows
  <2>3. CASE Return(t, KV!Answer("OK", out[t]))
    BY <1>3, <2>3 DEF KV!Answer
  <2>4. CASE RemoveAbsent(t) /\ ver.vinsert_delete = v[t].vinsert_delete
    <3>1. pc[t] = "absent" /\ stable(ver) /\ Return(t, KV!Answer("NOT_FOUND", None))
      BY <2>4 DEF RemoveAbsent
    <3>2. slot[t] = None /\ req[t].type = "remove" /\ Found(t)
      BY <1>1, <2>4, <3>1 DEF CallRight, ReaderKnows, SameEra, stable
    <3>3. None \in seen[t]
      BY <3>1, <3>2, AbsentSeen DEF Found, stable
    <3> QED BY <1>3, <3>1, <3>3 DEF KV!Answer
  <2> QED BY <1>10, <2>2, <2>3, <2>4 DEF FinalCheck, LockRetry, RemoveAbsent
<1>11. CASE Lookup(perm, req[t].key) = None /\ LockRemove(t)
  <2>1. /\ pc[t] = "lock_remove" /\ ~ver.locked /\ Return(t, KV!Answer("NOT_FOUND", None))
    BY <1>11 DEF LockRemove
  <2>2. req[t].type = "remove" /\ req[t].key \in Keys
    BY <1>1, <2>1 DEF CallRight
  <2>3. ~Has(perm, Count, key, req[t].key)
    <3>1. NodeInv /\ perm \in Word /\ key \in [Slot -> Keys]
      BY DEF IInv, TypeOK
    <3>2. Count \in 0 .. perm[0]
      BY <3>1, WordType DEF NodeInv, Count
    <3>3. ASSUME NEW i \in 1 .. Count, key[perm[i]] = req[t].key PROVE FALSE
      <4>1. Lookup(perm, key[perm[i]]) = perm[i]
        BY <3>1, <3>2, LookupComplete DEF NodeInv
      <4>2. i \in 1 .. L
        BY <3>1, Constants DEF NodeInv
      <4> QED BY <1>11, <3>1, <3>3, <4>1, <4>2, Constants DEF NodeInv, InSlots
    <3> QED BY <3>3 DEF Has
  <2>4. None \in seen[t]
    BY <2>1, <2>2, <2>3, AbsentSeen
  <2> QED BY <1>3, <2>1, <2>4 DEF KV!Answer
<1>12. CASE ScanBorder(t) \/ ScanPermutation(t) \/ ScanSlot(t) \/ ScanCheck(t)
  <2>1. pc[t] \in ScanLabels
    BY <1>12 DEF ScanBorder, ScanPermutation, ScanSlot, ScanCheck, ScanLabels
  <2>2. CASE \E a : Return(t, KV!Answer("OK", a))
    <3>1. PICK a : Return(t, KV!Answer("OK", a))
      BY <2>2
    <3> QED BY <1>3, <3>1 DEF KV!Answer
  <2>3. CASE resp' = resp /\ slot' = slot /\ \E l \in ScanLabels : Goto(t, l)
    <3>1. pc'[t] \in ScanLabels
      BY <1>1, <2>3 DEF Goto, DomainInv
    <3>2. CallRight(t)'
      BY <1>1, <1>2, <2>1, <2>3, <3>1 DEF CallRight, InsertLabels, DeleteLabels, ScanLabels
    <3>3. ReaderKnows(t)'
      BY <3>1 DEF ReaderKnows, ScanLabels
    <3> QED BY <1>4, <2>1, <2>3, <3>2, <3>3 DEF ScanLabels
  <2>4. CASE ScanBorder(t)
    BY <2>2, <2>3, <2>4 DEF ScanBorder, ScanLabels
  <2>5. CASE ScanPermutation(t) \/ ScanSlot(t)
    BY <2>3, <2>5 DEF ScanPermutation, ScanSlot, ScanLabels
  <2>6. CASE ScanCheck(t)
    BY <2>2, <2>3, <2>6 DEF ScanCheck, ScanLabels
  <2> QED BY <1>12, <2>4, <2>5, <2>6
<1> QED BY <1>5, <1>6, <1>7, <1>8, <1>9, <1>10, <1>11, <1>12 DEF Reads

\* Reading steps keep the invariant.
LEMMA ReadStep ==
    ASSUME IInv, NEW t \in Threads, Reads(t)
    PROVE  IInv'
<1>1. DomainInv' /\ Only(t) /\ seen' = seen
  BY ReadFrame DEF IInv, LocalFrame, history
<1>2. CallInv' /\ ReaderInv'
  BY ReadOthers, ReadSelf DEF CallInv, ReaderInv
<1>3. AbsenceTrue'
  BY <1>1, ReadSelf DEF IInv, AbsenceTrue, Only
<1> QED BY <1>1, <1>2, <1>3, ReadKeeps DEF IInv

-----------------------------------------------------------------------------
(* Steps of the thread that has, takes or gives up the lock.               *)

\* A call of another thread stays where it is.
LEMMA OtherCalls ==
    ASSUME CallInv, NEW t \in Threads, Only(t), NEW u \in Threads, u # t
    PROVE  CallRight(u)'
BY DEF CallInv, CallRight, Only

\* Nobody but t holds the lock, before and after its step.
LEMMA Alone ==
    ASSUME IInv, NEW t \in Threads, pc[t] \in Holding \/ ~ver.locked, Only(t)
    PROVE  /\ \A u \in Threads : u # t => pc[u] \notin Holding /\ pc'[u] \notin Holding
           /\ Gap <=> pc[t] \in {"insert_rank", "delete_count"}
           /\ Gap' <=> pc'[t] \in {"insert_rank", "delete_count"}
<1>1. \A u \in Threads : u # t => pc[u] \notin Holding /\ pc'[u] \notin Holding
  BY DEF IInv, LockInv, Only
<1> QED BY <1>1 DEF Gap, Holding, InsertLabels, DeleteLabels

\* What readers know survives a step that begins no insertion, changes no key

\* and adds no slot: a deletion hides nothing they could still find.
LEMMA ReadersKeep ==
    ASSUME IInv, NEW t \in Threads, Only(t), NEW u \in Threads, u # t,
           SameEra(u)' /\ Fetched(u) =>
               /\ SameEra(u) /\ key' = key
               /\ \A i \in 1 .. Count' : \E j \in 1 .. Count : perm'[i] = perm[j]
    PROVE  ReaderKnows(u)'
<1>1. /\ pc'[u] = pc[u] /\ v'[u] = v[u] /\ lw'[u] = lw[u] /\ slot'[u] = slot[u]
      /\ req'[u] = req[u] /\ ReaderKnows(u)
  BY DEF Only, IInv, ReaderInv
<1>2. (pc[u] = "keys" => InSlots(lw[u]))'
  BY <1>1 DEF ReaderKnows, InSlots
<1>3. ASSUME pc[u] = "keys", SameEra(u)'
      PROVE  (\E m \in 0 .. lw[u][0] : Covers(lw[u], m))'
  <2>1. Fetched(u)
    BY <1>3 DEF Fetched
  <2>2. PICK m \in 0 .. lw[u][0] : Covers(lw[u], m)
    BY <1>1, <1>3, <2>1 DEF ReaderKnows
  <2>3. Covers(lw[u], m)'
    BY <1>1, <1>3, <2>1, <2>2 DEF Covers, Ascends
  <2> QED BY <1>1, <2>3
<1>4. ASSUME pc[u] \in {"check", "lock_insert", "lock_update", "absent"}, SameEra(u)'
      PROVE  Found(u)'
  <2>1. Fetched(u)
    BY <1>4 DEF Fetched
  <2>2. Found(u)
    BY <1>1, <1>4, <2>1 DEF ReaderKnows
  <2> QED BY <1>1, <1>4, <2>1, <2>2 DEF Found, Has
<1> QED BY <1>1, <1>2, <1>3, <1>4 DEF ReaderKnows

\* Invoke: a new call finds everything as it is.
LEMMA InvokeStep ==
    ASSUME IInv, NEW t \in Threads, NEW y \in Menu[t], NEW k \in Keys, Invoke(t, y, k)
    PROVE  IInv'
<1>1. /\ TypeOK /\ DomainInv /\ CallInv /\ pc[t] = "idle" /\ calls[t] < MaxOps[t]
      /\ MaxOps[t] \in Nat /\ calls[t] \in Nat
      /\ y \in {"get", "put", "insert", "remove", "scan"}
  BY BorderAssumption DEF IInv, Invoke, CallInv, CallRight, TypeOK
<1>2. /\ calls'[t] = calls[t] + 1 /\ req'[t] = [type |-> y, key |-> k, val |-> <<t, calls'[t]>>]
      /\ resp'[t] = KV!Answer("pending", None) /\ seen'[t] = {KV!View(req'[t], kv)}
      /\ pc'[t] = IF y = "scan" THEN "scan_border" ELSE "fetch"
      /\ ver' = ver /\ perm' = perm /\ key' = key /\ lv' = lv /\ kv' = kv
      /\ retired' = retired /\ freed' = freed
      /\ v' = v /\ lw' = lw /\ slot' = slot /\ out' = out /\ acc' = acc
  BY <1>1 DEF Invoke, TypeOK, DomainInv, node, local
<1>3. Only(t) /\ DomainInv'
  <2>1. pc'[t] \in Reading
    BY <1>2 DEF Reading, ScanLabels
  <2> QED BY <1>1, <1>2, <2>1 DEF Invoke, DomainInv, Only, TypeOK, local
<1>4. TypeOK'
  BY <1>1, <1>2 DEF TypeOK, Invoke
<1>5. \A u \in Threads : pc'[u] \in Holding <=> pc[u] \in Holding
  BY <1>1, <1>2, <1>3 DEF Only, Holding, InsertLabels, DeleteLabels
<1>6. \A u \in Threads : pc'[u] \in Holding => u # t /\ pc'[u] = pc[u]
  BY <1>2, <1>3 DEF Only, Holding, InsertLabels, DeleteLabels
<1>7. LockInv'
  BY <1>2, <1>5, <1>6 DEF IInv, LockInv, Holding
<1>8. Count' = Count
  BY <1>2, <1>5, <1>6 DEF Count, Gap, Holding, InsertLabels, DeleteLabels
<1>9. CallInv'
  <2>1. <<t, calls'[t]>> \in Values
    BY <1>1, <1>2, CallValue
  <2>2. CallRight(t)'
    BY <1>1, <1>2, <2>1 DEF CallRight, KV!Answer, InsertLabels, DeleteLabels, ScanLabels
  <2> QED BY <1>1, <1>3, <2>2, OtherCalls DEF CallInv
<1>10. NodeInv'
  BY <1>2, <1>8 DEF IInv, NodeInv, InSlots, Ascends
<1>11. HolderInv'
  <2> SUFFICES ASSUME NEW u \in Threads, pc'[u] \in Holding
               PROVE  HolderKnows(u)'
    BY DEF HolderInv, HolderKnows, Holding, InsertLabels, DeleteLabels
  <2>1. pc'[u] = pc[u] /\ slot'[u] = slot[u] /\ lw'[u] = lw[u] /\ req'[u] = req[u]
    BY <1>3, <1>6 DEF Only
  <2> QED BY <1>2, <1>8, <2>1 DEF IInv, HolderInv, HolderKnows, Has, Found
<1>12. ReaderInv'
  <2>1. ReaderKnows(t)'
    BY <1>2 DEF ReaderKnows
  <2>2. ASSUME NEW u \in Threads, u # t PROVE ReaderKnows(u)'
    <3>1. SameEra(u)' => SameEra(u)
      BY <1>2 DEF SameEra
    <3> QED BY <1>2, <1>3, <1>8, <2>2, <3>1, ReadersKeep
  <2> QED BY <2>1, <2>2 DEF ReaderInv
<1>13. KvInv'
  <2>1. \A u \in Threads :
           /\ pc[u] \in {"unlock_put", "delete_rank"} =>
                 pc'[u] = pc[u] /\ req'[u] = req[u]
           /\ pc[u] \in {"delete_count", "unlock_remove"} =>
                 pc'[u] = pc[u] /\ req'[u] = req[u]
    BY <1>1, <1>3 DEF Only
  <2> QED BY <1>2, <1>8, <2>1 DEF IInv, KvInv, Has
<1>14. SeenInv'
  <2>1. \A u \in Threads : u # t => seen'[u] = seen[u]
    BY <1>1 DEF Invoke, DomainInv
  <2> QED BY <1>2, <1>3, <2>1 DEF IInv, SeenInv, Only
<1>15. AbsenceTrue'
  <2>1. \A u \in Threads : u # t => seen'[u] = seen[u]
    BY <1>1 DEF Invoke, DomainInv
  <2> QED BY <1>2, <1>3, <2>1 DEF IInv, AbsenceTrue, Only, KV!Answer
<1>16. ValueInv'
  <2>1. \A u \in Threads : pc[u] = "delete_rank" => pc'[u] = pc[u] /\ slot'[u] = slot[u]
    BY <1>1, <1>3 DEF Only
  <2>2. ASSUME NEW u \in Threads, NEW i \in Nat, <<u, i>> \in Used
        PROVE  /\ i <= calls'[u]
               /\ i = calls'[u] =>
                     pc'[u] \in {"idle", "insert_count", "insert_rank", "unlock_put"}
    <3>1. /\ i <= calls[u]
          /\ i = calls[u] => pc[u] \in {"idle", "insert_count", "insert_rank", "unlock_put"}
      BY <2>2 DEF IInv, ValueInv
    <3> QED BY <1>1, <1>2, <1>3, <3>1 DEF Only
  <2>3. Used' = Used
    BY <1>2 DEF Used
  <2> QED BY <1>2, <1>8, <2>1, <2>2, <2>3 DEF IInv, ValueInv
<1> QED BY <1>3, <1>4, <1>7, <1>9, <1>10, <1>11, <1>12, <1>13, <1>14, <1>15, <1>16 DEF IInv

\* The thread that takes the lock: to insert, to update, or to remove what a
\* second lookup found.
Locks(t) ==
    LockInsert(t) \/ LockUpdate(t) \/ (Lookup(perm, req[t].key) # None /\ LockRemove(t))

\* What the three have in common.
LEMMA LockFrame ==
    ASSUME IInv, NEW t \in Threads, Locks(t)
    PROVE  /\ UNCHANGED <<perm, key, lv, history, calls, req, resp>>
           /\ LocalFrame(t) /\ v' = v
           /\ pc[t] \in {"lock_insert", "lock_update", "lock_remove"}
           /\ pc'[t] \in {"insert_slot", "update_slot", "delete_value"}
           /\ ver' \in Body /\ ver'.locked /\ ~ver'.splitting
           /\ ver'.vinsert_delete = ver.vinsert_delete
           /\ ver'.inserting_deleting <=> pc'[t] = "insert_slot"
           /\ ~ver.locked /\ SameEra(t)
<1>1. /\ TypeOK /\ DomainInv /\ ver \in Body /\ perm \in Word /\ ~ver.splitting
      /\ ~ver.locked => ~ver.inserting_deleting
  BY DEF IInv, TypeOK, LockInv, Holding, InsertLabels
<1>2. CASE LockInsert(t)
  <2>1. ver' \in Body
    <3>1. (IF get_cnk(perm) = 0 THEN FALSE ELSE ver.deleted) \in BOOLEAN
      BY <1>1 DEF Body
    <3> QED BY <1>1, <1>2, <3>1, BodyType DEF LockInsert
  <2>2. ver'.locked /\ ~ver'.splitting /\ ver'.inserting_deleting
        /\ ver'.vinsert_delete = ver.vinsert_delete
    BY <1>1, <1>2 DEF LockInsert, Body
  <2> QED BY <1>1, <1>2, <2>1, <2>2
        DEF LockInsert, Goto, LocalFrame, Only, DomainInv, TypeOK, local, history, SameEra,
            Holding, InsertLabels
<1>3. CASE LockUpdate(t)
  <2>1. ver' \in Body
    BY <1>1, <1>3, BodyType DEF LockUpdate
  <2>2. /\ ver'.locked /\ ~ver'.splitting /\ ver'.vinsert_delete = ver.vinsert_delete
        /\ ver'.inserting_deleting = ver.inserting_deleting
    BY <1>1, <1>3 DEF LockUpdate, Body
  <2> QED BY <1>1, <1>3, <2>1, <2>2
        DEF LockUpdate, Goto, LocalFrame, Only, DomainInv, TypeOK, local, history, SameEra,
            Holding
<1>4. CASE Lookup(perm, req[t].key) # None /\ LockRemove(t)
  <2>1. /\ pc[t] = "lock_remove" /\ ~ver.locked /\ ver.vinsert_delete = v[t].vinsert_delete
        /\ slot' = [slot EXCEPT ![t] = Lookup(perm, req[t].key)]
        /\ ver' = [ver EXCEPT !.locked = TRUE] /\ Goto(t, "delete_value")
        /\ UNCHANGED <<perm, key, lv, v, lw, out, acc, calls, req, resp, history>>
    BY <1>4 DEF LockRemove
  <2>2. ver' \in Body
    BY <1>1, <2>1, BodyType
  <2>3. /\ ver'.locked /\ ~ver'.splitting /\ ver'.vinsert_delete = ver.vinsert_delete
        /\ ver'.inserting_deleting = ver.inserting_deleting
    BY <1>1, <2>1 DEF Body
  <2>4. Lookup(perm, req[t].key) \in Slot
    <3>1. InSlots(perm) /\ req[t].key \in Keys
      BY <2>1 DEF IInv, NodeInv, CallInv, CallRight
    <3> QED BY <1>1, <1>4, <3>1, LookupSound
  <2> QED BY <1>1, <2>1, <2>2, <2>3, <2>4
        DEF Goto, LocalFrame, Only, DomainInv, TypeOK, history, SameEra, Holding, DeleteLabels
<1> QED BY <1>2, <1>3, <1>4 DEF Locks

\* Taking the lock keeps the invariant: what t found before it waited for the

\* lock is still so, because the counter did not move.
LEMMA LockStep ==
    ASSUME IInv, NEW t \in Threads, Locks(t)
    PROVE  IInv'
<1>1. /\ perm' = perm /\ key' = key /\ lv' = lv /\ calls' = calls /\ req' = req /\ resp' = resp
      /\ kv' = kv /\ seen' = seen /\ retired' = retired /\ freed' = freed /\ v' = v
      /\ LocalFrame(t) /\ Only(t) /\ DomainInv'
      /\ pc[t] \in {"lock_insert", "lock_update", "lock_remove"}
      /\ pc'[t] \in {"insert_slot", "update_slot", "delete_value"}
      /\ ver' \in Body /\ ver'.locked /\ ~ver'.splitting
      /\ ver'.vinsert_delete = ver.vinsert_delete
      /\ ver'.inserting_deleting <=> pc'[t] = "insert_slot"
      /\ ~ver.locked /\ SameEra(t)
  BY LockFrame DEF history, LocalFrame
<1>2. TypeOK'
  BY <1>1 DEF IInv, TypeOK, LocalFrame
<1>3. /\ \A u \in Threads : u # t => pc[u] \notin Holding /\ pc'[u] \notin Holding
      /\ Gap' <=> Gap
  BY <1>1, Alone
<1>4. Count' = Count
  BY <1>1, <1>3 DEF Count
<1>5. pc[t] \notin Holding /\ pc'[t] \in Holding
  BY <1>1 DEF Holding, InsertLabels, DeleteLabels
<1>6. LockInv'
  BY <1>1, <1>3, <1>5 DEF LockInv, Holding, InsertLabels
<1>7. LockInsert(t) => slot[t] = None /\ pc'[t] = "insert_slot" /\ slot' = slot
                      /\ Found(t) /\ req[t].type \in {"put", "insert"}
  BY <1>1 DEF LockInsert, IInv, CallInv, CallRight, ReaderInv, ReaderKnows, DomainInv, Goto, local
<1>8. LockUpdate(t) => slot[t] \in Slot /\ pc'[t] = "update_slot" /\ slot' = slot
                      /\ Found(t) /\ req[t].type \in {"put", "insert"}
  BY <1>1 DEF LockUpdate, IInv, CallInv, CallRight, ReaderInv, ReaderKnows, DomainInv, Goto, local
<1>9. ASSUME LockRemove(t), Lookup(perm, req[t].key) # None
      PROVE  /\ slot'[t] \in Slot /\ pc'[t] = "delete_value" /\ req[t].type = "remove"
             /\ key[slot'[t]] = req[t].key
             /\ \E i \in 1 .. Count : perm[i] = slot'[t]
  <2>1. /\ slot'[t] = Lookup(perm, req[t].key) /\ pc'[t] = "delete_value"
        /\ req[t].type = "remove" /\ req[t].key \in Keys
        /\ InSlots(perm) /\ perm \in Word
    BY <1>9 DEF LockRemove, IInv, TypeOK, DomainInv, Goto, CallInv, CallRight, NodeInv
  <2>2. Count = perm[0]
    BY <1>1, <1>3, Alone DEF Count
  <2> QED BY <1>9, <2>1, <2>2, LookupSound
<1>10. CallInv'
  <2>1. CallRight(t)
    BY DEF IInv, CallInv
  <2>2. CallRight(t)'
    BY <1>1, <1>7, <1>8, <1>9, <2>1
       DEF Locks, CallRight, InsertLabels, DeleteLabels, ScanLabels
  <2> QED BY <1>1, <2>2, OtherCalls DEF CallInv, IInv
<1>11. NodeInv'
  BY <1>1, <1>4 DEF IInv, NodeInv, InSlots, Ascends
<1>12. HolderInv'
  <2>1. ASSUME NEW u \in Threads, u # t PROVE HolderKnows(u)'
    BY <1>3, <2>1 DEF HolderKnows, Holding, InsertLabels, DeleteLabels
  <2>2. CASE LockInsert(t)
    BY <1>1, <1>4, <1>7, <2>1, <2>2
       DEF HolderInv, HolderKnows, Found, Has, InsertLabels
  <2>3. CASE LockUpdate(t)
    BY <1>1, <1>4, <1>8, <2>1, <2>3
       DEF HolderInv, HolderKnows, Found, Has, InsertLabels
  <2>4. CASE LockRemove(t) /\ Lookup(perm, req[t].key) # None
    BY <1>1, <1>4, <1>9, <2>1, <2>4 DEF HolderInv, HolderKnows, InsertLabels
  <2> QED BY <2>2, <2>3, <2>4 DEF Locks
<1>13. ReaderInv'
  <2>1. ReaderKnows(t)'
    BY <1>1 DEF ReaderKnows
  <2>2. ASSUME NEW u \in Threads, u # t PROVE ReaderKnows(u)'
    <3>1. SameEra(u)' => SameEra(u)
      BY <1>1 DEF SameEra
    <3> QED BY <1>1, <1>4, <2>2, <3>1, ReadersKeep
  <2> QED BY <2>1, <2>2 DEF ReaderInv
<1>14. KvInv'
  <2>1. \A u \in Threads :
           pc[u] \notin {"unlock_put", "delete_rank", "delete_count", "unlock_remove"}
    BY <1>1, <1>3 DEF Holding, InsertLabels, DeleteLabels
  <2> QED BY <1>1, <1>4, <2>1 DEF IInv, KvInv, Has
<1>15. SeenInv' /\ AbsenceTrue'
  BY <1>1 DEF IInv, SeenInv, AbsenceTrue, Only
<1>16. ValueInv'
  <2>1. \A u \in Threads : pc[u] = "delete_rank" => pc'[u] = pc[u] /\ slot'[u] = slot[u]
    BY <1>1 DEF Only
  <2>2. \A u \in Threads :
           pc[u] \in {"idle", "insert_count", "insert_rank", "unlock_put"} => pc'[u] = pc[u]
    BY <1>1 DEF Only
  <2>3. Used' = Used
    BY <1>1 DEF Used
  <2> QED BY <1>1, <1>4, <2>1, <2>2, <2>3 DEF IInv, ValueInv
<1> QED BY <1>1, <1>2, <1>6, <1>10, <1>11, <1>12, <1>13, <1>14, <1>15, <1>16 DEF IInv

\* The stores of the thread with the lock.
Writes(t) ==
    \/ InsertSlot(t) \/ InsertCount(t) \/ InsertRank(t) \/ UpdateSlot(t)
    \/ DeleteValue(t) \/ DeleteRank(t) \/ DeleteCount(t)

\* What they leave alone.
LEMMA WriteFrame ==
    ASSUME IInv, NEW t \in Threads, Writes(t)
    PROVE  /\ UNCHANGED <<ver, kv, seen, calls, req, resp, v>> /\ Only(t) /\ DomainInv'
           /\ pc[t] \in Holding /\ pc'[t] \in Holding
           /\ pc[t] \in InsertLabels => pc'[t] \in InsertLabels \cup {"unlock_put"}
           /\ pc'[t] \in InsertLabels => pc[t] \in InsertLabels
           /\ SeenInv' /\ AbsenceTrue' /\ LockInv'
           /\ \A u \in Threads : u # t => CallRight(u)' /\ HolderKnows(u)'
<1>1. TypeOK /\ DomainInv
  BY DEF IInv
<1>2. /\ UNCHANGED <<ver, kv, seen, calls, req, resp, v>> /\ Only(t) /\ DomainInv'
      /\ pc[t] \in Holding /\ pc'[t] \in Holding
      /\ pc[t] \in InsertLabels => pc'[t] \in InsertLabels \cup {"unlock_put"}
      /\ pc'[t] \in InsertLabels => pc[t] \in InsertLabels
  <2> USE DEF Only, DomainInv, TypeOK, Goto, Holding, InsertLabels, DeleteLabels, local, history
  <2>1. CASE InsertSlot(t)
    BY <1>1, <2>1 DEF InsertSlot
  <2>2. CASE InsertCount(t)
    BY <1>1, <2>2 DEF InsertCount
  <2>3. CASE InsertRank(t)
    BY <1>1, <2>3 DEF InsertRank
  <2>4. CASE UpdateSlot(t)
    BY <1>1, <2>4 DEF UpdateSlot
  <2>5. CASE DeleteValue(t)
    BY <1>1, <2>5 DEF DeleteValue
  <2>6. CASE DeleteRank(t)
    BY <1>1, <2>6 DEF DeleteRank
  <2>7. CASE DeleteCount(t)
    BY <1>1, <2>7 DEF DeleteCount
  <2> QED BY <2>1, <2>2, <2>3, <2>4, <2>5, <2>6, <2>7 DEF Writes
<1>3. \A u \in Threads : u # t => pc[u] \notin Holding /\ pc'[u] \notin Holding
  BY <1>2, Alone
<1>4. LockInv'
  <2>1. ver.locked
    BY <1>2 DEF IInv, LockInv
  <2>2. ver.inserting_deleting => pc[t] \in InsertLabels \cup {"unlock_put"}
    BY <1>3 DEF IInv, LockInv, Holding
  <2>3. pc[t] # "unlock_put"
    BY DEF Writes, InsertSlot, InsertCount, InsertRank, UpdateSlot, DeleteValue, DeleteRank,
           DeleteCount
  <2>4. \A u \in Threads : pc'[u] \in InsertLabels => ver.inserting_deleting
    BY <1>2, <1>3 DEF IInv, LockInv, Holding
  <2> QED BY <1>2, <1>3, <2>1, <2>2, <2>3, <2>4 DEF IInv, LockInv
<1>5. SeenInv' /\ AbsenceTrue'
  <2>1. \A u \in Threads : pc'[u] # "idle" => pc[u] # "idle"
    BY <1>2 DEF Only, Holding, InsertLabels, DeleteLabels
  <2> QED BY <1>2, <2>1 DEF IInv, SeenInv, AbsenceTrue
<1>6. ASSUME NEW u \in Threads, u # t PROVE CallRight(u)' /\ HolderKnows(u)'
  <2>1. CallRight(u)'
    BY <1>2, <1>6, OtherCalls DEF IInv
  <2>2. HolderKnows(u)'
    BY <1>3, <1>6 DEF HolderKnows, Holding, InsertLabels, DeleteLabels
  <2> QED BY <2>1, <2>2
<1> QED BY <1>2, <1>4, <1>5, <1>6

\* Keys in order are distinct.
LEMMA KeysDistinct ==
    ASSUME NEW w, InSlots(w), NEW n \in 0 .. L, NEW ks \in [Slot -> Keys], Ascends(w, n, ks),
           NEW i \in 1 .. n, NEW j \in 1 .. n, ks[w[i]] = ks[w[j]]
    PROVE  i = j
<1>1. i \in 1 .. L /\ j \in 1 .. L
  BY Constants
<1>2. ks[w[i]] \in Nat
  BY <1>1, Constants DEF InSlots
<1>3. ~(i < j) /\ ~(j < i)
  BY <1>2 DEF Ascends
<1> QED BY <1>1, <1>3, Constants

\* The value of a call that has not stored it yet is nowhere.
LEMMA ValueFresh ==
    ASSUME IInv, NEW t \in Threads, pc[t] \in {"insert_slot", "update_slot"}
    PROVE  req[t].val \notin Used /\ req[t].val \in Values /\ req[t].val = <<t, calls[t]>>
<1>1. calls[t] \in Nat /\ req[t].val \in Values /\ req[t].val = <<t, calls[t]>>
  BY DEF IInv, TypeOK, CallInv, CallRight
<1> QED BY <1>1 DEF IInv, ValueInv

\* set_value on slot s: the old value is given up, once, and the new one is

\* in that slot only.
LEMMA StoreValue ==
    ASSUME IInv, NEW t \in Threads, NEW s \in Slot, pc[t] \in {"insert_slot", "update_slot"},
           pc'[t] \in {"insert_count", "unlock_put"}, Only(t), calls' = calls,
           lv' = [lv EXCEPT ![s] = req[t].val],
           \/ /\ retired' = retired
              /\ freed' = IF Inline \/ lv[s] = None THEN freed ELSE freed \cup {lv[s]}
           \/ /\ freed' = freed
              /\ retired' = IF Inline \/ lv[s] = None THEN retired ELSE retired \cup {lv[s]},
           perm' = perm, Count' = Count
    PROVE  /\ ValueInv'
           /\ retired' \subseteq Values /\ freed' \subseteq Values
           /\ lv' \in [Slot -> Values \cup {None}]
<1> DEFINE val == req[t].val
<1>1. /\ lv \in [Slot -> Values \cup {None}] /\ retired \subseteq Values /\ freed \subseteq Values
      /\ None \notin Values /\ Inline \in BOOLEAN
  BY Constants, BorderAssumption DEF IInv, TypeOK
<1>2. /\ val \notin retired \cup freed /\ \A r \in Slot : lv[r] # val
      /\ val \in Values /\ val = <<t, calls[t]>>
  BY <1>1, ValueFresh DEF Used
<1>3. /\ retired \cap freed = {}
      /\ Inline => retired = {} /\ freed = {}
      /\ \A r \in Slot : lv[r] \notin retired \cup freed
      /\ ~Inline => \A q, r \in Slot : lv[q] = lv[r] /\ lv[q] # None => q = r
  BY DEF IInv, ValueInv
<1>4. lv'[s] = val /\ \A r \in Slot : r # s => lv'[r] = lv[r]
  BY <1>1
<1>5. retired' \subseteq Values /\ freed' \subseteq Values /\ lv' \in [Slot -> Values \cup {None}]
  BY <1>1, <1>2
<1>6. retired' \cap freed' = {} /\ (Inline => retired' = {} /\ freed' = {})
  <2>1. CASE Inline \/ lv[s] = None
    <3>1. retired' = retired /\ freed' = freed
      BY <2>1
    <3> QED BY <1>3, <3>1
  <2>2. CASE ~Inline /\ lv[s] # None
    <3>1. lv[s] \notin retired /\ lv[s] \notin freed
      BY <1>3
    <3>2. \/ retired' = retired /\ freed' = freed \cup {lv[s]}
          \/ freed' = freed /\ retired' = retired \cup {lv[s]}
      BY <2>2
    <3> QED BY <1>3, <2>2, <3>1, <3>2
  <2> QED BY <2>1, <2>2
<1>7. \A r \in Slot : lv'[r] \notin retired' \cup freed'
  <2> TAKE r \in Slot
  <2>1. CASE r = s
    BY <1>2, <1>4, <2>1
  <2>2. CASE r # s
    BY <1>3, <1>4, <2>2
  <2> QED BY <2>1, <2>2
<1>8. ~Inline => \A q, r \in Slot : lv'[q] = lv'[r] /\ lv'[q] # None => q = r
  BY <1>2, <1>3, <1>4
<1>9. ASSUME NEW i \in (1 .. Count)'
      PROVE  lv'[perm'[i]] # None \/ \E u \in Threads : pc'[u] = "delete_rank" /\ slot'[u] = perm'[i]
  <2>1. \A u \in Threads : pc[u] # "delete_rank"
    BY DEF IInv, LockInv, Holding, InsertLabels, DeleteLabels
  <2>2. lv[perm[i]] # None
    BY <2>1 DEF IInv, ValueInv
  <2>3. perm[i] \in Slot
    BY Constants DEF IInv, NodeInv, InSlots
  <2> QED BY <1>1, <1>2, <1>4, <2>2, <2>3
<1>10. ASSUME NEW u \in Threads, NEW i \in Nat, <<u, i>> \in Used'
       PROVE  /\ i <= calls'[u]
              /\ i = calls'[u] =>
                    pc'[u] \in {"idle", "insert_count", "insert_rank", "unlock_put"}
  <2>1. Used' \subseteq Used \cup {val}
    BY <1>1, <1>4 DEF Used
  <2>2. CASE <<u, i>> = val
    BY <1>2, <2>2 DEF IInv, TypeOK
  <2>3. CASE <<u, i>> \in Used
    <3>1. /\ i <= calls[u]
          /\ i = calls[u] => pc[u] \in {"idle", "insert_count", "insert_rank", "unlock_put"}
      BY <2>3 DEF IInv, ValueInv
    <3> QED BY <3>1 DEF Only
  <2> QED BY <1>10, <2>1, <2>2, <2>3
<1> HIDE DEF val
<1> QED BY <1>5, <1>6, <1>7, <1>8, <1>9, <1>10 DEF ValueInv

\* InsertSlot writes a dead slot: the keys of the node stay.
LEMMA InsertSlotStep ==
    ASSUME IInv, NEW t \in Threads, InsertSlot(t)
    PROVE  IInv' /\ KeysKept
<1> DEFINE s == get_empty_slot(perm)
           k == req[t].key
<1>1. /\ UNCHANGED <<ver, kv, seen, calls, req, resp, v>> /\ Only(t) /\ DomainInv'
      /\ pc[t] \in Holding /\ SeenInv' /\ AbsenceTrue' /\ LockInv'
      /\ \A u \in Threads : u # t => CallRight(u)' /\ HolderKnows(u)'
  BY WriteFrame DEF Writes
<1>2. /\ pc[t] = "insert_slot" /\ pc'[t] = "insert_count" /\ perm' = perm /\ lw' = lw
      /\ key' = [key EXCEPT ![s] = k] /\ lv' = [lv EXCEPT ![s] = req[t].val]
      /\ slot' = [slot EXCEPT ![t] = s] /\ retired' = retired
      /\ freed' = IF Inline \/ lv[s] = None THEN freed ELSE freed \cup {lv[s]}
  BY DEF InsertSlot, Goto, IInv, DomainInv
<1>3. /\ perm \in Word /\ key \in [Slot -> Keys] /\ lv \in [Slot -> Values \cup {None}]
      /\ slot \in [Threads -> Slot \cup {None}] /\ TypeOK /\ NodeInv
      /\ CallRight(t) /\ k \in Keys /\ ~Has(perm, Count, key, k) /\ ver.inserting_deleting
  BY <1>2 DEF IInv, TypeOK, CallInv, CallRight, HolderInv, HolderKnows, InsertLabels, LockInv
<1>4. Count' = Count /\ Count = perm[0]
  BY <1>1, <1>2, Alone DEF Count
<1>5. Count < L
  BY <1>3, Room DEF NodeInv
<1>6. s \in Slot /\ \A i \in 1 .. Count : perm[i] # s
  <2>1. s \in Slot /\ s \notin Live(perm)
    BY <1>3, <1>4, <1>5, EmptySlot
  <2> QED BY <1>3, <1>4, <2>1, LiveNibbles
<1> HIDE DEF s
<1>7. ASSUME NEW i \in 1 .. Count
      PROVE  /\ perm[i] \in Slot /\ key'[perm[i]] = key[perm[i]] /\ lv'[perm[i]] = lv[perm[i]]
  <2>1. perm[i] \in Slot
    BY <1>3, Constants DEF NodeInv, InSlots
  <2> QED BY <1>2, <1>3, <1>6, <2>1
<1>8. /\ ValueInv' /\ retired' \subseteq Values /\ freed' \subseteq Values
      /\ lv' \in [Slot -> Values \cup {None}]
  BY <1>1, <1>2, <1>4, <1>6, StoreValue
<1>9. TypeOK'
  BY <1>1, <1>2, <1>3, <1>6, <1>8 DEF TypeOK
<1>10. CallInv'
  <2>1. CallRight(t)'
    BY <1>1, <1>2, <1>3, <1>6 DEF CallRight, InsertLabels, DeleteLabels, ScanLabels
  <2> QED BY <1>1, <2>1 DEF CallInv
<1>11. NodeInv'
  BY <1>2, <1>3, <1>4, <1>7 DEF NodeInv, InSlots, Ascends
<1>12. ~Has(perm, Count, key, k)'
  BY <1>1, <1>2, <1>3, <1>4, <1>7 DEF Has
<1>13. HolderInv'
  <2>1. /\ \A i \in 1 .. Count' : perm'[i] # slot'[t]
        /\ key'[slot'[t]] = k /\ lv'[slot'[t]] = req[t].val
    BY <1>2, <1>3, <1>4, <1>6
  <2>2. HolderKnows(t)'
    BY <1>1, <1>2, <1>12, <2>1 DEF HolderKnows
  <2> QED BY <1>1, <2>2 DEF HolderInv
<1>14. ReaderInv'
  <2>1. ReaderKnows(t)'
    BY <1>2 DEF ReaderKnows
  <2>2. ASSUME NEW u \in Threads, u # t PROVE ReaderKnows(u)'
    <3>1. ~SameEra(u)'
      BY <1>1, <1>3 DEF SameEra
    <3> QED BY <1>1, <2>2, <3>1, ReadersKeep
  <2> QED BY <2>1, <2>2 DEF ReaderInv
<1>15. KvInv'
  <2>1. \A u \in Threads :
           pc[u] \notin {"unlock_put", "delete_rank", "delete_count", "unlock_remove"}
    BY <1>1, <1>2, Alone DEF Holding, InsertLabels, DeleteLabels
  <2> QED BY <1>1, <1>2, <1>4, <1>7, <2>1 DEF IInv, KvInv, Has
<1>16. KeysKept
  BY <1>2, <1>4, <1>7 DEF KeysKept
<1> QED BY <1>1, <1>8, <1>9, <1>10, <1>11, <1>13, <1>14, <1>15, <1>16 DEF IInv

\* InsertCount raises cnk: the word counts one key too many, the node does not.
LEMMA InsertCountStep ==
    ASSUME IInv, NEW t \in Threads, InsertCount(t)
    PROVE  IInv' /\ KeysKept
<1>1. /\ UNCHANGED <<ver, kv, seen, calls, req, resp, v>> /\ Only(t) /\ DomainInv'
      /\ pc[t] \in Holding /\ SeenInv' /\ AbsenceTrue' /\ LockInv'
      /\ \A u \in Threads : u # t => CallRight(u)' /\ HolderKnows(u)'
  BY WriteFrame DEF Writes
<1>2. /\ pc[t] = "insert_count" /\ pc'[t] = "insert_rank"
      /\ perm' = [perm EXCEPT ![0] = perm[0] + 1] /\ lw' = [lw EXCEPT ![t] = perm]
      /\ key' = key /\ lv' = lv /\ slot' = slot /\ retired' = retired /\ freed' = freed
  BY DEF InsertCount, Goto, IInv, DomainInv, history, inc_key_num, set_cnk, get_cnk
<1>3. /\ perm \in Word /\ key \in [Slot -> Keys] /\ TypeOK /\ NodeInv /\ lw'[t] = perm
      /\ CallRight(t) /\ req[t].key \in Keys /\ ~Has(perm, Count, key, req[t].key)
      /\ ver.inserting_deleting /\ HolderKnows(t)
  BY <1>2 DEF IInv, TypeOK, CallInv, CallRight, HolderInv, HolderKnows, InsertLabels, LockInv
<1>4. Count = perm[0]
  BY <1>1, <1>2, Alone DEF Count
<1>5. Count < L
  BY <1>3, Room DEF NodeInv
<1>6. perm' \in Word /\ perm'[0] = perm[0] + 1 /\ \A j \in 1 .. L : perm'[j] = perm[j]
  <2>1. perm \in [0 .. L -> 0 .. L] /\ perm[0] + 1 \in 0 .. L /\ L \in Nat
    BY <1>3, <1>4, <1>5, WordType DEF Word
  <2> QED BY <1>2, <2>1, SMTT(40) DEF Word
<1>7. Count' = Count
  BY <1>1, <1>2, <1>3, <1>4, <1>6, Alone, WordType DEF Count
<1>8. \A i \in 1 .. Count : i \in 1 .. L /\ perm'[i] = perm[i]
  BY <1>3, <1>6, Constants DEF NodeInv
<1>9. TypeOK'
  BY <1>1, <1>2, <1>3, <1>6 DEF TypeOK
<1>10. CallInv'
  <2>1. CallRight(t)'
    BY <1>1, <1>2, <1>3 DEF CallRight, InsertLabels, DeleteLabels, ScanLabels
  <2> QED BY <1>1, <2>1 DEF CallInv
<1>11. NodeInv'
  BY <1>2, <1>3, <1>6, <1>7, <1>8 DEF NodeInv, InSlots, Ascends
<1>12. HolderInv'
  <2>1. /\ \A i \in 1 .. Count' : perm'[i] # slot'[t]
        /\ key'[slot'[t]] = req[t].key /\ lv'[slot'[t]] = req[t].val
    BY <1>2, <1>3, <1>7, <1>8 DEF HolderKnows
  <2>2. ~Has(perm, Count, key, req[t].key)'
    BY <1>1, <1>2, <1>3, <1>7, <1>8 DEF Has
  <2>3. lw'[t][0] = Count' /\ \A j \in 1 .. L : lw'[t][j] = perm'[j]
    BY <1>3, <1>4, <1>6, <1>7
  <2>4. HolderKnows(t)'
    BY <1>1, <1>2, <2>1, <2>2, <2>3 DEF HolderKnows
  <2> QED BY <1>1, <2>4 DEF HolderInv
<1>13. ReaderInv'
  <2>1. ReaderKnows(t)'
    BY <1>2 DEF ReaderKnows
  <2>2. ASSUME NEW u \in Threads, u # t PROVE ReaderKnows(u)'
    <3>1. ~SameEra(u)'
      BY <1>1, <1>3 DEF SameEra
    <3> QED BY <1>1, <2>2, <3>1, ReadersKeep
  <2> QED BY <2>1, <2>2 DEF ReaderInv
<1>14. KvInv'
  <2>1. \A u \in Threads :
           pc[u] \notin {"unlock_put", "delete_rank", "delete_count", "unlock_remove"}
    BY <1>1, <1>2, Alone DEF Holding, InsertLabels, DeleteLabels
  <2> QED BY <1>1, <1>2, <1>7, <1>8, <2>1 DEF IInv, KvInv, Has
<1>15. ValueInv'
  <2>1. \A u \in Threads : pc[u] = "delete_rank" => pc'[u] = pc[u] /\ slot'[u] = slot[u]
    BY <1>1, <1>2 DEF Only
  <2>2. \A u \in Threads :
           pc[u] \in {"idle", "insert_count", "insert_rank", "unlock_put"} =>
               pc'[u] \in {"idle", "insert_count", "insert_rank", "unlock_put"}
    BY <1>1, <1>2 DEF Only
  <2>3. Used' = Used
    BY <1>2 DEF Used
  <2> QED BY <1>1, <1>2, <1>7, <1>8, <2>1, <2>2, <2>3 DEF IInv, ValueInv
<1>16. KeysKept
  BY <1>2, <1>7, <1>8 DEF KeysKept
<1> QED BY <1>1, <1>9, <1>10, <1>11, <1>12, <1>13, <1>14, <1>15, <1>16 DEF IInv

\* InsertRank: the slot goes where its key belongs.
LEMMA InsertRankStep ==
    ASSUME IInv, NEW t \in Threads, InsertRank(t)
    PROVE  IInv' /\ KeysKept /\ Has(perm, Count, key, req[t].key)'
<1> DEFINE r == compute_rank_if_insert(lw[t], req[t].key)
           k == req[t].key
<1>1. /\ UNCHANGED <<ver, kv, seen, calls, req, resp, v>> /\ Only(t) /\ DomainInv'
      /\ pc[t] \in Holding /\ SeenInv' /\ AbsenceTrue' /\ LockInv'
      /\ \A u \in Threads : u # t => CallRight(u)' /\ HolderKnows(u)'
  BY WriteFrame DEF Writes
<1>2. /\ pc[t] = "insert_rank" /\ pc'[t] = "unlock_put"
      /\ perm' = insert(perm, r, slot[t])
      /\ key' = key /\ lv' = lv /\ slot' = slot /\ lw' = lw /\ retired' = retired /\ freed' = freed
  BY DEF InsertRank, Goto, IInv, DomainInv, history, local
<1>3. /\ perm \in Word /\ lw[t] \in Word /\ key \in [Slot -> Keys] /\ TypeOK /\ NodeInv
      /\ CallRight(t) /\ k \in Keys /\ ~Has(perm, Count, key, k) /\ slot[t] \in Slot
      /\ ver.inserting_deleting /\ HolderKnows(t)
      /\ lw[t][0] = Count /\ \A j \in 1 .. L : lw[t][j] = perm[j]
      /\ \A i \in 1 .. Count : perm[i] # slot[t]
      /\ key[slot[t]] = k /\ lv[slot[t]] = req[t].val /\ req[t].val \in Values
  BY <1>2 DEF IInv, TypeOK, CallInv, CallRight, HolderInv, HolderKnows, InsertLabels, LockInv
<1>4. /\ Count = perm[0] - 1 /\ perm[0] \in 1 .. L /\ Count \in 0 .. L /\ L \in Nat
      /\ \A i \in 1 .. Count : i \in 1 .. L
  BY <1>1, <1>2, <1>3, Alone, WordType DEF Count, NodeInv
<1>5. r \in 0 .. Count /\ \A i \in 1 .. Count : key[perm[i]] < k <=> i <= r
  <2>1. InSlots(lw[t]) /\ Ascends(lw[t], lw[t][0], key)
    BY <1>3, <1>4 DEF NodeInv, InSlots, Ascends
  <2>2. /\ r \in 0 .. lw[t][0]
        /\ \A i \in 1 .. lw[t][0] : key[lw[t][i]] < k <=> i <= r
    BY <1>3, <2>1, RankToInsert
  <2> QED BY <1>3, <1>4, <2>2
<1> HIDE DEF r
<1>6. /\ perm' \in Word
      /\ \A j \in 0 .. perm[0] :
           perm'[j] = IF j <= r THEN perm[j] ELSE IF j = r + 1 THEN slot[t] ELSE perm[j - 1]
      /\ \A j \in 1 .. L : \/ perm'[j] \in {0, slot[t]}
                           \/ \E i \in 1 .. L : perm'[j] = perm[i]
  <2>1. r \in 0 .. L - 1 /\ r < perm[0]
    BY <1>4, <1>5
  <2> QED BY <1>2, <1>3, <2>1, InsertNibbles
<1>7. Count' = perm[0] /\ Count' = Count + 1
  BY <1>1, <1>2, <1>4, <1>5, <1>6, Alone DEF Count
<1>8. InSlots(perm)'
  <2>1. 0 \in Slot
    BY Constants DEF Slot
  <2> QED BY <1>3, <1>6, <2>1 DEF NodeInv, InSlots
\* Every rank of the new word is an old one or the new key's.
<1>9. ASSUME NEW j \in 1 .. Count'
      PROVE  \/ j = r + 1 /\ perm'[j] = slot[t]
             \/ j <= r /\ j \in 1 .. Count /\ perm'[j] = perm[j]
             \/ j > r + 1 /\ j - 1 \in 1 .. Count /\ perm'[j] = perm[j - 1]
  BY <1>4, <1>5, <1>6, <1>7
<1>10. ASSUME NEW i \in 1 .. Count PROVE \E j \in 1 .. Count' : perm'[j] = perm[i]
  <2>1. CASE i <= r
    BY <1>4, <1>5, <1>6, <1>7, <2>1
  <2>2. CASE i > r
    <3>1. i + 1 \in 1 .. Count' /\ i + 1 \in 0 .. perm[0] /\ ~(i + 1 <= r) /\ i + 1 # r + 1
          /\ (i + 1) - 1 = i
      BY <1>4, <1>5, <1>7, <2>2
    <3> QED BY <1>6, <3>1
  <2> QED BY <1>4, <1>5, <2>1, <2>2
<1>11. \A i \in 1 .. Count : perm[i] \in Slot /\ key[perm[i]] \in Nat /\ key[perm[i]] # k
  BY <1>3, <1>4, Constants DEF NodeInv, InSlots, Has
<1>12. k \in Nat
  BY <1>3, Constants
<1>13. Ascends(perm, Count, key)'
  <2> SUFFICES ASSUME NEW i \in 1 .. Count', NEW j \in 1 .. Count', i < j
               PROVE  key[perm'[i]] < key[perm'[j]]
    BY <1>2 DEF Ascends
  <2>1. CASE i = r + 1
    <3>1. j > r + 1 /\ j - 1 \in 1 .. Count /\ perm'[j] = perm[j - 1] /\ perm'[i] = slot[t]
      BY <1>4, <1>5, <1>9, <2>1
    <3>2. ~(key[perm[j - 1]] < k)
      BY <1>4, <1>5, <3>1
    <3> QED BY <1>3, <1>11, <1>12, <3>1, <3>2
  <2>2. CASE j = r + 1
    <3>1. i <= r /\ i \in 1 .. Count /\ perm'[i] = perm[i] /\ perm'[j] = slot[t]
      BY <1>4, <1>5, <1>9, <2>2
    <3> QED BY <1>3, <1>5, <3>1
  <2>3. CASE i # r + 1 /\ j # r + 1
    <3>1. ASSUME NEW a \in 1 .. Count, NEW b \in 1 .. Count, a < b
          PROVE  key[perm[a]] < key[perm[b]]
      BY <1>3, <3>1 DEF NodeInv, Ascends
    <3>2. CASE i <= r /\ j <= r
      <4>1. i \in 1 .. Count /\ j \in 1 .. Count /\ perm'[i] = perm[i] /\ perm'[j] = perm[j]
        BY <1>4, <1>5, <1>7, <1>9, <3>2
      <4> QED BY <3>1, <4>1
    <3>3. CASE i <= r /\ j > r + 1
      <4>1. i \in 1 .. Count /\ j - 1 \in 1 .. Count /\ i < j - 1
            /\ perm'[i] = perm[i] /\ perm'[j] = perm[j - 1]
        BY <1>4, <1>5, <1>7, <1>9, <3>3
      <4> QED BY <3>1, <4>1
    <3>4. CASE i > r + 1 /\ j > r + 1
      <4>1. i - 1 \in 1 .. Count /\ j - 1 \in 1 .. Count /\ i - 1 < j - 1
            /\ perm'[i] = perm[i - 1] /\ perm'[j] = perm[j - 1]
        BY <1>4, <1>5, <1>7, <1>9, <3>4
      <4> QED BY <3>1, <4>1
    <3> QED BY <1>4, <1>5, <1>7, <2>3, <3>2, <3>3, <3>4
  <2> QED BY <2>1, <2>2, <2>3
<1>14. NodeInv'
  BY <1>4, <1>7, <1>8, <1>13 DEF NodeInv
<1>15. TypeOK'
  BY <1>1, <1>2, <1>3, <1>6 DEF TypeOK
<1>16. CallInv'
  <2>1. CallRight(t)'
    BY <1>1, <1>2, <1>3 DEF CallRight, InsertLabels, DeleteLabels, ScanLabels
  <2> QED BY <1>1, <2>1 DEF CallInv
<1>17. HolderInv'
  <2>1. \A i \in 1 .. Count' : key'[perm'[i]] = k => lv'[perm'[i]] = req[t].val
    BY <1>2, <1>3, <1>9, <1>11
  <2>2. HolderKnows(t)'
    BY <1>1, <1>2, <2>1 DEF HolderKnows, InsertLabels
  <2> QED BY <1>1, <2>2 DEF HolderInv
<1>18. ReaderInv'
  <2>1. ReaderKnows(t)'
    BY <1>2 DEF ReaderKnows
  <2>2. ASSUME NEW u \in Threads, u # t PROVE ReaderKnows(u)'
    <3>1. ~SameEra(u)'
      BY <1>1, <1>3 DEF SameEra
    <3> QED BY <1>1, <2>2, <3>1, ReadersKeep
  <2> QED BY <2>1, <2>2 DEF ReaderInv
<1>19. KvInv'
  <2> SUFFICES ASSUME NEW x \in Keys
               PROVE  /\ x # k => \A i \in 1 .. Count' : key[perm'[i]] = x => lv[perm'[i]] = kv[x]
                      /\ (\A i \in 1 .. Count' : key[perm'[i]] # x) => kv[x] = None
    BY <1>1, <1>2 DEF KvInv, Has
  <2>1. \A u \in Threads :
           pc[u] \notin {"unlock_put", "delete_rank", "delete_count", "unlock_remove"}
    BY <1>1, <1>2, Alone DEF Holding, InsertLabels, DeleteLabels
  <2>2. /\ \A i \in 1 .. Count : key[perm[i]] = x => lv[perm[i]] = kv[x]
        /\ (\A i \in 1 .. Count : key[perm[i]] # x) => kv[x] = None
    BY <2>1 DEF IInv, KvInv, Has
  <2>3. ASSUME x # k, NEW i \in 1 .. Count', key[perm'[i]] = x PROVE lv[perm'[i]] = kv[x]
    BY <1>3, <1>9, <2>2, <2>3
  <2>4. ASSUME \A i \in 1 .. Count' : key[perm'[i]] # x PROVE kv[x] = None
    BY <1>10, <2>2, <2>4
  <2> QED BY <2>3, <2>4
<1>20. ValueInv'
  <2>1. \A u \in Threads : pc[u] # "delete_rank"
    BY <1>1, <1>2, Alone DEF Holding, InsertLabels, DeleteLabels
  <2>2. \A u \in Threads :
           pc[u] \in {"idle", "insert_count", "insert_rank", "unlock_put"} =>
               pc'[u] \in {"idle", "insert_count", "insert_rank", "unlock_put"}
    BY <1>1, <1>2 DEF Only
  <2>3. Used' = Used
    BY <1>2 DEF Used
  <2>4. \A i \in 1 .. Count : lv[perm[i]] # None
    BY <2>1 DEF IInv, ValueInv
  <2>5. \A i \in 1 .. Count' : lv'[perm'[i]] # None
    BY <1>2, <1>3, <1>9, <2>4, Constants
  <2> QED BY <1>1, <1>2, <2>2, <2>3, <2>5 DEF IInv, ValueInv
<1>21. KeysKept
  BY <1>2, <1>10 DEF KeysKept
<1>22. Has(perm, Count, key, req[t].key)'
  <2>1. r + 1 \in 1 .. Count' /\ ~(r + 1 > r + 1) /\ ~(r + 1 <= r)
    BY <1>4, <1>5, <1>7
  <2>2. perm'[r + 1] = slot[t]
    BY <1>9, <2>1
  <2>3. key'[perm'[r + 1]] = req'[t].key
    BY <1>1, <1>2, <1>3, <2>2
  <2> QED BY <2>1, <2>3 DEF Has
<1> QED BY <1>1, <1>14, <1>15, <1>16, <1>17, <1>18, <1>19, <1>20, <1>21, <1>22 DEF IInv

\* UpdateSlot: the value goes to the slot of the key, dead or alive.
LEMMA UpdateSlotStep ==
    ASSUME IInv, NEW t \in Threads, UpdateSlot(t)
    PROVE  IInv' /\ KeysKept
<1>1. /\ UNCHANGED <<ver, kv, seen, calls, req, resp, v>> /\ Only(t) /\ DomainInv'
      /\ pc[t] \in Holding /\ SeenInv' /\ AbsenceTrue' /\ LockInv'
      /\ \A u \in Threads : u # t => CallRight(u)' /\ HolderKnows(u)'
  BY WriteFrame DEF Writes
<1>2. /\ pc[t] = "update_slot" /\ pc'[t] = "unlock_put" /\ perm' = perm /\ lw' = lw
      /\ key' = key /\ lv' = [lv EXCEPT ![slot[t]] = req[t].val] /\ slot' = slot
      /\ retired' = IF Inline \/ lv[slot[t]] = None THEN retired ELSE retired \cup {lv[slot[t]]}
      /\ freed' = freed
  BY DEF UpdateSlot, Goto, IInv, DomainInv, local
<1>3. /\ key \in [Slot -> Keys] /\ lv \in [Slot -> Values \cup {None}] /\ TypeOK /\ NodeInv
      /\ CallRight(t) /\ slot[t] \in Slot /\ Found(t)
  BY <1>2 DEF IInv, TypeOK, CallInv, CallRight, HolderInv, HolderKnows
<1>4. Count' = Count
  BY <1>1, <1>2, Alone DEF Count
<1>5. /\ key[slot[t]] = req[t].key
      /\ \A i \in 1 .. Count : key[perm[i]] = req[t].key => perm[i] = slot[t]
      /\ \A i \in 1 .. Count : perm[i] \in Slot
  <2>1. \A i \in 1 .. Count : i \in 1 .. L
    BY <1>3, Constants DEF NodeInv
  <2> QED BY <1>3, <2>1, Constants DEF Found, NodeInv, InSlots
<1>6. /\ ValueInv' /\ retired' \subseteq Values /\ freed' \subseteq Values
      /\ lv' \in [Slot -> Values \cup {None}]
  BY <1>1, <1>2, <1>3, <1>4, StoreValue
<1>7. TypeOK'
  BY <1>1, <1>2, <1>3, <1>6 DEF TypeOK
<1>8. CallInv'
  <2>1. CallRight(t)'
    BY <1>1, <1>2, <1>3 DEF CallRight, InsertLabels, DeleteLabels, ScanLabels
  <2> QED BY <1>1, <2>1 DEF CallInv
<1>9. NodeInv'
  BY <1>2, <1>3, <1>4 DEF NodeInv, InSlots, Ascends
<1>10. HolderInv'
  <2>1. \A i \in 1 .. Count' : key'[perm'[i]] = req[t].key => lv'[perm'[i]] = req[t].val
    BY <1>2, <1>3, <1>4, <1>5
  <2>2. HolderKnows(t)'
    BY <1>1, <1>2, <2>1 DEF HolderKnows, InsertLabels
  <2> QED BY <1>1, <2>2 DEF HolderInv
<1>11. ReaderInv'
  <2>1. ReaderKnows(t)'
    BY <1>2 DEF ReaderKnows
  <2>2. ASSUME NEW u \in Threads, u # t PROVE ReaderKnows(u)'
    <3>1. SameEra(u)' => SameEra(u)
      BY <1>1 DEF SameEra, Only
    <3> QED BY <1>1, <1>2, <1>4, <2>2, <3>1, ReadersKeep
  <2> QED BY <2>1, <2>2 DEF ReaderInv
<1>12. KvInv'
  <2> SUFFICES ASSUME NEW x \in Keys
               PROVE  /\ x # req[t].key =>
                            \A i \in 1 .. Count : key[perm[i]] = x => lv'[perm[i]] = kv[x]
                      /\ (\A i \in 1 .. Count : key[perm[i]] # x) => kv[x] = None
    BY <1>1, <1>2, <1>4 DEF KvInv, Has
  <2>1. \A u \in Threads :
           pc[u] \notin {"unlock_put", "delete_rank", "delete_count", "unlock_remove"}
    BY <1>1, <1>2, Alone DEF Holding, InsertLabels, DeleteLabels
  <2>2. /\ \A i \in 1 .. Count : key[perm[i]] = x => lv[perm[i]] = kv[x]
        /\ (\A i \in 1 .. Count : key[perm[i]] # x) => kv[x] = None
    BY <2>1 DEF IInv, KvInv, Has
  <2> QED BY <1>2, <1>3, <1>5, <2>2
<1>13. KeysKept
  BY <1>2, <1>4 DEF KeysKept
<1> QED BY <1>1, <1>6, <1>7, <1>8, <1>9, <1>10, <1>11, <1>12, <1>13 DEF IInv

\* DeleteValue: the value is given up, its slot still has a rank.
LEMMA DeleteValueStep ==
    ASSUME IInv, NEW t \in Threads, DeleteValue(t)
    PROVE  IInv'
<1>1. /\ UNCHANGED <<ver, kv, seen, calls, req, resp, v>> /\ Only(t) /\ DomainInv'
      /\ pc[t] \in Holding /\ SeenInv' /\ AbsenceTrue' /\ LockInv'
      /\ \A u \in Threads : u # t => CallRight(u)' /\ HolderKnows(u)'
  BY WriteFrame DEF Writes
<1>2. /\ pc[t] = "delete_value" /\ pc'[t] = "delete_rank" /\ perm' = perm /\ lw' = lw
      /\ key' = key /\ slot' = slot /\ freed' = freed
      /\ IF Inline \/ lv[slot[t]] = None
         THEN lv' = lv /\ retired' = retired
         ELSE retired' = retired \cup {lv[slot[t]]} /\ lv' = [lv EXCEPT ![slot[t]] = None]
  BY DEF DeleteValue, Goto, IInv, DomainInv, local
<1>3. /\ key \in [Slot -> Keys] /\ lv \in [Slot -> Values \cup {None}] /\ TypeOK /\ NodeInv
      /\ CallRight(t) /\ slot[t] \in Slot /\ key[slot[t]] = req[t].key
      /\ \E i \in 1 .. Count : perm[i] = slot[t]
      /\ retired \subseteq Values /\ freed \subseteq Values /\ None \notin Values
  BY <1>2, Constants
     DEF IInv, TypeOK, CallInv, CallRight, HolderInv, HolderKnows, DeleteLabels
<1>4. Count' = Count
  BY <1>1, <1>2, Alone DEF Count
<1>5. \A i \in 1 .. Count : perm[i] \in Slot
  <2>1. \A i \in 1 .. Count : i \in 1 .. L
    BY <1>3, Constants DEF NodeInv
  <2> QED BY <1>3, <2>1 DEF NodeInv, InSlots
<1>6. \A s \in Slot : s # slot[t] => lv'[s] = lv[s]
  BY <1>2, <1>3
<1>7. TypeOK'
  BY <1>1, <1>2, <1>3 DEF TypeOK
<1>8. CallInv'
  <2>1. CallRight(t)'
    BY <1>1, <1>2, <1>3 DEF CallRight, InsertLabels, DeleteLabels, ScanLabels
  <2> QED BY <1>1, <2>1 DEF CallInv
<1>9. NodeInv'
  BY <1>2, <1>3, <1>4 DEF NodeInv, InSlots, Ascends
<1>10. HolderInv'
  <2>1. HolderKnows(t)'
    BY <1>1, <1>2, <1>3, <1>4 DEF HolderKnows, InsertLabels
  <2> QED BY <1>1, <2>1 DEF HolderInv
<1>11. ReaderInv'
  <2>1. ReaderKnows(t)'
    BY <1>2 DEF ReaderKnows
  <2>2. ASSUME NEW u \in Threads, u # t PROVE ReaderKnows(u)'
    <3>1. SameEra(u)' => SameEra(u)
      BY <1>1 DEF SameEra, Only
    <3> QED BY <1>1, <1>2, <1>4, <2>2, <3>1, ReadersKeep
  <2> QED BY <2>1, <2>2 DEF ReaderInv
<1>12. \A u \in Threads :
          pc[u] \notin {"unlock_put", "delete_rank", "delete_count", "unlock_remove"}
  BY <1>1, <1>2, Alone DEF Holding, InsertLabels, DeleteLabels
<1>13. KvInv'
  <2> SUFFICES ASSUME NEW x \in Keys
               PROVE  /\ x # req[t].key =>
                            \A i \in 1 .. Count : key[perm[i]] = x => lv'[perm[i]] = kv[x]
                      /\ (\A i \in 1 .. Count : key[perm[i]] # x) => kv[x] = None
    BY <1>1, <1>2, <1>4 DEF KvInv, Has
  <2>1. /\ \A i \in 1 .. Count : key[perm[i]] = x => lv[perm[i]] = kv[x]
        /\ (\A i \in 1 .. Count : key[perm[i]] # x) => kv[x] = None
    BY <1>12 DEF IInv, KvInv, Has
  <2> QED BY <1>3, <1>5, <1>6, <2>1
<1>14. ValueInv'
  <2>1. /\ retired \cap freed = {}
        /\ Inline => retired = {} /\ freed = {}
        /\ \A r \in Slot : lv[r] \notin retired \cup freed
        /\ ~Inline => \A q, r \in Slot : lv[q] = lv[r] /\ lv[q] # None => q = r
        /\ \A i \in 1 .. Count : lv[perm[i]] # None
        /\ \A u \in Threads, i \in Nat :
             <<u, i>> \in Used =>
                 /\ i <= calls[u]
                 /\ i = calls[u] => pc[u] \in {"idle", "insert_count", "insert_rank", "unlock_put"}
    BY <1>12 DEF IInv, ValueInv
  <2>2. \A i \in 1 .. Count : lv'[perm[i]] # None \/ perm[i] = slot[t]
    BY <1>5, <1>6, <2>1
  <2>3. Used' \subseteq Used
    BY <1>2, <1>3, <1>6 DEF Used
  <2>4. CASE Inline \/ lv[slot[t]] = None
    BY <1>1, <1>2, <1>4, <2>1, <2>2, <2>3, <2>4 DEF ValueInv, Only
  <2>5. CASE ~Inline /\ lv[slot[t]] # None
    BY <1>1, <1>2, <1>3, <1>4, <1>6, <2>1, <2>2, <2>3, <2>5 DEF ValueInv, Only
  <2> QED BY <2>4, <2>5
<1> QED BY <1>1, <1>7, <1>8, <1>9, <1>10, <1>11, <1>13, <1>14 DEF IInv

\* DeleteRank: the ranks above close the gap, cnk still counts one key more.
LEMMA DeleteRankStep ==
    ASSUME IInv, NEW t \in Threads, DeleteRank(t)
    PROVE  IInv'
<1>1. /\ UNCHANGED <<ver, kv, seen, calls, req, resp, v>> /\ Only(t) /\ DomainInv'
      /\ pc[t] \in Holding /\ SeenInv' /\ AbsenceTrue' /\ LockInv'
      /\ \A u \in Threads : u # t => CallRight(u)' /\ HolderKnows(u)'
  BY WriteFrame DEF Writes
<1>2. /\ pc[t] = "delete_rank" /\ pc'[t] = "delete_count" /\ lw' = lw
      /\ key' = key /\ lv' = lv /\ slot' = slot /\ retired' = retired /\ freed' = freed
  BY DEF DeleteRank, Goto, IInv, DomainInv, local, history
<1>3. PICK r \in 0 .. perm[0] - 1 :
         get_index_of_rank(perm, r) = slot[t] /\ perm' = delete_rank(perm, r)
  BY DEF DeleteRank, get_cnk
<1>4. /\ perm \in Word /\ key \in [Slot -> Keys] /\ TypeOK /\ NodeInv
      /\ CallRight(t) /\ slot[t] \in Slot /\ key[slot[t]] = req[t].key
  BY <1>2 DEF IInv, TypeOK, CallInv, CallRight, HolderInv, HolderKnows, DeleteLabels
<1>5. /\ Count = perm[0] /\ L \in Nat /\ Count \in 0 .. L
      /\ r \in 0 .. L - 1 /\ r < perm[0] /\ r + 1 \in 1 .. Count
      /\ \A i \in 1 .. Count : i \in 1 .. L
  BY <1>1, <1>2, <1>3, <1>4, Alone, WordType DEF Count, NodeInv
<1>6. perm[r + 1] = slot[t]
  BY <1>3, <1>4, <1>5, IndexOfRank
<1>7. /\ perm' \in Word /\ perm'[0] = perm[0]
      /\ \A j \in 1 .. perm[0] - 1 : perm'[j] = IF j <= r THEN perm[j] ELSE perm[j + 1]
      /\ \A j \in 1 .. L : perm'[j] = 0 \/ \E i \in 1 .. L : perm'[j] = perm[i]
  BY <1>3, <1>4, <1>5, DeleteNibbles
<1>8. Count' = Count - 1
  BY <1>1, <1>2, <1>5, <1>7, Alone DEF Count
<1>9. InSlots(perm)'
  <2>1. 0 \in Slot
    BY Constants DEF Slot
  <2> QED BY <1>4, <1>7, <2>1 DEF NodeInv, InSlots
\* Every rank is one of the others of before.
<1>10. ASSUME NEW j \in 1 .. Count'
       PROVE  \/ j <= r /\ j \in 1 .. Count /\ perm'[j] = perm[j]
              \/ j > r /\ j + 1 \in 1 .. Count /\ perm'[j] = perm[j + 1]
  BY <1>5, <1>7, <1>8
<1>11. ASSUME NEW j \in 1 .. Count' PROVE \E i \in 1 .. Count : i # r + 1 /\ perm'[j] = perm[i]
  BY <1>5, <1>8, <1>10
<1>12. ASSUME NEW i \in 1 .. Count, i # r + 1 PROVE \E j \in 1 .. Count' : perm'[j] = perm[i]
  <2>1. CASE i <= r
    BY <1>5, <1>7, <1>8, <2>1
  <2>2. CASE i > r + 1
    <3>1. i - 1 \in 1 .. Count' /\ ~(i - 1 <= r) /\ (i - 1) + 1 = i /\ i - 1 \in 1 .. perm[0] - 1
      BY <1>5, <1>8, <2>2
    <3> QED BY <1>7, <3>1
  <2> QED BY <1>5, <1>12, <2>1, <2>2
<1>13. Ascends(perm, Count, key)'
  <2> SUFFICES ASSUME NEW i \in 1 .. Count', NEW j \in 1 .. Count', i < j
               PROVE  key[perm'[i]] < key[perm'[j]]
    BY <1>2 DEF Ascends
  <2>1. ASSUME NEW a \in 1 .. Count, NEW b \in 1 .. Count, a < b
        PROVE  key[perm[a]] < key[perm[b]]
    BY <1>4, <2>1 DEF NodeInv, Ascends
  <2>2. CASE j <= r
    <3>1. i <= r /\ i \in 1 .. Count /\ j \in 1 .. Count /\ perm'[i] = perm[i] /\ perm'[j] = perm[j]
      BY <1>5, <1>8, <1>10, <2>2
    <3> QED BY <2>1, <3>1
  <2>3. CASE i <= r /\ j > r
    <3>1. /\ i \in 1 .. Count /\ j + 1 \in 1 .. Count /\ i < j + 1
          /\ perm'[i] = perm[i] /\ perm'[j] = perm[j + 1]
      BY <1>5, <1>8, <1>10, <2>3
    <3> QED BY <2>1, <3>1
  <2>4. CASE i > r
    <3>1. /\ i + 1 \in 1 .. Count /\ j + 1 \in 1 .. Count /\ i + 1 < j + 1
          /\ perm'[i] = perm[i + 1] /\ perm'[j] = perm[j + 1]
      BY <1>5, <1>8, <1>10, <2>4
    <3> QED BY <2>1, <3>1
  <2> QED BY <1>5, <1>8, <2>2, <2>3, <2>4
<1>14. NodeInv'
  BY <1>5, <1>8, <1>9, <1>13 DEF NodeInv
\* The key of t had that rank only.
<1>15. ASSUME NEW i \in 1 .. Count, key[perm[i]] = req[t].key PROVE i = r + 1
  BY <1>4, <1>5, <1>6, <1>15, KeysDistinct DEF NodeInv
<1>16. ~Has(perm, Count, key, req[t].key)'
  BY <1>1, <1>2, <1>11, <1>15 DEF Has
<1>17. TypeOK'
  BY <1>1, <1>2, <1>4, <1>7 DEF TypeOK
<1>18. CallInv'
  <2>1. CallRight(t)'
    BY <1>1, <1>2, <1>4 DEF CallRight, InsertLabels, DeleteLabels, ScanLabels
  <2> QED BY <1>1, <2>1 DEF CallInv
<1>19. HolderInv'
  <2>1. HolderKnows(t)'
    BY <1>1, <1>2, <1>16 DEF HolderKnows, InsertLabels
  <2> QED BY <1>1, <2>1 DEF HolderInv
<1>20. ReaderInv'
  <2>1. ReaderKnows(t)'
    BY <1>2 DEF ReaderKnows
  <2>2. ASSUME NEW u \in Threads, u # t PROVE ReaderKnows(u)'
    <3>1. SameEra(u)' => SameEra(u)
      BY <1>1 DEF SameEra, Only
    <3>2. \A i \in 1 .. Count' : \E j \in 1 .. Count : perm'[i] = perm[j]
      BY <1>11
    <3> QED BY <1>1, <1>2, <2>2, <3>1, <3>2, ReadersKeep
  <2> QED BY <2>1, <2>2 DEF ReaderInv
<1>21. \A u \in Threads : u # t =>
          pc[u] \notin {"unlock_put", "delete_rank", "delete_count", "unlock_remove"}
  BY <1>1, Alone DEF Holding, InsertLabels, DeleteLabels
<1>22. KvInv'
  <2> SUFFICES ASSUME NEW x \in Keys
               PROVE  /\ \A i \in 1 .. Count' : key[perm'[i]] = x => lv[perm'[i]] = kv[x]
                      /\ x # req[t].key /\ (\A i \in 1 .. Count' : key[perm'[i]] # x) =>
                            kv[x] = None
    BY <1>1, <1>2 DEF KvInv, Has
  <2>1. /\ x # req[t].key => \A i \in 1 .. Count : key[perm[i]] = x => lv[perm[i]] = kv[x]
        /\ (\A i \in 1 .. Count : key[perm[i]] # x) => kv[x] = None
    BY <1>2, <1>21 DEF IInv, KvInv, Has
  <2>2. ASSUME NEW i \in 1 .. Count', key[perm'[i]] = x PROVE lv[perm'[i]] = kv[x]
    BY <1>11, <1>15, <2>1, <2>2
  <2>3. ASSUME x # req[t].key, \A i \in 1 .. Count' : key[perm'[i]] # x PROVE kv[x] = None
    <3>1. key[perm[r + 1]] = req[t].key
      BY <1>4, <1>6
    <3>2. \A i \in 1 .. Count : key[perm[i]] # x
      BY <1>12, <2>3, <3>1
    <3> QED BY <2>1, <3>2
  <2> QED BY <2>2, <2>3
<1>23. ValueInv'
  <2>1. \A u \in Threads :
           pc[u] \in {"idle", "insert_count", "insert_rank", "unlock_put"} => pc'[u] = pc[u]
    BY <1>1, <1>2 DEF Only
  <2>2. Used' = Used
    BY <1>2 DEF Used
  <2>3. ASSUME NEW j \in 1 .. Count' PROVE lv[perm'[j]] # None
    <3>1. PICK i \in 1 .. Count : i # r + 1 /\ perm'[j] = perm[i]
      BY <1>11
    <3>2. lv[perm[i]] # None \/ perm[i] = slot[t]
      BY <1>21 DEF IInv, ValueInv
    <3>3. perm[i] # slot[t]
      BY <1>4, <1>15, <3>1
    <3> QED BY <3>1, <3>2, <3>3
  <2> QED BY <1>1, <1>2, <2>1, <2>2, <2>3 DEF IInv, ValueInv
<1> QED BY <1>1, <1>14, <1>17, <1>18, <1>19, <1>20, <1>22, <1>23 DEF IInv

\* DeleteCount lowers cnk to the number of keys.
LEMMA DeleteCountStep ==
    ASSUME IInv, NEW t \in Threads, DeleteCount(t)
    PROVE  IInv'
<1>1. /\ UNCHANGED <<ver, kv, seen, calls, req, resp, v>> /\ Only(t) /\ DomainInv'
      /\ pc[t] \in Holding /\ SeenInv' /\ AbsenceTrue' /\ LockInv'
      /\ \A u \in Threads : u # t => CallRight(u)' /\ HolderKnows(u)'
  BY WriteFrame DEF Writes
<1>2. /\ pc[t] = "delete_count" /\ pc'[t] = "unlock_remove"
      /\ perm' = [perm EXCEPT ![0] = perm[0] - 1] /\ lw' = lw
      /\ key' = key /\ lv' = lv /\ slot' = slot /\ retired' = retired /\ freed' = freed
  BY DEF DeleteCount, Goto, IInv, DomainInv, history, local, dec_key_num, set_cnk, get_cnk
<1>3. /\ perm \in Word /\ key \in [Slot -> Keys] /\ TypeOK /\ NodeInv
      /\ CallRight(t) /\ req[t].key \in Keys /\ ~Has(perm, Count, key, req[t].key)
  BY <1>2 DEF IInv, TypeOK, CallInv, CallRight, HolderInv, HolderKnows, InsertLabels
<1>4. Count = perm[0] - 1 /\ Count \in 0 .. L /\ L \in Nat
  BY <1>1, <1>2, <1>3, Alone, Constants DEF Count, NodeInv
<1>5. perm' \in Word /\ perm'[0] = perm[0] - 1 /\ \A j \in 1 .. L : perm'[j] = perm[j]
  <2>1. perm \in [0 .. L -> 0 .. L] /\ perm[0] - 1 \in 0 .. L
    BY <1>3, <1>4, WordType DEF Word
  <2> QED BY <1>2, <1>4, <2>1 DEF Word
<1>6. Count' = Count
  BY <1>1, <1>2, <1>4, <1>5, Alone DEF Count
<1>7. \A i \in 1 .. Count : i \in 1 .. L /\ perm'[i] = perm[i]
  BY <1>4, <1>5
<1>8. TypeOK'
  BY <1>1, <1>2, <1>3, <1>5 DEF TypeOK
<1>9. CallInv'
  <2>1. CallRight(t)'
    BY <1>1, <1>2, <1>3 DEF CallRight, InsertLabels, DeleteLabels, ScanLabels
  <2> QED BY <1>1, <2>1 DEF CallInv
<1>10. NodeInv'
  BY <1>2, <1>3, <1>5, <1>6, <1>7 DEF NodeInv, InSlots, Ascends
<1>11. HolderInv'
  <2>1. ~Has(perm, Count, key, req[t].key)'
    BY <1>1, <1>2, <1>3, <1>6, <1>7 DEF Has
  <2>2. HolderKnows(t)'
    BY <1>1, <1>2, <2>1 DEF HolderKnows
  <2> QED BY <1>1, <2>2 DEF HolderInv
<1>12. ReaderInv'
  <2>1. ReaderKnows(t)'
    BY <1>2 DEF ReaderKnows
  <2>2. ASSUME NEW u \in Threads, u # t PROVE ReaderKnows(u)'
    <3>1. SameEra(u)' => SameEra(u)
      BY <1>1 DEF SameEra, Only
    <3> QED BY <1>1, <1>2, <1>6, <1>7, <2>2, <3>1, ReadersKeep
  <2> QED BY <2>1, <2>2 DEF ReaderInv
<1>13. \A u \in Threads : u # t =>
          pc[u] \notin {"unlock_put", "delete_rank", "delete_count", "unlock_remove"}
  BY <1>1, Alone DEF Holding, InsertLabels, DeleteLabels
<1>14. KvInv'
  BY <1>1, <1>2, <1>6, <1>7, <1>13 DEF IInv, KvInv, Has, Only
<1>15. ValueInv'
  <2>1. \A u \in Threads : pc[u] = "delete_rank" => pc'[u] = pc[u] /\ slot'[u] = slot[u]
    BY <1>1, <1>2 DEF Only
  <2>2. \A u \in Threads :
           pc[u] \in {"idle", "insert_count", "insert_rank", "unlock_put"} => pc'[u] = pc[u]
    BY <1>1, <1>2 DEF Only
  <2>3. Used' = Used
    BY <1>2 DEF Used
  <2> QED BY <1>1, <1>2, <1>6, <1>7, <2>1, <2>2, <2>3 DEF IInv, ValueInv
<1> QED BY <1>1, <1>8, <1>9, <1>10, <1>11, <1>12, <1>14, <1>15 DEF IInv

\* The map of a node whose keys are in order, key by key.
LEMMA ContentIs ==
    ASSUME perm \in Word, key \in [Slot -> Keys], lv \in [Slot -> Values \cup {None}],
           InSlots(perm), Ascends(perm, perm[0], key)
    PROVE  /\ Content(perm, key, lv) \in [Keys -> Values \cup {None}]
           /\ \A i \in 1 .. perm[0] : Content(perm, key, lv)[key[perm[i]]] = lv[perm[i]]
           /\ \A k \in Keys : ~Has(perm, perm[0], key, k) => Content(perm, key, lv)[k] = None
<1> DEFINE here(k) == {s \in Live(perm) : key[s] = k}
<1>1. /\ L \in Nat /\ perm[0] \in 0 .. L /\ \A i \in 1 .. perm[0] : i \in 1 .. L /\ perm[i] \in Slot
  BY WordType DEF InSlots
<1>2. \A s : s \in Live(perm) <=> \E i \in 1 .. perm[0] : s = perm[i]
  BY LiveNibbles
<1>3. ASSUME NEW k \in Keys
      PROVE  Content(perm, key, lv)[k] =
                IF here(k) = {} THEN None ELSE lv[CHOOSE s \in here(k) : TRUE]
  BY DEF Content
<1>4. ASSUME NEW i \in 1 .. perm[0]
      PROVE  /\ key[perm[i]] \in Keys
             /\ Content(perm, key, lv)[key[perm[i]]] = lv[perm[i]]
  <2>1. key[perm[i]] \in Keys /\ perm[i] \in here(key[perm[i]])
    BY <1>1, <1>2
  <2>2. ASSUME NEW s \in here(key[perm[i]]) PROVE s = perm[i]
    <3>1. PICK j \in 1 .. perm[0] : s = perm[j] /\ key[perm[j]] = key[perm[i]]
      BY <1>2
    <3>2. i = j
      BY <1>1, <3>1, KeysDistinct
    <3> QED BY <3>1, <3>2
  <2> HIDE DEF here
  <2>3. (CHOOSE s \in here(key[perm[i]]) : TRUE) = perm[i]
    BY <2>1, <2>2
  <2> QED BY <1>3, <2>1, <2>3
<1>5. ASSUME NEW k \in Keys, ~Has(perm, perm[0], key, k)
      PROVE  Content(perm, key, lv)[k] = None
  <2>1. here(k) = {}
    BY <1>2, <1>5 DEF Has
  <2> QED BY <1>3, <2>1
<1>6. ASSUME NEW k \in Keys PROVE Content(perm, key, lv)[k] \in Values \cup {None}
  <2>1. CASE Has(perm, perm[0], key, k)
    BY <1>1, <1>4, <2>1 DEF Has
  <2> QED BY <1>5, <2>1
<1>7. Content(perm, key, lv) = [k \in Keys |-> Content(perm, key, lv)[k]]
  BY DEF Content
<1>8. Content(perm, key, lv) \in [Keys -> Values \cup {None}]
  BY <1>6, <1>7
<1> QED BY <1>4, <1>5, <1>8

\* The steps that give up the lock and publish the node.
Unlocks(t) == UnlockPut(t) \/ UnlockRemove(t)

\* What the two have in common.
LEMMA UnlockFrame ==
    ASSUME IInv, NEW t \in Threads, Unlocks(t)
    PROVE  /\ UNCHANGED <<perm, key, lv, retired, freed, calls, req>>
           /\ LocalFrame(t)
           /\ pc[t] \in {"unlock_put", "unlock_remove"} /\ pc'[t] = "idle"
           /\ resp'[t] = KV!Answer("OK", None)
           /\ ver' \in Body /\ ~ver'.locked /\ ~ver'.splitting /\ ~ver'.inserting_deleting
           /\ ver.inserting_deleting =>
                 pc[t] = "unlock_put" /\ ver'.vinsert_delete = inc(ver.vinsert_delete)
           /\ ~ver.inserting_deleting => ver'.vinsert_delete = ver.vinsert_delete
           /\ Count = perm[0] /\ Count' = Count
           /\ kv' = Content(perm, key, lv) /\ seen' = KV!SeenAfter(kv')
<1>1. /\ TypeOK /\ DomainInv /\ ver \in Body /\ perm \in Word
      /\ pc[t] \in {"unlock_put", "unlock_remove"} /\ pc[t] \in Holding
  BY DEF IInv, TypeOK, Unlocks, UnlockPut, UnlockRemove, Holding, DeleteLabels
<1>2. /\ perm' = perm /\ key' = key /\ lv' = lv /\ retired' = retired /\ freed' = freed
      /\ kv' = Content(perm, key, lv) /\ seen' = KV!SeenAfter(kv')
      /\ Return(t, KV!Answer("OK", None))
  BY DEF Unlocks, UnlockPut, UnlockRemove, Publish
<1>3. DOMAIN seen' = Threads
  BY <1>2 DEF KV!SeenAfter
<1>4. /\ LocalFrame(t) /\ pc'[t] = "idle" /\ resp'[t] = KV!Answer("OK", None)
      /\ calls' = calls /\ req' = req
  BY <1>1, <1>2, <1>3, ReturnFrame DEF LocalFrame, DomainInv
<1>5. PICK d \in BOOLEAN :
         ver' = unlocked([ver EXCEPT !.deleted = d])
  <2>1. CASE UnlockPut(t)
    <3>1. ver = [ver EXCEPT !.deleted = ver.deleted] /\ ver.deleted \in BOOLEAN
      BY <1>1 DEF Body
    <3> QED BY <2>1, <3>1 DEF UnlockPut
  <2>2. CASE UnlockRemove(t)
    <3>1. (IF get_cnk(perm) = 0 THEN TRUE ELSE ver.deleted) \in BOOLEAN
      BY <1>1 DEF Body
    <3> QED BY <2>2, <3>1 DEF UnlockRemove
  <2> QED BY <2>1, <2>2 DEF Unlocks
<1>6. ver' \in Body
  <2>1. [ver EXCEPT !.deleted = d] \in Body
    BY <1>1, BodyType
  <2> QED BY <1>5, <2>1, BodyType
<1>7. /\ ~ver'.locked /\ ~ver'.splitting /\ ~ver'.inserting_deleting
      /\ ver'.vinsert_delete =
            IF ver.inserting_deleting THEN inc(ver.vinsert_delete) ELSE ver.vinsert_delete
  BY <1>1, <1>5 DEF unlocked, Body
<1>8. \A u \in Threads : u # t => pc[u] \notin Holding
  BY <1>1, <1>4, Alone DEF LocalFrame
<1>9. ver.inserting_deleting => pc[t] = "unlock_put"
  BY <1>1, <1>8 DEF IInv, LockInv, Holding, InsertLabels
<1>10. Count = perm[0] /\ Count' = Count
  BY <1>1, <1>2, <1>4, Alone DEF Count, LocalFrame
<1> QED BY <1>1, <1>2, <1>4, <1>6, <1>7, <1>9, <1>10

\* Publishing: the map becomes what the node holds.
LEMMA UnlockStep ==
    ASSUME IInv, NEW t \in Threads, Unlocks(t)
    PROVE  IInv'
<1>1. /\ perm' = perm /\ key' = key /\ lv' = lv /\ retired' = retired /\ freed' = freed
      /\ calls' = calls /\ req' = req /\ LocalFrame(t) /\ Only(t) /\ DomainInv'
      /\ pc[t] \in {"unlock_put", "unlock_remove"} /\ pc'[t] = "idle"
      /\ resp'[t] = KV!Answer("OK", None)
      /\ ver' \in Body /\ ~ver'.locked /\ ~ver'.splitting /\ ~ver'.inserting_deleting
      /\ ver.inserting_deleting =>
            pc[t] = "unlock_put" /\ ver'.vinsert_delete = inc(ver.vinsert_delete)
      /\ ~ver.inserting_deleting => ver'.vinsert_delete = ver.vinsert_delete
      /\ Count = perm[0] /\ Count' = Count
      /\ kv' = Content(perm, key, lv) /\ seen' = KV!SeenAfter(kv')
  BY UnlockFrame DEF LocalFrame
<1>2. /\ perm \in Word /\ key \in [Slot -> Keys] /\ lv \in [Slot -> Values \cup {None}]
      /\ NodeInv /\ TypeOK /\ CallInv /\ InSlots(perm) /\ Ascends(perm, perm[0], key)
  BY <1>1 DEF IInv, TypeOK, NodeInv
<1>3. /\ kv' \in [Keys -> Values \cup {None}]
      /\ \A i \in 1 .. Count : kv'[key[perm[i]]] = lv[perm[i]]
      /\ \A k \in Keys : ~Has(perm, Count, key, k) => kv'[k] = None
  BY <1>1, <1>2, ContentIs
<1>4. /\ \A u \in Threads : pc'[u] \notin Holding
      /\ \A u \in Threads : u # t => pc[u] \notin Holding
  BY <1>1, Alone DEF Holding, InsertLabels, DeleteLabels
<1>5. TypeOK'
  BY <1>1, <1>2, <1>3 DEF TypeOK, LocalFrame
<1>6. LockInv'
  BY <1>1, <1>4 DEF LockInv, Holding
<1>7. CallInv'
  <2>1. CallRight(t)'
    BY <1>1, <1>2 DEF CallInv, CallRight, KV!Answer, InsertLabels, DeleteLabels
  <2> QED BY <1>1, <1>2, <2>1, OtherCalls DEF CallInv
<1>8. NodeInv'
  BY <1>1, <1>2 DEF NodeInv, InSlots, Ascends
<1>9. HolderInv'
  BY <1>4 DEF HolderInv, HolderKnows, Holding, InsertLabels, DeleteLabels
<1>10. ReaderInv'
  <2>1. ReaderKnows(t)'
    BY <1>1 DEF ReaderKnows
  <2>2. ASSUME NEW u \in Threads, u # t PROVE ReaderKnows(u)'
    <3>1. ASSUME SameEra(u)', Fetched(u) PROVE SameEra(u)
      <4>1. CASE ver.inserting_deleting
        <5>1. NotOvertaken
          BY <1>1, <4>1 DEF Unlocks, UnlockPut, UnlockRemove
        <5>2. inc(ver.vinsert_delete) # v[u].vinsert_delete
          BY <3>1, <4>1, <5>1 DEF NotOvertaken
        <5> QED BY <1>1, <2>2, <3>1, <4>1, <5>2 DEF SameEra, Only
      <4>2. CASE ~ver.inserting_deleting
        BY <1>1, <2>2, <3>1, <4>2 DEF SameEra, Only
      <4> QED BY <4>1, <4>2
    <3> QED BY <1>1, <2>2, <3>1, ReadersKeep
  <2> QED BY <2>1, <2>2 DEF ReaderInv
<1>11. KvInv'
  BY <1>1, <1>3 DEF KvInv, Has
<1>12. \A u \in Threads :
          seen'[u] = IF resp[u].st = "pending" THEN seen[u] \cup {KV!View(req[u], kv')}
                                               ELSE seen[u]
  BY <1>1 DEF KV!SeenAfter
<1>13. SeenInv'
  <2> SUFFICES ASSUME NEW u \in Threads, pc'[u] # "idle"
               PROVE  KV!View(req[u], kv') \in seen'[u]
    BY <1>1 DEF SeenInv, KV!View
  <2>1. u # t /\ pc[u] # "idle"
    BY <1>1 DEF Only
  <2>2. resp[u].st = "pending"
    BY <1>2, <2>1 DEF CallInv, CallRight
  <2> QED BY <1>12, <2>2
<1>14. AbsenceTrue'
  <2> SUFFICES ASSUME NEW u \in Threads, resp'[u].st = "NOT_FOUND"
               PROVE  None \in seen'[u]
    BY DEF AbsenceTrue
  <2>1. u # t /\ resp[u].st = "NOT_FOUND"
    BY <1>1 DEF Only, KV!Answer
  <2> QED BY <1>12, <2>1 DEF IInv, AbsenceTrue
<1>15. ValueInv'
  <2>1. \A u \in Threads : pc[u] # "delete_rank"
    BY <1>1, <1>4 DEF Holding, InsertLabels, DeleteLabels
  <2>2. \A u \in Threads :
           pc[u] \in {"idle", "insert_count", "insert_rank", "unlock_put"} =>
               pc'[u] \in {"idle", "insert_count", "insert_rank", "unlock_put"}
    BY <1>1 DEF Only
  <2>3. Used' = Used
    BY <1>1 DEF Used
  <2> QED BY <1>1, <2>1, <2>2, <2>3 DEF IInv, ValueInv
<1> QED BY <1>1, <1>5, <1>6, <1>7, <1>8, <1>9, <1>10, <1>11, <1>13, <1>14, <1>15 DEF IInv

-----------------------------------------------------------------------------
(* The invariant holds at the start and is kept.                           *)

\* The nodes Init starts from: distinct slots in the order of their keys.
LEMMA InitNode ==
    ASSUME Init
    PROVE  /\ ver \in Body /\ perm \in Word /\ key \in [Slot -> Keys]
           /\ lv \in [Slot -> Values \cup {None}]
           /\ ~ver.locked /\ ~ver.splitting /\ ~ver.inserting_deleting
           /\ InSlots(perm) /\ Ascends(perm, perm[0], key)
           /\ \A i \in 1 .. perm[0] : lv[perm[i]] # None
           /\ \A s \in Slot : lv[s] # None => lv[s] = <<"init", key[s]>>
           /\ ~Inline => \A s \in Slot : lv[s] # None => \E i \in 1 .. perm[0] : perm[i] = s
<1>1. PICK n \in 0 .. L, stale \in Keys, emptied \in BOOLEAN :
         \E sorted \in {f \in [1 .. n -> Keys] : \A i, j \in 1 .. n : i < j => f[i] < f[j]},
            order \in {o \in [1 .. n -> Slot] : IsInjective(o)} :
            /\ perm = [j \in 0 .. L |-> IF j = 0 THEN n ELSE IF j <= n THEN order[j] ELSE 0]
            /\ key = [s \in Slot |-> IF \E j \in 1 .. n : order[j] = s
                                     THEN sorted[CHOOSE j \in 1 .. n : order[j] = s]
                                     ELSE stale]
            /\ lv = [s \in Slot |-> IF Inline \/ \E j \in 1 .. n : order[j] = s
                                    THEN <<"init", key[s]>> ELSE None]
            /\ ver = [InitBody EXCEPT !.root = TRUE, !.border = TRUE, !.deleted = emptied]
            /\ emptied => n = 0
  BY Zenon DEF Init
<1>2. PICK sorted \in {f \in [1 .. n -> Keys] : \A i, j \in 1 .. n : i < j => f[i] < f[j]},
            order \in {o \in [1 .. n -> Slot] : IsInjective(o)} :
            /\ perm = [j \in 0 .. L |-> IF j = 0 THEN n ELSE IF j <= n THEN order[j] ELSE 0]
            /\ key = [s \in Slot |-> IF \E j \in 1 .. n : order[j] = s
                                     THEN sorted[CHOOSE j \in 1 .. n : order[j] = s]
                                     ELSE stale]
            /\ lv = [s \in Slot |-> IF Inline \/ \E j \in 1 .. n : order[j] = s
                                    THEN <<"init", key[s]>> ELSE None]
            /\ ver = [InitBody EXCEPT !.root = TRUE, !.border = TRUE, !.deleted = emptied]
  BY <1>1
<1>3. /\ sorted \in [1 .. n -> Keys] /\ \A i, j \in 1 .. n : i < j => sorted[i] < sorted[j]
      /\ order \in [1 .. n -> Slot] /\ \A i, j \in 1 .. n : order[i] = order[j] => i = j
  BY <1>2 DEF IsInjective
<1>4. L \in Nat /\ L >= 1 /\ n \in Nat /\ n <= L /\ 0 \in Slot /\ \A s \in Slot : s \in 0 .. L
  BY Constants DEF Slot
<1>5. /\ ver \in Body /\ ~ver.locked /\ ~ver.splitting /\ ~ver.inserting_deleting
  <2>1. /\ InitBody \in Body /\ ~InitBody.locked /\ ~InitBody.splitting
        /\ ~InitBody.inserting_deleting
    BY VPeriodAssumption DEF InitBody, Body, Counter
  <2>2. ver = [InitBody EXCEPT !.root = TRUE, !.border = TRUE, !.deleted = emptied]
    BY <1>2
  <2> QED BY <2>1, <2>2 DEF Body
<1>6. /\ perm \in Word /\ perm[0] = n /\ \A i \in 1 .. n : perm[i] = order[i]
      /\ \A j \in 1 .. L : perm[j] \in Slot
  BY <1>2, <1>3, <1>4 DEF Word
<1>7. ASSUME NEW i \in 1 .. n PROVE key[order[i]] = sorted[i]
  <2>1. (CHOOSE j \in 1 .. n : order[j] = order[i]) = i
    BY <1>3
  <2> QED BY <1>2, <1>3, <2>1
<1>8. key \in [Slot -> Keys]
  <2>1. ASSUME NEW s \in Slot PROVE key[s] \in Keys
    <3>1. CASE \E j \in 1 .. n : order[j] = s
      BY <1>3, <1>7, <3>1
    <3>2. CASE ~ \E j \in 1 .. n : order[j] = s
      BY <1>2, <3>2
    <3> QED BY <3>1, <3>2
  <2>2. key = [s \in Slot |-> key[s]]
    BY <1>2
  <2> QED BY <2>1, <2>2
<1>9. /\ \A s \in Slot : lv[s] = None \/ lv[s] = <<"init", key[s]>>
      /\ \A i \in 1 .. n : lv[order[i]] = <<"init", key[order[i]]>>
      /\ ~Inline => \A s \in Slot : lv[s] # None => \E i \in 1 .. n : order[i] = s
  BY <1>2, <1>3
<1>10. \A s \in Slot : <<"init", key[s]>> \in Values /\ <<"init", key[s]>> # None
  BY <1>8, Constants DEF Values
<1>11. lv \in [Slot -> Values \cup {None}]
  <2>1. lv = [s \in Slot |-> lv[s]]
    BY <1>2
  <2> QED BY <1>9, <1>10, <2>1
<1>12. Ascends(perm, perm[0], key)
  BY <1>3, <1>6, <1>7 DEF Ascends
<1>13. ASSUME NEW i \in 1 .. perm[0] PROVE lv[perm[i]] # None
  <2>1. i \in 1 .. n /\ perm[i] = order[i] /\ order[i] \in Slot
    BY <1>3, <1>6
  <2> QED BY <1>9, <1>10, <2>1
<1> QED BY <1>5, <1>6, <1>8, <1>9, <1>11, <1>12, <1>13 DEF InSlots

\* Init establishes the invariant.
LEMMA InitInv == Init => IInv
<1> SUFFICES ASSUME Init PROVE IInv
  OBVIOUS
<1>1. /\ ver \in Body /\ perm \in Word /\ key \in [Slot -> Keys]
      /\ lv \in [Slot -> Values \cup {None}]
      /\ ~ver.locked /\ ~ver.splitting /\ ~ver.inserting_deleting
      /\ InSlots(perm) /\ Ascends(perm, perm[0], key)
      /\ \A i \in 1 .. perm[0] : lv[perm[i]] # None
      /\ \A s \in Slot : lv[s] # None => lv[s] = <<"init", key[s]>>
      /\ ~Inline => \A s \in Slot : lv[s] # None => \E i \in 1 .. perm[0] : perm[i] = s
  BY InitNode
<1>2. /\ pc = [t \in Threads |-> "idle"] /\ kv = Content(perm, key, lv)
      /\ v = [t \in Threads |-> InitBody] /\ lw = [t \in Threads |-> EmptyWord]
      /\ slot = [t \in Threads |-> None] /\ out = [t \in Threads |-> None]
      /\ acc = [t \in Threads |-> <<>>] /\ calls = [t \in Threads |-> 0]
      /\ req = [t \in Threads |-> None] /\ resp = [t \in Threads |-> KV!Answer("idle", None)]
      /\ seen = [t \in Threads |-> {}] /\ retired = {} /\ freed = {}
  BY DEF Init
<1>3. EmptyWord \in Word /\ InitBody \in Body
  BY LAssumption, VPeriodAssumption DEF EmptyWord, Word, InitBody, Body, Counter
<1>4. Count = perm[0] /\ Count \in 0 .. L
  BY <1>1, <1>2, WordType DEF Count, Gap
<1>5. /\ kv \in [Keys -> Values \cup {None}]
      /\ \A i \in 1 .. perm[0] : kv[key[perm[i]]] = lv[perm[i]]
      /\ \A k \in Keys : ~Has(perm, perm[0], key, k) => kv[k] = None
  BY <1>1, <1>2, ContentIs
<1>6. TypeOK
  BY <1>1, <1>2, <1>3, <1>5 DEF TypeOK
<1>7. DomainInv
  BY <1>2 DEF DomainInv, Reading
<1>8. LockInv
  BY <1>1, <1>2 DEF LockInv, Holding, InsertLabels, DeleteLabels
<1>9. CallInv
  BY <1>2, BorderAssumption DEF CallInv, CallRight, KV!Answer, InsertLabels, DeleteLabels
<1>10. NodeInv
  BY <1>1, <1>4 DEF NodeInv
<1>11. HolderInv /\ ReaderInv
  BY <1>2 DEF HolderInv, HolderKnows, ReaderInv, ReaderKnows, InsertLabels
<1>12. KvInv
  BY <1>4, <1>5 DEF KvInv, Has
<1>13. SeenInv /\ AbsenceTrue
  BY <1>2 DEF SeenInv, AbsenceTrue, KV!Answer
<1>14. ValueInv
  <2>1. ~Inline => \A r, s \in Slot : lv[r] = lv[s] /\ lv[r] # None => r = s
    <3> SUFFICES ASSUME ~Inline, NEW r \in Slot, NEW s \in Slot, lv[r] = lv[s], lv[r] # None
                 PROVE  r = s
      OBVIOUS
    <3>1. key[r] = key[s]
      BY <1>1
    <3>2. PICK i, j \in 1 .. perm[0] : perm[i] = r /\ perm[j] = s
      BY <1>1
    <3>3. i = j
      BY <1>1, <1>4, <3>1, <3>2, KeysDistinct
    <3> QED BY <3>2, <3>3
  <2>2. ASSUME NEW t \in Threads, NEW i \in Nat, <<t, i>> \in Used PROVE FALSE
    <3>1. PICK s \in Slot : <<t, i>> = lv[s] /\ lv[s] # None
      BY <1>2, <2>2 DEF Used
    <3>2. <<t, i>> = <<"init", key[s]>>
      BY <1>1, <3>1
    <3>3. t = "init"
      BY <3>2
    <3> QED BY <3>3, BorderAssumption
  <2> QED BY <1>1, <1>2, <1>4, <2>1, <2>2 DEF ValueInv
<1> QED BY <1>6, <1>7, <1>8, <1>9, <1>10, <1>11, <1>12, <1>13, <1>14 DEF IInv

\* Every step keeps the invariant.
LEMMA NextInv == IInv /\ [Next]_vars => IInv'
<1> SUFFICES ASSUME IInv, [Next]_vars PROVE IInv'
  OBVIOUS
<1>1. CASE UNCHANGED vars
  <2>1. /\ UNCHANGED <<ver, perm, key, lv, pc, v, lw, slot, out, acc, calls, req, resp>>
        /\ UNCHANGED <<kv, seen, removed, retired, freed>>
    BY <1>1 DEF vars, node, local, history
  <2>2. Count' = Count
    BY <2>1 DEF Count, Gap
  <2>3. TypeOK' /\ DomainInv' /\ LockInv' /\ CallInv'
    BY <2>1 DEF IInv, TypeOK, DomainInv, LockInv, CallInv, CallRight
  <2>4. NodeInv' /\ HolderInv'
    BY <2>1, <2>2 DEF IInv, NodeInv, InSlots, Ascends, HolderInv, HolderKnows, Has, Found
  <2>5. ReaderInv'
    BY <2>1, <2>2 DEF IInv, ReaderInv, ReaderKnows, SameEra, Covers, Found, Has, InSlots, Ascends
  <2>6. KvInv' /\ SeenInv' /\ AbsenceTrue'
    BY <2>1, <2>2 DEF IInv, KvInv, SeenInv, AbsenceTrue, Has
  <2>7. ValueInv'
    BY <2>1, <2>2 DEF IInv, ValueInv, Used
  <2> QED BY <2>3, <2>4, <2>5, <2>6, <2>7 DEF IInv
<1>2. CASE Next
  <2>1. ASSUME NEW t \in Threads, NEW y \in Menu[t], NEW k \in Keys, Invoke(t, y, k)
        PROVE  IInv'
    BY <2>1, InvokeStep
  <2>2. ASSUME NEW t \in Threads, Step(t) PROVE IInv'
    <3>1. Reads(t) \/ Locks(t) \/ Writes(t) \/ Unlocks(t)
      BY <2>2 DEF Step, Reads, Locks, Writes, Unlocks
    <3>2. CASE Writes(t)
      BY <3>2, InsertSlotStep, InsertCountStep, InsertRankStep, UpdateSlotStep, DeleteValueStep,
         DeleteRankStep, DeleteCountStep DEF Writes
    <3> QED BY <3>1, <3>2, ReadStep, LockStep, UnlockStep
  <2>3. CASE Finished
    BY <1>1, <2>3 DEF Finished
  <2> QED BY <1>2, <2>1, <2>2, <2>3 DEF Next
<1> QED BY <1>1, <1>2

-----------------------------------------------------------------------------
(* Theorems.                                                               *)

\* The invariant holds for ever.
LEMMA Invariant == Spec => []IInv
<1>1. Init => IInv
  BY InitInv
<1>2. IInv /\ [Next]_vars => IInv'
  BY NextInv
<1> QED BY <1>1, <1>2, PTL DEF Spec

\* Every variable keeps its type: the words stay words, cnk within the fan-out,
\* and the slots readers and writers use stay inside the node.
THEOREM TypeCorrect == Spec => []TypeOK
<1>1. IInv => TypeOK
  BY DEF IInv
<1> QED BY <1>1, Invariant, PTL

\* Whoever locks the node finds its keys strictly ascending in rank order, with
\* any number of threads, keys and calls.
THEOREM KeysSortedUnique == Spec => []SortedUnique
<1>1. IInv => SortedUnique
  <2> SUFFICES ASSUME IInv, ~ver.locked,
                      NEW i \in 0 .. get_cnk(perm) - 1, NEW j \in 0 .. get_cnk(perm) - 1, i < j
               PROVE  key[get_index_of_rank(perm, i)] < key[get_index_of_rank(perm, j)]
    BY DEF SortedUnique
  <2>1. perm \in Word /\ NodeInv /\ L \in Nat /\ perm[0] \in 0 .. L
    BY WordType DEF IInv, TypeOK
  <2>2. Count = perm[0]
    BY DEF IInv, LockInv, Count, Gap, Holding, InsertLabels, DeleteLabels
  <2>3. /\ i \in 0 .. L - 1 /\ j \in 0 .. L - 1 /\ i + 1 < j + 1
        /\ i + 1 \in 1 .. Count /\ j + 1 \in 1 .. Count
    BY <2>1, <2>2 DEF get_cnk
  <2>4. get_index_of_rank(perm, i) = perm[i + 1] /\ get_index_of_rank(perm, j) = perm[j + 1]
    BY <2>1, <2>3, IndexOfRank
  <2> QED BY <2>1, <2>3, <2>4 DEF NodeInv, Ascends
<1> QED BY <1>1, Invariant, PTL

\* No value is both handed to the garbage collector and released at once, and
\* the unlocked node points to none that was.
THEOREM ReleasedOnce == Spec => []ValuesReleasedOnce
<1>1. IInv => ValuesReleasedOnce
  <2> SUFFICES ASSUME IInv PROVE ValuesReleasedOnce
    OBVIOUS
  <2>1. ASSUME ~ver.locked, NEW s \in Live(perm)
        PROVE  lv[s] # None /\ lv[s] \notin retired \cup freed
    <3>1. perm \in Word /\ NodeInv /\ Count = perm[0]
      BY <2>1 DEF IInv, TypeOK, LockInv, Count, Gap, Holding, InsertLabels, DeleteLabels
    <3>2. PICK i \in 1 .. Count : s = perm[i]
      BY <3>1, LiveNibbles
    <3>3. i \in 1 .. L
      BY <3>1, Constants DEF NodeInv
    <3>4. s \in Slot
      BY <3>1, <3>2, <3>3 DEF NodeInv, InSlots
    <3>5. \A t \in Threads : pc[t] # "delete_rank"
      BY <2>1 DEF IInv, LockInv, Holding, DeleteLabels
    <3> QED BY <3>2, <3>4, <3>5 DEF IInv, ValueInv
  <2>2. retired \cap freed = {}
    BY DEF IInv, ValueInv
  <2> QED BY <2>1, <2>2 DEF ValuesReleasedOnce
<1> QED BY <1>1, Invariant, PTL

\* A key reported missing by get or remove was missing at some instant of the
\* call, although deletions move ranks under the reader and no version tells it.
THEOREM AbsenceIsTrue == Spec => []AbsenceTrue
<1>1. IInv => AbsenceTrue
  BY DEF IInv
<1> QED BY <1>1, Invariant, PTL

\* An unlock changes the map as its request asks, or not at all.
LEMMA UnlockChanges ==
    ASSUME IInv, NEW t \in Threads, Unlocks(t)
    PROVE  \/ kv' = kv
           \/ kv' = [kv EXCEPT ![req[t].key] =
                        IF req[t].type = "remove" THEN None ELSE req[t].val]
<1> DEFINE k == req[t].key
<1>1. /\ pc[t] \in {"unlock_put", "unlock_remove"} /\ Count = perm[0]
      /\ kv' = Content(perm, key, lv) /\ LocalFrame(t)
  BY UnlockFrame
<1>2. /\ perm \in Word /\ key \in [Slot -> Keys] /\ lv \in [Slot -> Values \cup {None}]
      /\ InSlots(perm) /\ Ascends(perm, perm[0], key) /\ kv \in [Keys -> Values \cup {None}]
      /\ k \in Keys
  BY <1>1 DEF IInv, TypeOK, NodeInv, CallInv, CallRight
<1>3. /\ kv' \in [Keys -> Values \cup {None}]
      /\ \A i \in 1 .. Count : kv'[key[perm[i]]] = lv[perm[i]]
      /\ \A x \in Keys : ~Has(perm, Count, key, x) => kv'[x] = None
  BY <1>1, <1>2, ContentIs
<1>4. \A u \in Threads : u # t => pc[u] \notin Holding
  BY <1>1, Alone DEF Holding, DeleteLabels, LocalFrame
<1>5. ASSUME NEW x \in Keys, x # k PROVE kv'[x] = kv[x]
  <2>1. /\ \A u \in Threads : pc[u] \in {"unlock_put", "delete_rank"} => req[u].key # x
        /\ \A u \in Threads : pc[u] \in {"delete_count", "unlock_remove"} => req[u].key # x
    BY <1>4, <1>5 DEF Holding, DeleteLabels
  <2>2. /\ \A i \in 1 .. Count : key[perm[i]] = x => lv[perm[i]] = kv[x]
        /\ ~Has(perm, Count, key, x) => kv[x] = None
    BY <2>1 DEF IInv, KvInv
  <2>3. CASE Has(perm, Count, key, x)
    BY <1>3, <2>2, <2>3 DEF Has
  <2>4. CASE ~Has(perm, Count, key, x)
    BY <1>3, <2>2, <2>4
  <2> QED BY <2>3, <2>4
<1>6. CASE pc[t] = "unlock_put"
  <2>1. /\ \A i \in 1 .. Count : key[perm[i]] = k => lv[perm[i]] = req[t].val
        /\ req[t].type # "remove"
        /\ ~Has(perm, Count, key, k) => kv[k] = None
    BY <1>2, <1>4, <1>6 DEF IInv, HolderInv, HolderKnows, CallInv, CallRight, KvInv, Holding,
                            DeleteLabels
  <2>2. CASE Has(perm, Count, key, k)
    <3>1. kv'[k] = req[t].val
      BY <1>3, <2>1, <2>2 DEF Has
    <3> QED BY <1>2, <1>3, <1>5, <2>1, <3>1
  <2>3. CASE ~Has(perm, Count, key, k)
    <3>1. kv'[k] = kv[k]
      BY <1>2, <1>3, <2>1, <2>3
    <3> QED BY <1>2, <1>3, <1>5, <3>1
  <2> QED BY <2>2, <2>3
<1>7. CASE pc[t] = "unlock_remove"
  <2>1. ~Has(perm, Count, key, k) /\ req[t].type = "remove"
    BY <1>7 DEF IInv, HolderInv, HolderKnows, CallInv, CallRight, DeleteLabels
  <2>2. kv'[k] = None
    BY <1>2, <1>3, <2>1
  <2> QED BY <1>2, <1>3, <1>5, <2>1, <2>2
<1> QED BY <1>1, <1>6, <1>7

\* The node changes only as some pending request asks, one key at a time, even
\* where a put stores into the slot a remove has just emptied.
THEOREM OnlyRequestedChanges == Spec => ChangesRequested
<1> DEFINE Asked(t) ==
               /\ resp[t].st = "pending" /\ resp'[t].st # "pending"
               /\ kv' = [kv EXCEPT ![req[t].key] =
                            IF req[t].type = "remove" THEN None ELSE req[t].val]
<1>1. IInv /\ [Next]_vars => [kv' # kv => \E t \in Threads : Asked(t)]_vars
  <2> SUFFICES ASSUME IInv, Next, kv' # kv PROVE \E t \in Threads : Asked(t)
    BY DEF vars, history
  <2>1. PICK t \in Threads : (\E y \in Menu[t], k \in Keys : Invoke(t, y, k)) \/ Step(t)
    BY DEF Next, Finished, vars, history
  <2>2. ASSUME NEW y \in Menu[t], NEW k \in Keys, Invoke(t, y, k) PROVE FALSE
    BY <2>2 DEF Invoke
  <2>3. Reads(t) \/ Locks(t) \/ Writes(t) \/ Unlocks(t)
    BY <2>1, <2>2 DEF Step, Reads, Locks, Writes, Unlocks
  <2>4. Unlocks(t)
    BY <2>3, ReadFrame, LockFrame, WriteFrame DEF IInv, history
  <2>5. kv' = [kv EXCEPT ![req[t].key] = IF req[t].type = "remove" THEN None ELSE req[t].val]
    BY <2>4, UnlockChanges
  <2>6. resp[t].st = "pending" /\ resp'[t].st # "pending"
    BY <2>4, UnlockFrame DEF IInv, CallInv, CallRight, KV!Answer
  <2> QED BY <2>5, <2>6
<1> QED BY <1>1, Invariant, PTL DEF Spec, ChangesRequested
====
