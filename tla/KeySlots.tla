---- MODULE KeySlots ----
(***************************************************************************)
(* The keys of one border node as bytes: a slot has a zero-padded slice of *)
(* W bytes and a length, W + 1 for a link to the next layer, and the       *)
(* permutation word lists the slots in key order.  The lock holder's       *)
(* updates are the stores other threads can see between: insert_lv_at      *)
(* stores the word twice (inc_key_num, insert), delete_at twice            *)
(* (delete_rank, dec_key_num).  A split makes a sibling, and the key of    *)
(* its slot 0 the pivot of their parent; from there on one half is looked  *)
(* at, or the parent, whose pivots come from such splits.                  *)
(***************************************************************************)
EXTENDS PermutationOps, Sequences, FiniteSets, SequencesExt, FiniteSetsExt

CONSTANTS
    W,          \* sizeof(key_slice_type): 8 in the code
    Byte,       \* the bytes keys are made of, 0 among them
    Views,      \* what is left of keys in this layer: strings of Byte
    Ends,       \* left endpoints of scans, which may be much longer
    LenPeriod   \* values of key_length_type: 256 in the code

ASSUME KeyAssumption ==
    /\ L % 4 = 3                       \* as 15: interior_split relies on it
    /\ W \in Nat \ {0} /\ LenPeriod \in Nat /\ LenPeriod > W + 1
    /\ 0 \in Byte /\ Byte \subseteq Nat
    /\ Views \cup Ends \subseteq Seq(Byte)

VARIABLES
    word,       \* body_ of the node's permutation
    slot,       \* key_slice_ and key_length_
    sibling,    \* the new node of the last border_split, or NoNode
    pivots,     \* of an interior node, its pivot once it is split, its new sibling's
    pending,    \* the update whose first store is done, or Nothing
    held        \* history: the keys that were put and not removed

vars == <<word, slot, sibling, pivots, pending, held>>

-----------------------------------------------------------------------------
(* Keys.                                                                   *)

Cleared == [ks |-> [i \in 1 .. W |-> 0], kl |-> 0]

Slice(view) == [i \in 1 .. W |-> IF i <= Len(view) THEN view[i] ELSE 0]

\* What put, get and remove search for: the "rule", W + 1 for longer than a slice.
KeyOf(view) == [ks |-> Slice(view), kl |-> IF Len(view) > W THEN W + 1 ELSE Len(view)]

\* What scan searches for: the length, cut to its type.
ScanKeyOf(view) == [ks |-> Slice(view), kl |-> Len(view) % LenPeriod]

memcmp(a, b, n) ==
    LET D == {i \in 1 .. n : a[i] # b[i]}
        i == CHOOSE x \in D : \A y \in D : x <= y
    IN  IF D = {} THEN 0 ELSE IF a[i] < b[i] THEN -1 ELSE 1

\* A plausible slip in the searches: lengths are not compared.
SameSlice(a, b) == memcmp(a.ks, b.ks, W) = 0

\* The searches of border nodes compare whole slices, then lengths.
Matches(a, b) ==
    \/ a.kl = 0 /\ b.kl = 0
    \/ memcmp(a.ks, b.ks, W) = 0 /\ (a.kl = b.kl \/ (a.kl > W /\ b.kl > W))

Before(a, b) ==
    LET c == memcmp(a.ks, b.ks, W) IN c < 0 \/ (c = 0 /\ a.kl < b.kl)

\* The bytes that both keys have.
comp_length(a, b) == Min({a.kl, b.kl, W})

\* Interior nodes and splits compare the bytes that both have, then lengths.
PrefixBefore(a, b) ==
    LET c == memcmp(a.ks, b.ks, comp_length(a, b)) IN c < 0 \/ (c = 0 /\ a.kl < b.kl)

-----------------------------------------------------------------------------
(* One node.                                                               *)

At(w, s, r) == s[get_index_of_rank(w, r)]
Ranks(w) == 0 .. get_cnk(w) - 1

\* The first rank at which the search for k stops, cnk if none.
StopsAt(w, s, k) ==
    LET S == {r \in Ranks(w) : Matches(k, At(w, s, r)) \/ Before(k, At(w, s, r))}
    IN  IF S = {} THEN get_cnk(w) ELSE Min(S)

\* get_lv_of and get_lv_of_without_lock: the slot of the key, or L for nullptr.
get_lv_of(w, s, k) ==
    LET r == StopsAt(w, s, k)
    IN  IF r < get_cnk(w) /\ Matches(k, At(w, s, r)) THEN get_index_of_rank(w, r) ELSE L

\* Called for keys that are not in the node only.
compute_rank_if_insert(w, s, k) == StopsAt(w, s, k)

\* get_child_of and insert in an interior node: the child the descent takes, and
\* the place of a new pivot.
get_child_of(ps, k) ==
    LET S == {i \in DOMAIN ps : PrefixBefore(k, ps[i])} IN IF S = {} THEN Len(ps) ELSE Min(S) - 1

insert_pivot(ps, k) == InsertAt(ps, get_child_of(ps, k) + 1, k)

NoNode == [word |-> EmptyWord, slot |-> [p \in Slot |-> Cleared]]
NoPivots == [left |-> <<>>, pivot |-> <<>>, right |-> <<>>]
Nothing == [op |-> "none", rank |-> 0, pos |-> 0]

Init ==
    /\ word = NoNode.word /\ slot = NoNode.slot /\ sibling = NoNode
    /\ pivots = NoPivots /\ pending = Nothing /\ held = {}

\* A border node is looked at, and no update is under way.
Ready == pending = Nothing /\ sibling = NoNode /\ pivots = NoPivots

\* insert_lv_at up to its first store: the slot gets the key, and the count
\* covers a rank not yet written.
IncKeyNum(k) ==
    /\ Ready
    /\ get_cnk(word) < L /\ get_lv_of(word, slot, k) = L
    /\ LET pos == get_empty_slot(word)
       IN  /\ slot' = [slot EXCEPT ![pos] = k]
           /\ pending' = [op |-> "insert", rank |-> compute_rank_if_insert(word, slot, k),
                          pos |-> pos]
    /\ held' = held \cup {k}
    /\ word' = inc_key_num(word)
    /\ UNCHANGED <<sibling, pivots>>

\* insert_lv_at, second store.
Insert ==
    /\ pending.op = "insert"
    /\ word' = insert(word, pending.rank, pending.pos)
    /\ pending' = Nothing
    /\ UNCHANGED <<slot, sibling, pivots, held>>

\* delete_of finds the rank and delete_at makes its first store; the key stays
\* in its slot.
DeleteRank(k) ==
    /\ Ready
    /\ \E r \in Ranks(word) :
          /\ At(word, slot, r).kl = k.kl
          /\ k.kl = 0 \/ memcmp(At(word, slot, r).ks, k.ks, W) = 0
          /\ word' = delete_rank(word, r)
          /\ pending' = [op |-> "delete", rank |-> r, pos |-> get_index_of_rank(word, r)]
    /\ held' = held \ {k}
    /\ UNCHANGED <<slot, sibling, pivots>>

\* delete_at, second store.
DecKeyNum ==
    /\ pending.op = "delete"
    /\ word' = dec_key_num(word)
    /\ pending' = Nothing
    /\ UNCHANGED <<slot, sibling, pivots, held>>

\* insert_lv_at as a whole, in a node [word, slot] that is locked for a split.
InsertLvAt(x, k, rank) ==
    LET pos == get_empty_slot(x.word)
    IN  [word |-> insert(inc_key_num(x.word), rank, pos), slot |-> [x.slot EXCEPT ![pos] = k]]

remaining == L \div 2 + 1

\* A plausible slip in border_split: lengths are not compared.
ToLeftByBytes(k, front, rank) == k.kl = 0 \/ memcmp(k.ks, front.ks, comp_length(k, front)) < 0

\* Whether the key of the put that splits goes to the left half.
ToLeft(k, front, rank) ==
    LET c == memcmp(k.ks, front.ks, comp_length(k, front))
    IN  k.kl = 0 \/ c < 0 \/ (c = 0 /\ (k.kl < front.kl \/ rank < remaining))

\* The word of a full node once its upper ranks are deleted one by one.
Shrunk(w) ==
    LET shrunk[i \in 0 .. L - remaining] ==
            IF i = 0 THEN w ELSE dec_key_num(delete_rank(shrunk[i - 1], remaining))
    IN  shrunk[L - remaining]

\* The upper ranks go to the slots 0, 1 ... of a new node, whose word split_dest
\* writes, and their slots are cleared.
LowerHalf(w, s) ==
    LET gone == {get_index_of_rank(w, r) : r \in remaining .. L - 1}
    IN  [word |-> Shrunk(w), slot |-> [p \in Slot |-> IF p \in gone THEN Cleared ELSE s[p]]]
UpperHalf(w, s) ==
    [word |-> split_dest(L - remaining),
     slot |-> [p \in Slot |-> IF p < L - remaining THEN At(w, s, remaining + p) ELSE Cleared]]

\* border_split: the new key goes to one of the halves.
border_split(k) ==
    /\ Ready
    /\ get_cnk(word) = L /\ get_lv_of(word, slot, k) = L
    /\ LET left  == LowerHalf(word, slot)
           right == UpperHalf(word, slot)
           rank  == compute_rank_if_insert(word, slot, k)
           lower == ToLeft(k, right.slot[0], rank)
           left2 == IF lower THEN InsertLvAt(left, k, rank) ELSE left
       IN  /\ word' = left2.word /\ slot' = left2.slot
           /\ sibling' = IF lower THEN right ELSE InsertLvAt(right, k, rank - remaining)
    /\ held' = held \cup {k}
    /\ UNCHANGED <<pivots, pending>>

\* The pivot of the two nodes: the key in slot 0 of the new one.
Pivot == sibling.slot[0]

\* interior_split: the middle pivot goes up, the ones behind it to a new node, and
\* the new pivot k to one of the two.
pivot_key_pos == L \div 2
interior_split(ps, k) ==
    LET n     == IF pivot_key_pos % 2 = 1 THEN pivot_key_pos ELSE pivot_key_pos - 1
        pivot == ps[pivot_key_pos + 1]
        left  == SubSeq(ps, 1, pivot_key_pos)
        right == SubSeq(ps, pivot_key_pos + 2, pivot_key_pos + 1 + n)
    IN  IF PrefixBefore(k, pivot)
        THEN [left |-> insert_pivot(left, k), pivot |-> <<pivot>>, right |-> right]
        ELSE [left |-> left, pivot |-> <<pivot>>, right |-> insert_pivot(right, k)]

\* The pivot of some other split arrives at the interior node.
AddPivot(k) ==
    /\ pivots.left # <<>> /\ pivots.pivot = <<>> /\ k.kl # 0 /\ k \notin held
    /\ pivots' = IF Len(pivots.left) = L THEN interior_split(pivots.left, k)
                 ELSE [pivots EXCEPT !.left = insert_pivot(@, k)]
    /\ held' = held \cup {k}
    /\ UNCHANGED <<word, slot, sibling, pending>>

-----------------------------------------------------------------------------
(* After a split one of the nodes is looked at: a half, or the new parent. *)

\* The string of a key, the least one of those below it for a link, and the
\* order of strings.
String(k) == IF k.kl > W THEN Append(k.ks, 0) ELSE SubSeq(k.ks, 1, k.kl)
Less(a, b) ==
    \E i \in DOMAIN b : /\ \A j \in 1 .. i - 1 : j \in DOMAIN a /\ a[j] = b[j]
                        /\ i \in DOMAIN a => a[i] < b[i]
KeyLess(j, k) == Less(String(j), String(k))

FollowLeft ==
    /\ sibling # NoNode
    /\ held' = {k \in held : KeyLess(k, Pivot)}
    /\ sibling' = NoNode
    /\ UNCHANGED <<word, slot, pivots, pending>>

FollowRight ==
    /\ sibling # NoNode
    /\ held' = {k \in held : ~KeyLess(k, Pivot)}
    /\ word' = sibling.word /\ slot' = sibling.slot /\ sibling' = NoNode
    /\ UNCHANGED <<pivots, pending>>

FollowParent ==
    /\ sibling # NoNode
    /\ pivots' = [NoPivots EXCEPT !.left = <<Pivot>>]
    /\ held' = {Pivot}
    /\ word' = NoNode.word /\ slot' = NoNode.slot /\ sibling' = NoNode
    /\ UNCHANGED pending

FollowHalf ==
    /\ pivots.pivot # <<>>
    /\ \E half \in {pivots.left, pivots.right} :
          pivots' = [NoPivots EXCEPT !.left = half] /\ held' = ToSet(half)
    /\ UNCHANGED <<word, slot, sibling, pending>>

Next ==
    \/ \E v \in Views : IncKeyNum(KeyOf(v)) \/ DeleteRank(KeyOf(v)) \/ border_split(KeyOf(v))
    \/ Insert \/ DecKeyNum
    \/ FollowLeft \/ FollowRight \/ FollowParent \/ FollowHalf
    \/ \E v \in Views : AddPivot(KeyOf(v))

Spec == Init /\ [][Next]_vars

-----------------------------------------------------------------------------
(* Scans.                                                                  *)

\* A plausible slip in scan_border: the left endpoint is always excluded.
ScanSkipsEqual(l, exclusive, k) ==
    LET c == memcmp(Slice(l), k.ks, W) IN c > 0 \/ (c = 0 /\ k.kl <= W /\ Len(l) >= k.kl)

\* scan_border: a key before the left endpoint l, and a link with nothing behind it.
ScanSkips(l, exclusive, k) ==
    LET c == memcmp(Slice(l), k.ks, W)
    IN  \/ c > 0
        \/ c = 0 /\ k.kl <= W /\ (Len(l) > k.kl \/ (Len(l) = k.kl /\ exclusive))

-----------------------------------------------------------------------------
(* Properties.                                                             *)

\* The sequence s lists the keys of S, each once, in the order of their strings.
Lists(s, S) ==
    ToSet(s) = S /\ \A i, j \in DOMAIN s : i < j => KeyLess(s[i], s[j])
Listed(w, s) == [i \in 1 .. get_cnk(w) |-> At(w, s, i - 1)]

\* Between updates the word lists the keys of the node, each once, in the order
\* of their strings, and is zero above, which is what lets insert or in a new
\* nibble.  The word a reader can load between the two stores of a deletion has
\* the keys that stay in order and one rank too many, for slot 0.
Represents ==
    /\ Ready => /\ Lists(Listed(word, slot), held)
                /\ \A j \in get_cnk(word) + 1 .. L : word[j] = 0
    /\ pending.op = "delete" =>
          /\ get_cnk(word) = Cardinality(held) + 1
          /\ Lists(SubSeq(Listed(word, slot), 1, Cardinality(held)), held)
          /\ get_index_of_rank(word, Cardinality(held)) = 0

\* A search finds a key of the node and nothing for another, whatever zero bytes,
\* empty strings and links are in the node; in the middle of a deletion it finds
\* every key that stays, and besides at most what is left in slot 0.
LookupExact ==
    pending.op # "insert" /\ sibling = NoNode /\ pivots = NoPivots =>
        \A v \in Views :
            LET k == KeyOf(v)
                p == get_lv_of(word, slot, k)
            IN  /\ k \in held => p # L
                /\ p # L => slot[p] = k /\ (k \in held \/ (pending.op = "delete" /\ p = 0))

\* After a split both halves list the keys of their side of the pivot, and pivots
\* are in order: the descent takes every key to the side that has it.
DescentRight ==
    /\ sibling # NoNode =>
          /\ Lists(Listed(word, slot), {k \in held : get_child_of(<<Pivot>>, k) = 0})
          /\ Lists(Listed(sibling.word, sibling.slot),
                   {k \in held : get_child_of(<<Pivot>>, k) = 1})
    /\ pivots # NoPivots =>
          LET all == pivots.left \o pivots.pivot \o pivots.right
          IN  /\ Lists(all, held)
              /\ \A v \in Views : get_child_of(all, KeyOf(v)) =
                                    Cardinality({k \in held : ~KeyLess(KeyOf(v), k)})

\* A scan leaves out what is before its left endpoint and nothing else: in the
\* node, and on its way down, where an endpoint too long for its length type may
\* take it to the left of where it belongs but never to the right.
ScanBounds ==
    /\ sibling = NoNode /\ pivots = NoPivots => \A l \in Ends, k \in held, exclusive \in BOOLEAN :
          ScanSkips(l, exclusive, k) <=>
              IF k.kl > W THEN Less(k.ks, l) /\ ~IsPrefix(k.ks, l)
              ELSE Less(String(k), l) \/ (String(k) = l /\ exclusive)
    /\ sibling # NoNode => \A l \in Ends :
          get_child_of(<<Pivot>>, ScanKeyOf(l)) = 1 => ~KeyLess(KeyOf(l), Pivot)
====
