---- MODULE PermutationOps ----
(***************************************************************************)
(* The permutation word of a border node (include/permutation.h).  The     *)
(* code packs it in 64 bits: the low 4 bits count the keys (cnk), the next *)
(* 4 bits hold the slot of rank 0, and so on.  Every shift of the code is  *)
(* by whole nibbles, so a word is the function of its nibbles: nibble 0 is *)
(* cnk and nibble r + 1 the slot of rank r.                                *)
(***************************************************************************)
EXTENDS Integers

CONSTANT L          \* key_slice_length, the fan-out: 15 in the code

ASSUME LAssumption == L \in Nat \ {0}

Slot == 0 .. L - 1
Word == [0 .. L -> 0 .. L]

\* init(): body_ = 0.
EmptyWord == [j \in 0 .. L |-> 0]

\* w >> 4n and w << 4n.
Shr(w, n) == [j \in 0 .. L |-> IF j + n <= L THEN w[j + n] ELSE 0]
Shl(w, n) == [j \in 0 .. L |-> IF j >= n THEN w[j - n] ELSE 0]

\* Bitwise or of words that share no nonzero nibble, as in insert and delete.
Or(a, b) == [j \in 0 .. L |-> IF a[j] = 0 THEN b[j] ELSE a[j]]

get_cnk(w) == w[0]
set_cnk(w, n) == [w EXCEPT ![0] = n]
inc_key_num(w) == set_cnk(w, get_cnk(w) + 1)

dec_key_num(w) == set_cnk(w, get_cnk(w) - 1)

get_index_of_rank(w, r) == Shr(w, r + 1)[0]

\* The nibbles up to the one of rank r - 1: (w << 4(L - r)) >> 4(L - r).
RightOf(w, r) == IF r = 0 THEN EmptyWord ELSE Shr(Shl(w, L - r), L - r)

\* A plausible slip in insert: ranks above the new one are not shifted.
InsertNoShift(w, r, pos) ==
    LET target == [j \in 0 .. L |-> IF j = r + 1 THEN pos ELSE 0]
        left   == Shl(Shr(w, r + 2), r + 2)
    IN  set_cnk(Or(Or(left, target), RightOf(w, r)), get_cnk(w))

\* insert(rank, pos), called after inc_key_num: open a gap at the rank.
insert(w, r, pos) ==
    LET target == [j \in 0 .. L |-> IF j = r + 1 THEN pos ELSE 0]
        left   == IF r = get_cnk(w) - 1 THEN EmptyWord ELSE Shl(Shr(w, r + 1), r + 2)
    IN  set_cnk(Or(Or(left, target), RightOf(w, r)), get_cnk(w))

\* delete_rank(rank), called before dec_key_num: close the gap.
delete_rank(w, r) ==
    LET left == IF r = get_cnk(w) - 1 \/ r = L - 1
                THEN EmptyWord ELSE Shl(Shr(w, r + 2), r + 1)
    IN  set_cnk(Or(left, RightOf(w, r)), get_cnk(w))

\* The slots of the ranks below cnk.
Live(w) == {get_index_of_rank(w, r) : r \in 0 .. get_cnk(w) - 1}

\* get_empty_slot(): the lowest slot no live rank uses.
get_empty_slot(w) ==
    CHOOSE s \in Slot : s \notin Live(w) /\ \A u \in Slot : u < s => u \in Live(w)

\* split_dest(num): rank i holds slot i.
split_dest(num) ==
    [j \in 0 .. L |-> IF j = 0 THEN num ELSE IF j <= num THEN j - 1 ELSE 0]
====
