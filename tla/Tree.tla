---- MODULE Tree ----
(***************************************************************************)
(* The trie of B+-trees and its structure modifications: the descent of    *)
(* find_border through the layers, the split of border and interior nodes  *)
(* up to the root of their layer, and the removal of emptied border nodes  *)
(* and layers with the collapse of interior nodes (common_helper.h,        *)
(* border_helper.h, interior_helper.h, border_node.h, interior_node.h,     *)
(* interface_put/get/remove.h).                                            *)
(*                                                                         *)
(* A step is what one thread does between two points where another thread  *)
(* can see or change something: members of a node are written only under   *)
(* its lock, and get_stable_version waits for the lock, so writes that the *)
(* versions announce are one step with the others under the same lock.     *)
(* The exception is delete_at, which moves no version: its two stores of   *)
(* the permutation are two steps, and readers see the word in between.     *)
(* Values are left out: a key is present or not.                           *)
(***************************************************************************)
EXTENDS VersionBody, FiniteSets, Sequences, SequencesExt

CONSTANTS
    Keys,       \* keys, as sequences of key slices, which are positive numbers
    Fan,        \* key_slice_length: the capacity of a node, 15 in the code
    Threads,    \* client threads
    MaxNodes,   \* bound on the nodes ever allocated
    Scenes,     \* initial trees, each with its cast: for each thread the calls
                \* it may make, and how many of them
    None        \* nullptr

\* The shape of a trie (Build makes the heap of it): for each node the entries and links of
\* a border node, or the pivots and children of an interior one.  Node 1 is the root, and
\* every other node is the child, or the next layer, of one place.
IsTrie(shape) ==
    LET ids     == DOMAIN shape
        kids(n) == Range(shape[n].child) \cup Range(shape[n].link)
    IN  /\ shape \in Seq(Range(shape)) /\ Len(shape) <= MaxNodes
        /\ \A n \in ids :
              /\ shape[n].keys \subseteq Nat /\ IsFiniteSet(shape[n].keys)
              /\ Cardinality(shape[n].keys) <= Fan
              /\ shape[n].slot0 \in Nat
              /\ shape[n].slot0 % 2 = 1 => shape[n].slot0 \in shape[n].keys
              /\ DOMAIN shape[n].link = {e \in shape[n].keys : e % 2 = 1}
              /\ shape[n].link \in [DOMAIN shape[n].link -> ids]
              /\ shape[n].piv \in Seq(Nat) /\ shape[n].child \in Seq(ids)
              /\ \/ shape[n].child = <<>> /\ shape[n].piv = <<>>
                 \/ /\ shape[n].keys = {} /\ Len(shape[n].piv) \in 1 .. Fan
                    /\ Len(shape[n].child) = Len(shape[n].piv) + 1
              /\ IsInjective(shape[n].child) /\ IsInjective(shape[n].link)
              /\ n = 1 <=> \A m \in ids : n \notin kids(m)
              /\ \A l, m \in ids : n \in kids(l) \cap kids(m) => l = m

ASSUME TreeAssumption ==
    /\ IsFiniteSet(Keys) /\ Keys # {}
    /\ \A k \in Keys : k \in Seq(Nat \ {0}) /\ Len(k) \in 1 .. MaxNodes
    /\ Fan \in Nat /\ Fan % 4 = 3   \* as 15: interior_split relies on it
    /\ MaxNodes \in Nat /\ None \notin Nat
    /\ \A s \in Scenes : /\ IsTrie(s.shape) /\ s.kv \subseteq Keys
                         /\ \A t \in Threads : s.cast[t].max \in Nat

Nodes == 1 .. MaxNodes

VARIABLES
    node,       \* the heap: version_, parent_, keys, children and siblings
    root,       \* tree_instance::root_
    used,       \* nodes 1 .. used have been allocated
    retired,    \* the nodes pushed to GC containers, in order
    th,         \* th[t]: where t is in its call, and its locals
    cast,       \* the calls of this behaviour, chosen at the start
    kv,         \* history: the keys in the tree
    seen        \* history: whether th[t].key was in the tree since the call

vars == <<node, root, used, retired, th, cast, kv, seen>>

\* In the layer of depth d a key is an entry: its slice there, and whether
\* the key ends in it or goes on in the next layer.  The two may stand side by
\* side in a node, the end first, so the number orders entries as the code does.
Entry(k, d) == 2 * k[d] + (IF d < Len(k) THEN 1 ELSE 0)
IsLink(e) == e % 2 = 1

\* A node.  `keys` is the set of entries of a border node, in rank order, and `link`
\* the roots of the next layers in its slots; `slot0` is the entry in slot 0, which a
\* deletion leaves there (0 when the slot is clear), and `over` tells that delete_rank
\* has closed a rank that cnk still counts: the last rank then leads to slot 0.  `piv`
\* and `child` are the keys and children of an interior node.
Blank ==
    [ver |-> InitBody, parent |-> None, keys |-> {}, link |-> <<>>, slot0 |-> 0, over |-> FALSE,
     piv |-> <<>>, child |-> <<>>, next |-> None, prev |-> None]

\* The locals of a call: its depth, the root of the layer it is in (rt), the
\* node it works on (n) and its version at find_border (v) and get_lv_of (vf),
\* a child and its version (c, cv), the parent to lock (p), and what a split
\* hands upwards: the new sibling (m) and its pivot key (up).  `job` is what the
\* parent is locked for, `gone` the emptied nodes to retire; `dead` is history: the
\* last look-up found its entry only in the rank that delete_at had closed.
Idle ==
    [pc |-> "idle", op |-> "get", key |-> <<>>, d |-> 1, res |-> "none", calls |-> 0,
     rt |-> None, n |-> None, v |-> InitBody, vf |-> InitBody, c |-> None,
     cv |-> InitBody, p |-> None, m |-> None, up |-> 0, job |-> "none", gone |-> <<>>,
     dead |-> FALSE]

-----------------------------------------------------------------------------
(* Initial trees.  A shape gives for each node, in preorder, the entries   *)
(* and links of a border node or the pivots and children of an interior    *)
(* one, and the root of its layer (top); borders come left to right.       *)

Build(shape) ==
    LET ids       == DOMAIN shape
        border(n) == shape[n].child = <<>>
        layer(n)  == {m \in ids : border(m) /\ shape[m].top = shape[n].top}
        least(S)  == IF S = {} THEN None ELSE CHOOSE m \in S : \A x \in S : m <= x
        most(S)   == IF S = {} THEN None ELSE CHOOSE m \in S : \A x \in S : x <= m
    IN  [n \in Nodes |->
            IF n \notin ids THEN Blank
            ELSE [ver    |-> [InitBody EXCEPT !.border = border(n), !.root = (n = shape[n].top)],
                  parent |-> least({m \in ids : n \in Range(shape[m].child) \cup Range(shape[m].link)}),
                  keys   |-> shape[n].keys,
                  link   |-> shape[n].link,
                  slot0  |-> shape[n].slot0,
                  over   |-> FALSE,
                  piv    |-> shape[n].piv,
                  child  |-> shape[n].child,
                  next   |-> IF border(n) THEN least({m \in layer(n) : m > n}) ELSE None,
                  prev   |-> IF border(n) THEN most({m \in layer(n) : m < n}) ELSE None]]

Init ==
    /\ \E s \in Scenes :
          /\ node = Build(s.shape)
          /\ used = Len(s.shape)
          /\ root = IF s.shape = <<>> THEN None ELSE 1
          /\ kv = s.kv
          /\ cast = s.cast
    /\ retired = <<>>
    /\ th = [t \in Threads |-> Idle]
    /\ seen = [t \in Threads |-> {}]

-----------------------------------------------------------------------------
(* Calls.                                                                  *)

Invoke(t, y, k) ==
    /\ th[t].pc = "idle" /\ th[t].calls < cast[t].max
    /\ th' = [th EXCEPT ![t] = [Idle EXCEPT !.pc = "root", !.op = y, !.key = k,
                                            !.calls = th[t].calls + 1]]
    /\ seen' = [seen EXCEPT ![t] = {k \in kv}]
    /\ UNCHANGED <<node, root, used, retired, cast, kv>>

\* The call of t with its locals as at the start, except where it is.
Fresh(t, label) ==
    [Idle EXCEPT !.op = th[t].op, !.key = th[t].key, !.calls = th[t].calls, !.pc = label]

Return(t, r) ==
    th' = [th EXCEPT ![t] = [Fresh(t, "idle") EXCEPT !.res = r, !.dead = th[t].dead]]

Goto(t, label) == th' = [th EXCEPT ![t].pc = label]

\* goto retry_from_root.
Restart(t) == th' = [th EXCEPT ![t] = Fresh(t, "root")]

\* The history of a step that changes the set of keys.
Record(keys) ==
    /\ kv' = keys
    /\ seen' = [t \in Threads |-> IF th[t].pc = "idle" THEN seen[t]
                                  ELSE seen[t] \cup {th[t].key \in keys}]

\* What t looks for in the layer it is in.
Want(t) == Entry(th[t].key, th[t].d)

static == <<node, root, used, retired, cast, kv, seen>>

-----------------------------------------------------------------------------
(* insert_lv_at: an entry, and a border node for each further slice.       *)

\* Border node x with the entry of key k at depth d; its next layer is `below`.
\* get_empty_slot gives slot 0 when no rank leads there.
WithEntry(x, k, d, below) ==
    LET e == Entry(k, d)
    IN  [x EXCEPT !.keys = @ \cup {e},
                  !.slot0 = IF @ \in x.keys THEN @ ELSE e,
                  !.link = IF d = Len(k) THEN @
                           ELSE [f \in DOMAIN @ \cup {e} |-> IF f = e THEN below ELSE @[f]]]

\* Heap h after init_border of the layers below the entry of k at depth d of node `above`,
\* allocated from `first`.
NewLayers(h, k, d, first, above) ==
    [i \in Nodes |->
        IF i \in first .. first + Len(k) - d - 1
        THEN WithEntry([Blank EXCEPT !.ver.root = TRUE, !.ver.border = TRUE,
                                     !.ver.vinsert_delete = inc(@),
                                     !.parent = IF i = first THEN above ELSE i - 1],
                       k, d + 1 + i - first, i + 1)
        ELSE h[i]]

\* Heap h once t has inserted its entry into node n, allocating from `first`.
Inserted(h, t, n, first) ==
    NewLayers([h EXCEPT ![n] = WithEntry(@, th[t].key, th[t].d, first)],
              th[t].key, th[t].d, first, n)

LayersToAdd(t) == Len(th[t].key) - th[t].d

-----------------------------------------------------------------------------
(* From the root to a border node.                                         *)

\* retry_from_root.  A tree without a root: get and remove answer, put makes
\* a border node of its own.
LoadRoot(t) ==
    /\ th[t].pc = "root"
    /\ \/ /\ root # None
          /\ th' = [th EXCEPT ![t].rt = root, ![t].pc = "version"]
       \/ /\ root = None /\ th[t].op = "put"
          /\ Goto(t, "cas_root")
       \/ /\ root = None /\ th[t].op # "put"
          /\ Return(t, "NOT_FOUND")
    /\ UNCHANGED static

\* cas_root_ptr; a put that loses destroys its node and starts over.
CasRoot(t) ==
    /\ th[t].pc = "cas_root"
    /\ \/ /\ root = None /\ used + Len(th[t].key) <= MaxNodes
          /\ node' = NewLayers(node, th[t].key, 0, used + 1, None)
          /\ root' = used + 1
          /\ used' = used + Len(th[t].key)
          /\ Record(kv \cup {th[t].key})
          /\ Return(t, "OK")
          /\ UNCHANGED <<retired, cast>>
       \/ /\ root # None
          /\ Restart(t)
          /\ UNCHANGED static

\* Where find_border goes with node x in version w.
Descend(x, w) == [n |-> x, v |-> w, pc |-> IF w.border THEN "fetch" ELSE "child"]

\* The head of find_border, for the root of any layer: without its root bit the
\* call starts over from the first.  A deleted root is returned as it is: empty if it
\* is a border node, a null pointer if the cast to border_node fails, which
\* only remove looks at.
FindRoot(t) ==
    /\ th[t].pc = "version"
    /\ LET r == th[t].rt
           w == node[r].ver
           d == Descend(r, w)
       IN  /\ stable(w)
           /\ \/ /\ ~w.root
                 /\ Restart(t)
              \/ /\ w.root /\ (w.deleted => w.border)
                 /\ th' = [th EXCEPT ![t].n = d.n, ![t].v = d.v, ![t].pc = d.pc]
              \/ /\ w.root /\ w.deleted /\ ~w.border
                 /\ IF th[t].op = "remove" THEN Restart(t) ELSE Goto(t, "null")
    /\ UNCHANGED static

\* get_child_of: the child whose range holds the key ...  The code starts over when it
\* reads nullptr, which it does only while a writer shifts children: here, where a
\* locked node changes in one step, the version checked below has moved then.
Covers(x, e) == 1 + Cardinality({i \in DOMAIN node[x].piv : node[x].piv[i] <= e})

ReadChild(t) ==
    /\ th[t].pc = "child"
    /\ th' = [th EXCEPT ![t].c = node[th[t].n].child[Covers(th[t].n, Want(t))],
                        ![t].pc = "child_version"]
    /\ UNCHANGED static

\* ... its stable version ...
ReadChildVersion(t) ==
    /\ th[t].pc = "child_version"
    /\ stable(node[th[t].c].ver)
    /\ th' = [th EXCEPT ![t].cv = node[th[t].c].ver, ![t].pc = "child_check"]
    /\ UNCHANGED static

\* A plausible slip in CheckChild: the node's own version is not checked again.
CheckChildOnly(t) ==
    /\ th[t].pc = "child_check"
    /\ LET w == node[th[t].n].ver
           d == Descend(th[t].c, th[t].cv)
       IN  /\ stable(w)
           /\ IF ~th[t].cv.deleted
              THEN th' = [th EXCEPT ![t].n = d.n, ![t].v = d.v, ![t].pc = d.pc,
                                    ![t].c = None, ![t].cv = InitBody]
              ELSE th' = [th EXCEPT ![t].pc = "version", ![t].n = None, ![t].v = InitBody,
                                    ![t].c = None, ![t].cv = InitBody]
    /\ UNCHANGED static

\* ... and the node's version again: go down, start over, or look again.
CheckChild(t) ==
    /\ th[t].pc = "child_check"
    /\ LET w == node[th[t].n].ver
           d == Descend(th[t].c, th[t].cv)
       IN  /\ stable(w)
           /\ \/ /\ w = th[t].v /\ ~th[t].cv.deleted
                 /\ th' = [th EXCEPT ![t].n = d.n, ![t].v = d.v, ![t].pc = d.pc,
                                     ![t].c = None, ![t].cv = InitBody]
              \/ /\ ~(w = th[t].v /\ ~th[t].cv.deleted)
                 /\ w.vsplit # th[t].v.vsplit \/ w.deleted
                 /\ th' = [th EXCEPT ![t].pc = "version", ![t].n = None, ![t].v = InitBody,
                                     ![t].c = None, ![t].cv = InitBody]
              \/ /\ ~(w = th[t].v /\ ~th[t].cv.deleted)
                 /\ w.vsplit = th[t].v.vsplit /\ ~w.deleted
                 /\ th' = [th EXCEPT ![t].pc = "child", ![t].v = w,
                                     ![t].c = None, ![t].cv = InitBody]
    /\ UNCHANGED static

-----------------------------------------------------------------------------
(* At the border node: get_lv_of, the checks after it, and the lock.       *)

\* The border node is no longer the one that find_border looked for.
WrongBorder(t, w) == w.vsplit # th[t].v.vsplit \/ (w.deleted /\ ~w.root)

\* The permutation of x counts a rank too many, which leads to slot 0, and no rank
\* before it ends the search for e: get_lv_of finds the entry that slot 0 has.
InClosedRank(x, e) == x.over /\ e = x.slot0 /\ \A f \in x.keys : f < e

\* get_lv_of, and the check that this is still the node to read.  The permutation is
\* loaded in a stable version, or between the two stores of a deletion, after which
\* the version is as before unless the last key went.
FetchLv(t) ==
    /\ th[t].pc = "fetch"
    /\ LET x     == node[th[t].n]
           w     == [x.ver EXCEPT !.locked = FALSE]
           dead  == InClosedRank(x, Want(t))
           found == Want(t) \in x.keys \/ dead
       IN  /\ stable(x.ver) \/ (x.over /\ x.keys # {})
           /\ \/ /\ WrongBorder(t, w)
                 /\ Restart(t)
              \/ /\ ~WrongBorder(t, w)
                 /\ ~found /\ th[t].op = "get"
                 /\ Return(t, "NOT_FOUND")
              \/ /\ ~WrongBorder(t, w)
                 /\ found \/ th[t].op # "get"
                 /\ th' = [th EXCEPT ![t].vf = w, ![t].dead = dead,
                             ![t].pc = CASE found /\ IsLink(Want(t)) -> "link"
                                         [] th[t].op = "put" -> IF found THEN "update" ELSE "insert"
                                         [] th[t].op = "get" -> "final"
                                         [] OTHER -> IF found THEN "remove" ELSE "absent"]
    /\ UNCHANGED static

\* get_next_layer, from the slot that get_lv_of found.  A removed link stays in
\* its slot; a moved one leaves nullptr.
ReadLink(t) ==
    /\ th[t].pc = "link"
    /\ LET l == node[th[t].n].link
       IN  th' = [th EXCEPT ![t].c = IF Want(t) \in DOMAIN l THEN l[Want(t)] ELSE None,
                            ![t].pc = "link_check"]
    /\ UNCHANGED static

\* The border node still fits: go on in the next layer.
CheckLink(t) ==
    /\ th[t].pc = "link_check"
    /\ LET w == node[th[t].n].ver
       IN  /\ stable(w)
           /\ \/ /\ WrongBorder(t, w)
                 /\ Restart(t)
              \/ /\ ~WrongBorder(t, w) /\ w.vinsert_delete # th[t].vf.vinsert_delete
                 /\ th' = [th EXCEPT ![t].pc = "fetch", ![t].c = None]
              \/ /\ ~WrongBorder(t, w) /\ w.vinsert_delete = th[t].vf.vinsert_delete
                 /\ th' = [th EXCEPT ![t] = [Fresh(t, "version") EXCEPT !.rt = th[t].c,
                                                                       !.d = th[t].d + 1]]
    /\ UNCHANGED static

\* final_check of get, with the value in hand.
FinalCheck(t) ==
    /\ th[t].pc = "final"
    /\ LET w == node[th[t].n].ver
       IN  /\ stable(w)
           /\ \/ /\ WrongBorder(t, w)
                 /\ Restart(t)
              \/ /\ ~WrongBorder(t, w) /\ w.vinsert_delete # th[t].vf.vinsert_delete
                 /\ Goto(t, "fetch")
              \/ /\ ~WrongBorder(t, w) /\ w.vinsert_delete = th[t].vf.vinsert_delete
                 /\ Return(t, "OK")
    /\ UNCHANGED static

\* final_check of remove when the key was not there.
AbsentCheck(t) ==
    /\ th[t].pc = "absent"
    /\ LET w == node[th[t].n].ver
       IN  /\ stable(w)
           /\ IF w.vinsert_delete # th[t].vf.vinsert_delete
              THEN Goto(t, "fetch") ELSE Return(t, "NOT_FOUND")
    /\ UNCHANGED static

\* A plausible slip in LockWrong: back to the lock with the same versions.
LockWrongAgain(t) ==
    /\ th[t].pc \in {"insert", "update", "remove"}
    /\ LET w == node[th[t].n].ver
       IN  ~w.locked /\ (WrongBorder(t, w) \/ w.vinsert_delete # th[t].vf.vinsert_delete)
    /\ UNCHANGED vars

\* The node is locked and no longer fits: unlock and start over.
LockWrong(t) ==
    /\ th[t].pc \in {"insert", "update", "remove"}
    /\ LET w == node[th[t].n].ver
       IN  /\ ~w.locked
           /\ WrongBorder(t, w) \/ w.vinsert_delete # th[t].vf.vinsert_delete
           /\ IF WrongBorder(t, w) THEN Restart(t) ELSE Goto(t, "fetch")
    /\ UNCHANGED static

\* A plausible slip in LockFits: a node deleted meanwhile is not noticed.
LockIgnoresDeleted(t) ==
    LET w == node[th[t].n].ver
    IN  ~w.locked /\ w.vsplit = th[t].v.vsplit /\ w.vinsert_delete = th[t].vf.vinsert_delete

\* The node is locked and still fits.
LockFits(t) ==
    LET w == node[th[t].n].ver
    IN  ~w.locked /\ ~WrongBorder(t, w) /\ w.vinsert_delete = th[t].vf.vinsert_delete

\* put of a key that is there: the value is replaced under the lock.
Update(t) ==
    /\ th[t].pc = "update"
    /\ LockFits(t)
    /\ Return(t, "OK")
    /\ UNCHANGED static

\* A plausible slip in LockInsert: the node is taken to hold one key more.
LockInsertLate(t) ==
    /\ th[t].pc = "insert"
    /\ LockFits(t)
    /\ node' = [node EXCEPT ![th[t].n].ver =
                  [@ EXCEPT !.locked = TRUE, !.inserting_deleting = TRUE,
                            !.deleted = @ /\ node[th[t].n].keys # {}]]
    /\ Goto(t, "insert_lv")
    /\ UNCHANGED <<root, used, retired, cast, kv, seen>>

\* insert_lv: the dirty bit, an emptied root revived, and a split if full.
LockInsert(t) ==
    /\ th[t].pc = "insert"
    /\ LockFits(t)
    /\ LET full == Cardinality(node[th[t].n].keys) = Fan
       IN  /\ node' = [node EXCEPT ![th[t].n].ver =
                         [@ EXCEPT !.locked = TRUE, !.inserting_deleting = TRUE,
                                   !.splitting = full,
                                   !.deleted = @ /\ node[th[t].n].keys # {}]]
           /\ Goto(t, IF full THEN "split" ELSE "insert_lv")
    /\ UNCHANGED <<root, used, retired, cast, kv, seen>>

InsertLv(t) ==
    /\ th[t].pc = "insert_lv" /\ used + LayersToAdd(t) <= MaxNodes
    /\ node' = Inserted([node EXCEPT ![th[t].n].ver = unlocked(@)], t, th[t].n, used + 1)
    /\ used' = used + LayersToAdd(t)
    /\ Record(kv \cup {th[t].key})
    /\ Return(t, "OK")
    /\ UNCHANGED <<root, retired, cast>>

-----------------------------------------------------------------------------
(* lock_parent, for the four jobs that need it.  It ends "under" a locked  *)
(* parent, or at the "top" when there is none.                             *)

ReadParent(t) ==
    /\ th[t].pc = "parent"
    /\ LET p == node[th[t].n].parent
       IN  th' = [th EXCEPT ![t].p = p, ![t].pc = IF p = None THEN "top" ELSE "lock_parent"]
    /\ UNCHANGED static

LockParent(t) ==
    /\ th[t].pc = "lock_parent"
    /\ ~node[th[t].p].ver.locked
    /\ LET check == node[th[t].n].parent
       IN  IF check = th[t].p
           THEN /\ node' = [node EXCEPT ![th[t].p].ver.locked = TRUE]
                /\ Goto(t, "under")
           ELSE /\ th' = [th EXCEPT ![t].p = check,
                                    ![t].pc = IF check = None THEN "top" ELSE "lock_parent"]
                /\ UNCHANGED node
    /\ UNCHANGED <<root, used, retired, cast, kv, seen>>

-----------------------------------------------------------------------------
(* Splits.                                                                 *)

\* The keys a full border node keeps, and those that move.
remaining_size == Fan \div 2 + 1
Keeps(keys) == {e \in keys : Cardinality({x \in keys : x < e}) < remaining_size}
Moves(keys) == keys \ Keeps(keys)
Least(S) == CHOOSE x \in S : \A y \in S : x <= y

\* The prev of node x once n has been split and m is next to it.
PrevAfterSplit(x, n, m) == IF x = node[n].next THEN m ELSE node[x].prev

\* A plausible slip in ParentAfterMove: a moved layer keeps its parent.
ParentNotMoved(x, n, hi, m) == node[x].parent

\* The parent of node x once the entries hi of n have moved to m.
ParentAfterMove(x, n, hi, m) ==
    IF \E e \in hi : IsLink(e) /\ node[n].link[e] = x THEN m ELSE node[x].parent

\* border_split up to lock_parent: the new border node takes the version, the
\* place in the chain and the higher entries with their layers, and the new
\* entry goes to one of the two.
SplitBorder(t) ==
    /\ th[t].pc = "split" /\ used + 1 + LayersToAdd(t) <= MaxNodes
    /\ LET n     == th[t].n
           m     == used + 1
           hi    == Moves(node[n].keys)
           left  == [node[n] EXCEPT !.keys = @ \ hi, !.next = m,
                                    !.slot0 = IF @ \in hi THEN 0 ELSE @,
                                    !.link = [e \in DOMAIN @ \ hi |-> @[e]]]
           right == [Blank EXCEPT !.ver = node[n].ver, !.prev = n, !.next = node[n].next,
                                  !.keys = hi, !.slot0 = Least(hi),
                                  !.link = [e \in {x \in hi : IsLink(x)} |-> node[n].link[e]]]
           half(x) == CASE x = n -> left
                        [] x = m -> right
                        [] OTHER -> [node[x] EXCEPT !.prev = PrevAfterSplit(x, n, m)]
           moved == [x \in Nodes |-> [half(x) EXCEPT !.parent = ParentAfterMove(x, n, hi, m)]]
       IN  /\ node' = Inserted(moved, t, IF Want(t) < Least(hi) THEN n ELSE m, m + 1)
           /\ th' = [th EXCEPT ![t].m = m, ![t].up = Least(hi), ![t].job = "split",
                               ![t].pc = "parent"]
    /\ Record(kv \cup {th[t].key})
    /\ used' = used + 1 + LayersToAdd(t)
    /\ UNCHANGED <<root, retired, cast>>

\* Heap with a new locked interior node q above the two halves.
NewParent(t, q) ==
    [node EXCEPT
        ![th[t].n].ver.root = FALSE, ![th[t].m].ver.root = FALSE,
        ![th[t].n].parent = q, ![th[t].m].parent = q,
        ![q] = [Blank EXCEPT !.ver = [InitBody EXCEPT !.root = TRUE, !.locked = TRUE,
                                                      !.inserting_deleting = TRUE],
                             !.piv = <<th[t].up>>, !.child = <<th[t].n, th[t].m>>]]

\* create_interior_parent_of_border, create_interior_parent_of_interior: no
\* parent, so the two halves get a new root above them.
NewRoot(t) ==
    /\ th[t].pc = "top" /\ th[t].job \in {"split", "isplit"} /\ used < MaxNodes
    /\ node' = NewParent(t, used + 1)
    /\ th' = [th EXCEPT ![t].p = used + 1, ![t].job = "newroot", ![t].pc = "unlock_left"]
    /\ used' = used + 1
    /\ UNCHANGED <<root, retired, cast, kv, seen>>

ParentIsBorder(t) == node[th[t].p].ver.border

\* The same for the root of a lower layer, below a border node.
NewLayerRoot(t) ==
    /\ th[t].pc = "under" /\ th[t].job \in {"split", "isplit"} /\ used < MaxNodes
    /\ ParentIsBorder(t)
    /\ node' = [NewParent(t, used + 1) EXCEPT ![th[t].p].ver.inserting_deleting = TRUE]
    /\ th' = [th EXCEPT ![t].p = used + 1, ![t].c = th[t].p, ![t].pc = "unlock_left",
                        ![t].job = IF @ = "split" THEN "newlayer" ELSE "inewlayer"]
    /\ used' = used + 1
    /\ UNCHANGED <<root, retired, cast, kv, seen>>

\* An interior parent, locked: neither half is a root.
ClearRoots(t) ==
    /\ th[t].pc = "under" /\ th[t].job \in {"split", "isplit"} /\ ~ParentIsBorder(t)
    /\ node' = IF th[t].job = "split"
               THEN [node EXCEPT ![th[t].n].ver.root = FALSE, ![th[t].m].ver.root = FALSE]
               ELSE node
    /\ Goto(t, "unlock_left")
    /\ UNCHANGED <<root, used, retired, cast, kv, seen>>

\* The halves are unlocked before the tree above them knows of the new one.
UnlockLeft(t) ==
    /\ th[t].pc = "unlock_left"
    /\ node' = [node EXCEPT ![th[t].n].ver = unlocked(@)]
    /\ Goto(t, "unlock_right")
    /\ UNCHANGED <<root, used, retired, cast, kv, seen>>

UnlockRight(t) ==
    /\ th[t].pc = "unlock_right"
    /\ node' = [node EXCEPT ![th[t].m].ver = unlocked(@),
                            ![th[t].m].parent = IF th[t].job = "isplit" THEN th[t].p ELSE @]
    /\ Goto(t, CASE th[t].job = "newroot" -> "store_root"
                 [] th[t].job = "newlayer" -> "hang"
                 [] th[t].job = "inewlayer" -> "relink"
                 [] OTHER -> "attach")
    /\ UNCHANGED <<root, used, retired, cast, kv, seen>>

StoreRoot(t) ==
    /\ th[t].pc = "store_root"
    /\ root' = th[t].p
    /\ Goto(t, "unlock_root")
    /\ UNCHANGED <<node, used, retired, cast, kv, seen>>

UnlockRoot(t) ==
    /\ th[t].pc = "unlock_root"
    /\ node' = [node EXCEPT ![th[t].p].ver = unlocked(@)]
    /\ Return(t, "OK")
    /\ UNCHANGED <<root, used, retired, cast, kv, seen>>

\* border_node::get_lv: the entry of border node b whose slot leads to x.
LinkTo(b, x) == CHOOSE e \in DOMAIN node[b].link : node[b].link[e] = x

\* What comes second of the two steps below also unlocks the border node.
EndNewLayer(t, second, heap) ==
    IF th[t].job = second
    THEN node' = [heap EXCEPT ![th[t].c].ver = unlocked(@)] /\ Return(t, "OK")
    ELSE node' = heap /\ Goto(t, IF second = "newlayer" THEN "hang" ELSE "relink")

\* The new root of a lower layer gets its parent and is unlocked: border_split
\* does it first and interior_split last.
HangLayer(t) ==
    /\ th[t].pc = "hang"
    /\ EndNewLayer(t, "inewlayer",
           [node EXCEPT ![th[t].p].parent = th[t].c, ![th[t].p].ver = unlocked(@)])
    /\ UNCHANGED <<root, used, retired, cast, kv, seen>>

\* It takes its place in the slot of the border node.
Relink(t) ==
    /\ th[t].pc = "relink"
    /\ EndNewLayer(t, "newlayer",
           [node EXCEPT ![th[t].c].link[LinkTo(th[t].c, th[t].n)] = th[t].p])
    /\ UNCHANGED <<root, used, retired, cast, kv, seen>>

\* interior_node::insert on the node x: key k, and child c to its right.
inserted(x, k, c) ==
    LET i == 1 + Cardinality({j \in DOMAIN x.piv : x.piv[j] <= k})
    IN  [x EXCEPT !.piv = InsertAt(@, i, k), !.child = InsertAt(@, i + 1, c),
                  !.ver.inserting_deleting = TRUE]

\* The parent has room.
InsertIntoParent(t) ==
    /\ th[t].pc = "attach"
    /\ Len(node[th[t].p].piv) < Fan
    /\ LET x == inserted(node[th[t].p], th[t].up, th[t].m)
       IN  node' = [node EXCEPT ![th[t].p] = [x EXCEPT !.ver = unlocked(@)],
                                ![th[t].m].parent = th[t].p]
    /\ Return(t, "OK")
    /\ UNCHANGED <<root, used, retired, cast, kv, seen>>

pivot_key_pos == Fan \div 2
right_n_keys == IF pivot_key_pos % 2 = 1 THEN pivot_key_pos ELSE pivot_key_pos - 1

\* move_children_to_interior_range: the moved children get the new parent q.
ParentAfterSplit(x, moved, q) == IF x \in moved THEN q ELSE node[x].parent

\* The parent is full: interior_split up to its own lock_parent.
SplitInterior(t) ==
    /\ th[t].pc = "attach" /\ used < MaxNodes
    /\ Len(node[th[t].p].piv) = Fan
    /\ LET p     == th[t].p
           q     == used + 1
           old   == node[p]
           pivot == old.piv[pivot_key_pos + 1]
           left  == [old EXCEPT !.piv = SubSeq(@, 1, pivot_key_pos),
                                !.child = SubSeq(@, 1, pivot_key_pos + 1),
                                !.ver.splitting = TRUE]
           right == [Blank EXCEPT !.piv = SubSeq(old.piv, pivot_key_pos + 2,
                                                 pivot_key_pos + 1 + right_n_keys),
                                  !.child = SubSeq(old.child, pivot_key_pos + 2, Fan + 1),
                                  !.ver = left.ver]
           below == th[t].up < pivot
           half(x) == CASE x = p -> IF below THEN inserted(left, th[t].up, th[t].m) ELSE left
                        [] x = q -> IF below THEN right ELSE inserted(right, th[t].up, th[t].m)
                        [] OTHER -> node[x]
           home(x) == IF x = th[t].m THEN IF below THEN p ELSE q
                      ELSE ParentAfterSplit(x, Range(right.child), q)
       IN  /\ node' = [x \in Nodes |-> [half(x) EXCEPT !.parent = home(x)]]
           /\ th' = [th EXCEPT ![t].n = p, ![t].m = q, ![t].up = pivot,
                               ![t].job = "isplit", ![t].pc = "parent"]
    /\ used' = used + 1
    /\ UNCHANGED <<root, retired, cast, kv, seen>>

-----------------------------------------------------------------------------
(* Removal.                                                                *)

\* remove: locked, checked, and looked up again.  delete_of takes the key out: its
\* rank is closed first ...
RemoveKey(t) ==
    /\ th[t].pc = "remove"
    /\ LockFits(t)
    /\ LET n == th[t].n
       IN  \/ /\ Want(t) \notin node[n].keys
              /\ Return(t, "NOT_FOUND")
              /\ UNCHANGED <<node, kv, seen>>
           \/ /\ Want(t) \in node[n].keys
              /\ node' = [node EXCEPT ![n].keys = @ \ {Want(t)}, ![n].over = TRUE,
                                      ![n].ver.locked = TRUE]
              /\ Record(kv \ {th[t].key})
              /\ Goto(t, "dec_key_num")
    /\ UNCHANGED <<root, used, retired, cast>>

\* push_node_container of what the call took out, the topmost node first.
Retire(t, nodes) ==
    /\ retired' = retired \o nodes \o th[t].gone
    /\ Return(t, "OK")

\* A plausible slip in DecKeyNum: a border node whose last entry goes is not taken to
\* be empty.
DecKeyNumStop(t) ==
    /\ th[t].pc = "dec_key_num"
    /\ node' = [node EXCEPT ![th[t].n].over = FALSE, ![th[t].n].ver.locked = FALSE]
    /\ Retire(t, <<>>)
    /\ UNCHANGED <<root, used, cast, kv, seen>>

\* ... and then no longer counted.  The last entry leaves a deleted node, still locked.
DecKeyNum(t) ==
    /\ th[t].pc = "dec_key_num"
    /\ LET n    == th[t].n
           last == node[n].keys = {}
       IN  /\ node' = [node EXCEPT ![n].over = FALSE, ![n].ver.locked = last,
                                   ![n].ver.deleted = @ \/ last]
           /\ IF last THEN Goto(t, "emptied") /\ UNCHANGED retired ELSE Retire(t, <<>>)
    /\ UNCHANGED <<root, used, cast, kv, seen>>

\* `if (ti->load_root_ptr() != this)`: the load, and then the store.
IsRootPtr(t) ==
    /\ th[t].pc = "emptied"
    /\ Goto(t, IF root = th[t].n THEN "prev" ELSE "clear_root")
    /\ UNCHANGED static

ClearRoot(t) ==
    /\ th[t].pc = "clear_root"
    /\ node' = [node EXCEPT ![th[t].n].ver.root = FALSE]
    /\ Goto(t, "prev")
    /\ UNCHANGED <<root, used, retired, cast, kv, seen>>

\* The chain without n, whose prev is q.
Unlinked(n, q) ==
    [x \in Nodes |-> [node[x] EXCEPT !.next = IF x = q THEN node[n].next ELSE @,
                                     !.prev = IF x = node[n].next THEN q ELSE @]]

\* retry_prev_lock: no prev, so only the next node has to know.
ReadPrev(t) ==
    /\ th[t].pc = "prev"
    /\ LET q == node[th[t].n].prev
       IN  IF q = None
           THEN /\ node' = Unlinked(th[t].n, None)
                /\ th' = [th EXCEPT ![t].pc = "parent", ![t].job = "empty"]
           ELSE /\ th' = [th EXCEPT ![t].c = q, ![t].pc = "lock_prev"]
                /\ UNCHANGED node
    /\ UNCHANGED <<root, used, retired, cast, kv, seen>>

\* A plausible slip in LockPrev: prev is not read again under its lock.
LockPrevOnce(t) ==
    /\ th[t].pc = "lock_prev"
    /\ LET q == th[t].c
       IN  /\ ~node[q].ver.locked
           /\ node' = Unlinked(th[t].n, q)
           /\ th' = [th EXCEPT ![t].pc = "parent", ![t].job = "empty", ![t].c = None]
    /\ UNCHANGED <<root, used, retired, cast, kv, seen>>

\* prev is locked, checked, and linked to the node after n.
LockPrev(t) ==
    /\ th[t].pc = "lock_prev"
    /\ LET q == th[t].c
       IN  /\ ~node[q].ver.locked
           /\ IF node[q].ver.deleted \/ node[th[t].n].prev # q
              THEN /\ th' = [th EXCEPT ![t].pc = "prev", ![t].c = None]
                   /\ UNCHANGED node
              ELSE /\ node' = Unlinked(th[t].n, q)
                   /\ th' = [th EXCEPT ![t].pc = "parent", ![t].job = "empty", ![t].c = None]
    /\ UNCHANGED <<root, used, retired, cast, kv, seen>>

\* An emptied node without a parent stays, as a deleted root.
KeepEmptyRoot(t) ==
    /\ th[t].pc = "top" /\ th[t].job = "empty"
    /\ node' = [node EXCEPT ![th[t].n].ver = unlocked(@)]
    /\ Retire(t, <<>>)
    /\ UNCHANGED <<root, used, cast, kv, seen>>

\* The emptied node is unlocked; its parent, locked, is worked on from here.
LeaveEmptied(t) ==
    /\ th[t].pc = "under" /\ th[t].job = "empty"
    /\ node' = [node EXCEPT ![th[t].n].ver = unlocked([@ EXCEPT !.root = FALSE])]
    /\ th' = [th EXCEPT ![t].n = th[t].p, ![t].p = None, ![t].gone = <<th[t].n>> \o @,
                        ![t].pc = IF ParentIsBorder(t) THEN "delete_link" ELSE "delete_child"]
    /\ UNCHANGED <<root, used, retired, cast, kv, seen>>

\* The parent is a border node: delete_of takes out the link to the emptied
\* layer.  If that was the last entry, the removal goes on upwards.
DeleteLink(t) ==
    /\ th[t].pc = "delete_link"
    /\ LET n == th[t].n
       IN  node' = [node EXCEPT ![n].keys = @ \ {LinkTo(n, Head(th[t].gone))}, ![n].over = TRUE]
    /\ Goto(t, "dec_key_num")
    /\ UNCHANGED <<root, used, retired, cast, kv, seen>>

ChildIndex(t) == CHOOSE i \in DOMAIN node[th[t].n].child : node[th[t].n].child[i] = Head(th[t].gone)

\* interior_node::delete_of: with child i goes the key to its left, or the
\* first key with the first child.
KeyToDrop(i, len) == IF i = 1 THEN 1 ELSE i - 1

\* The interior node keeps two children or more.
DeleteChild(t) ==
    /\ th[t].pc = "delete_child"
    /\ LET n == th[t].n
           i == ChildIndex(t)
       IN  /\ Len(node[n].piv) > 1
           /\ node' = [node EXCEPT
                 ![n].child = RemoveAt(@, i),
                 ![n].piv = RemoveAt(@, KeyToDrop(i, Len(@))),
                 ![n].ver = unlocked([@ EXCEPT !.inserting_deleting = TRUE])]
    /\ Retire(t, <<>>)
    /\ UNCHANGED <<root, used, cast, kv, seen>>

\* The interior node keeps one child, which takes its place.
Collapse(t) ==
    /\ th[t].pc = "delete_child"
    /\ LET n == th[t].n
       IN  /\ Len(node[n].piv) = 1
           /\ node' = [node EXCEPT
                 ![n].piv = <<>>,
                 ![n].ver = [@ EXCEPT !.inserting_deleting = TRUE, !.deleted = TRUE,
                                      !.root = FALSE]]
    /\ th' = [th EXCEPT ![t].job = "collapse", ![t].pc = "parent"]
    /\ UNCHANGED <<root, used, retired, cast, kv, seen>>

Sibling(t) == node[th[t].n].child[3 - ChildIndex(t)]

\* No parent: the child becomes the root, in three stores.
SetRootBit(t) ==
    /\ th[t].pc = "top" /\ th[t].job = "collapse"
    /\ node' = [node EXCEPT ![Sibling(t)].ver.root = TRUE]
    /\ Goto(t, "store_sibling")
    /\ UNCHANGED <<root, used, retired, cast, kv, seen>>

StoreSibling(t) ==
    /\ th[t].pc = "store_sibling"
    /\ root' = Sibling(t)
    /\ Goto(t, "orphan")
    /\ UNCHANGED <<node, used, retired, cast, kv, seen>>

\* A plausible slip in Orphan: the new root keeps its parent.
OrphanNot(t) ==
    /\ th[t].pc = "orphan"
    /\ Goto(t, "collapsed")
    /\ UNCHANGED static

Orphan(t) ==
    /\ th[t].pc = "orphan"
    /\ node' = [node EXCEPT ![Sibling(t)].parent = None]
    /\ Goto(t, "collapsed")
    /\ UNCHANGED <<root, used, retired, cast, kv, seen>>

\* A plausible slip in SwapLink: the sibling does not become a root.
SwapLinkOnly(t) ==
    /\ th[t].pc = "under" /\ th[t].job = "collapse" /\ ParentIsBorder(t)
    /\ node' = [node EXCEPT ![th[t].p].link[LinkTo(th[t].p, th[t].n)] = Sibling(t)]
    /\ Goto(t, "adopt")
    /\ UNCHANGED <<root, used, retired, cast, kv, seen>>

\* A border node above: its slot leads to the child, which becomes the root of the
\* layer only after that.  The version of the border node does not move.
SwapLink(t) ==
    /\ th[t].pc = "under" /\ th[t].job = "collapse" /\ ParentIsBorder(t)
    /\ node' = [node EXCEPT ![th[t].p].link[LinkTo(th[t].p, th[t].n)] = Sibling(t)]
    /\ Goto(t, "layer_root")
    /\ UNCHANGED <<root, used, retired, cast, kv, seen>>

SetLayerRoot(t) ==
    /\ th[t].pc = "layer_root"
    /\ node' = [node EXCEPT ![Sibling(t)].ver.root = TRUE]
    /\ Goto(t, "adopt")
    /\ UNCHANGED <<root, used, retired, cast, kv, seen>>

\* swap_child in an interior parent, whose version does not move.
SwapChild(t) ==
    /\ th[t].pc = "under" /\ th[t].job = "collapse" /\ ~ParentIsBorder(t)
    /\ LET p == th[t].p
           i == CHOOSE j \in DOMAIN node[p].child : node[p].child[j] = th[t].n
       IN  node' = [node EXCEPT ![p].child[i] = Sibling(t)]
    /\ Goto(t, "adopt")
    /\ UNCHANGED <<root, used, retired, cast, kv, seen>>

\* The child gets its new parent, which is unlocked.
Adopt(t) ==
    /\ th[t].pc = "adopt"
    /\ node' = [node EXCEPT ![th[t].p].ver = unlocked(@), ![Sibling(t)].parent = th[t].p]
    /\ Goto(t, "collapsed")
    /\ UNCHANGED <<root, used, retired, cast, kv, seen>>

\* The interior node is unlocked and retired, and then the border node.
RetireBoth(t) ==
    /\ th[t].pc = "collapsed"
    /\ node' = [node EXCEPT ![th[t].n].ver = unlocked(@)]
    /\ Retire(t, <<th[t].n>>)
    /\ UNCHANGED <<root, used, cast, kv, seen>>

Step(t) ==
    \/ LoadRoot(t) \/ CasRoot(t) \/ FindRoot(t)
    \/ ReadChild(t) \/ ReadChildVersion(t) \/ CheckChild(t)
    \/ FetchLv(t) \/ ReadLink(t) \/ CheckLink(t)
    \/ FinalCheck(t) \/ AbsentCheck(t) \/ LockWrong(t)
    \/ Update(t) \/ LockInsert(t) \/ InsertLv(t)
    \/ ReadParent(t) \/ LockParent(t)
    \/ SplitBorder(t) \/ NewRoot(t) \/ NewLayerRoot(t) \/ ClearRoots(t)
    \/ UnlockLeft(t) \/ UnlockRight(t) \/ StoreRoot(t) \/ UnlockRoot(t)
    \/ HangLayer(t) \/ Relink(t) \/ InsertIntoParent(t) \/ SplitInterior(t)
    \/ RemoveKey(t) \/ DecKeyNum(t) \/ IsRootPtr(t) \/ ClearRoot(t) \/ ReadPrev(t) \/ LockPrev(t)
    \/ KeepEmptyRoot(t) \/ LeaveEmptied(t) \/ DeleteLink(t) \/ DeleteChild(t)
    \/ Collapse(t) \/ SetRootBit(t) \/ StoreSibling(t) \/ Orphan(t)
    \/ SwapLink(t) \/ SetLayerRoot(t) \/ SwapChild(t) \/ Adopt(t) \/ RetireBoth(t)

\* Every thread made all its calls.
Finished == /\ \A t \in Threads : th[t].pc = "idle" /\ th[t].calls = cast[t].max
            /\ UNCHANGED vars

Call(t) == \E c \in cast[t].calls : Invoke(t, c[1], c[2])

Next == (\E t \in Threads : Call(t) \/ Step(t)) \/ Finished

\* The operating system schedules every thread.
Fairness == \A t \in Threads : WF_vars(Step(t))

Spec == Init /\ [][Next]_vars
FairSpec == Spec /\ Fairness

-----------------------------------------------------------------------------
(* Properties.                                                             *)

\* Every pointer is null or an allocated node, every version a version, and no
\* node holds more keys than it has room for.
TypeOK ==
    LET Ptr == (1 .. used) \cup {None}
    IN  /\ used \in 0 .. MaxNodes /\ root \in Ptr
        /\ kv \subseteq Keys /\ seen \in [Threads -> SUBSET BOOLEAN]
        /\ cast \in {s.cast : s \in Scenes}
        /\ retired \in Seq(Nodes) /\ DOMAIN node = Nodes
        /\ \A n \in Nodes :
              /\ node[n].ver \in Body /\ node[n].keys \subseteq Nat
              /\ Cardinality(node[n].keys) <= Fan /\ Len(node[n].piv) <= Fan
              /\ {e \in node[n].keys \cup {node[n].slot0} : IsLink(e)} \subseteq DOMAIN node[n].link
              /\ node[n].slot0 \in Nat /\ node[n].over \in BOOLEAN
              /\ {node[n].parent, node[n].next, node[n].prev} \subseteq Ptr
              /\ node[n].piv \in Seq(Nat) /\ node[n].child \in Seq(1 .. used)
              /\ Range(node[n].link) \subseteq 1 .. used
        /\ \A t \in Threads :
              /\ {th[t].rt, th[t].n, th[t].c, th[t].p, th[t].m} \subseteq Ptr
              /\ {th[t].v, th[t].vf, th[t].cv} \subseteq Body
              /\ th[t].pc # "idle" => th[t].d \in DOMAIN th[t].key

\* The nodes of the layer below node r, and the border nodes among them.
Layer(r) ==
    LET R[i \in 0 .. MaxNodes] ==
            IF i = 0 THEN {r}
            ELSE LET S == R[i - 1] IN S \cup UNION {Range(node[n].child) : n \in S}
    IN  R[used]
Leaves(r) == {n \in Layer(r) : node[n].ver.border}

\* The roots of the next layers that border node n links to.
Below(n) == {node[n].link[e] : e \in {x \in node[n].keys : IsLink(x)}}

\* The roots of all layers.
LayerRoots ==
    LET R[i \in 0 .. MaxNodes] ==
            IF i = 0 THEN {root} \ {None}
            ELSE LET S == R[i - 1]
                 IN  S \cup UNION {UNION {Below(n) : n \in Leaves(r)} : r \in S}
    IN  R[Max({Len(k) : k \in Keys})]

\* Where a descent from r that nobody disturbs ends.
Locate(r, e) ==
    LET D[i \in 0 .. MaxNodes] ==
            IF i = 0 THEN r
            ELSE LET n == D[i - 1]
                 IN  IF node[n].child = <<>> THEN n ELSE node[n].child[Covers(n, e)]
    IN  D[used]

\* The border node where the descent for key k ends, None if a link is missing.
BorderOf(k) ==
    LET B[d \in 1 .. Len(k)] ==
            IF d = 1 THEN Locate(root, Entry(k, 1))
            ELSE LET b == B[d - 1]
                     e == Entry(k, d - 1)
                 IN  IF b # None /\ e \in node[b].keys
                     THEN Locate(node[b].link[e], Entry(k, d)) ELSE None
    IN  B[Len(k)]

\* No node is locked: no operation is in the middle of a change.
Quiet == \A n \in Nodes : ~node[n].ver.locked

\* Whenever no node is locked, a descent for any key of the tree ends at a slot
\* of its own that has it, the leaves of all layers hold nothing else, and no
\* layer below the first is empty: no split, insert, collapse or removal of a
\* layer loses, strays or duplicates a key.
KeysFound ==
    Quiet /\ root # None =>
        LET slot   == [k \in kv |-> <<BorderOf(k), Entry(k, Len(k))>>]
            leaves == UNION {Leaves(r) : r \in LayerRoots}
        IN  /\ Range(slot) = UNION {{n} \X {e \in node[n].keys : ~IsLink(e)} : n \in leaves}
            /\ Cardinality(Range(slot)) = Cardinality(kv)
            /\ \A n \in leaves : node[n].keys = {} => n = root

\* Whenever no node is locked, the border nodes of a layer form one chain in
\* both directions, in key order, over exactly its leaves: what scan walks.
LeafChain ==
    Quiet =>
        \A r \in LayerRoots :
            LET S == Leaves(r)
            IN  /\ Cardinality({n \in S : node[n].next = None}) = 1
                /\ \A n \in S :
                      LET x == node[n].next
                      IN  /\ x # None => /\ x \in S /\ node[x].prev = n
                                         /\ \A j \in node[n].keys, k \in node[x].keys : j < k
                          /\ node[n].prev # None => /\ node[n].prev \in S
                                                    /\ node[node[n].prev].next = n

\* Whenever no node is locked, the nodes that were not retired are one tree: each child
\* and each next layer is one of them and names its parent, each but the root is the child
\* or next layer of the parent it names, and an interior node has one more child than keys
\* and is not deleted: lock_parent, delete_of and get_lv rely on it.
ParentsRight ==
    Quiet /\ root # None =>
        LET S == (1 .. used) \ Range(retired)
        IN  /\ root \in S /\ node[root].parent = None
            /\ \A n \in S \ {root} :
                  /\ node[n].parent \in S
                  /\ n \in Range(node[node[n].parent].child) \cup Below(node[n].parent)
            /\ \A n \in S :
                  /\ \A x \in Range(node[n].child) \cup Below(n) : x \in S /\ node[x].parent = n
                  /\ ~node[n].ver.border =>
                        /\ Len(node[n].child) = Len(node[n].piv) + 1 /\ Len(node[n].piv) \in 1 .. Fan
                        /\ ~node[n].ver.deleted

\* A node goes to the garbage collection once, and from then on no live node,
\* nor the root pointer, leads to it: what the epochs of EpochGC start from.
RetiredUnlinked ==
    /\ \A i, j \in 1 .. Len(retired) : retired[i] = retired[j] => i = j
    /\ \A r \in Range(retired) :
          /\ root # r
          /\ \A n \in (1 .. used) \ Range(retired) :
                ~node[n].ver.deleted =>
                    /\ r \notin {node[n].parent, node[n].next, node[n].prev}
                    /\ r \notin Range(node[n].child) \cup Below(n)

\* What a call answers about its key was true at some instant of the call,
\* whatever splits and collapses it met on its way down.  The exception is a get or a
\* put that found its key only in the rank that a deletion had closed and not yet
\* ceased to count (the runs of BorderNode show that case by itself).
AnswersTrue ==
    \A t \in Threads :
        /\ th[t].res = "NOT_FOUND" => FALSE \in seen[t]
        /\ th[t].res = "OK" /\ th[t].op # "remove" => TRUE \in seen[t] \/ th[t].dead
        /\ th[t].res = "OK" /\ th[t].op = "remove" => seen[t] = BOOLEAN

\* Only the root is revived: a deleted node that is not at the root pointer
\* stays deleted, so no put lands in a node that is being taken out.
DeletedStays ==
    [][\A n \in Nodes :
          node[n].ver.deleted /\ ~node'[n].ver.deleted => node[n].ver.root /\ root = n]_vars

\* With every thread scheduled, every call returns: the calls are finitely many,
\* and again and again none is in progress.
CallsReturn == []<>(\A t \in Threads : th[t].pc = "idle")

\* Whenever no node is locked, exactly the roots of the layers have the root
\* bit: without it find_border starts over for ever, and a bit left on a node that
\* is no longer the root would let a call with an old link into part of a layer.
RootBitSet ==
    Quiet => LET roots == LayerRoots
             IN  \A r \in roots : \A n \in Layer(r) : node[n].ver.root <=> n \in roots
====
