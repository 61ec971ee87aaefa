---- MODULE BorderNode ----
(***************************************************************************)
(* get, put, remove and scan on a tree that is one border node, the root   *)
(* of its layer (include/interface_*.h, border_node.h, border_helper.h,    *)
(* scan_helper.h), at the granularity of the loads and stores other        *)
(* threads can see.  The keys fit the node, so no split and no layer below *)
(* occurs; module Tree models those.                                       *)
(*                                                                         *)
(* The readers read the permutation in one load, then the keys of its      *)
(* slots, and validate with a second stable version.  The version moves on *)
(* insertions only: border_node::delete_of does not raise                  *)
(* inserting_deleting.  lock() and the flag setters are single steps here; *)
(* NodeVersion shows that they may be.                                     *)
(***************************************************************************)
EXTENDS VersionBody, PermutationOps, FiniteSets, Sequences, Functions

CONSTANTS
    Keys,       \* key slices, as numbers in their memcmp order
    Threads,    \* client threads
    Menu,       \* Menu[t]: the operations t calls
    MaxOps,     \* MaxOps[t]: bound on the calls of t
    Inline,     \* kIsInline: the value is stored in the slot itself
    None        \* no value, no slot: nullptr

ASSUME BorderAssumption ==
    /\ Keys \subseteq Nat
    /\ IsFiniteSet(Keys) /\ Cardinality(Keys) <= L
    /\ MaxOps \in [Threads -> Nat] /\ Inline \in BOOLEAN
    /\ Menu \in [Threads -> SUBSET {"get", "put", "insert", "remove", "scan"}]
    /\ "init" \notin Threads      \* the values of the start are nobody's

\* Values: what the node holds at first, and one fresh value for each call.
Values == (UNION {{t} \X (1 .. MaxOps[t]) : t \in Threads}) \cup ({"init"} \X Keys)

ASSUME NoneAssumption == None \notin Slot \cup Values \cup (Keys \X (Values \cup {None}))

VARIABLES
    ver,        \* version_ of the node
    perm,       \* permutation_
    key,        \* key[s]: the key in slot s, stale when s is not live
    lv,         \* lv[s]: the value in slot s, None after init_lv
    pc,         \* pc[t]: where t is in its call
    v,          \* v[t]: the stable version of t's fetch
    lw,         \* lw[t]: t's local copy of the permutation
    slot,       \* slot[t]: the slot t found, or None
    out,        \* out[t]: the value t read
    acc,        \* acc[t]: the tuple_list of t's scan
    calls,      \* calls[t]: calls made by t
    req, resp,  \* the request of t and its answer, as in KVStore
    kv,         \* history: the node's content at its last unlock
    seen,       \* history: as in KVStore
    removed,    \* history: req[t].key was removed, not reinserted, since
    retired,    \* history: values pushed to a GC container
    freed       \* history: values released at once

node == <<ver, perm, key, lv>>
local == <<v, lw, slot, out, acc>>
history == <<kv, seen, removed, retired, freed>>
vars == <<node, pc, local, calls, req, resp, history>>

\* kv, req, resp and seen are those of KVStore: the node's abstract value.
KV == INSTANCE KVStore WITH Keys <- Keys, Values <- Values, Threads <- Threads, None <- None,
                            kv <- kv, req <- req, resp <- resp, seen <- seen

-----------------------------------------------------------------------------
(* Reading the node.                                                       *)

\* A plausible slip in Lookup: the first key not below k is taken for k.
LookupNear(w, k) ==
    LET idx(r)  == get_index_of_rank(w, r)
        reached == {r \in 0 .. get_cnk(w) - 1 : key[idx(r)] >= k}
    IN  IF reached = {} THEN None ELSE idx(CHOOSE r \in reached : \A q \in reached : r <= q)

\* The loop of get_lv_of: ranks in order, up to the first key not below k.
Lookup(w, k) ==
    LET idx(r)  == get_index_of_rank(w, r)
        reached == {r \in 0 .. get_cnk(w) - 1 : key[idx(r)] >= k}
        first   == CHOOSE r \in reached : \A q \in reached : r <= q
    IN  IF reached = {} \/ key[idx(first)] # k THEN None ELSE idx(first)

\* The map the node holds: its live slots.
Content(w, ks, vals) ==
    [k \in Keys |->
        LET here == {s \in Live(w) : ks[s] = k}
        IN  IF here = {} THEN None ELSE vals[CHOOSE s \in here : TRUE]]

\* A node the program can be in: some keys, in any free slots (inserts and
\* removes of the past), the dead slots with a key that is no longer there.
\* Without a key it is the root create_storage made, or one that was emptied.
Init ==
    /\ \E n \in 0 .. L, stale \in Keys, emptied \in BOOLEAN :
        \E sorted \in {f \in [1 .. n -> Keys] : \A i, j \in 1 .. n : i < j => f[i] < f[j]},
           order \in {o \in [1 .. n -> Slot] : IsInjective(o)} :
            /\ perm = [j \in 0 .. L |-> IF j = 0 THEN n ELSE IF j <= n THEN order[j] ELSE 0]
            /\ key = [s \in Slot |-> IF \E j \in 1 .. n : order[j] = s
                                     THEN sorted[CHOOSE j \in 1 .. n : order[j] = s]
                                     ELSE stale]
            /\ lv = [s \in Slot |-> IF Inline \/ \E j \in 1 .. n : order[j] = s
                                    THEN <<"init", key[s]>> ELSE None]
            /\ ver = [InitBody EXCEPT !.root = TRUE, !.border = TRUE, !.deleted = emptied]
            /\ emptied => n = 0
    /\ kv = Content(perm, key, lv)
    /\ pc = [t \in Threads |-> "idle"]
    /\ v = [t \in Threads |-> InitBody]
    /\ lw = [t \in Threads |-> EmptyWord]
    /\ slot = [t \in Threads |-> None]
    /\ out = [t \in Threads |-> None]
    /\ acc = [t \in Threads |-> <<>>]
    /\ calls = [t \in Threads |-> 0]
    /\ req = [t \in Threads |-> None]
    /\ resp = [t \in Threads |-> KV!Answer("idle", None)]
    /\ seen = [t \in Threads |-> {}]
    /\ removed = [t \in Threads |-> FALSE]
    /\ retired = {}
    /\ freed = {}

-----------------------------------------------------------------------------
(* Calls and answers.                                                      *)

Invoke(t, y, k) ==
    /\ resp[t].st # "pending"
    /\ calls[t] < MaxOps[t]
    /\ calls' = [calls EXCEPT ![t] = @ + 1]
    /\ req' = [req EXCEPT ![t] = [type |-> y, key |-> k, val |-> <<t, calls'[t]>>]]
    /\ resp' = [resp EXCEPT ![t] = KV!Answer("pending", None)]
    /\ pc' = [pc EXCEPT ![t] = IF y = "scan" THEN "scan_border" ELSE "fetch"]
    /\ seen' = [seen EXCEPT ![t] = {KV!View(req'[t], kv)}]
    /\ removed' = [removed EXCEPT ![t] = FALSE]
    /\ UNCHANGED <<node, local, kv, retired, freed>>

\* t's call returns with answer a; its locals go out of scope.
Return(t, a) ==
    /\ pc' = [pc EXCEPT ![t] = "idle"]
    /\ resp' = [resp EXCEPT ![t] = a]
    /\ v' = [v EXCEPT ![t] = InitBody]
    /\ lw' = [lw EXCEPT ![t] = EmptyWord]
    /\ slot' = [slot EXCEPT ![t] = None]
    /\ out' = [out EXCEPT ![t] = None]
    /\ acc' = [acc EXCEPT ![t] = <<>>]
    /\ UNCHANGED <<calls, req>>

Goto(t, label) == pc' = [pc EXCEPT ![t] = label]

\* The history of an unlock that publishes what the node now holds.
Publish ==
    /\ kv' = Content(perm', key', lv')
    /\ seen' = KV!SeenAfter(kv')
    /\ removed' = [t \in Threads |->
                     IF resp[t].st # "pending" THEN removed[t]
                     ELSE LET k == req[t].key
                          IN  IF kv[k] # None /\ kv'[k] = None THEN TRUE
                              ELSE IF kv'[k] # None THEN FALSE ELSE removed[t]]

-----------------------------------------------------------------------------
(* get_lv_of: stable version, permutation, keys, second stable version.    *)

FetchVersion(t) ==
    /\ pc[t] = "fetch"
    /\ stable(ver)
    /\ v' = [v EXCEPT ![t] = ver]
    /\ Goto(t, "perm")
    /\ UNCHANGED <<node, lw, slot, out, acc, calls, req, resp, history>>

ReadPermutation(t) ==
    /\ pc[t] = "perm"
    /\ lw' = [lw EXCEPT ![t] = perm]
    /\ Goto(t, "keys")
    /\ UNCHANGED <<node, v, slot, out, acc, calls, req, resp, history>>

ReadKeys(t) ==
    /\ pc[t] = "keys"
    /\ slot' = [slot EXCEPT ![t] = Lookup(lw[t], req[t].key)]
    /\ Goto(t, "check")
    /\ UNCHANGED <<node, v, lw, out, acc, calls, req, resp, history>>

\* Where the call goes once the slot is known.
AfterFetch(t) ==
    CASE req[t].type = "get"    -> "value"
      [] req[t].type = "remove" -> IF slot[t] = None THEN "absent" ELSE "lock_remove"
      [] OTHER                  -> IF slot[t] = None THEN "lock_insert" ELSE "lock_update"

\* A plausible slip in CheckVersion: the second version is not compared.
CheckNothing(t) ==
    /\ pc[t] = "check"
    /\ stable(ver)
    /\ \/ /\ req[t].type = "get" /\ slot[t] = None
          /\ Return(t, KV!Answer("NOT_FOUND", None))
       \/ /\ req[t].type = "insert" /\ slot[t] # None
          /\ Return(t, KV!Answer("UNIQUE", None))
       \/ /\ ~(req[t].type = "get" /\ slot[t] = None)
          /\ ~(req[t].type = "insert" /\ slot[t] # None)
          /\ Goto(t, AfterFetch(t))
          /\ UNCHANGED <<local, calls, req, resp>>
    /\ UNCHANGED <<node, history>>

\* The end of get_lv_of, and the answers that need nothing more: a missing
\* key for get, a present one for put with unique_restriction.
CheckVersion(t) ==
    /\ pc[t] = "check"
    /\ stable(ver)
    /\ \/ /\ ver # v[t]
          /\ v' = [v EXCEPT ![t] = ver]
          /\ Goto(t, "perm")
          /\ UNCHANGED <<lw, slot, out, acc, calls, req, resp>>
       \/ /\ ver = v[t]
          /\ \/ /\ req[t].type = "get" /\ slot[t] = None
                /\ Return(t, KV!Answer("NOT_FOUND", None))
             \/ /\ req[t].type = "insert" /\ slot[t] # None
                /\ Return(t, KV!Answer("UNIQUE", None))
             \/ /\ ~(req[t].type = "get" /\ slot[t] = None)
                /\ ~(req[t].type = "insert" /\ slot[t] # None)
                /\ Goto(t, AfterFetch(t))
                /\ UNCHANGED <<local, calls, req, resp>>
    /\ UNCHANGED <<node, history>>

-----------------------------------------------------------------------------
(* get.                                                                    *)

ReadValue(t) ==
    /\ pc[t] = "value"
    /\ out' = [out EXCEPT ![t] = lv[slot[t]]]
    /\ Goto(t, "final")
    /\ UNCHANGED <<node, v, lw, slot, acc, calls, req, resp, history>>

\* final_check: a moved vinsert_delete sends the call back to get_lv_of.
FinalCheck(t) ==
    /\ pc[t] = "final"
    /\ stable(ver)
    /\ IF ver.vinsert_delete = v[t].vinsert_delete
       THEN Return(t, KV!Answer("OK", out[t]))
       ELSE Goto(t, "fetch") /\ UNCHANGED <<local, calls, req, resp>>
    /\ UNCHANGED <<node, history>>

-----------------------------------------------------------------------------
(* put.                                                                    *)

\* A plausible slip in LockRetry: back to the lock, not to retry_fetch_lv.
LockRetryAgain(t) ==
    /\ pc[t] \in {"lock_insert", "lock_update", "lock_remove"}
    /\ ~ver.locked
    /\ ver.vinsert_delete # v[t].vinsert_delete
    /\ UNCHANGED vars

\* Locked, but the node changed since the fetch: unlock, goto retry_fetch_lv.
LockRetry(t) ==
    /\ pc[t] \in {"lock_insert", "lock_update", "lock_remove"}
    /\ ~ver.locked
    /\ ver.vinsert_delete # v[t].vinsert_delete
    /\ Goto(t, "fetch")
    /\ UNCHANGED <<node, local, calls, req, resp, history>>

\* A plausible slip in LockInsert: no re-check of the version under the lock.
LockInsertUnchecked(t) ==
    /\ pc[t] = "lock_insert"
    /\ ~ver.locked
    /\ ver' = [ver EXCEPT !.locked = TRUE, !.inserting_deleting = TRUE,
                          !.deleted = IF get_cnk(perm) = 0 THEN FALSE ELSE @]
    /\ Goto(t, "insert_slot")
    /\ UNCHANGED <<perm, key, lv, local, calls, req, resp, history>>

\* Locked and unchanged.  insert_lv raises the dirty bit and revives a node
\* that was emptied.
LockInsert(t) ==
    /\ pc[t] = "lock_insert"
    /\ ~ver.locked
    /\ ver.vinsert_delete = v[t].vinsert_delete
    /\ ver' = [ver EXCEPT !.locked = TRUE, !.inserting_deleting = TRUE,
                          !.deleted = IF get_cnk(perm) = 0 THEN FALSE ELSE @]
    /\ Goto(t, "insert_slot")
    /\ UNCHANGED <<perm, key, lv, local, calls, req, resp, history>>

\* link_or_value::set_value without old_value: a value found in the slot is
\* deleted on the spot.
InsertSlot(t) ==
    /\ pc[t] = "insert_slot"
    /\ LET s == get_empty_slot(perm)
       IN  /\ key' = [key EXCEPT ![s] = req[t].key]
           /\ lv' = [lv EXCEPT ![s] = req[t].val]
           /\ freed' = IF Inline \/ lv[s] = None THEN freed ELSE freed \cup {lv[s]}
           /\ slot' = [slot EXCEPT ![t] = s]
    /\ Goto(t, "insert_count")
    /\ UNCHANGED <<ver, perm, v, lw, out, acc, calls, req, resp, kv, seen, removed, retired>>

\* A plausible slip in InsertCount: the count is raised twice.
InsertCountTwice(t) ==
    /\ pc[t] = "insert_count"
    /\ perm' = inc_key_num(inc_key_num(perm))
    /\ lw' = [lw EXCEPT ![t] = perm]
    /\ Goto(t, "insert_rank")
    /\ UNCHANGED <<ver, key, lv, v, slot, out, acc, calls, req, resp, history>>

InsertCount(t) ==
    /\ pc[t] = "insert_count"
    /\ perm' = inc_key_num(perm)
    /\ lw' = [lw EXCEPT ![t] = perm]
    /\ Goto(t, "insert_rank")
    /\ UNCHANGED <<ver, key, lv, v, slot, out, acc, calls, req, resp, history>>

\* A plausible slip in compute_rank_if_insert: counted from the wrong end.
RankFromAbove(w, k) ==
    Cardinality({r \in 0 .. get_cnk(w) - 1 : key[get_index_of_rank(w, r)] > k})

\* compute_rank_if_insert: the ranks whose keys are below k.
compute_rank_if_insert(w, k) ==
    Cardinality({r \in 0 .. get_cnk(w) - 1 : key[get_index_of_rank(w, r)] < k})

\* The rank was computed before the count was raised, on the word in lw[t].
InsertRank(t) ==
    /\ pc[t] = "insert_rank"
    /\ perm' = insert(perm, compute_rank_if_insert(lw[t], req[t].key), slot[t])
    /\ Goto(t, "unlock_put")
    /\ UNCHANGED <<ver, key, lv, local, calls, req, resp, history>>

LockUpdate(t) ==
    /\ pc[t] = "lock_update"
    /\ ~ver.locked
    /\ ver.vinsert_delete = v[t].vinsert_delete
    /\ ver' = [ver EXCEPT !.locked = TRUE]
    /\ Goto(t, "update_slot")
    /\ UNCHANGED <<perm, key, lv, local, calls, req, resp, history>>

\* set_value with old_value: the old value goes to the GC container.
UpdateSlot(t) ==
    /\ pc[t] = "update_slot"
    /\ lv' = [lv EXCEPT ![slot[t]] = req[t].val]
    /\ retired' = IF Inline \/ lv[slot[t]] = None THEN retired
                                                  ELSE retired \cup {lv[slot[t]]}
    /\ Goto(t, "unlock_put")
    /\ UNCHANGED <<ver, perm, key, local, calls, req, resp, kv, seen, removed, freed>>

\* The bound on versions: no running call is overtaken by as many insertions as
\* the counter has values, 2^29 in the code, so that the counter would come back to what
\* the call has fetched.  NodeVersion has counters that wrap.
Fetched(u) == pc[u] \notin {"idle", "fetch", "scan_border"}
NotOvertaken ==
    ver.inserting_deleting =>
        \A u \in Threads : Fetched(u) => inc(ver.vinsert_delete) # v[u].vinsert_delete

UnlockPut(t) ==
    /\ pc[t] = "unlock_put" /\ NotOvertaken
    /\ ver' = unlocked(ver)
    /\ UNCHANGED <<perm, key, lv>>
    /\ Publish
    /\ Return(t, KV!Answer("OK", None))
    /\ UNCHANGED <<retired, freed>>

-----------------------------------------------------------------------------
(* remove.                                                                 *)

\* Not found: one more look at the version decides.
RemoveAbsent(t) ==
    /\ pc[t] = "absent"
    /\ stable(ver)
    /\ IF ver.vinsert_delete = v[t].vinsert_delete
       THEN Return(t, KV!Answer("NOT_FOUND", None))
       ELSE Goto(t, "fetch") /\ UNCHANGED <<local, calls, req, resp>>
    /\ UNCHANGED <<node, history>>

\* Locked and unchanged: looked up again, because deletes are not tracked.
LockRemove(t) ==
    /\ pc[t] = "lock_remove"
    /\ ~ver.locked
    /\ ver.vinsert_delete = v[t].vinsert_delete
    /\ LET s == Lookup(perm, req[t].key)
       IN  IF s = None
           THEN /\ Return(t, KV!Answer("NOT_FOUND", None))
                /\ UNCHANGED ver
           ELSE /\ slot' = [slot EXCEPT ![t] = s]
                /\ ver' = [ver EXCEPT !.locked = TRUE]
                /\ Goto(t, "delete_value")
                /\ UNCHANGED <<v, lw, out, acc, calls, req, resp>>
    /\ UNCHANGED <<perm, key, lv, history>>

\* A plausible slip in DeleteValue: the slot is not cleared.
DeleteValueKept(t) ==
    /\ pc[t] = "delete_value"
    /\ retired' = IF Inline \/ lv[slot[t]] = None THEN retired
                                                  ELSE retired \cup {lv[slot[t]]}
    /\ Goto(t, "delete_rank")
    /\ UNCHANGED <<node, local, calls, req, resp, kv, seen, removed, freed>>

\* delete_at: a value behind a pointer goes to the GC container and the slot
\* is cleared; an inline value stays where it is.
DeleteValue(t) ==
    /\ pc[t] = "delete_value"
    /\ IF Inline \/ lv[slot[t]] = None
       THEN UNCHANGED <<lv, retired>>
       ELSE /\ retired' = retired \cup {lv[slot[t]]}
            /\ lv' = [lv EXCEPT ![slot[t]] = None]
    /\ Goto(t, "delete_rank")
    /\ UNCHANGED <<ver, perm, key, local, calls, req, resp, kv, seen, removed, freed>>

\* delete_at: first store to the permutation.
DeleteRank(t) ==
    /\ pc[t] = "delete_rank"
    /\ \E r \in 0 .. get_cnk(perm) - 1 :
          /\ get_index_of_rank(perm, r) = slot[t]
          /\ perm' = delete_rank(perm, r)
    /\ Goto(t, "delete_count")
    /\ UNCHANGED <<ver, key, lv, local, calls, req, resp, history>>

DeleteCount(t) ==
    /\ pc[t] = "delete_count"
    /\ perm' = dec_key_num(perm)
    /\ Goto(t, "unlock_remove")
    /\ UNCHANGED <<ver, key, lv, local, calls, req, resp, history>>

\* The last key leaves an empty root: marked deleted, kept as the root.
UnlockRemove(t) ==
    /\ pc[t] = "unlock_remove"
    /\ ver' = unlocked([ver EXCEPT !.deleted = IF get_cnk(perm) = 0 THEN TRUE ELSE @])
    /\ UNCHANGED <<perm, key, lv>>
    /\ Publish
    /\ Return(t, KV!Answer("OK", None))
    /\ UNCHANGED <<retired, freed>>

-----------------------------------------------------------------------------
(* scan over the whole range.                                              *)

ScanBorder(t) ==
    /\ pc[t] = "scan_border"
    /\ stable(ver)
    /\ IF ver.deleted
       THEN Return(t, KV!Answer("OK", <<>>))
       ELSE /\ v' = [v EXCEPT ![t] = ver]
            /\ Goto(t, "scan_perm")
            /\ UNCHANGED <<lw, slot, out, acc, calls, req, resp>>
    /\ UNCHANGED <<node, history>>

ScanPermutation(t) ==
    /\ pc[t] = "scan_perm"
    /\ lw' = [lw EXCEPT ![t] = perm]
    /\ Goto(t, "scan_slot")
    /\ UNCHANGED <<node, v, slot, out, acc, calls, req, resp, history>>

\* The next rank's key and value, or the end of the node.
ScanSlot(t) ==
    /\ pc[t] = "scan_slot"
    /\ IF Len(acc[t]) < get_cnk(lw[t])
       THEN LET s == get_index_of_rank(lw[t], Len(acc[t]))
            IN  out' = [out EXCEPT ![t] = <<key[s], lv[s]>>]
       ELSE out' = [out EXCEPT ![t] = None]
    /\ Goto(t, "scan_check")
    /\ UNCHANGED <<node, v, lw, slot, acc, calls, req, resp, history>>

\* scan_check_retry, after each slot and at the end.
ScanCheck(t) ==
    /\ pc[t] = "scan_check"
    /\ stable(ver)
    /\ \/ /\ ver # v[t]
          /\ acc' = [acc EXCEPT ![t] = <<>>]
          /\ v' = [v EXCEPT ![t] = ver]
          /\ Goto(t, IF ver.deleted THEN "scan_border" ELSE "scan_perm")
          /\ UNCHANGED <<lw, slot, out, calls, req, resp>>
       \/ /\ ver = v[t]
          /\ IF out[t] = None
             THEN Return(t, KV!Answer("OK", acc[t]))
             ELSE /\ acc' = [acc EXCEPT ![t] = Append(@, out[t])]
                  /\ Goto(t, "scan_slot")
                  /\ UNCHANGED <<v, lw, slot, out, calls, req, resp>>
    /\ UNCHANGED <<node, history>>

Step(t) ==
    \/ FetchVersion(t) \/ ReadPermutation(t) \/ ReadKeys(t) \/ CheckVersion(t)
    \/ ReadValue(t) \/ FinalCheck(t)
    \/ LockRetry(t)
    \/ LockInsert(t) \/ InsertSlot(t) \/ InsertCount(t) \/ InsertRank(t)
    \/ LockUpdate(t) \/ UpdateSlot(t) \/ UnlockPut(t)
    \/ RemoveAbsent(t) \/ LockRemove(t) \/ DeleteValue(t) \/ DeleteRank(t)
    \/ DeleteCount(t) \/ UnlockRemove(t)
    \/ ScanBorder(t) \/ ScanPermutation(t) \/ ScanSlot(t) \/ ScanCheck(t)

\* Every thread made all its calls.
Finished == /\ \A t \in Threads : calls[t] = MaxOps[t] /\ resp[t].st # "pending"
            /\ UNCHANGED vars

Next ==
    \/ \E t \in Threads :
          \/ \E y \in Menu[t], k \in Keys : Invoke(t, y, k)
          \/ Step(t)
    \/ Finished

\* The operating system schedules every thread.
Fairness == \A t \in Threads : WF_vars(Step(t))

Spec == Init /\ [][Next]_vars
FairSpec == Spec /\ Fairness

-----------------------------------------------------------------------------
(* Properties.                                                             *)

\* Every variable keeps its type: slots stay inside the node.
TypeOK ==
    /\ ver \in Body /\ perm \in Word
    /\ key \in [Slot -> Keys] /\ lv \in [Slot -> Values \cup {None}]
    /\ v \in [Threads -> Body] /\ lw \in [Threads -> Word]
    /\ slot \in [Threads -> Slot \cup {None}]
    /\ calls \in [Threads -> Nat]
    /\ kv \in [Keys -> Values \cup {None}]
    /\ retired \subseteq Values /\ freed \subseteq Values

\* The promise of kvs.h, when no remove runs: every call of get, put and scan
\* is explained by the abstract map.
Linearizable == KV!Spec

\* Whoever locks the node finds its keys strictly ascending in rank order:
\* concurrent inserts never add a key twice (put re-checks vinsert_delete).
SortedUnique ==
    ~ver.locked =>
        \A i, j \in 0 .. get_cnk(perm) - 1 :
            i < j => key[get_index_of_rank(perm, i)] < key[get_index_of_rank(perm, j)]

\* No value is both handed to the GC and released at once (delete_at pushes and
\* clears, set_value deletes what it finds), and one the unlocked node still points
\* to was neither, whatever stale puts wrote into dead slots (pointer values).
ValuesReleasedOnce ==
    /\ retired \cap freed = {}
    /\ ~ver.locked /\ ~Inline =>
          \A s \in Live(perm) : lv[s] # None /\ lv[s] \notin retired \cup freed

\* A key reported missing by get or remove was missing at some instant of the
\* call: a deletion that moves ranks hides no other key from a reader.
AbsenceTrue ==
    \A t \in Threads :
        resp[t].st = "NOT_FOUND" => None \in seen[t]

\* The node changes only as some pending request asks, one key at a time.
ChangesRequested ==
    [][kv' # kv =>
        \E t \in Threads :
            /\ resp[t].st = "pending" /\ resp'[t].st # "pending"
            /\ kv' = [kv EXCEPT ![req[t].key] =
                        IF req[t].type = "remove" THEN None ELSE req[t].val]]_vars

\* With every thread scheduled, every call returns: no retry loop of get_lv_of,
\* put, remove or scan runs for ever.  The calls are finitely many, so again and
\* again none is in progress.
CallsReturn == []<>(\A t \in Threads : resp[t].st # "pending")

\* A put that answers OK stored its value, if only for a removal of the key
\* during the call to take it away again.
PutStored ==
    \A t \in Threads :
        resp[t].st = "OK" /\ req[t].type = "put" =>
            req[t].val \in seen[t] \/ removed[t]

\* kvs.h of get: "status::WARN_NOT_EXIST The target storage of this operation
\* exists, but the target entry of the storage does not exist."  So get answers OK
\* only for a key that was in the node at some instant of the call.
PresenceTrue ==
    \A t \in Threads :
        resp[t].st = "OK" /\ req[t].type = "get" => seen[t] # {None}
====
