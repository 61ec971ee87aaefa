# Verification of yakushima

yakushima is a header-only C++17 library (`include/*.h`): an in-memory ordered
key-value store on a concurrent trie of B+-trees ("layers", after Masstree).
Readers take no locks; they validate what they read against a version word in
each node. Writers lock single nodes, bottom up. Memory taken out of the tree is
released by epoch-based reclamation.

This directory holds TLA+ modules translated from that code, TLC configurations
that check them on small instances, and proofs checked by TLAPS.
`PROJECT.json` maps every definition to the lines it stands for and lists
the components, runs, mutants, findings, hazards and theorems. Line numbers
below are lines of `include/`.

## 1. Inventory

| component | state | operations | correct when |
|---|---|---|---|
| node version (`version.h`) | one 64-bit word: locked, inserting_deleting, splitting, deleted, root, border, and two 29-bit counters | lock, unlock, flag setters (load + CAS loops), get_stable_version | the lock excludes; an unlock moves a counter for each announced change; a validated read saw no announced write; no flag update is lost |
| permutation (`permutation.h`) | 16 nibbles: key count and slot of each rank | get_empty_slot, insert, delete_rank, inc/dec_key_num, split_dest, get_lowest_key_pos | the word is the sorted list of live slots; no slot is in it twice; a reader of a word between two stores is not misled |
| border node (`border_node.h`, `base_node.h`, `border_helper.h`, `link_or_value.h`) | version, permutation, key slices, values or links, parent, prev, next | get_lv_of, insert_lv, delete_of/delete_at, border_split | keys sorted and unique; values released once; chain agrees with the tree |
| interior node (`interior_node.h`, `interior_helper.h`, `common_helper.h`, `tree_instance.h`) | version, keys, children, parent; the root pointer | find_border, get_child_of, insert, interior_split, delete_of, swap_child, create_interior_parent | every key is found by descent; parents agree with children; root pointer and root bit agree |
| get, put, remove (`interface_*.h`, `kvs.h`) | locals of a call | the retries and re-checks around the above | answers are explained by a map at an instant of the call |
| scan (`interface_scan.h`, `scan_helper.h`) | tuple list, node_version_vec | walk along the chain, through layers | keys within the endpoints, ascending, none missed that was there all along; a later insertion moves a logged version |
| sessions, epochs, GC (`thread_info*.h`, `manager_thread.h`, `garbage_collection.h`, `epoch.h`) | session slots, epoch, gc_epoch, containers and caches | enter, leave, epoch_thread, gc_thread | what a session reads outlives it; nothing is lost or released twice; reclamation proceeds |
| storages (`storage*.h`) | a tree from names to trees | create, delete, find, list | a name denotes one tree |
| values and links (`value.h`, `link_or_value.h`) | a tagged 64-bit word | set_value, set_next_layer, init_lv | tag bits and content agree |
| key slices and order (`base_node.h`, `scheme.h`) | 8-byte slice and length | comparison of (slice, length) | agrees with lexicographic order |
| start, stop, destruction (`interface_helper.h`, `interface_destroy.h`, `destroy_manager.h`) | thread end flags, room counter | init, fin, destroy | everything is released, init after fin works |
| logging, display, memory usage, platform helpers | none | reporting | - |
| benchmarks and tests | none | drivers | - |

How they meet. `put`, `get`, `remove` and `scan` load the storage's root
pointer, go down with `find_border` and work on a border node. The node version
is the only synchronisation between them: readers compare two stable versions,
writers compare counters again after they have locked. A border split or an
emptied border node goes on upwards through `lock_parent`, one locked node at a
time. Removed nodes and replaced values go to the containers of the caller's
session slot (token), tagged with the session's begin epoch. Two background
threads work on the slots: the epoch thread advances the epoch and derives
gc_epoch from the begin epochs; the gc thread pops the containers and deletes
what is older than gc_epoch.

What is hard. Deletions do not raise `inserting_deleting` (`border_node.h:128`
is commented out), so readers see them unannounced; the permutation is stored
twice in a deletion; `border_split` unlocks the halves before the parent knows
the new one; a collapse makes a child the root in three stores without locking
it; `root` is changed in nodes somebody else has locked; the begin epoch of a
session is loaded and stored in two steps; the minimum over the slots is
collected while sessions come and go. The list of hazards in `PROJECT.json`
gives each place with the property that watches it.

## 2. Modules

```
VersionBody --- NodeVersion --- NodeVersionProofs        KeySlots --- MCKeySlots
     |               `--------- MCNodeVersion               |  `--- KeySlotsProofs
     |                                                      `-- PermutationOps
     +--- BorderNode --- MCBorderNode
     |      |   |  `---- BorderNodeProofs --- BorderNodeLinear
     |      |   `-- PermutationOps --- PermutationProofs (used by BorderNodeProofs, KeySlotsProofs)
     |      `-- KVStore (INSTANCE ... WITH, refinement)
     |                                                   EpochGC --- EpochGCProofs
     +--- Tree --- MCTree                                   `------ MCEpochGC
     `------`----- Scan --- MCScan
                                                         Destroy --- Storage --- MCStorage
                                                                      `--- StorageProofs --- StorageReleased
```

* **VersionBody** - the record `node_version64_body`: its pure setters, what
  `unlock` makes of a word (counters + 1 modulo `VPeriod`, dirty bits off) and
  `stable`. The counters' period is a constant (2^29 in the code).
* **NodeVersion** - one word shared by `Threads`. Every mutator is `Call`,
  `Load`, `CasSuccess` or `CasFail`; a spinning `lock` waits in `Load`. Readers
  are `BeginRead`, `Validate`, `EndRead`; `Write` is the holder's change of a
  protected member. The rules about who calls what (only the holder raises
  dirty bits, anybody may change `root`) are those of the callers in the tree
  code. History variables record the lock owner, the last flag
  values and what happened during a read. A weak CAS that fails spuriously is a
  retry with the same word, which is a stuttering step here (for `lock`, a new
  load).
* **PermutationOps** - the permutation word as an array of nibbles `0 .. L` with
  the shifts and masks of `permutation.h`. **PermutationProofs** states what each of
  them does to each nibble.
* **KeySlots** - the data of a border node at the level of bytes: slices padded
  with zeros, lengths modulo `LenPeriod`, every comparison the code makes of
  (slice, length) pairs (`compute_rank_if_insert`, `get_lv_of`,
  `border_split`, `get_child_of`, the endpoints of scan), and the permutation word
  store by store. The reference is the order of byte strings, kept beside it as
  the set of keys put and not removed.
* **KVStore** - the promise of `kvs.h`: an abstract map; a writer takes
  effect at an instant of its call, a reader reports something that was true
  during its call, and a scan lists the keys of one instant.
* **BorderNode** - get, put, put with unique_restriction, remove and full scan
  on one border node, one action per load or store others can see. `ReadKeys`
  (the key loop of `get_lv_of`) is one step over the current keys of the slots
  in the local permutation copy: key slots are written only under a raised
  dirty bit, so a loop that overlaps a write fails `CheckVersion` whichever mixture
  it saw. `lock()` and the setters are single steps, which NodeVersion justifies.
* **Tree** - a trie of layers: `find_border`, get, put and remove with
  `border_split`, `create_interior_parent_of_*`, `interior_split`,
  `interior_node::insert`, the creation of a layer under a value or beside it,
  the emptying of a border node with the chain update, the removal of a link
  when its layer is empty, `interior_node::delete_of` and its collapse below no
  parent, an interior node or a border node, and the retirement of nodes. A key
  is a sequence of slices; the entry of a value under slice `s` is `2s`, that of
  a link `2s + 1` (a link sorts after the value of the same slice, as its length
  is greater). Announced writes to one locked node are one step, since readers
  wait for the lock or find that a counter has moved. `delete_at` announces nothing: its
  two stores of the permutation (`RemoveKey` or `DeleteLink`, then `DecKeyNum`) are two
  steps, and `over` and `slot0` say what a reader finds in between (below). Stores to nodes that are not locked
  (`set_root`, `store_root_ptr`, the link and the root bit of a collapse in a lower layer) are
  steps of their own, with these exceptions: `SplitBorder` includes `next->set_prev` and
  the `set_parent` of moved layers (`border_helper.h:180`, `:201`), `SplitInterior` the
  `set_parent` of moved children (`interior_node.h:302`), and `Adopt` the `set_parent` of the
  child with the unlock of its parent (`interior_node.h:77`). A parent pointer is used
  by `lock_parent` only, which waits for the lock of the node it points to and then
  reads the pointer again, and all of these are stored while the old parent is locked; prev is
  read by the holder of a lock that locks what it points to, here the node being split, and then
  reads it again.
* **Scan** - extends Tree by one thread that scans: `scan`, `scan_border` and
  `scan_check_retry`, with the stack of layers, endpoints, max_size,
  node_version_vec and the retries from the node, from the layer's root and from
  the beginning. It only reads the variables of Tree; what it may have met
  (which keys were there throughout, which at some time) is recorded beside it. A
  permutation loaded between the two stores of a deletion has slot 0 as an additional
  last rank; what is read there is marked (`extra`).
* **Destroy** - the recursive `destroy` of border and interior nodes that
  `destroy()` (`interface_destroy.h`) and delete_storage call on the root of a tree, the threads started for children while
  `destroy_manager::check_room` allows it, and their join.
* **Storage** - extends Destroy by `create_storage` and `delete_storage` step by
  step over the tree of storages, by `init` and `fin` with the end flags of the
  epoch and the gc thread, and by a second `init`.
* **EpochGC** - session slots, epoch thread, gc thread and the retirement of
  items, each load and store a step. An item is a node (unlinked, then pushed)
  or a value (pushed, then unlinked, as `delete_at` does, or unlinked first, as
  an update does).
* **MC...** - instances. `MCTree`, `MCScan` and `MCStorage` give scenes: an initial
  trie or stock of storages together with the calls each thread may make, chosen
  to bring one structure change and what can disturb it about. `MCBorderNode`
  gives casts (`Menu`) and numbers of calls (`MaxOps`).

How the parts are cut: each module takes the parts below it at the grain the module
below suggests. NodeVersion justifies single-step locks and setters. BorderNode explores
the loads within one node, and shows two things: an announced write never gets past
the validation (`Linearizable`), and the word between the two stores of a deletion does
(`PresenceTrue` is violated). So Tree and Scan take the validated read of one node as one step,
at a stable version or at that word: `FetchLv` and `ReadPerm` are enabled in both, and at that
word see the ranks that are left and slot 0 once more. KeySlots shows that
descent and ranks follow string order, so Tree orders whole entries; EpochGC
shows when retired memory goes, so Tree ends at the retirement.

All modules assume sequentially consistent memory. The code uses acquire and
release orders almost everywhere; `set_begin_epoch` and `set_running` are stores
with relaxed order (`thread_info.h:46`, `:50`), whose additional
reorderings are not explored.

## 3. Runs

Passing runs:

| run | question | instance |
|---|---|---|
| MCNodeVersion | `TypeOK`, `Mutex`, `ReaderSound`, `FlagsNotLost` | 2 threads, any sequence of calls, counters of period 2 so that they wrap |
| MCKeySlots | `Represents`, `LookupExact`, `DescentRight`, `ScanBounds` | 3 slots, slices of 2 bytes, bytes 0 and 1, every string up to a slice and links; endpoints with lengths past the period of the length type |
| MCBorderNodeRW | `Linearizable`: get, put, unique put and scan implement KVStore; `CallsReturn` | a reader/writer with 1 call and a writer with 2, 2 keys, every initial arrangement of slots |
| MCBorderNode | `TypeOK`, `SortedUnique`, `ValuesReleasedOnce`, `AbsenceTrue`, `ChangesRequested`, with removes | 2 threads, 1 and 2 calls, 3 keys in 3 slots |
| MCEpochGC | `TypeOK`, `SlotExclusive`, `RetiredAccounted`, `GcBehindSessions`, `NoUseAfterFree` | 2 clients, 2 slots, 1 value, epochs 1..3 |
| MCEpochLive | `EpochAdvances`, `Reclaimed` | 2 clients that compete for 1 slot, 2 nodes, so that one waits behind the cached one, epochs 1..3 |
| MCScan | the trie: `TypeOK`, `KeysFound`, `LeafChain`, `ParentsRight`, `AnswersTrue`, `RootBitSet`, `RetiredUnlinked`, `DeletedStays`, `CallsReturn`; the scan: `ScanSound`, `ScanComplete`, `ScanAscending`, `NoPhantom`, `LimitCutsOff` | fan-out 3, 41 scenes: 10 of growth, 10 of removal, 2 with two removers, 4 with three threads, 15 with a scan and up to two threads that disturb it; 2 of removal and 5 of scan lead readers to slot 0 between the stores of a deletion |
| MCStorage | `RoomExact`, `BottomUp`, `TreesReleasedOnce`, `StopsAndReturns` | 3 clients, 2 names, 3 trees, 3 session slots, room for 2 threads, 2 rounds of init and fin |

Runs that show a disagreement between the code and what its comments say
(section 6): MCBorderLostPut, MCBorderStaleGet, MCEpochLate, MCTreeRootBit.
With two removers that empty the two leaves of one root `RootBitSet` does not
hold; the scenes of MCScan with two removers therefore empty neighbours under a
root with a third leaf, or a lower layer.

Every property of a passing run has a mutant in `PROJECT.json`: a definition
of the model changed as a plausible slip would change the code (a dropped
re-check, a plain store for a CAS, a key too far), under which TLC
finds the property violated. The mutated forms stand beside the originals, in
comments called "a plausible slip".

What some of the properties turn on:

* `KeysFound` descends from the root pointer through every layer as an
  undisturbed `find_border` would and asks for exactly the keys of the abstract
  set, in every state in which no node is locked (every change that is under
  way holds a lock).
* `ScanComplete` and `ScanSound` compare the answer of a scan with the keys that
  were there from its beginning to its end, and those that were there at some
  time. `NoPhantom` is the promise of `node_version_vec`: a key inserted into
  the scanned range after the scan moves a version the caller has been given.
* What a reader finds at slot 0 between the two stores of a deletion may be a removed key
  or a key it has already seen. `AnswersTrue`, `ScanSound` and `ScanAscending` say so: a
  get or put that was led there (`dead`) may answer OK though the key was not there during the
  call, and a tuple that was read there (`extra`) may be a removed key or out of order.
  A "not found", and everything read elsewhere, is held to the full promise, and
  `ScanComplete` has no exception. The scenes DeadValue, DeadLink, ScanTwice,
  ScanLayerTwice, ScanDead, ScanDeadLink and ScanCleared reach the exceptions.
* `TreesReleasedOnce` names its one exception: two deletes of one name and a
  create between them. A delete that looked up the first tree may remove the
  entry of the second, so that the second tree is leaked, or the first is destroyed
  twice. `kvs.h:64` allows create_storage and delete_storage to be processed in
  parallel.
* `StopsAndReturns` holds also for a second init. `fin` never clears the end flags
  (`manager_thread.h:94`), so the threads of the second init end
  after one round; nothing waits for them in vain.

### Bounds

* `Fan = 3` (15 in the code). `interior_split` computes the sizes of its halves
  from the parity of `key_slice_length / 2`; 3 has the same residue modulo 4 as
  15 and takes the same branch (`TreeAssumption`); for other residues the
  formula would be wrong. A node of three keys is
  full, splits unevenly and has a first, a middle and a last position.
* `L = 3` slots in BorderNode and KeySlots: first, middle and last rank and
  a full word all occur; the code's 15 differs only in length. `W = 2` bytes per
  slice (8 in the code) with the bytes 0 and 1: zero bytes that padding could
  confuse with absent ones, and strings that differ in the last byte only.
* `VPeriod = 2` in MCNodeVersion, so that a reader can be overtaken by a full
  period; 16 in the runs of Tree and 8 in those of BorderNode, more than the increments the bounded calls can make, so
  that wraps do not blur the other properties. In BorderNode a period of increments
  during one call is left out altogether (`NotOvertaken`, a guard of `UnlockPut`): 2^29
  insertions into one node between two loads of a get or scan would make it take a new
  version for the one it has read, which is the usual limit of version counters and not
  what its properties are about. NodeVersion keeps the wrap.
* Calls per thread are 1 or 2: one call to be disturbed and up to
  two to disturb it. Instead of long prefixes the instances start from every
  arrangement of the node (BorderNode) or from tries such prefixes lead to
  (the scenes). Three layers occur (`Cascade`, `ScanCascade`, `Endpoints`), so a layer
  that is neither the first nor the last does.
* `MaxNodes = 12` exceeds what the bounded calls can allocate, so its guard
  never blocks (deadlock is checked).
* `MaxEpoch = 3`: an item is retired in one epoch and is released at the
  earliest two epochs later, so three epochs hold a whole life. The epoch
  thread stops at the bound, the rest of the system goes on.
* `NSlots = 1` in MCEpochLive: sessions follow one another, and a client waits for the
  slot. Sessions that overlap are in MCEpochGC (2 slots); `EpochAdvances` also holds
  for `NSlots = 2` without items (115,440 states), while 2 slots with an item are too
  many states for a liveness check.
* `Concurrency = 2` in Storage: a destroyer gets room or does not, and two compete for
  the last. Exploration stops after a double destroy, which is undefined
  behaviour.
* Threads are symmetric where all have the same menu; runs with casts or scenes, and
  the liveness runs, use no symmetry.

### Fairness

BorderNode, Tree and Scan assume weak fairness of each thread's steps inside a
call: the operating system schedules every thread. A test-and-set lock gives no
turn-taking, but the number of calls is finite, so a waiting thread faces
finitely many other holders and weak fairness suffices. `CallsReturn` says that
again and again no call is in progress, which for finitely many calls means that
each returns. Nothing forces a new call. EpochGC assumes that the two background
threads are scheduled, that `enter` and the retirement in progress are carried to
their ends and that an application that entered a session leaves it (`kvs.h` asks
for it); nobody is made to enter again. Storage assumes that each client, the main
thread and the two background threads are scheduled, and of the destroyers only
that some one of them runs.

## 4. Proofs

`NodeVersionProofs` proves, for every set of threads and every counter period
`VPeriod` greater than one (the named assumption of VersionBody), that `Spec`
implies `[]TypeOK`, `[]Mutex`, `[]ReaderSound` and `[]FlagsNotLost`. The
inductive invariant `IInv` consists of these and of what they need:

* `CallInv` - what a thread between load and CAS knows: only the owner is
  inside a holder's call, a waiting `lock` has loaded an unlocked word, and no owner
  is waiting for the lock. Without it a successful CAS of `unlock` or of a
  setter could belong to a thread that does not hold the lock.
* `RaisedInv` - `raised` implies a dirty bit in the word, so a `Write` never
  happens under a stable word.
* `CleanInv` - conversely, a dirty bit is up only while `raised`: the holder
  that has not raised one may validate under its own lock, as put and remove do.
* `ReadInv` - while a read is open, the current counters are those it started
  with plus the increments counted since, modulo `VPeriod` (until the count is
  capped), and a changed member means a counted increment or a dirty bit that will
  become one. This links `changed` to the comparison of counters and is what
  makes `ReaderSound` inductive.

`EpochGCProofs` proves, for every set of clients and items, every number of
slots and every bound on the epoch (`EpochAssumption`: at least one slot and one
epoch, nodes and values distinct, None none of them), that `Spec` implies `[]TypeOK`,
`[]SlotExclusive`, `[]GcBehindSessions`, `[]NoUseAfterFree` and
`[]RetiredAccounted`. The argument, in the order of its invariants:

* `SlotInv`, `IdleInv`, `BeginInv` - a slot has one session, only a session in
  progress holds or retires anything, and its begin epoch is at most the epoch in
  which it was published.
* `GcInv` - in the second pass of the epoch thread, every session whose slot
  was passed is either in the minimum or began after the epoch moved. So
  gc_epoch, and any copy of it, is below the epoch in which each session began, even
  if gc_epoch moves backwards, which late sessions can make it do.
* `WaitInv` - while a session that published in time lasts, the epoch is at
  most one ahead of it, and the verify pass has not gone past its slot in that
  case.
* `VictimInv`, `WaitingInv` (`Sheltered`) - an item retired in time is either
  still linked, with its retirer in session, or its tag is at most one epoch below
  the begin of any session that holds it. A release needs a tag below gc_epoch,
  which `GcInv` puts below every holder: a contradiction.
* `OwnInv`, `AccountInv` - an item has at most one retirer, which either has pushed
  it and not unlinked it yet or the other way round; and a gc pass that pops from a
  queue has emptied the cache of that slot, so what it keeps back overwrites nothing.
  With these no retired item is lost between queue, cache and release, or is in two
  of these places.

`PermutationProofs` says nibble by nibble what `insert` and `delete_rank` make of a
permutation word, for every number `L` of slots, that words stay words, and that
`get_empty_slot` finds a slot that no rank names.

`BorderNodeProofs` proves, for every number of slots, keys, threads and calls and
every menu, removes included, that `Spec` implies `[]TypeOK`, `[]SortedUnique`,
`[]ValuesReleasedOnce`, `[]AbsenceTrue` and the action property `ChangesRequested`.
It assumes no more than the module does: keys are numbers, no more than fit into
the node (a split is Tree's), and None and the values are distinct. The inductive
invariant `IInv`:

* `LockInv`, `CallInv` - one thread is at a label where the lock is held, the dirty
  bit is up as long as it inserts, and a call is where its type lets it be.
* `NodeInv` - the first `Count` ranks of the word are slots with ascending keys *at
  every step*, also between the two stores of an insertion or deletion. `Count` is
  the number of keys in the word, less one in that gap; what is beyond
  it may be a stale or doubled rank, and `SortedUnique` speaks of the
  unlocked node only, where there is no gap.
* `HolderInv` - what the holder of the lock has established: the key is not there
  before its insertion, the free slot it has chosen is no live one, the copy of the
  word it shifts is the word but for the count.
* `ReaderInv` - as long as no insertion was begun since a reader's fetch
  (`SameEra`: version unmoved and no dirty bit), the word it has read up to some
  rank contains every key of the node (`Covers`), and what it found is the only
  place its key can be (`Found`). Deletions may have happened, announced by
  nothing; they only take keys away, which keeps both. This is why an absence
  that passed its check is true, and why put and remove may act under the lock on
  what they found before it.
* `KvInv`, `SeenInv` - the node holds the abstract map, except for the key its
  locked writer is changing, and a call has seen the map as it is now.
* `ValueInv` - a value is in one slot, or retired, or freed, and the value of a call
  that has not stored it is in none.

Where the code loops over ranks the proofs need no induction: `get_empty_slot` and
`compute_rank_if_insert` return a least number with a property. That every nonempty
set of naturals has a least element is lemma `Least`, from the well-foundedness of `<`;
that a slot is free is a pigeonhole argument (`PigeonHole`, `Room`).

`BorderNodeLinear` proves the refinement: if no thread's menu has remove
(`NoRemoves`), `Spec` implies `Linearizable`, the specification of KVStore under
the mapping of module BorderNode: get, put, unique put and full scan are explained
by an abstract map, for all instances. Its invariant `LInv` adds to `IInv` that a slot once found
stays the slot of its key, that a word read in the same era is the node's word,
that a value read is one the map had during the call, or will have when the
current holder unlocks (`Pending`; a reader that has met it waits for a stable
version, and so for that unlock), and that the list of a scan is
the first ranks of the node. The hypothesis is the one MCBorderNodeRW has, and is needed:
with removes, MCBorderStaleGet and MCBorderLostPut are counterexamples.

`StorageProofs` proves, for any trees (each a set of paths with numbers of
children), names, clients, sessions, concurrency and rounds of init and fin, that
`Spec` of Storage implies `[]RoomExact` and `[]BottomUp`. It assumes of the constants that a
shape is a tree (every node but the root is the child of a node), that the storages a
scene begins with have different names, and that None is no number and no client. The inductive invariant `IInv`:

* `ActInv` - a `destroy()` has called exactly children before its index, and the one
  at it only while it waits for that call; the threads it has yet to join are
  different children among those. Each item is the child of one other item, at one place
  (`OneParent`), so no two activations ever join, or wait for, the same thread.
* `RoomInv` - the threads that run are finitely many and the counter is their number.
* `FreedInv` - what an activation has behind its index is released, or a thread that it
  will join is at it (`Behind`). So the loop ends, and the joins return, only when all
  below is released.
* `StoragesInv`, `TableInv`, `CallInv` - the children of the tree of storages are the
  names of the moment, so the argument needs that nobody creates or deletes while it is
  destroyed: it is destroyed by fin alone, when no call is in progress. A tree
  that a failed create releases at once is a single empty border node.

`StorageReleased` proves `[]TreesReleasedOnce` from it. No tree is destroyed twice and
none is left when fin returns, except the two trees that one delete_storage took for each
other. `JInv` is inductive only as long as nothing was destroyed twice; Storage
stops there, as the code would be in undefined behaviour. Its parts:

* `CreateInv` - a tree in the making is known to its creator alone, so that a failed create
  may release it without a look at anybody else.
* `LookedUpInv` - two calls destroy the same tree, or one destroys a tree that has a name, only
  if an earlier delete_storage took one tree for another (`mixed` records which): this is
  the exception the property names, and the proof shows that it is the only one.
* `EntryInv` - the entry of a tree is in the tree of storages, then in the container of one
  session, then released.
* `OnceInv`, `CallerInv` - a released node has ended its `destroy()`, a released value is
  behind the index of its node, and whoever called `destroy()` of a root is still at it or
  has set the instance to null.
* `WhereInv`, `ContainersInv` - a tree that was made is named, in the hands of a call,
  on fin's list or released, and the containers are emptied before their table is gone; so
  when fin ends nothing is left. That the release of a root means that of all below it is
  `BottomUp` along the path: the shortest path to a node not released has a parent that is.

`KeySlotsProofs` proves, for any slice width `W`, any bytes, any keys and endpoints made of
them, and any fan-out `L` with `L % 4 = 3`, that `Spec` of KeySlots implies `[]Represents`,
`[]LookupExact`, `[]DescentRight` and `[]ScanBounds`. The fan-out is 15 in the code, and
`interior_split` relies on its being of that form: it gives the new node `L \div 2` pivots
only when that is odd (`interior_helper.h:81`), and otherwise loses one. The argument:

* The comparisons. A stored key (`Key`) is a slice that is zero behind its length. The
  order of strings is the order of slices, then of lengths (`StringOrder`, from the
  first byte where two slices differ: no induction), and each comparison the code
  has is that order or equality: whole slices (`MatchesIs`, `BeforeIs`), the bytes both
  keys have (`PrefixBeforeIs`), the endpoint of a scan (`ScanSkipsRight`), and, for one whose
  length is cut to its type, an order that errs to the left only (`ScanGoesLeft`).
* The inductive invariant `IInv` says which of five things is looked at. `NodeMode`:
  the word lists exactly the keys held, ascending, and is zero above (`NodeLists`); the zeros
  are what makes the next `insert` right. `InsertMode` and `DeleteMode`: the
  node between the two stores, where the count is one more than the ranks that are right.
  `SplitMode`: two nodes, each of which lists its side of the pivot. `ParentMode`:
  pivots in ascending order, before and after `interior_split`.
* The split. `Shrunk`, a recursive function, deletes the upper ranks one at a time; `ShrunkIs` gives
  the word after each deletion in closed form, which satisfies the recursion, and the least
  index at which the two could differ is a contradiction. `SplitResult` shows that
  the key of the put goes to the half it belongs to, also when only lengths differ
  from the pivot, and that the pivot stays in slot 0, since a new least key goes left.

Only model-checked: all liveness (fairness and ENABLED are outside the prover), and
everything about Tree and Scan. None of them has a RECURSIVE operator; their theorems
are the further work of section 5.

## 5. Not modelled, and the plan

Not modelled:

* display and memory-usage reports, logging, the wrappers of built-in atomics,
  benchmarks: no state of their own;
* `permutation::rearrange` and `key_tuple`, which nothing but tests uses;
* the tag bits of `link_or_value` and `value`: where values and links are stored,
  replaced and released is modelled, the 64-bit encoding is not. An inline
  `uintptr_t` with bit 62 or 63 set would be taken for a pointer or a link
  (`scheme.h:205`);
* `concurrent_queue`, a library queue; and memory orders weaker than sequential
  consistency (section 2).

The further work is proof:

1. `TypeOK` and `DeletedStays` of Tree, then an inductive invariant for its parent and
   root pointers;
2. the properties of Scan, which presuppose all of Tree's.

## 6. Findings

Each is a counterexample of TLC; `PROJECT.json` quotes the line it contradicts.

* **MCBorderLostPut** (`interface_put.h:184`) - put re-checks only
  `vinsert_delete` under the lock, not its key. A put that loaded the permutation between
  the two stores of a deletion and found its key in slot 0, which is dead, writes
  its value there and answers OK. remove looks its key up again.
* **MCBorderStaleGet** (`border_node.h:57`) - a deletion stores the permutation
  twice and announces nothing. In between, the last rank reads slot 0, and a get
  of a key removed long before from that slot answers OK. In Scan the same word makes a
  scan report a removed key, or the key of slot 0 a second time, behind the larger
  ones (k1, k3, k1 when k2 goes).
* **MCEpochLate** (`thread_info_table.h:27`) - the epoch can advance between
  the load and the store of a session's begin epoch; what that session retires
  has an old tag and is released while others hold it. `NoUseAfterFree`, proved
  for all instances, shows that this is the only way.
* **MCTreeRootBit** (`border_node.h:144`) - the root pointer is tested and
  the root bit cleared in two steps; a collapse in between leaves a root without
  its bit.

Other behaviours the models have, and the passing runs therefore exclude by
their scenes or leave unsaid:

* `AbsenceTrue` shows that no present key is missed through the two stores of a
  deletion; but a get racing a remove can read a slot that `init_lv` has cleared
  (`border_node.h:52`), and a scan can meet a key twice or meet a removed one.
  `Linearizable` is therefore stated without removes, and the properties of Tree and
  Scan name what was read at slot 0 (section 3).
* A value that a lost put left in a dead slot is deleted at once by the next
  insertion into the slot (`link_or_value.h:150`).
* Two removers that empty the leaves of one root can leave a surviving root
  whose next is retired (`border_node.h:165`); two collapses, one above the
  other, can make a deleted interior node the root for a moment, and a third
  thread's `find_border` then returns nullptr (`common_helper.h:57`; the TODO at
  `interface_remove.h:72`; the label "null" in Tree, which no passing run reaches).
* `border_split` unlocks the new border node before it gives it a parent
  (`border_helper.h:315`). A remover that empties a layer below may lock the node in
  that window, empty it, find no parent and leave it as "remain empty deleted root
  node" (`border_node.h:172`), though the split then puts it under its parent: a leaf
  that is deleted stays in the tree. The scenes of MCScan have no layer that is emptied
  below a border node being split, and `KeysFound` and `CallsReturn` say nothing of that case.
* Scan with `l_end` INF goes down with `l_key` although `kvs.h:214` says it is
  ignored; the scenes pass the empty key there.
* `max_size`, which "limits the number of results" (`kvs.h:232`), ends the scan
  of one layer; the loop of the layer above reports its next slot before it looks
  at the limit again (`scan_helper.h:315`), so more keys than asked for are
  reported. `LimitCutsOff` states what holds for ranges without links.
* A scan that ends at a link behind its right endpoint logs no version for that
  border node (`scan_helper.h:303`), though the same end at a value does ("it is
  included in the phantom verification", `scan_helper.h:391`). A key put before
  the link afterwards is not noticed. `NoPhantom` names this exception
  (`LinkBehind`).

What the structure turned out to rest on: a put or get that follows a link need
not check the link again, since the root bit of what it points to tells whether the layer is
still that one. A stale link in a freed slot, which a call can follow (scene DeadLink),
is noticed in the same way as long as the node it leads to is not released: Tree ends at the
retirement, and a link removed before the session began may lead to memory that is gone.
`border_split` may read the pivot of the new node after unlocking it
(`border_helper.h:323`) because the parent is locked by then.
