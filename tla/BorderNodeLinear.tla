---- MODULE BorderNodeLinear ----
(***************************************************************************)
(* BorderNode implements KVStore when no thread calls remove: get, put and *)
(* scan are explained by the abstract map, for any fan-out, keys, threads  *)
(* and number of calls.                                                    *)
(***************************************************************************)
EXTENDS BorderNodeProofs

-----------------------------------------------------------------------------
(* The invariant of the histories without remove.                          *)

\* No thread calls remove.
NoRemoves == \A t \in Threads : "remove" \notin Menu[t]

\* The slot t found is the one of its key.
SlotLive(t) ==
    /\ slot[t] \in Slot /\ key[slot[t]] = req[t].key
    /\ \E i \in 1 .. Count : perm[i] = slot[t]

\* A value of k that the map had during the call of t ...
Past(t, k, x) ==
    IF req[t].type = "scan" THEN \E m \in seen[t] : m[k] = x ELSE x \in seen[t]

\* ... or has as soon as the thread with the lock gives it up.
Pending(k, x) == \E h \in Threads : pc[h] = "unlock_put" /\ req[h].key = k /\ req[h].val = x

Reportable(t, k, x) == x \in Values /\ (Past(t, k, x) \/ Pending(k, x))

\* The list of a scan has the keys of the first ranks, each with a value of the past.
Listed(t) ==
    /\ acc[t] \in Seq(Keys \X Values) /\ Len(acc[t]) <= perm[0]
    /\ \A i \in 1 .. Len(acc[t]) :
          acc[t][i][1] = key[perm[i]] /\ Past(t, acc[t][i][1], acc[t][i][2])

\* The entry a scan has read comes next, or there is none.
Met(t) ==
    IF Len(acc[t]) < perm[0]
    THEN LET k == key[perm[Len(acc[t]) + 1]]
         IN  \E x \in Values : out[t] = <<k, x>> /\ Reportable(t, k, x)
    ELSE out[t] = None

\* What a call knows when nothing is ever removed: a slot once found stays the slot
\* of its key, and as long as no insertion was begun the word read is the node's.
Knows(t) ==
    /\ pc[t] # "idle" => req[t].type # "remove"
    /\ pc[t] \in {"lock_update", "update_slot"} => req[t].type = "put"
    /\ pc[t] \in {"keys", "scan_slot", "scan_check"} /\ SameEra(t) => lw[t] = perm
    /\ pc[t] = "check" /\ SameEra(t) /\ slot[t] # None => SlotLive(t)
    /\ pc[t] \in {"value", "lock_update", "update_slot"} => SlotLive(t)
    /\ pc[t] = "unlock_put" =>
          /\ Has(perm, Count, key, req[t].key)
          /\ req[t].type = "insert" => kv[req[t].key] = None
    /\ pc[t] = "final" => Reportable(t, req[t].key, out[t])
    /\ pc[t] \notin {"scan_slot", "scan_check"} => acc[t] = <<>>
    /\ pc[t] \in {"scan_slot", "scan_check"} /\ SameEra(t) => Listed(t)
    /\ pc[t] = "scan_check" /\ SameEra(t) => Met(t)

\* A node marked deleted is empty, and stays so until the mark is taken away.
DeletedEmpty == ver.deleted => perm[0] = 0 /\ \A t \in Threads : pc[t] \notin InsertLabels

LInv == DeletedEmpty /\ \A t \in Threads : Knows(t)

-----------------------------------------------------------------------------
(* What the invariants say together.                                       *)

\* Nothing is being removed.
LEMMA NothingRemoved ==
    ASSUME IInv, LInv, NEW t \in Threads
    PROVE  pc[t] \notin DeleteLabels \cup {"lock_remove", "absent"}
<1>1. CallRight(t) /\ Knows(t)
  BY DEF IInv, CallInv, LInv
<1> QED BY <1>1 DEF CallRight, Knows, DeleteLabels

\* Only an insertion opens a gap between the count and the keys.
LEMMA CountExact ==
    ASSUME IInv, LInv, ~ver.inserting_deleting
    PROVE  Count = perm[0] /\ perm[0] \in 0 .. L
<1>1. ASSUME NEW t \in Threads PROVE pc[t] \notin {"insert_rank", "delete_count"}
  BY NothingRemoved DEF IInv, LockInv, InsertLabels, DeleteLabels
<1>2. Count = perm[0]
  BY <1>1 DEF Count, Gap
<1> QED BY <1>2, WordType DEF IInv, TypeOK

\* A key of the node has a value: that of the map, or the one about to be.
LEMMA LiveValue ==
    ASSUME IInv, LInv, NEW i \in 1 .. Count
    PROVE  /\ key[perm[i]] \in Keys /\ lv[perm[i]] \in Values
           /\ lv[perm[i]] = kv[key[perm[i]]] \/ Pending(key[perm[i]], lv[perm[i]])
<1>1. perm[i] \in Slot /\ key[perm[i]] \in Keys
  BY Constants DEF IInv, NodeInv, InSlots, TypeOK
<1>2. \A t \in Threads : pc[t] # "delete_rank"
  BY NothingRemoved DEF DeleteLabels
<1>3. lv[perm[i]] \in Values
  BY <1>1, <1>2 DEF IInv, ValueInv, TypeOK
<1>4. CASE \E h \in Threads : pc[h] = "unlock_put" /\ req[h].key = key[perm[i]]
  BY <1>1, <1>3, <1>4 DEF IInv, HolderInv, HolderKnows, Pending
<1>5. CASE \A h \in Threads : pc[h] = "unlock_put" => req[h].key # key[perm[i]]
  BY <1>1, <1>2, <1>3, <1>5 DEF IInv, KvInv
<1> QED BY <1>1, <1>3, <1>4, <1>5

\* So whoever reads it during a call may report it.
LEMMA LiveReportable ==
    ASSUME IInv, LInv, NEW i \in 1 .. Count, NEW t \in Threads, pc[t] # "idle",
           req[t].type = "scan" \/ req[t].key = key[perm[i]]
    PROVE  Reportable(t, key[perm[i]], lv[perm[i]])
<1>1. /\ lv[perm[i]] \in Values
      /\ lv[perm[i]] = kv[key[perm[i]]] \/ Pending(key[perm[i]], lv[perm[i]])
  BY LiveValue
<1>2. KV!View(req[t], kv) \in seen[t]
  BY DEF IInv, SeenInv
<1>3. lv[perm[i]] = kv[key[perm[i]]] => Past(t, key[perm[i]], lv[perm[i]])
  BY <1>2 DEF Past, KV!View
<1> QED BY <1>1, <1>3 DEF Reportable

\* Nothing is about to change while the node is not locked.
LEMMA UnlockedPast ==
    ASSUME IInv, ~ver.locked, NEW t, NEW k, NEW x, Reportable(t, k, x)
    PROVE  x \in Values /\ Past(t, k, x)
BY DEF IInv, LockInv, Holding, Reportable, Pending

\* The map is what the node holds while the node is not locked.
LEMMA UnlockedMap ==
    ASSUME IInv, LInv, ~ver.locked, NEW k \in Keys
    PROVE  /\ Count = perm[0] /\ perm[0] \in 0 .. L
           /\ kv[k] # None <=> Has(perm, perm[0], key, k)
<1>1. ~ver.inserting_deleting /\ \A h \in Threads : pc[h] \notin Holding
  BY DEF IInv, LockInv, Holding, InsertLabels
<1>2. Count = perm[0] /\ perm[0] \in 0 .. L
  BY <1>1, CountExact
<1>3. ASSUME NEW i \in 1 .. Count, key[perm[i]] = k PROVE kv[k] # None
  <2>1. ~Pending(key[perm[i]], lv[perm[i]])
    BY <1>1 DEF Pending, Holding
  <2>2. kv[k] \in Values
    BY <1>3, <2>1, LiveValue
  <2> QED BY <2>2, Constants
<1>4. ~Has(perm, Count, key, k) => kv[k] = None
  BY <1>1 DEF IInv, KvInv, Holding, DeleteLabels
<1> QED BY <1>2, <1>3, <1>4 DEF Has

\* What another call knows survives the step of t: a step that keeps or shows
\* pending values, drops no key, and begins no insertion in that call's era.
LEMMA OthersKnow ==
    ASSUME IInv, LInv, NEW t \in Threads, Only(t), NEW u \in Threads, u # t,
           SameEra(u)' /\ Fetched(u) => SameEra(u) /\ perm' = perm /\ key' = key,
           pc[u] \in Holding => UNCHANGED <<perm, key, kv>> /\ Count' = Count,
           KeysKept,
           pc[u] # "idle" => seen[u] \subseteq seen'[u],
           \A k, x : pc[u] # "idle" /\ Pending(k, x) =>
               Pending(k, x)' \/ (kv'[k] = x /\ KV!View(req[u], kv') \in seen'[u])
    PROVE  Knows(u)'
<1>1. /\ pc'[u] = pc[u] /\ v'[u] = v[u] /\ lw'[u] = lw[u] /\ slot'[u] = slot[u]
      /\ out'[u] = out[u] /\ acc'[u] = acc[u] /\ req'[u] = req[u]
      /\ Knows(u) /\ CallRight(u)
  BY DEF Only, LInv, IInv, CallInv
<1>2. SlotLive(u) => SlotLive(u)'
  BY <1>1 DEF SlotLive, KeysKept
<1>3. ASSUME NEW k, NEW x, pc[u] # "idle", Past(u, k, x) PROVE Past(u, k, x)'
  BY <1>1, <1>3 DEF Past
<1>4. ASSUME NEW k, NEW x, pc[u] # "idle", Reportable(u, k, x),
             req[u].type = "scan" \/ k = req[u].key
      PROVE  Reportable(u, k, x)'
  <2>1. CASE Past(u, k, x)
    BY <1>3, <1>4, <2>1 DEF Reportable
  <2>2. CASE Pending(k, x)'
    BY <1>4, <2>2 DEF Reportable
  <2>3. CASE kv'[k] = x /\ KV!View(req[u], kv') \in seen'[u]
    BY <1>1, <1>4, <2>3 DEF Reportable, Past, KV!View
  <2> QED BY <1>4, <2>1, <2>2, <2>3 DEF Reportable
<1>5. ASSUME pc[u] \in {"keys", "check", "scan_slot", "scan_check"}, SameEra(u)'
      PROVE  SameEra(u) /\ perm' = perm /\ key' = key
  BY <1>5 DEF Fetched
<1>6. ASSUME pc[u] \in {"scan_slot", "scan_check"}, SameEra(u)' PROVE Listed(u)'
  BY <1>1, <1>3, <1>5, <1>6 DEF Knows, Listed
<1>7. ASSUME pc[u] = "scan_check", SameEra(u)' PROVE Met(u)'
  <2>1. Met(u) /\ perm' = perm /\ key' = key /\ req[u].type = "scan"
    BY <1>1, <1>5, <1>7 DEF Knows, CallRight, ScanLabels
  <2>2. CASE Len(acc[u]) < perm[0]
    <3>1. PICK x \in Values :
             /\ out[u] = <<key[perm[Len(acc[u]) + 1]], x>>
             /\ Reportable(u, key[perm[Len(acc[u]) + 1]], x)
      BY <2>1, <2>2 DEF Met
    <3>2. PICK k : k = key[perm[Len(acc[u]) + 1]]
      OBVIOUS
    <3>3. Reportable(u, k, x)'
      BY <1>4, <1>7, <2>1, <3>1, <3>2
    <3> QED BY <1>1, <2>1, <2>2, <3>1, <3>2, <3>3 DEF Met, Reportable, Past, Pending
  <2>3. CASE ~(Len(acc[u]) < perm[0])
    BY <1>1, <2>1, <2>3 DEF Met
  <2> QED BY <2>2, <2>3
<1>8. ASSUME pc[u] = "final" PROVE (Reportable(u, req[u].key, out[u]))'
  <2>1. PICK k, x : k = req[u].key /\ x = out[u]
    OBVIOUS
  <2>2. Reportable(u, k, x)'
    BY <1>1, <1>4, <1>8, <2>1 DEF Knows
  <2> QED BY <1>1, <2>1, <2>2 DEF Reportable, Past, Pending
<1>9. ASSUME pc[u] = "unlock_put"
      PROVE  /\ Has(perm, Count, key, req[u].key)'
             /\ req[u].type = "insert" => kv'[req[u].key] = None
  <2>1. pc[u] \in Holding
    BY <1>9 DEF Holding
  <2> QED BY <1>1, <1>9, <2>1 DEF Knows, Has
<1> QED BY <1>1, <1>2, <1>5, <1>6, <1>7, <1>8, <1>9 DEF Knows

-----------------------------------------------------------------------------
(* Reading steps.                                                          *)

\* A call that returns knows nothing any more.
LEMMA ReturnKnows ==
    ASSUME TypeOK, DomainInv, NEW t \in Threads, NEW a, Return(t, a)
    PROVE  Knows(t)' /\ resp' = [resp EXCEPT ![t] = a] /\ resp'[t] = a
<1>1. pc'[t] = "idle" /\ acc'[t] = <<>> /\ resp'[t] = a
  BY DEF Return, DomainInv
<1> QED BY <1>1 DEF Knows, Return

\* get_lv_of: what t knows after a step of it, and its answers.
LEMMA FetchKnows ==
    ASSUME IInv, LInv, NEW t \in Threads,
           FetchVersion(t) \/ ReadPermutation(t) \/ ReadKeys(t) \/ CheckVersion(t)
    PROVE  Knows(t)' /\ (resp' = resp \/ KV!Report(t))
<1>1. /\ Knows(t) /\ CallRight(t) /\ TypeOK /\ DomainInv /\ LocalFrame(t) /\ Count' = Count
      /\ UNCHANGED <<node, history, calls, req>>
  BY ReadFrame, ReadKeeps DEF Reads, LInv, IInv, CallInv
<1>2. /\ ver' = ver /\ perm' = perm /\ key' = key /\ lv' = lv /\ kv' = kv /\ seen' = seen
      /\ req' = req /\ DOMAIN pc = Threads /\ DOMAIN acc = Threads
  BY <1>1 DEF node, history, DomainInv
<1>3. CASE FetchVersion(t)
  BY <1>1, <1>2, <1>3 DEF FetchVersion, Goto, Knows
<1>4. CASE ReadPermutation(t)
  <2>1. pc[t] = "perm" /\ pc'[t] = "keys" /\ lw'[t] = perm /\ acc' = acc /\ resp' = resp
    BY <1>1, <1>2, <1>4 DEF ReadPermutation, Goto, TypeOK
  <2> QED BY <1>1, <1>2, <2>1 DEF Knows
<1>5. CASE ReadKeys(t)
  <2>1. /\ pc[t] = "keys" /\ pc'[t] = "check" /\ slot'[t] = Lookup(lw[t], req[t].key)
        /\ acc' = acc /\ resp' = resp /\ v' = v
    BY <1>1, <1>2, <1>5 DEF ReadKeys, Goto, TypeOK
  <2>2. ASSUME SameEra(t)', slot'[t] # None PROVE SlotLive(t)'
    <3>1. SameEra(t) /\ ~ver.inserting_deleting
      BY <1>2, <2>1, <2>2 DEF SameEra
    <3>2. lw[t] = perm /\ Count = perm[0]
      BY <1>1, <2>1, <3>1, CountExact DEF Knows
    <3>3. perm \in Word /\ InSlots(perm) /\ req[t].key \in Keys
      BY <1>1, <2>1 DEF IInv, NodeInv, TypeOK, CallRight
    <3>4. /\ slot'[t] \in Slot /\ key[slot'[t]] = req[t].key
          /\ \E i \in 1 .. perm[0] : perm[i] = slot'[t]
      BY <2>1, <2>2, <3>2, <3>3, LookupSound
    <3> QED BY <1>1, <1>2, <3>2, <3>4 DEF SlotLive
  <2> QED BY <1>1, <1>2, <2>1, <2>2 DEF Knows
<1>6. CASE CheckVersion(t)
  <2>1. pc[t] = "check" /\ stable(ver)
    BY <1>6 DEF CheckVersion
  <2>2. CASE ver # v[t] /\ Goto(t, "perm") /\ acc' = acc /\ resp' = resp
    <3>1. pc'[t] = "perm"
      BY <1>2, <2>2 DEF Goto
    <3> QED BY <1>1, <1>2, <2>1, <2>2, <3>1 DEF Knows
  <2>3. ASSUME ver = v[t], slot[t] # None
        PROVE  slot' = slot => SlotLive(t)'
    BY <1>1, <1>2, <2>1, <2>3 DEF Knows, SameEra, stable, SlotLive
  <2>4. CASE req[t].type = "get" /\ Return(t, KV!Answer("NOT_FOUND", None))
    <3>1. /\ Knows(t)' /\ resp' = [resp EXCEPT ![t] = KV!Answer("NOT_FOUND", None)]
          /\ resp'[t] = KV!Answer("NOT_FOUND", None)
      BY <1>1, <2>4, ReturnKnows
    <3>2. None \in seen[t]
      BY <1>6, <3>1, ReadSelf DEF Reads, KV!Answer
    <3> QED BY <1>2, <2>4, <3>1, <3>2 DEF KV!Report
  <2>5. CASE /\ ver = v[t] /\ req[t].type = "insert" /\ slot[t] # None
             /\ Return(t, KV!Answer("UNIQUE", None))
    <3>1. Knows(t)' /\ resp' = [resp EXCEPT ![t] = KV!Answer("UNIQUE", None)]
      BY <1>1, <2>5, ReturnKnows
    <3>2. SlotLive(t) /\ ~ver.locked
      BY <1>1, <2>1, <2>5 DEF Knows, SameEra, stable
    <3>3. req[t].key \in Keys /\ Has(perm, Count, key, req[t].key)
      BY <1>1, <2>1, <3>2 DEF CallRight, SlotLive, Has
    <3>4. kv[req[t].key] # None
      BY <3>2, <3>3, UnlockedMap
    <3>5. kv[req[t].key] \in seen[t]
      BY <2>1, <2>5 DEF IInv, SeenInv, KV!View
    <3> QED BY <1>2, <2>5, <3>1, <3>4, <3>5 DEF KV!Report
  <2>6. CASE /\ ver = v[t] /\ ~(req[t].type = "get" /\ slot[t] = None)
             /\ ~(req[t].type = "insert" /\ slot[t] # None)
             /\ Goto(t, AfterFetch(t)) /\ UNCHANGED <<local, calls, req, resp>>
    <3>1. pc'[t] = AfterFetch(t) /\ slot' = slot /\ acc' = acc /\ resp' = resp
      BY <1>2, <2>6 DEF Goto, local
    <3>2. req[t].type \in {"get", "put", "insert"}
      BY <1>1, <2>1 DEF CallRight, Knows, ScanLabels
    <3>3. slot[t] # None => SlotLive(t)'
      BY <2>3, <2>6, <3>1
    <3>4. CASE req[t].type = "get"
      <4>1. pc'[t] = "value"
        BY <3>1, <3>4 DEF AfterFetch
      <4> QED BY <1>1, <1>2, <2>1, <2>6, <3>1, <3>3, <3>4, <4>1 DEF Knows
    <3>5. CASE req[t].type # "get" /\ slot[t] = None
      <4>1. pc'[t] = "lock_insert"
        BY <3>1, <3>2, <3>5 DEF AfterFetch
      <4> QED BY <1>1, <1>2, <2>1, <3>1, <4>1 DEF Knows
    <3>6. CASE req[t].type # "get" /\ slot[t] # None
      <4>1. pc'[t] = "lock_update"
        BY <3>1, <3>2, <3>6 DEF AfterFetch
      <4> QED BY <1>1, <1>2, <2>1, <2>6, <3>1, <3>2, <3>3, <3>6, <4>1 DEF Knows
    <3> QED BY <3>4, <3>5, <3>6
  <2> QED BY <1>6, <2>2, <2>4, <2>5, <2>6 DEF CheckVersion
<1> QED BY <1>3, <1>4, <1>5, <1>6

\* The rest of get, and the retries: the value read was there during the call.
LEMMA GetKnows ==
    ASSUME IInv, LInv, NEW t \in Threads, ReadValue(t) \/ FinalCheck(t) \/ LockRetry(t)
    PROVE  Knows(t)' /\ (resp' = resp \/ KV!Report(t))
<1>1. /\ Knows(t) /\ CallRight(t) /\ TypeOK /\ DomainInv /\ LocalFrame(t) /\ Count' = Count
      /\ UNCHANGED <<node, history, calls, req>>
  BY ReadFrame, ReadKeeps DEF Reads, LInv, IInv, CallInv
<1>2. /\ ver' = ver /\ perm' = perm /\ key' = key /\ lv' = lv /\ kv' = kv /\ seen' = seen
      /\ req' = req /\ DOMAIN pc = Threads /\ DOMAIN acc = Threads
  BY <1>1 DEF node, history, DomainInv
<1>3. CASE ReadValue(t)
  <2>1. /\ pc[t] = "value" /\ pc'[t] = "final" /\ out'[t] = lv[slot[t]] /\ acc' = acc
        /\ resp' = resp /\ req[t].type = "get"
    BY <1>1, <1>2, <1>3 DEF ReadValue, Goto, DomainInv, CallRight
  <2>2. PICK i \in 1 .. Count : perm[i] = slot[t] /\ key[perm[i]] = req[t].key
    BY <1>1, <2>1 DEF Knows, SlotLive
  <2>3. Reportable(t, req[t].key, lv[slot[t]])
    BY <2>1, <2>2, LiveReportable
  <2>4. \A h \in Threads : pc[h] = "unlock_put" => pc'[h] = "unlock_put"
    BY <1>1, <2>1 DEF LocalFrame, Only
  <2>5. (Reportable(t, req[t].key, out[t]))'
    BY <1>2, <2>1, <2>3, <2>4 DEF Reportable, Past, Pending
  <2> QED BY <1>1, <1>2, <2>1, <2>5 DEF Knows
<1>4. CASE FinalCheck(t)
  <2>1. pc[t] = "final" /\ ~ver.locked /\ req[t].type = "get"
    BY <1>1, <1>4 DEF FinalCheck, stable, CallRight
  <2>2. CASE Return(t, KV!Answer("OK", out[t]))
    <3>1. Knows(t)' /\ resp' = [resp EXCEPT ![t] = KV!Answer("OK", out[t])]
      BY <1>1, <2>2, ReturnKnows
    <3>2. out[t] \in Values /\ Past(t, req[t].key, out[t])
      BY <1>1, <2>1, UnlockedPast DEF Knows
    <3>3. out[t] \in seen[t] \ {None}
      BY <2>1, <3>2, Constants DEF Past
    <3> QED BY <1>2, <2>1, <3>1, <3>3 DEF KV!Report
  <2>3. CASE Goto(t, "fetch") /\ UNCHANGED <<local, calls, req, resp>>
    <3>1. pc'[t] = "fetch" /\ acc' = acc /\ resp' = resp
      BY <1>2, <2>3 DEF Goto, local
    <3> QED BY <1>1, <1>2, <2>1, <3>1 DEF Knows
  <2> QED BY <1>4, <2>2, <2>3 DEF FinalCheck
<1>5. CASE LockRetry(t)
  <2>1. /\ pc'[t] = "fetch" /\ acc' = acc /\ resp' = resp
        /\ pc[t] \in {"lock_insert", "lock_update", "lock_remove"}
    BY <1>2, <1>5 DEF LockRetry, Goto, local
  <2> QED BY <1>1, <1>2, <2>1 DEF Knows
<1> QED BY <1>3, <1>4, <1>5

\* A list of all ranks, made while the node is not locked, is one of the map.
LEMMA NodeListing ==
    ASSUME IInv, LInv, NEW t \in Threads, pc[t] # "idle", req[t].type = "scan", ~ver.locked,
           NEW l \in Seq(Keys \X Values), Len(l) = perm[0],
           \A i \in 1 .. Len(l) : l[i][1] = key[perm[i]] /\ Past(t, l[i][1], l[i][2])
    PROVE  KV!Listing(l, seen[t])
<1>1. ~ver.inserting_deleting
  BY DEF IInv, LockInv, Holding, InsertLabels
<1>2. Count = perm[0] /\ perm[0] \in 0 .. L /\ L \in Nat /\ DOMAIN l = 1 .. perm[0]
  BY <1>1, CountExact, Constants
<1>3. \A i, j \in DOMAIN l : i < j => l[i][1] < l[j][1]
  BY <1>2 DEF IInv, NodeInv, Ascends
<1>4. kv \in seen[t]
  BY DEF IInv, SeenInv, KV!View
<1>5. ASSUME NEW k \in Keys PROVE kv[k] # None <=> \E i \in DOMAIN l : l[i][1] = k
  BY <1>2, UnlockedMap, SMTT(40) DEF Has
<1>6. \A i \in DOMAIN l : l[i][1] \in Keys
  BY <1>2
<1>7. {l[i][1] : i \in DOMAIN l} = {k \in Keys : kv[k] # None}
  BY <1>5, <1>6
<1>8. \A i \in DOMAIN l : \E m \in seen[t] : l[i][2] = m[l[i][1]]
  BY <1>2 DEF Past
<1> QED BY <1>3, <1>4, <1>7, <1>8 DEF KV!Listing

\* scan: its list is that of the node's ranks, or it begins again.
LEMMA ScanKnows ==
    ASSUME IInv, LInv, NEW t \in Threads,
           ScanBorder(t) \/ ScanPermutation(t) \/ ScanSlot(t) \/ ScanCheck(t)
    PROVE  Knows(t)' /\ (resp' = resp \/ KV!Report(t))
<1>1. /\ Knows(t) /\ CallRight(t) /\ TypeOK /\ DomainInv /\ LocalFrame(t) /\ Count' = Count
      /\ UNCHANGED <<node, history, calls, req>>
  BY ReadFrame, ReadKeeps DEF Reads, LInv, IInv, CallInv
<1>2. /\ ver' = ver /\ perm' = perm /\ key' = key /\ lv' = lv /\ kv' = kv /\ seen' = seen
      /\ req' = req /\ DOMAIN pc = Threads /\ DOMAIN acc = Threads /\ DOMAIN out = Threads
  BY <1>1 DEF node, history, DomainInv
<1>3. pc[t] \in ScanLabels /\ pc[t] # "idle" /\ req[t].type = "scan"
  BY <1>1 DEF ScanBorder, ScanPermutation, ScanSlot, ScanCheck, ScanLabels, CallRight
<1>4. ASSUME NEW l, Return(t, KV!Answer("OK", l)), KV!Listing(l, seen[t])
      PROVE  Knows(t)' /\ KV!Report(t)
  <2>1. /\ Knows(t)' /\ resp' = [resp EXCEPT ![t] = KV!Answer("OK", l)]
        /\ resp'[t] = KV!Answer("OK", l)
    BY <1>1, <1>4, ReturnKnows
  <2>2. resp'[t].st = "OK" /\ resp'[t].val = l
    BY <2>1 DEF KV!Answer
  <2> QED BY <1>2, <1>3, <1>4, <2>1, <2>2 DEF KV!Report
<1>5. CASE ScanBorder(t)
  <2>1. pc[t] = "scan_border" /\ ~ver.locked
    BY <1>5 DEF ScanBorder, stable
  <2>2. CASE ver.deleted /\ Return(t, KV!Answer("OK", <<>>))
    <3>1. perm[0] = 0
      BY <2>2 DEF LInv, DeletedEmpty
    <3>2. PICK l : l = <<>>
      OBVIOUS
    <3>3. l \in Seq(Keys \X Values) /\ Len(l) = perm[0] /\ \A i \in 1 .. Len(l) : FALSE
      BY <3>1, <3>2
    <3>4. KV!Listing(l, seen[t])
      BY <1>3, <2>1, <3>3, NodeListing
    <3> QED BY <1>4, <2>2, <3>2, <3>4
  <2>3. CASE Goto(t, "scan_perm") /\ acc' = acc /\ resp' = resp
    <3>1. pc'[t] = "scan_perm"
      BY <1>2, <2>3 DEF Goto
    <3> QED BY <1>1, <1>2, <2>1, <2>3, <3>1 DEF Knows
  <2> QED BY <1>5, <2>2, <2>3 DEF ScanBorder
<1>6. CASE ScanPermutation(t)
  <2>1. /\ pc[t] = "scan_perm" /\ pc'[t] = "scan_slot" /\ lw'[t] = perm /\ acc' = acc
        /\ resp' = resp /\ acc[t] = <<>>
    BY <1>1, <1>2, <1>6 DEF ScanPermutation, Goto, TypeOK, Knows
  <2>2. <<>> \in Seq(Keys \X Values) /\ Len(<<>>) = 0 /\ perm[0] \in 0 .. L
    BY <1>1, WordType DEF TypeOK
  <2>3. Listed(t)'
    BY <1>2, <2>1, <2>2, Constants DEF Listed
  <2> QED BY <1>1, <1>2, <2>1, <2>3 DEF Knows
<1>7. CASE ScanSlot(t)
  <2>1. /\ pc[t] = "scan_slot" /\ pc'[t] = "scan_check" /\ lw' = lw /\ acc' = acc /\ v' = v
        /\ resp' = resp
    BY <1>1, <1>2, <1>7 DEF ScanSlot, Goto
  <2>2. ASSUME SameEra(t)' PROVE lw'[t] = perm /\ Listed(t)' /\ Met(t)'
    <3>1. SameEra(t) /\ ~ver.inserting_deleting
      BY <1>2, <2>1, <2>2 DEF SameEra
    <3>2. lw[t] = perm /\ Listed(t)
      BY <1>1, <2>1, <3>1 DEF Knows
    <3>3. Count = perm[0] /\ perm[0] \in 0 .. L /\ L \in Nat
      BY <3>1, CountExact, Constants
    <3>4. Len(acc[t]) \in Nat /\ Len(acc[t]) <= perm[0]
      BY <3>2 DEF Listed
    <3>5. Listed(t)'
      BY <1>2, <2>1, <3>2 DEF Listed, Past
    <3> DEFINE n == Len(acc[t]) + 1
    <3>6. CASE Len(acc[t]) < perm[0]
      <4>1. n \in 1 .. Count /\ Len(acc[t]) \in 0 .. L - 1
        BY <3>3, <3>4, <3>6
      <4>2. get_index_of_rank(lw[t], Len(acc[t])) = perm[n]
        BY <1>1, <3>2, <4>1, IndexOfRank DEF TypeOK
      <4>3. out'[t] = <<key[perm[n]], lv[perm[n]]>>
        BY <1>2, <1>7, <3>2, <3>6, <4>2 DEF ScanSlot, get_cnk
      <4>4. Reportable(t, key[perm[n]], lv[perm[n]]) /\ lv[perm[n]] \in Values
        BY <1>3, <4>1, LiveReportable, LiveValue
      <4>5. \A h \in Threads : pc[h] = "unlock_put" => pc'[h] = "unlock_put"
        BY <1>1, <2>1 DEF LocalFrame, Only
      <4>6. PICK k, x : k = key[perm[n]] /\ x = lv[perm[n]]
        OBVIOUS
      <4>7. Reportable(t, k, x)'
        BY <1>2, <4>4, <4>5, <4>6 DEF Reportable, Past, Pending
      <4>8. (key[perm[Len(acc[t]) + 1]])' = k
        BY <1>2, <2>1, <4>6
      <4> QED BY <1>2, <2>1, <3>2, <3>5, <3>6, <4>3, <4>4, <4>6, <4>7, <4>8
              DEF Met, Reportable, Past, Pending
    <3>7. CASE ~(Len(acc[t]) < perm[0])
      <4>1. out'[t] = None
        BY <1>2, <1>7, <3>2, <3>7 DEF ScanSlot, get_cnk
      <4> QED BY <1>2, <2>1, <3>2, <3>5, <3>7, <4>1 DEF Met
    <3> QED BY <3>6, <3>7
  <2> QED BY <1>1, <1>2, <2>1, <2>2 DEF Knows
<1>8. CASE ScanCheck(t)
  <2>1. pc[t] = "scan_check" /\ stable(ver) /\ ~ver.locked /\ ~ver.inserting_deleting
    BY <1>8 DEF ScanCheck, stable
  <2>2. CASE /\ acc' = [acc EXCEPT ![t] = <<>>] /\ resp' = resp
             /\ Goto(t, IF ver.deleted THEN "scan_border" ELSE "scan_perm")
    <3>1. acc'[t] = <<>> /\ pc'[t] \in {"scan_border", "scan_perm"}
      BY <1>2, <2>2 DEF Goto
    <3> QED BY <1>1, <1>2, <2>1, <2>2, <3>1 DEF Knows
  <2>3. ASSUME ver = v[t]
        PROVE  /\ SameEra(t) /\ lw[t] = perm /\ Listed(t) /\ Met(t)
               /\ Count = perm[0] /\ perm[0] \in 0 .. L /\ L \in Nat
    BY <1>1, <2>1, <2>3, CountExact, Constants DEF Knows, SameEra
  <2>4. CASE ver = v[t] /\ out[t] = None /\ Return(t, KV!Answer("OK", acc[t]))
    <3>1. Len(acc[t]) = perm[0]
      <4>1. ~(Len(acc[t]) < perm[0])
        <5> SUFFICES ASSUME Len(acc[t]) < perm[0] PROVE FALSE
          OBVIOUS
        <5>1. PICK k \in Keys, x \in Values : out[t] = <<k, x>>
          <6>1. Len(acc[t]) + 1 \in 1 .. Count
            BY <2>3, <2>4 DEF Listed
          <6>2. key[perm[Len(acc[t]) + 1]] \in Keys
            BY <6>1, LiveValue
          <6> QED BY <2>3, <2>4, <6>2 DEF Met
        <5>2. <<k, x>> \in Keys \X (Values \cup {None})
          OBVIOUS
        <5> QED BY <2>4, <5>1, <5>2, NoneAssumption
      <4> QED BY <2>3, <2>4, <4>1 DEF Listed
    <3>2. acc[t] \in Seq(Keys \X Values)
      BY <2>3, <2>4 DEF Listed
    <3>3. KV!Listing(acc[t], seen[t])
      BY <1>3, <2>1, <2>3, <2>4, <3>1, <3>2, NodeListing DEF Listed
    <3> QED BY <1>4, <2>4, <3>3
  <2>5. CASE /\ ver = v[t] /\ out[t] # None /\ acc' = [acc EXCEPT ![t] = Append(@, out[t])]
             /\ Goto(t, "scan_slot") /\ UNCHANGED <<v, lw, slot, out, calls, req, resp>>
    <3>1. pc'[t] = "scan_slot" /\ acc'[t] = Append(acc[t], out[t]) /\ lw' = lw /\ resp' = resp
      BY <1>2, <2>5 DEF Goto
    <3> DEFINE n == Len(acc[t]) + 1
               k == key[perm[n]]
    <3>2. Len(acc[t]) < perm[0]
      BY <2>3, <2>5 DEF Met
    <3>3. PICK x \in Values : out[t] = <<k, x>> /\ Reportable(t, k, x)
      BY <2>3, <2>5, <3>2 DEF Met
    <3>4. Past(t, k, x)
      BY <2>1, <3>3, UnlockedPast
    <3>5. n \in 1 .. Count /\ acc[t] \in Seq(Keys \X Values) /\ n <= perm[0]
      BY <2>3, <2>5, <3>2 DEF Listed
    <3>6. k \in Keys
      BY <3>5, LiveValue
    <3>7. <<k, x>> \in Keys \X Values
      BY <3>6
    <3>8. /\ acc'[t] \in Seq(Keys \X Values) /\ Len(acc'[t]) = n
          /\ \A i \in 1 .. n : acc'[t][i] = IF i = n THEN <<k, x>> ELSE acc[t][i]
      BY <3>1, <3>3, <3>5, <3>7
    <3>9. ASSUME NEW i \in 1 .. n
          PROVE  acc'[t][i][1] = key[perm[i]] /\ Past(t, acc'[t][i][1], acc'[t][i][2])
      <4>1. CASE i = n
        <5>1. acc'[t][i] = <<k, x>>
          BY <3>8, <4>1
        <5>2. acc'[t][i][1] = k /\ acc'[t][i][2] = x
          BY <5>1
        <5> QED BY <3>4, <4>1, <5>2
      <4>2. CASE i # n
        <5>1. i \in 1 .. Len(acc[t])
          BY <3>5, <4>2
        <5> QED BY <2>3, <2>5, <3>8, <4>2, <5>1 DEF Listed
      <4> QED BY <4>1, <4>2
    <3> HIDE DEF n, k
    <3>10. Listed(t)'
      BY <1>2, <3>5, <3>8, <3>9 DEF Listed, Past
    <3>11. lw'[t] = perm
      BY <2>3, <2>5, <3>1
    <3> QED BY <1>1, <1>2, <2>1, <3>1, <3>10, <3>11 DEF Knows
  <2> QED BY <1>8, <2>2, <2>4, <2>5 DEF ScanCheck
<1> QED BY <1>5, <1>6, <1>7, <1>8

\* A step that changes nothing the map's threads see, or one that answers.
Explained(t) == UNCHANGED KV!vars \/ (resp[t].st = "pending" /\ (KV!Put(t) \/ KV!Report(t)))

\* Every reading step.
LEMMA ReadsKnow ==
    ASSUME IInv, LInv, NEW t \in Threads, Reads(t)
    PROVE  LInv' /\ Explained(t)
<1>1. /\ UNCHANGED <<node, history, calls, req>> /\ LocalFrame(t) /\ Count' = Count
      /\ pc[t] \in Reading \ {"idle"} /\ pc'[t] \in Reading
  BY ReadFrame, ReadKeeps DEF IInv
<1>2. /\ ver' = ver /\ perm' = perm /\ key' = key /\ kv' = kv /\ seen' = seen /\ req' = req
      /\ Only(t) /\ pc[t] \notin Holding /\ pc'[t] \notin Holding
  BY <1>1, LabelsDisjoint DEF node, history, LocalFrame
<1>3. pc[t] \notin {"absent", "lock_remove"}
  BY NothingRemoved
<1>4. Knows(t)' /\ (resp' = resp \/ KV!Report(t))
  BY <1>3, FetchKnows, GetKnows, ScanKnows DEF Reads, RemoveAbsent, LockRemove
<1>5. resp[t].st = "pending"
  BY <1>1 DEF IInv, CallInv, CallRight
<1>6. ASSUME NEW u \in Threads, u # t PROVE Knows(u)'
  <2>1. SameEra(u)' => SameEra(u)
    BY <1>2, <1>6 DEF SameEra, Only
  <2>2. KeysKept
    BY <1>1, <1>2 DEF KeysKept
  <2>3. \A k, x : Pending(k, x) => Pending(k, x)'
    BY <1>2 DEF Pending, Only, Holding
  <2> QED BY <1>1, <1>2, <1>6, <2>1, <2>2, <2>3, OthersKnow
<1>7. DeletedEmpty'
  BY <1>2 DEF LInv, DeletedEmpty, Only, Holding
<1>8. Explained(t)
  BY <1>2, <1>4, <1>5 DEF Explained, KV!vars
<1> QED BY <1>4, <1>6, <1>7, <1>8 DEF LInv

-----------------------------------------------------------------------------
(* The other steps.                                                        *)

\* A call begins.
LEMMA InvokeKnows ==
    ASSUME NoRemoves, IInv, LInv, NEW t \in Threads, NEW y \in Menu[t], NEW k \in Keys,
           Invoke(t, y, k)
    PROVE  LInv' /\ KV!Invoke(t)
<1>1. /\ TypeOK /\ DomainInv /\ pc[t] = "idle" /\ resp[t].st # "pending" /\ acc[t] = <<>>
      /\ calls[t] < MaxOps[t] /\ MaxOps[t] \in Nat /\ calls[t] \in Nat
      /\ y \in {"get", "put", "insert", "remove", "scan"} /\ y # "remove"
  BY BorderAssumption DEF IInv, Invoke, CallInv, CallRight, TypeOK, LInv, Knows, NoRemoves
<1>2. /\ calls'[t] = calls[t] + 1 /\ req'[t] = [type |-> y, key |-> k, val |-> <<t, calls'[t]>>]
      /\ pc'[t] \in {"scan_border", "fetch"}
      /\ ver' = ver /\ perm' = perm /\ key' = key /\ lv' = lv /\ kv' = kv
      /\ v' = v /\ lw' = lw /\ slot' = slot /\ out' = out /\ acc' = acc
  BY <1>1 DEF Invoke, TypeOK, DomainInv, node, local
<1>3. Only(t) /\ \A u \in Threads : u # t => seen'[u] = seen[u]
  BY <1>1, <1>2 DEF Invoke, DomainInv, Only, TypeOK, local
<1>4. Count' = Count
  BY <1>1, <1>2, <1>3 DEF Count, Gap, Only
<1>5. Knows(t)'
  BY <1>1, <1>2 DEF Knows
<1>6. ASSUME NEW u \in Threads, u # t PROVE Knows(u)'
  <2>1. SameEra(u)' => SameEra(u)
    BY <1>2 DEF SameEra
  <2>2. KeysKept
    BY <1>2, <1>4 DEF KeysKept
  <2>3. \A j, x : Pending(j, x) => Pending(j, x)'
    BY <1>1, <1>3 DEF Pending, Only
  <2> QED BY <1>2, <1>3, <1>4, <1>6, <2>1, <2>2, <2>3, OthersKnow
<1>7. DeletedEmpty'
  BY <1>2, <1>3 DEF LInv, DeletedEmpty, Only, InsertLabels
<1>8. <<t, calls'[t]>> \in Values
  BY <1>1, <1>2, CallValue
<1>9. req' = [req EXCEPT ![t] = [type |-> y, key |-> k, val |-> <<t, calls'[t]>>]]
  BY DEF Invoke
<1>10. KV!Invoke(t)
  BY <1>1, <1>8, <1>9 DEF Invoke, KV!Invoke
<1> QED BY <1>5, <1>6, <1>7, <1>10 DEF LInv

\* A thread takes the lock: what it found is still the slot of its key.
LEMMA LocksKnow ==
    ASSUME IInv, LInv, NEW t \in Threads, Locks(t)
    PROVE  LInv' /\ Explained(t)
<1>1. /\ perm' = perm /\ key' = key /\ req' = req /\ resp' = resp /\ kv' = kv /\ seen' = seen
      /\ v' = v /\ Only(t) /\ DomainInv
      /\ ver'.vinsert_delete = ver.vinsert_delete /\ ~ver.locked /\ SameEra(t)
      /\ pc[t] \in {"lock_insert", "lock_update", "lock_remove"}
  BY LockFrame DEF history, LocalFrame, IInv
<1>2. LockInsert(t) \/ LockUpdate(t)
  BY NothingRemoved DEF Locks, LockRemove
<1>3. /\ pc'[t] \in {"insert_slot", "update_slot"} /\ acc' = acc /\ slot' = slot
      /\ pc'[t] = "update_slot" => pc[t] = "lock_update"
  BY <1>1, <1>2 DEF LockInsert, LockUpdate, Goto, DomainInv, local
<1>4. /\ \A u \in Threads : u # t => pc[u] \notin Holding /\ pc'[u] \notin Holding
      /\ Gap' <=> Gap
  BY <1>1, <1>3, Alone
<1>5. Count' = Count
  BY <1>1, <1>4 DEF Count
<1>6. SlotLive(t) => SlotLive(t)'
  BY <1>1, <1>3, <1>5 DEF SlotLive
<1>7. Knows(t)'
  <2>1. Knows(t)
    BY DEF LInv
  <2> QED BY <1>1, <1>3, <1>6, <2>1 DEF Knows
<1>8. ASSUME NEW u \in Threads, u # t PROVE Knows(u)'
  <2>1. SameEra(u)' => SameEra(u)
    BY <1>1 DEF SameEra
  <2>2. KeysKept
    BY <1>1, <1>5 DEF KeysKept
  <2>3. \A k, x : ~Pending(k, x)
    BY <1>1, <1>4 DEF Pending, Holding
  <2> QED BY <1>1, <1>4, <1>5, <1>8, <2>1, <2>2, <2>3, OthersKnow
<1>9. DeletedEmpty'
  <2>1. ver \in Body /\ DeletedEmpty
    BY DEF IInv, TypeOK, LInv
  <2>2. CASE LockInsert(t)
    <3>1. ver'.deleted = IF perm[0] = 0 THEN FALSE ELSE ver.deleted
      BY <2>1, <2>2 DEF LockInsert, Body, get_cnk
    <3> QED BY <1>1, <2>1, <3>1 DEF DeletedEmpty
  <2>3. CASE LockUpdate(t)
    <3>1. ver'.deleted = ver.deleted /\ pc'[t] = "update_slot"
      BY <1>1, <2>1, <2>3 DEF LockUpdate, Body, Goto, DomainInv
    <3> QED BY <1>1, <2>1, <3>1 DEF DeletedEmpty, Only, InsertLabels
  <2> QED BY <1>2, <2>2, <2>3
<1>10. Explained(t)
  BY <1>1 DEF Explained, KV!vars
<1> QED BY <1>7, <1>8, <1>9, <1>10 DEF LInv

\* A thread with the lock stores: the others cannot tell before the unlock.
LEMMA WritesKnow ==
    ASSUME IInv, LInv, NEW t \in Threads, Writes(t)
    PROVE  LInv' /\ Explained(t)
<1>1. /\ ver' = ver /\ kv' = kv /\ seen' = seen /\ req' = req /\ resp' = resp /\ v' = v
      /\ Only(t) /\ pc[t] \in Holding /\ DomainInv /\ Knows(t)
  BY WriteFrame DEF IInv, LInv
<1>2. InsertSlot(t) \/ InsertCount(t) \/ InsertRank(t) \/ UpdateSlot(t)
  BY NothingRemoved DEF Writes, DeleteValue, DeleteRank, DeleteCount, DeleteLabels
<1>3. /\ pc[t] \in InsertLabels \cup {"update_slot"} /\ acc' = acc
      /\ pc'[t] \in {"insert_count", "insert_rank", "unlock_put"}
      /\ pc'[t] = "unlock_put" => InsertRank(t) \/ UpdateSlot(t)
      /\ pc[t] \notin InsertLabels => perm' = perm /\ key' = key /\ pc'[t] = "unlock_put"
  BY <1>1, <1>2 DEF InsertSlot, InsertCount, InsertRank, UpdateSlot, Goto, DomainInv, local,
                    InsertLabels
<1>4. KeysKept
  BY <1>2, InsertSlotStep, InsertCountStep, InsertRankStep, UpdateSlotStep
<1>5. \A u \in Threads : u # t => pc[u] \notin Holding /\ pc'[u] \notin Holding
  BY <1>1, Alone
<1>6. pc[t] \in InsertLabels => ver.inserting_deleting
  BY DEF IInv, LockInv
<1>7. ASSUME pc'[t] = "unlock_put"
      PROVE  /\ Has(perm, Count, key, req[t].key)'
             /\ req[t].type = "insert" => kv[req[t].key] = None
  <2>1. CASE InsertRank(t)
    <3>1. Has(perm, Count, key, req[t].key)'
      BY <2>1, InsertRankStep
    <3>2. /\ pc[t] = "insert_rank" /\ req[t].key \in Keys
          /\ ~Has(perm, Count, key, req[t].key)
      BY <2>1 DEF InsertRank, IInv, CallInv, CallRight, HolderInv, HolderKnows, InsertLabels
    <3>3. \A u \in Threads : pc[u] \notin {"delete_count", "unlock_remove"}
      BY NothingRemoved DEF DeleteLabels
    <3>4. kv[req[t].key] = None
      BY <3>2, <3>3 DEF IInv, KvInv
    <3> QED BY <3>1, <3>4
  <2>2. CASE UpdateSlot(t)
    <3>1. SlotLive(t) /\ req[t].type = "put" /\ perm' = perm /\ key' = key
      BY <1>1, <2>2 DEF Knows, UpdateSlot
    <3>2. PICK i \in 1 .. Count : perm[i] = slot[t] /\ key[perm[i]] = req[t].key
      BY <3>1 DEF SlotLive
    <3>3. PICK j \in 1 .. Count' : perm'[j] = perm[i]
      BY <1>4 DEF KeysKept
    <3> QED BY <1>1, <3>1, <3>2, <3>3 DEF Has
  <2> QED BY <1>3, <1>7, <2>1, <2>2
<1>8. Knows(t)'
  BY <1>1, <1>3, <1>7 DEF Knows, InsertLabels
<1>9. ASSUME NEW u \in Threads, u # t PROVE Knows(u)'
  <2>1. SameEra(u)' => SameEra(u) /\ perm' = perm /\ key' = key
    BY <1>1, <1>3, <1>6 DEF SameEra
  <2>2. \A k, x : ~Pending(k, x)
    BY <1>3, <1>5 DEF Pending, Holding, InsertLabels
  <2> QED BY <1>1, <1>4, <1>5, <1>9, <2>1, <2>2, OthersKnow
<1>10. DeletedEmpty'
  BY <1>1, <1>3 DEF LInv, DeletedEmpty, Only, InsertLabels
<1>11. Explained(t)
  BY <1>1 DEF Explained, KV!vars
<1> QED BY <1>8, <1>9, <1>10, <1>11 DEF LInv

\* The unlock of a put is the put: the value is in the map from then on.
LEMMA UnlockKnows ==
    ASSUME IInv, LInv, NEW t \in Threads, Unlocks(t)
    PROVE  LInv' /\ Explained(t)
<1> DEFINE k == req[t].key
<1>1. UnlockPut(t) /\ pc[t] = "unlock_put" /\ pc[t] \in Holding
  BY NothingRemoved DEF Unlocks, UnlockPut, UnlockRemove, DeleteLabels, Holding
<1>2. /\ perm' = perm /\ key' = key /\ lv' = lv /\ req' = req /\ Only(t) /\ pc'[t] = "idle"
      /\ ~ver'.inserting_deleting /\ Count = perm[0] /\ Count' = Count
      /\ ver.inserting_deleting => ver'.vinsert_delete = inc(ver.vinsert_delete)
      /\ ~ver.inserting_deleting => ver'.vinsert_delete = ver.vinsert_delete
      /\ kv' = Content(perm, key, lv) /\ seen' = KV!SeenAfter(kv')
  BY UnlockFrame DEF LocalFrame
<1>3. /\ TypeOK /\ DomainInv /\ Knows(t) /\ CallRight(t) /\ HolderKnows(t) /\ k \in Keys
      /\ Return(t, KV!Answer("OK", None))
  BY <1>1 DEF IInv, LInv, CallInv, CallRight, HolderInv, UnlockPut
<1>4. Knows(t)' /\ resp' = [resp EXCEPT ![t] = KV!Answer("OK", None)]
  BY <1>3, ReturnKnows
<1>5. kv'[k] = req[t].val
  <2>1. /\ perm \in Word /\ key \in [Slot -> Keys] /\ lv \in [Slot -> Values \cup {None}]
        /\ InSlots(perm) /\ Ascends(perm, perm[0], key)
    BY <1>2 DEF IInv, TypeOK, NodeInv
  <2>2. \A i \in 1 .. Count : kv'[key[perm[i]]] = lv[perm[i]]
    BY <1>2, <2>1, ContentIs
  <2>3. PICK i \in 1 .. Count : key[perm[i]] = k
    BY <1>1, <1>3 DEF Knows, Has
  <2> QED BY <1>1, <1>3, <2>2, <2>3 DEF HolderKnows
<1>6. kv' = [kv EXCEPT ![k] = req[t].val]
  <2>1. req[t].type # "remove" /\ kv \in [Keys -> Values \cup {None}]
    BY <1>1, <1>3 DEF Knows, TypeOK
  <2>2. CASE kv' = kv
    BY <1>3, <1>5, <2>1, <2>2
  <2> QED BY <2>1, <2>2, UnlockChanges
<1>7. \A u \in Threads : u # t => pc[u] \notin Holding /\ pc'[u] \notin Holding
  BY <1>1, <1>2, Alone
<1>8. ASSUME NEW u \in Threads, u # t PROVE Knows(u)'
  <2>1. ASSUME SameEra(u)', Fetched(u) PROVE SameEra(u)
    <3>1. CASE ver.inserting_deleting
      <4>1. inc(ver.vinsert_delete) # v[u].vinsert_delete
        BY <1>1, <2>1, <3>1 DEF UnlockPut, NotOvertaken
      <4> QED BY <1>2, <1>8, <2>1, <3>1, <4>1 DEF SameEra, Only
    <3>2. CASE ~ver.inserting_deleting
      BY <1>2, <1>8, <2>1, <3>2 DEF SameEra, Only
    <3> QED BY <3>1, <3>2
  <2>2. KeysKept
    BY <1>2 DEF KeysKept
  <2>3. pc[u] # "idle" => resp[u].st = "pending"
    BY DEF IInv, CallInv, CallRight
  <2>4. pc[u] # "idle" => seen'[u] = seen[u] \cup {KV!View(req[u], kv')}
    BY <1>2, <2>3 DEF KV!SeenAfter
  <2>5. \A j, x : Pending(j, x) => kv'[j] = x
    BY <1>5, <1>7 DEF Pending, Holding
  <2>6. \A j, x : pc[u] # "idle" /\ Pending(j, x) =>
                     kv'[j] = x /\ KV!View(req[u], kv') \in seen'[u]
    BY <2>4, <2>5
  <2> QED BY <1>2, <1>7, <1>8, <2>1, <2>2, <2>4, <2>6, OthersKnow
<1>9. DeletedEmpty'
  <2>1. ver'.deleted = ver.deleted
    BY <1>1, <1>3 DEF UnlockPut, unlocked, TypeOK, Body
  <2> QED BY <1>2, <2>1 DEF LInv, DeletedEmpty, Only, InsertLabels
<1>10. KV!Put(t) /\ resp[t].st = "pending"
  <2>1. req[t].type = "put" \/ (req[t].type = "insert" /\ kv[k] = None)
    BY <1>1, <1>3 DEF Knows, CallRight
  <2>2. KV!Commit(t, [kv EXCEPT ![k] = req[t].val], KV!Answer("OK", None))
    BY <1>2, <1>4, <1>6 DEF KV!Commit
  <2>3. resp[t].st = "pending"
    BY <1>1, <1>3 DEF CallRight
  <2> QED BY <2>1, <2>2, <2>3 DEF KV!Put
<1> QED BY <1>4, <1>8, <1>9, <1>10 DEF LInv, Explained

-----------------------------------------------------------------------------
(* The refinement.                                                         *)

\* The start of the node is a start of the map.
LEMMA InitLinear == Init => LInv /\ KV!Init
<1> SUFFICES ASSUME Init PROVE LInv /\ KV!Init
  OBVIOUS
<1>1. kv \in [Keys -> Values \cup {None}]
  BY InitInv DEF IInv, TypeOK
<1>2. KV!Init
  BY <1>1 DEF Init, KV!Init
<1>3. \A t \in Threads : pc[t] = "idle" /\ acc[t] = <<>>
  BY DEF Init
<1>4. ver.deleted => perm[0] = 0
  BY Constants DEF Init, InitBody
<1>5. DeletedEmpty
  BY <1>3, <1>4 DEF DeletedEmpty, InsertLabels
<1>6. \A t \in Threads : Knows(t)
  BY <1>3 DEF Knows
<1> QED BY <1>2, <1>5, <1>6 DEF LInv

\* Every step of the node is one of the map, or none.
LEMMA NextLinear ==
    ASSUME NoRemoves
    PROVE  IInv /\ LInv /\ [Next]_vars => LInv' /\ [KV!Next]_(KV!vars)
<1> SUFFICES ASSUME IInv, LInv, [Next]_vars PROVE LInv' /\ [KV!Next]_(KV!vars)
  OBVIOUS
<1>1. CASE UNCHANGED vars
  <2>1. /\ UNCHANGED <<ver, perm, key, lv, pc, v, lw, slot, out, acc, calls, req, resp>>
        /\ UNCHANGED <<kv, seen>>
    BY <1>1 DEF vars, node, local, history
  <2>2. Count' = Count
    BY <2>1 DEF Count, Gap
  <2>3. DeletedEmpty'
    BY <2>1 DEF LInv, DeletedEmpty
  <2>4. ASSUME NEW t \in Threads PROVE Knows(t)'
    <3>1. Knows(t)
      BY DEF LInv
    <3>2. (SameEra(t)' <=> SameEra(t)) /\ (SlotLive(t)' <=> SlotLive(t))
      BY <2>1, <2>2 DEF SameEra, SlotLive
    <3>3. (Listed(t)' <=> Listed(t)) /\ (Met(t)' <=> Met(t))
      BY <2>1 DEF Listed, Met, Past, Reportable, Pending
    <3>4. (Reportable(t, req[t].key, out[t]))' <=> Reportable(t, req[t].key, out[t])
      BY <2>1 DEF Reportable, Past, Pending
    <3> QED BY <2>1, <2>2, <3>1, <3>2, <3>3, <3>4 DEF Knows, Has
  <2> QED BY <2>1, <2>3, <2>4 DEF LInv, KV!vars
<1>2. CASE Next
  <2>1. ASSUME NEW t \in Threads, NEW y \in Menu[t], NEW k \in Keys, Invoke(t, y, k)
        PROVE  LInv' /\ [KV!Next]_(KV!vars)
    BY <2>1, InvokeKnows DEF KV!Next
  <2>2. ASSUME NEW t \in Threads, Step(t) PROVE LInv' /\ [KV!Next]_(KV!vars)
    <3>1. Reads(t) \/ Locks(t) \/ Writes(t) \/ Unlocks(t)
      BY <2>2 DEF Step, Reads, Locks, Writes, Unlocks
    <3>2. LInv' /\ Explained(t)
      BY <3>1, ReadsKnow, LocksKnow, WritesKnow, UnlockKnows
    <3> QED BY <3>2 DEF Explained, KV!Next
  <2>3. CASE Finished
    BY <1>1, <2>3 DEF Finished
  <2> QED BY <1>2, <2>1, <2>2, <2>3 DEF Next
<1> QED BY <1>1, <1>2

\* The promise of kvs.h, when no thread calls remove: every get, put and scan is
\* explained by the abstract map, whatever the fan-out, the keys, the number of
\* threads and of calls.
THEOREM GetPutScanLinearizable ==
    ASSUME NoRemoves
    PROVE  Spec => Linearizable
<1>1. Init => LInv /\ KV!Init
  BY InitLinear
<1>2. IInv /\ LInv /\ [Next]_vars => LInv' /\ [KV!Next]_(KV!vars)
  BY NextLinear
<1> QED BY <1>1, <1>2, Invariant, PTL DEF Spec, Linearizable, KV!Spec
====
