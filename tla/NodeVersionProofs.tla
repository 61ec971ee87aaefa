---- MODULE NodeVersionProofs ----
(***************************************************************************)
(* Proofs about NodeVersion for any set of threads and any counter width:  *)
(* type correctness, mutual exclusion, no lost flag, and soundness of the  *)
(* optimistic reads.                                                       *)
(***************************************************************************)
EXTENDS NodeVersion, TLAPS

\* The dirty bits of a word.
Dirty(b) == b.inserting_deleting \/ b.splitting

\* a is c advanced n times, n below the period.
Advanced(a, c, n) == a = IF c + n < VPeriod THEN c + n ELSE c + n - VPeriod

\* What a thread inside a call knows: holders' calls are made by the holder,
\* and lock() only compares with a word whose lock bit is clear.
CallInv ==
    \A t \in Threads :
        /\ pc[t] # "idle" /\ op[t] \in Holder => t \in owner
        /\ pc[t] # "idle" /\ op[t] = "lock" => t \notin owner
        /\ pc[t] = "cas" /\ op[t] = "lock" => ~expected[t].locked

\* A dirty bit the holder raised is still up in the word.
RaisedInv == raised => Dirty(body)

\* The counters have advanced from v[t] by the increments counted, and a
\* change seen by nobody yet is announced by a dirty bit or a counter.
ReadInv ==
    \A t \in Threads :
        rd[t] = "reading" =>
            /\ nins[t] < VPeriod => Advanced(body.vinsert_delete, v[t].vinsert_delete, nins[t])
            /\ nspl[t] < VPeriod => Advanced(body.vsplit, v[t].vsplit, nspl[t])
            /\ changed[t] => Dirty(body) \/ nins[t] > 0 \/ nspl[t] > 0

\* Outside a write section of its holder an unlocked word is not dirty.
CleanInv == Dirty(body) => raised

\* The inductive invariant.
IInv == TypeOK /\ CallInv /\ Mutex /\ RaisedInv /\ CleanInv /\ ReadInv
        /\ ReaderSound /\ FlagsNotLost

-----------------------------------------------------------------------------
(* The words the calls install, field by field.                            *)

\* A counter stays within its width.
LEMMA IncType == \A c \in Counter : inc(c) \in Counter
BY VPeriodAssumption DEF inc, Counter

\* lock() sets the lock bit and nothing else.
LEMMA LockWord ==
    ASSUME NEW b \in Body
    PROVE  LET d == desired("lock", b)
           IN  /\ d \in Body
               /\ d.locked
               /\ d.inserting_deleting = b.inserting_deleting
               /\ d.splitting = b.splitting
               /\ d.vinsert_delete = b.vinsert_delete
               /\ d.vsplit = b.vsplit
               /\ d.root = b.root
               /\ d.deleted = b.deleted
BY DEF desired, Body, set_locked

\* unlock() clears lock and dirty bits and advances the counters they stand for.
LEMMA UnlockWord ==
    ASSUME NEW b \in Body
    PROVE  LET d == desired("unlock", b)
           IN  /\ d \in Body
               /\ ~d.locked
               /\ ~d.inserting_deleting
               /\ ~d.splitting
               /\ d.vinsert_delete = IF b.inserting_deleting
                                     THEN inc(b.vinsert_delete) ELSE b.vinsert_delete
               /\ d.vsplit = IF b.splitting THEN inc(b.vsplit) ELSE b.vsplit
               /\ d.root = b.root
               /\ d.deleted = b.deleted
BY IncType DEF desired, Body, unlocked

\* The holder's setters of dirty bits change nothing else.
LEMMA DirtyWord ==
    ASSUME NEW b \in Body, NEW o \in {"set_inserting_deleting", "set_splitting"}
    PROVE  LET d == desired(o, b)
           IN  /\ d \in Body
               /\ Dirty(d)
               /\ d.locked = b.locked
               /\ d.vinsert_delete = b.vinsert_delete
               /\ d.vsplit = b.vsplit
               /\ d.root = b.root
               /\ d.deleted = b.deleted
<1>1. CASE o = "set_inserting_deleting"
  BY <1>1 DEF desired, Body, set_inserting_deleting, Dirty
<1>2. CASE o = "set_splitting"
  BY <1>2 DEF desired, Body, set_splitting, Dirty
<1>. QED  BY <1>1, <1>2

\* The setters of `deleted` and `root` change nothing else.
LEMMA FlagWord ==
    ASSUME NEW b \in Body,
           NEW o \in {"set_deleted", "clear_deleted", "set_root", "clear_root"}
    PROVE  LET d == desired(o, b)
           IN  /\ d \in Body
               /\ d.locked = b.locked
               /\ d.inserting_deleting = b.inserting_deleting
               /\ d.splitting = b.splitting
               /\ d.vinsert_delete = b.vinsert_delete
               /\ d.vsplit = b.vsplit
               /\ d.root = IF o \in Anyone THEN o = "set_root" ELSE b.root
               /\ d.deleted = IF o \in Anyone THEN b.deleted ELSE o = "set_deleted"
<1>1. CASE o = "set_deleted"
  BY <1>1 DEF desired, Body, set_deleted, Anyone
<1>2. CASE o = "clear_deleted"
  BY <1>2 DEF desired, Body, set_deleted, Anyone
<1>3. CASE o = "set_root"
  BY <1>3 DEF desired, Body, set_root, Anyone
<1>4. CASE o = "clear_root"
  BY <1>4 DEF desired, Body, set_root, Anyone
<1>. QED  BY <1>1, <1>2, <1>3, <1>4

\* Advancing once more: the wrap of a counter is the wrap of the sum.
LEMMA AdvanceStep ==
    ASSUME NEW a \in Counter, NEW c \in Counter, NEW n \in Nat,
           n + 1 < VPeriod, Advanced(a, c, n)
    PROVE  Advanced(inc(a), c, n + 1)
BY VPeriodAssumption DEF Counter, Advanced, inc

\* Fewer than VPeriod increments, but at least one, show in the counter.
LEMMA AdvanceShows ==
    ASSUME NEW a \in Counter, NEW c \in Counter, NEW n \in Nat,
           n < VPeriod, Advanced(a, c, n), a = c
    PROVE  n = 0
BY VPeriodAssumption DEF Counter, Advanced

-----------------------------------------------------------------------------
\* The initial word satisfies the invariant.
LEMMA InitIInv == Init => IInv
<1>. SUFFICES ASSUME Init PROVE IInv
  OBVIOUS
<1>0. InitBody \in Body
  BY VPeriodAssumption DEF InitBody, Body, Counter
<1>1. TypeOK
  <2>1. body \in Body
    BY <1>0 DEF Init, Body
  <2>2. "lock" \in Ops /\ 0 \in 0 .. VPeriod
    BY VPeriodAssumption DEF Ops
  <2>. QED  BY <1>0, <2>1, <2>2 DEF Init, TypeOK
<1>2. CallInv
  BY DEF Init, CallInv
<1>3. Mutex
  BY DEF Init, Mutex, InitBody
<1>4. RaisedInv /\ CleanInv
  BY DEF Init, RaisedInv, CleanInv, Dirty, InitBody
<1>5. ReadInv /\ ReaderSound
  BY DEF Init, ReadInv, ReaderSound
<1>6. FlagsNotLost
  BY DEF Init, FlagsNotLost, InitBody
<1>. QED  BY <1>1, <1>2, <1>3, <1>4, <1>5, <1>6 DEF IInv

-----------------------------------------------------------------------------
(* Every step preserves the invariant: one lemma for each action.          *)

\* A call begins: only its caller's state changes.
LEMMA CallIInv ==
    ASSUME IInv, NEW t \in Threads, NEW o \in Ops, Call(t, o)
    PROVE  IInv'
<1>1. TypeOK'
  BY DEF IInv, TypeOK, Call, readVars
<1>2. CallInv'
  BY DEF IInv, TypeOK, CallInv, Call, Holder
<1>3. (Mutex /\ RaisedInv /\ CleanInv /\ FlagsNotLost)'
  BY DEF IInv, Mutex, RaisedInv, CleanInv, FlagsNotLost, Call, Dirty
<1>4. (ReadInv /\ ReaderSound)'
  BY DEF IInv, ReadInv, ReaderSound, Call, readVars, Dirty, Advanced
<1>. QED  BY <1>1, <1>2, <1>3, <1>4 DEF IInv

\* A call loads the word; lock() waits for a clear lock bit.
LEMMA LoadIInv ==
    ASSUME IInv, NEW t \in Threads, Load(t)
    PROVE  IInv'
<1>1. TypeOK'
  BY DEF IInv, TypeOK, Load, readVars
<1>2. CallInv'
  BY DEF IInv, TypeOK, CallInv, Load, Holder
<1>3. (Mutex /\ RaisedInv /\ CleanInv /\ FlagsNotLost)'
  BY DEF IInv, Mutex, RaisedInv, CleanInv, FlagsNotLost, Load, Dirty
<1>4. (ReadInv /\ ReaderSound)'
  BY DEF IInv, ReadInv, ReaderSound, Load, readVars, Dirty, Advanced
<1>. QED  BY <1>1, <1>2, <1>3, <1>4 DEF IInv

\* A failed compare-and-swap leaves the word as it is.
LEMMA CasFailIInv ==
    ASSUME IInv, NEW t \in Threads, CasFail(t)
    PROVE  IInv'
<1>0. InitBody \in Body
  BY VPeriodAssumption DEF InitBody, Body, Counter
<1>1. TypeOK'
  BY <1>0 DEF IInv, TypeOK, CasFail, readVars
<1>2. CallInv'
  BY DEF IInv, TypeOK, CallInv, CasFail
<1>3. (Mutex /\ RaisedInv /\ CleanInv /\ FlagsNotLost)'
  BY DEF IInv, Mutex, RaisedInv, CleanInv, FlagsNotLost, CasFail, Dirty
<1>4. (ReadInv /\ ReaderSound)'
  BY DEF IInv, ReadInv, ReaderSound, CasFail, readVars, Dirty, Advanced
<1>. QED  BY <1>1, <1>2, <1>3, <1>4 DEF IInv

\* The holder writes under a raised dirty bit.
LEMMA WriteIInv ==
    ASSUME IInv, NEW t \in Threads, Write(t)
    PROVE  IInv'
<1>1. TypeOK'
  BY DEF IInv, TypeOK, Write, callVars
<1>2. CallInv'
  BY DEF IInv, CallInv, Write, callVars
<1>3. (Mutex /\ RaisedInv /\ CleanInv /\ FlagsNotLost)'
  BY DEF IInv, Mutex, RaisedInv, CleanInv, FlagsNotLost, Write, Dirty
<1>4. ReadInv'
  BY DEF IInv, TypeOK, ReadInv, RaisedInv, Write, Dirty, Advanced
<1>5. ReaderSound'
  BY DEF IInv, TypeOK, ReaderSound, Write
<1>. QED  BY <1>1, <1>2, <1>3, <1>4, <1>5 DEF IInv

\* A read begins at a stable word, with nothing counted yet.
LEMMA BeginReadIInv ==
    ASSUME IInv, NEW t \in Threads, BeginRead(t)
    PROVE  IInv'
<1>1. TypeOK'
  BY VPeriodAssumption DEF IInv, TypeOK, BeginRead, callVars
<1>2. CallInv'
  BY DEF IInv, CallInv, BeginRead, callVars
<1>3. (Mutex /\ RaisedInv /\ CleanInv /\ FlagsNotLost)'
  BY DEF IInv, Mutex, RaisedInv, CleanInv, FlagsNotLost, BeginRead, Dirty
<1>4. ReadInv'
  <2>1. body.vinsert_delete \in Counter /\ body.vsplit \in Counter
    BY DEF IInv, TypeOK, Body
  <2>. QED
    BY <2>1, VPeriodAssumption DEF IInv, TypeOK, ReadInv, BeginRead, Dirty, Advanced, Counter
<1>5. ReaderSound'
  BY DEF IInv, TypeOK, ReaderSound, BeginRead
<1>. QED  BY <1>1, <1>2, <1>3, <1>4, <1>5 DEF IInv

\* A read ends and its records are dropped.
LEMMA EndReadIInv ==
    ASSUME IInv, NEW t \in Threads, EndRead(t)
    PROVE  IInv'
<1>0. InitBody \in Body /\ 0 \in 0 .. VPeriod
  BY VPeriodAssumption DEF InitBody, Body, Counter
<1>1. TypeOK'
  BY <1>0 DEF IInv, TypeOK, EndRead, Forget, callVars
<1>2. CallInv'
  BY DEF IInv, CallInv, EndRead, callVars
<1>3. (Mutex /\ RaisedInv /\ CleanInv /\ FlagsNotLost)'
  BY DEF IInv, Mutex, RaisedInv, CleanInv, FlagsNotLost, EndRead, Dirty
<1>4. (ReadInv /\ ReaderSound)'
  BY DEF IInv, TypeOK, ReadInv, ReaderSound, EndRead, Forget, Dirty, Advanced
<1>. QED  BY <1>1, <1>2, <1>3, <1>4 DEF IInv

\* A read is validated only if nothing announced happened meanwhile.
LEMMA ValidateIInv ==
    ASSUME IInv, NEW t \in Threads, Validate(t)
    PROVE  IInv'
<1>0. InitBody \in Body /\ 0 \in 0 .. VPeriod
  BY VPeriodAssumption DEF InitBody, Body, Counter
<1>1. TypeOK'
  <2>1. CASE SameCounters(v[t], body)
    BY <2>1 DEF IInv, TypeOK, Validate, callVars
  <2>2. CASE ~SameCounters(v[t], body)
    <3>1. /\ rd' = [rd EXCEPT ![t] = "none"]
          /\ v' = [v EXCEPT ![t] = InitBody]
          /\ changed' = [changed EXCEPT ![t] = FALSE]
          /\ nins' = [nins EXCEPT ![t] = 0]
          /\ nspl' = [nspl EXCEPT ![t] = 0]
      BY <2>2 DEF Validate, Forget
    <3>2. /\ rd' \in [Threads -> {"none", "reading", "valid"}]
          /\ v' \in [Threads -> Body]
          /\ changed' \in [Threads -> BOOLEAN]
      BY <1>0, <3>1 DEF IInv, TypeOK
    <3>3. nins' \in [Threads -> 0 .. VPeriod] /\ nspl' \in [Threads -> 0 .. VPeriod]
      BY <1>0, <3>1 DEF IInv, TypeOK
    <3>. QED  BY <3>2, <3>3 DEF IInv, TypeOK, Validate, callVars
  <2>. QED  BY <2>1, <2>2
<1>2. CallInv'
  BY DEF IInv, CallInv, Validate, callVars
<1>3. (Mutex /\ RaisedInv /\ CleanInv /\ FlagsNotLost)'
  BY DEF IInv, Mutex, RaisedInv, CleanInv, FlagsNotLost, Validate, Dirty
<1>4. ReadInv'
  BY DEF IInv, TypeOK, ReadInv, Validate, Forget, Dirty, Advanced
<1>5. ReaderSound'
  <2>1. ~Dirty(body)
    BY DEF IInv, CleanInv, Validate, stable, Dirty
  <2>2. ASSUME SameCounters(v[t], body), changed[t]
        PROVE  nins[t] = VPeriod \/ nspl[t] = VPeriod
    <3>1. nins[t] \in Nat /\ nspl[t] \in Nat /\ nins[t] <= VPeriod /\ nspl[t] <= VPeriod
      BY VPeriodAssumption DEF IInv, TypeOK
    <3>2. /\ v[t].vinsert_delete \in Counter /\ body.vinsert_delete \in Counter
          /\ v[t].vsplit \in Counter /\ body.vsplit \in Counter
      BY DEF IInv, TypeOK, Body
    <3>3. nins[t] > 0 \/ nspl[t] > 0
      BY <2>1, <2>2 DEF IInv, ReadInv, Validate
    <3>4. nins[t] < VPeriod => nins[t] = 0
      BY <2>2, <3>1, <3>2, AdvanceShows DEF IInv, ReadInv, Validate, SameCounters
    <3>5. nspl[t] < VPeriod => nspl[t] = 0
      BY <2>2, <3>1, <3>2, AdvanceShows DEF IInv, ReadInv, Validate, SameCounters
    <3>. QED  BY <3>1, <3>3, <3>4, <3>5, VPeriodAssumption
  <2>3. CASE SameCounters(v[t], body)
    BY <2>2, <2>3 DEF IInv, TypeOK, ReaderSound, Validate
  <2>4. CASE ~SameCounters(v[t], body)
    BY <2>4 DEF IInv, TypeOK, ReaderSound, Validate, Forget
  <2>. QED  BY <2>3, <2>4
<1>. QED  BY <1>1, <1>2, <1>3, <1>4, <1>5 DEF IInv

\* What a successful compare-and-swap leaves of the invariant's parts that
\* do not depend on which call it ends.
LEMMA CasSuccessCalls ==
    ASSUME IInv, NEW t \in Threads, CasSuccess(t)
    PROVE  /\ op[t] \in Ops /\ body \in Body
           /\ body' = desired(op[t], body)
           /\ pc' = [pc EXCEPT ![t] = "idle"]
           /\ pc' \in [Threads -> {"idle", "load", "cas"}]
           /\ op' \in [Threads -> Ops]
           /\ expected' \in [Threads -> Body]
           /\ \A u \in Threads : u # t => op'[u] = op[u] /\ expected'[u] = expected[u]
<1>1. InitBody \in Body /\ "lock" \in Ops
  BY VPeriodAssumption DEF InitBody, Body, Counter, Ops
<1>2. body' = desired(op[t], body)
  BY DEF CasSuccess
<1>. QED  BY <1>1, <1>2 DEF IInv, TypeOK, CasSuccess, Return

\* lock() returns.
LEMMA CasLockIInv ==
    ASSUME IInv, NEW t \in Threads, CasSuccess(t), op[t] = "lock"
    PROVE  IInv'
<1>0. /\ owner' = owner \cup {t}
      /\ raised' = raised
      /\ last' = [root |-> last.root, deleted |-> last.deleted]
      /\ nins' = nins /\ nspl' = nspl
      /\ rd' = rd /\ v' = v /\ changed' = changed
  BY DEF IInv, TypeOK, CasSuccess, History, Anyone
<1>1. owner = {} /\ ~body.locked
  BY DEF IInv, CallInv, Mutex, CasSuccess
<1>2. /\ body' \in Body
      /\ body'.locked
      /\ body'.inserting_deleting = body.inserting_deleting
      /\ body'.splitting = body.splitting
      /\ body'.vinsert_delete = body.vinsert_delete
      /\ body'.vsplit = body.vsplit
      /\ body'.root = body.root
      /\ body'.deleted = body.deleted
  BY CasSuccessCalls, LockWord
<1>3. TypeOK'
  BY <1>0, <1>2, CasSuccessCalls DEF IInv, TypeOK
<1>4. CallInv'
  BY <1>0, <1>1, CasSuccessCalls DEF IInv, CallInv, TypeOK
<1>5. (Mutex /\ RaisedInv /\ CleanInv /\ FlagsNotLost)'
  BY <1>0, <1>1, <1>2 DEF IInv, TypeOK, Mutex, RaisedInv, CleanInv, FlagsNotLost, Dirty
<1>6. (ReadInv /\ ReaderSound)'
  BY <1>0, <1>2 DEF IInv, ReadInv, ReaderSound, Dirty, Advanced
<1>. QED  BY <1>3, <1>4, <1>5, <1>6 DEF IInv

\* unlock() returns: the counters of the raised dirty bits advance.
LEMMA CasUnlockIInv ==
    ASSUME IInv, NEW t \in Threads, CasSuccess(t), op[t] = "unlock"
    PROVE  IInv'
<1>0. /\ owner' = owner \ {t}
      /\ raised' = FALSE
      /\ last' = [root |-> last.root, deleted |-> last.deleted]
      /\ rd' = rd /\ v' = v /\ changed' = changed
  BY DEF IInv, TypeOK, CasSuccess, History, Anyone
<1>n. /\ nins' = [r \in Threads |->
                   IF body.inserting_deleting /\ rd[r] = "reading" /\ nins[r] < VPeriod
                   THEN nins[r] + 1 ELSE nins[r]]
      /\ nspl' = [r \in Threads |->
                   IF body.splitting /\ rd[r] = "reading" /\ nspl[r] < VPeriod
                   THEN nspl[r] + 1 ELSE nspl[r]]
  BY DEF CasSuccess, History
<1>1. owner = {t}
  BY DEF IInv, TypeOK, CallInv, Mutex, CasSuccess, Holder
<1>2. /\ body' \in Body
      /\ ~body'.locked
      /\ ~body'.inserting_deleting
      /\ ~body'.splitting
      /\ body'.vinsert_delete = IF body.inserting_deleting
                                THEN inc(body.vinsert_delete) ELSE body.vinsert_delete
      /\ body'.vsplit = IF body.splitting THEN inc(body.vsplit) ELSE body.vsplit
      /\ body'.root = body.root
      /\ body'.deleted = body.deleted
  BY CasSuccessCalls, UnlockWord
<1>3. \A r \in Threads : /\ nins[r] \in 0 .. VPeriod /\ nspl[r] \in 0 .. VPeriod
                         /\ v[r] \in Body
  BY DEF IInv, TypeOK
<1>4. nins' \in [Threads -> 0 .. VPeriod] /\ nspl' \in [Threads -> 0 .. VPeriod]
  BY <1>n, <1>3, VPeriodAssumption
<1>5. TypeOK'
  BY <1>0, <1>2, <1>4, CasSuccessCalls DEF IInv, TypeOK
<1>6. CallInv'
  BY <1>0, <1>1, CasSuccessCalls DEF IInv, CallInv, TypeOK
<1>7. (Mutex /\ RaisedInv /\ CleanInv /\ FlagsNotLost)'
  BY <1>0, <1>1, <1>2 DEF IInv, TypeOK, Mutex, RaisedInv, CleanInv, FlagsNotLost, Dirty
<1>8. ReadInv'
  <2>. SUFFICES ASSUME NEW r \in Threads, rd[r] = "reading"
                PROVE  /\ nins'[r] < VPeriod =>
                            Advanced(body'.vinsert_delete, v[r].vinsert_delete, nins'[r])
                       /\ nspl'[r] < VPeriod =>
                            Advanced(body'.vsplit, v[r].vsplit, nspl'[r])
                       /\ changed[r] => nins'[r] > 0 \/ nspl'[r] > 0
    BY <1>0 DEF ReadInv
  <2>1. /\ v[r].vinsert_delete \in Counter /\ body.vinsert_delete \in Counter
        /\ v[r].vsplit \in Counter /\ body.vsplit \in Counter
    BY <1>3 DEF IInv, TypeOK, Body
  <2>2. nins[r] \in Nat /\ nspl[r] \in Nat /\ nins[r] <= VPeriod /\ nspl[r] <= VPeriod
    BY <1>3, VPeriodAssumption
  <2>3. nins'[r] < VPeriod =>
            Advanced(body'.vinsert_delete, v[r].vinsert_delete, nins'[r])
    <3>1. CASE body.inserting_deleting
      <4>1. nins'[r] < VPeriod => nins'[r] = nins[r] + 1 /\ nins[r] < VPeriod
        BY <1>n, <2>2, <3>1, VPeriodAssumption
      <4>2. body'.vinsert_delete = inc(body.vinsert_delete)
        BY <1>2, <3>1
      <4>. QED  BY <2>1, <2>2, <4>1, <4>2, AdvanceStep DEF IInv, ReadInv
    <3>2. CASE ~body.inserting_deleting
      BY <1>n, <1>2, <3>2 DEF IInv, ReadInv
    <3>. QED  BY <3>1, <3>2
  <2>4. nspl'[r] < VPeriod => Advanced(body'.vsplit, v[r].vsplit, nspl'[r])
    <3>1. CASE body.splitting
      <4>1. nspl'[r] < VPeriod => nspl'[r] = nspl[r] + 1 /\ nspl[r] < VPeriod
        BY <1>n, <2>2, <3>1, VPeriodAssumption
      <4>2. body'.vsplit = inc(body.vsplit)
        BY <1>2, <3>1
      <4>. QED  BY <2>1, <2>2, <4>1, <4>2, AdvanceStep DEF IInv, ReadInv
    <3>2. CASE ~body.splitting
      BY <1>n, <1>2, <3>2 DEF IInv, ReadInv
    <3>. QED  BY <3>1, <3>2
  <2>5. changed[r] => nins'[r] > 0 \/ nspl'[r] > 0
    <3>1. changed[r] => Dirty(body) \/ nins[r] > 0 \/ nspl[r] > 0
      BY DEF IInv, ReadInv
    <3>. QED  BY <1>n, <2>2, <3>1, VPeriodAssumption DEF Dirty
  <2>. QED  BY <2>3, <2>4, <2>5
<1>9. ReaderSound'
  BY <1>0, <1>n DEF IInv, ReaderSound
<1>. QED  BY <1>5, <1>6, <1>7, <1>8, <1>9 DEF IInv

\* The holder's set_inserting_deleting(true) or set_splitting(true) returns.
LEMMA CasDirtyIInv ==
    ASSUME IInv, NEW t \in Threads, CasSuccess(t),
           op[t] \in {"set_inserting_deleting", "set_splitting"}
    PROVE  IInv'
<1>0. /\ owner' = owner
      /\ raised' = TRUE
      /\ last' = [root |-> last.root, deleted |-> last.deleted]
      /\ nins' = nins /\ nspl' = nspl
      /\ rd' = rd /\ v' = v /\ changed' = changed
  BY DEF IInv, TypeOK, CasSuccess, History, Anyone
<1>2. /\ body' \in Body
      /\ Dirty(body')
      /\ body'.locked = body.locked
      /\ body'.vinsert_delete = body.vinsert_delete
      /\ body'.vsplit = body.vsplit
      /\ body'.root = body.root
      /\ body'.deleted = body.deleted
  BY CasSuccessCalls, DirtyWord
<1>3. TypeOK'
  BY <1>0, <1>2, CasSuccessCalls DEF IInv, TypeOK
<1>4. CallInv'
  BY <1>0, CasSuccessCalls DEF IInv, CallInv, TypeOK
<1>5. (Mutex /\ RaisedInv /\ CleanInv /\ FlagsNotLost)'
  BY <1>0, <1>2 DEF IInv, TypeOK, Mutex, RaisedInv, CleanInv, FlagsNotLost
<1>6. (ReadInv /\ ReaderSound)'
  BY <1>0, <1>2 DEF IInv, ReadInv, ReaderSound, Advanced
<1>. QED  BY <1>3, <1>4, <1>5, <1>6 DEF IInv

\* A call that changes `deleted` or `root` returns.
LEMMA CasFlagIInv ==
    ASSUME IInv, NEW t \in Threads, CasSuccess(t),
           op[t] \in {"set_deleted", "clear_deleted", "set_root", "clear_root"}
    PROVE  IInv'
<1>0. /\ owner' = owner
      /\ raised' = raised
      /\ last' = [root    |-> IF op[t] \in Anyone THEN op[t] = "set_root" ELSE last.root,
                  deleted |-> IF op[t] \in Anyone THEN last.deleted
                                                  ELSE op[t] = "set_deleted"]
      /\ nins' = nins /\ nspl' = nspl
      /\ rd' = rd /\ v' = v /\ changed' = changed
  BY DEF IInv, TypeOK, CasSuccess, History, Anyone
<1>2. /\ body' \in Body
      /\ body'.locked = body.locked
      /\ body'.inserting_deleting = body.inserting_deleting
      /\ body'.splitting = body.splitting
      /\ body'.vinsert_delete = body.vinsert_delete
      /\ body'.vsplit = body.vsplit
      /\ body'.root = IF op[t] \in Anyone THEN op[t] = "set_root" ELSE body.root
      /\ body'.deleted = IF op[t] \in Anyone THEN body.deleted ELSE op[t] = "set_deleted"
  BY CasSuccessCalls, FlagWord
<1>3. TypeOK'
  BY <1>0, <1>2, CasSuccessCalls DEF IInv, TypeOK
<1>4. CallInv'
  BY <1>0, CasSuccessCalls DEF IInv, CallInv, TypeOK
<1>5. (Mutex /\ RaisedInv /\ CleanInv /\ FlagsNotLost)'
  BY <1>0, <1>2 DEF IInv, TypeOK, Mutex, RaisedInv, CleanInv, FlagsNotLost, Dirty
<1>6. (ReadInv /\ ReaderSound)'
  BY <1>0, <1>2 DEF IInv, ReadInv, ReaderSound, Dirty, Advanced
<1>. QED  BY <1>3, <1>4, <1>5, <1>6 DEF IInv

-----------------------------------------------------------------------------
\* Every step of every thread, and every stuttering step, preserves IInv.
LEMMA NextIInv == IInv /\ [Next]_vars => IInv'
<1>. SUFFICES ASSUME IInv, [Next]_vars PROVE IInv'
  OBVIOUS
<1>1. CASE UNCHANGED vars
  BY <1>1 DEF vars, callVars, readVars, IInv, TypeOK, CallInv, Mutex, RaisedInv,
     CleanInv, ReadInv, ReaderSound, FlagsNotLost, Dirty, Advanced
<1>2. ASSUME NEW t \in Threads, Step(t) PROVE IInv'
  <2>1. ASSUME CasSuccess(t) PROVE IInv'
    <3>1. op[t] \in Ops
      BY <2>1 DEF IInv, TypeOK
    <3>. QED
      BY <2>1, <3>1, CasLockIInv, CasUnlockIInv, CasDirtyIInv, CasFlagIInv
         DEF Ops, Holder, Anyone
  <2>. QED
    BY <1>2, <2>1, CallIInv, LoadIInv, CasFailIInv, WriteIInv, BeginReadIInv,
       ValidateIInv, EndReadIInv DEF Step
<1>. QED  BY <1>1, <1>2 DEF Next

\* IInv holds in every reachable state.
THEOREM NodeVersionInvariant == Spec => []IInv
<1>. QED  BY InitIInv, NextIInv, PTL DEF Spec

\* The version word and the threads' locals always have their types: no
\* counter leaves its 29 bits (version.h, the bit fields).
THEOREM NodeVersionTyped == Spec => []TypeOK
<1>1. IInv => TypeOK
  BY DEF IInv
<1>. QED  BY <1>1, NodeVersionInvariant, PTL

\* lock() excludes: at most one thread is inside lock() .. unlock(), and the
\* bit of the word tells (version.h lock, unlock), for any number of threads.
THEOREM NodeVersionMutex == Spec => []Mutex
<1>1. IInv => Mutex
  BY DEF IInv
<1>. QED  BY <1>1, NodeVersionInvariant, PTL

\* A validated optimistic read overlapped no write, short of a full wrap of a
\* counter (get_stable_version and the comparisons of the readers).
THEOREM NodeVersionReaderSound == Spec => []ReaderSound
<1>1. IInv => ReaderSound
  BY DEF IInv
<1>. QED  BY <1>1, NodeVersionInvariant, PTL

\* The CAS loops lose no concurrent change of `root` or `deleted`.
THEOREM NodeVersionFlagsNotLost == Spec => []FlagsNotLost
<1>1. IInv => FlagsNotLost
  BY DEF IInv
<1>. QED  BY <1>1, NodeVersionInvariant, PTL
====
