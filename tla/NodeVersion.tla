---- MODULE NodeVersion ----
(***************************************************************************)
(* One node's version word (include/version.h, class node_version64) under *)
(* concurrent threads.  Every mutator is a load followed by a              *)
(* compare-and-swap loop, so a call takes several steps and other threads  *)
(* run in between.  The callers follow the protocol of the tree code: only *)
(* the lock holder raises a dirty bit, writes protected members, changes   *)
(* `deleted` and unlocks; any thread may change `root`, as                 *)
(* interior_node::delete_of does to a sibling it has not locked.           *)
(*                                                                         *)
(* Readers take a stable version, read members, take a second stable       *)
(* version (or lock) and trust what they read if the counters agree.       *)
(***************************************************************************)
EXTENDS VersionBody

CONSTANT Threads    \* the threads that use the node

VARIABLES
    body,       \* the atomic word body_
    pc,         \* pc[t]: "idle", or inside a call at its "load" or its "cas"
    op,         \* op[t]: the call t is in
    expected,   \* expected[t]: the local `expected` of the CAS loop
    rd,         \* rd[t]: "none", "reading" or "valid" (validated)
    v,          \* v[t]: the stable version the read started from
    owner,      \* history: threads whose lock() returned and unlock() did not
    raised,     \* history: the holder's call that raised a dirty bit returned
    last,       \* history: the last values written to `root` and `deleted`
    changed,    \* history: a protected member was written during t's read
    nins,       \* history: vinsert_delete increments during t's read, capped
    nspl        \* history: vsplit increments during t's read, capped

callVars == <<pc, op, expected>>
readVars == <<rd, v, changed, nins, nspl>>
vars == <<body, callVars, readVars, owner, raised, last>>

Holder == {"set_inserting_deleting", "set_splitting",
           "set_deleted", "clear_deleted", "unlock"}
Anyone == {"set_root", "clear_root"}
Ops == Holder \cup Anyone \cup {"lock"}

\* `desired` computed from `expected` in the loop of each call.
desired(o, b) ==
    CASE o = "lock"                   -> set_locked(b, TRUE)
      [] o = "unlock"                 -> unlocked(b)
      [] o = "set_inserting_deleting" -> set_inserting_deleting(b, TRUE)
      [] o = "set_splitting"          -> set_splitting(b, TRUE)
      [] o = "set_deleted"            -> set_deleted(b, TRUE)
      [] o = "clear_deleted"          -> set_deleted(b, FALSE)
      [] o = "set_root"               -> set_root(b, TRUE)
      [] o = "clear_root"             -> set_root(b, FALSE)

Init ==
    /\ body = [InitBody EXCEPT !.root = TRUE, !.border = TRUE]
    /\ pc = [t \in Threads |-> "idle"]
    /\ op = [t \in Threads |-> "lock"]
    /\ expected = [t \in Threads |-> InitBody]
    /\ rd = [t \in Threads |-> "none"]
    /\ v = [t \in Threads |-> InitBody]
    /\ owner = {}
    /\ raised = FALSE
    /\ last = [root |-> TRUE, deleted |-> FALSE]
    /\ changed = [t \in Threads |-> FALSE]
    /\ nins = [t \in Threads |-> 0]
    /\ nspl = [t \in Threads |-> 0]

-----------------------------------------------------------------------------
(* Mutators: call, load, compare-and-swap.                                 *)

\* The caller's program calls o.  A reader that locks keeps its read open.
Call(t, o) ==
    /\ pc[t] = "idle"
    /\ rd[t] # "valid"
    /\ o = "lock" => t \notin owner
    /\ o \in Holder => t \in owner
    /\ rd[t] = "reading" => o = "lock"
    /\ pc' = [pc EXCEPT ![t] = "load"]
    /\ op' = [op EXCEPT ![t] = o]
    /\ UNCHANGED <<body, expected, readVars, owner, raised, last>>

\* get_body().  lock() spins here (pause, then sleep) while the bit is set.
Load(t) ==
    /\ pc[t] = "load"
    /\ op[t] = "lock" => ~body.locked
    /\ expected' = [expected EXCEPT ![t] = body]
    /\ pc' = [pc EXCEPT ![t] = "cas"]
    /\ UNCHANGED <<body, op, readVars, owner, raised, last>>

\* The locals of t's call go out of scope.
Return(t) ==
    /\ pc' = [pc EXCEPT ![t] = "idle"]
    /\ op' = [op EXCEPT ![t] = "lock"]
    /\ expected' = [expected EXCEPT ![t] = InitBody]

\* Bookkeeping of the successful compare-and-swap of t's call.
History(t) ==
    /\ owner' = CASE op[t] = "lock"   -> owner \cup {t}
                  [] op[t] = "unlock" -> owner \ {t}
                  [] OTHER            -> owner
    /\ raised' = CASE op[t] = "unlock" -> FALSE
                   [] op[t] \in {"set_inserting_deleting", "set_splitting"} -> TRUE
                   [] OTHER -> raised
    /\ last' = [root    |-> IF op[t] \in Anyone THEN op[t] = "set_root"
                                                ELSE last.root,
                deleted |-> IF op[t] \in {"set_deleted", "clear_deleted"}
                               THEN op[t] = "set_deleted" ELSE last.deleted]
    /\ nins' = [r \in Threads |->
                  IF op[t] = "unlock" /\ body.inserting_deleting
                     /\ rd[r] = "reading" /\ nins[r] < VPeriod
                  THEN nins[r] + 1 ELSE nins[r]]
    /\ nspl' = [r \in Threads |->
                  IF op[t] = "unlock" /\ body.splitting
                     /\ rd[r] = "reading" /\ nspl[r] < VPeriod
                  THEN nspl[r] + 1 ELSE nspl[r]]

\* A plausible slip in CasSuccess: a plain store in place of the CAS.
StoreWithoutCompare(t) ==
    /\ pc[t] = "cas"
    /\ body' = desired(op[t], expected[t])
    /\ Return(t)
    /\ History(t)
    /\ UNCHANGED <<rd, v, changed>>

\* compare_exchange_weak succeeds: the call returns.
CasSuccess(t) ==
    /\ pc[t] = "cas"
    /\ body = expected[t]
    /\ body' = desired(op[t], expected[t])
    /\ Return(t)
    /\ History(t)
    /\ UNCHANGED <<rd, v, changed>>

\* It fails: lock() starts over with a load, the others retry with the word
\* the failed compare left in `expected`.
CasFail(t) ==
    /\ pc[t] = "cas"
    /\ body # expected[t]
    /\ IF op[t] = "lock"
       THEN /\ pc' = [pc EXCEPT ![t] = "load"]
            /\ expected' = [expected EXCEPT ![t] = InitBody]
       ELSE /\ expected' = [expected EXCEPT ![t] = body]
            /\ UNCHANGED pc
    /\ UNCHANGED <<body, op, readVars, owner, raised, last>>

\* The holder writes members that readers are protected against: it has
\* raised a dirty bit first (insert_lv, interior_node::insert, the splits).
Write(t) ==
    /\ pc[t] = "idle"
    /\ t \in owner
    /\ raised
    /\ changed' = [r \in Threads |-> changed[r] \/ rd[r] = "reading"]
    /\ UNCHANGED <<body, callVars, rd, v, nins, nspl, owner, raised, last>>

-----------------------------------------------------------------------------
(* Readers.                                                                *)

\* get_stable_version() returns and the read begins.
BeginRead(t) ==
    /\ pc[t] = "idle" /\ t \notin owner
    /\ rd[t] = "none"
    /\ stable(body)
    /\ rd' = [rd EXCEPT ![t] = "reading"]
    /\ v' = [v EXCEPT ![t] = body]
    /\ changed' = [changed EXCEPT ![t] = FALSE]
    /\ nins' = [nins EXCEPT ![t] = 0]
    /\ nspl' = [nspl EXCEPT ![t] = 0]
    /\ UNCHANGED <<body, callVars, owner, raised, last>>

\* The reader drops the version it started from.
Forget(t) ==
    /\ v' = [v EXCEPT ![t] = InitBody]
    /\ changed' = [changed EXCEPT ![t] = FALSE]
    /\ nins' = [nins EXCEPT ![t] = 0]
    /\ nspl' = [nspl EXCEPT ![t] = 0]

\* A plausible slip in Validate: get_version() in place of get_stable_version().
ValidateUnstable(t) ==
    /\ pc[t] = "idle"
    /\ rd[t] = "reading"
    /\ IF SameCounters(v[t], body)
       THEN /\ rd' = [rd EXCEPT ![t] = "valid"]
            /\ UNCHANGED <<v, changed, nins, nspl>>
       ELSE /\ rd' = [rd EXCEPT ![t] = "none"]
            /\ Forget(t)
    /\ UNCHANGED <<body, callVars, owner, raised, last>>

\* The second version: stable, or loaded by the thread that now holds the
\* lock and has not raised a dirty bit yet (put and remove re-check so).
Validate(t) ==
    /\ pc[t] = "idle"
    /\ rd[t] = "reading"
    /\ stable(body) \/ (t \in owner /\ ~raised)
    /\ IF SameCounters(v[t], body)
       THEN /\ rd' = [rd EXCEPT ![t] = "valid"]
            /\ UNCHANGED <<v, changed, nins, nspl>>
       ELSE /\ rd' = [rd EXCEPT ![t] = "none"]
            /\ Forget(t)
    /\ UNCHANGED <<body, callVars, owner, raised, last>>

\* The operation uses what it read and starts its next one.
EndRead(t) ==
    /\ rd[t] = "valid"
    /\ rd' = [rd EXCEPT ![t] = "none"]
    /\ Forget(t)
    /\ UNCHANGED <<body, callVars, owner, raised, last>>

Step(t) ==
    \/ \E o \in Ops : Call(t, o)
    \/ Load(t)
    \/ CasSuccess(t)
    \/ CasFail(t)
    \/ Write(t)
    \/ BeginRead(t)
    \/ Validate(t)
    \/ EndRead(t)

Next == \E t \in Threads : Step(t)

Spec == Init /\ [][Next]_vars

-----------------------------------------------------------------------------
(* Properties.                                                             *)

\* Every variable keeps its type; the counters stay within their 29 bits.
TypeOK ==
    /\ body \in Body
    /\ pc \in [Threads -> {"idle", "load", "cas"}]
    /\ op \in [Threads -> Ops]
    /\ expected \in [Threads -> Body]
    /\ rd \in [Threads -> {"none", "reading", "valid"}]
    /\ v \in [Threads -> Body]
    /\ owner \subseteq Threads
    /\ raised \in BOOLEAN
    /\ last \in [root : BOOLEAN, deleted : BOOLEAN]
    /\ changed \in [Threads -> BOOLEAN]
    /\ nins \in [Threads -> 0 .. VPeriod]
    /\ nspl \in [Threads -> 0 .. VPeriod]

\* At most one thread is between lock() and unlock(), and the lock bit says
\* so whatever set_root, lock and unlock race (version.h lock/unlock).
Mutex ==
    /\ \A t, u \in owner : t = u
    /\ body.locked <=> owner # {}

\* A read that was validated saw no write to a protected member, unless a
\* counter went round its whole range while it ran (get_stable_version and
\* the counter comparisons of get, put, remove and scan).
ReaderSound ==
    \A t \in Threads :
        rd[t] = "valid" /\ changed[t] => nins[t] = VPeriod \/ nspl[t] = VPeriod

\* No CAS loop overwrites a concurrent change: `root` and `deleted` show the
\* value the last completed call gave them (atomic_set_root runs unlocked).
FlagsNotLost == body.root = last.root /\ body.deleted = last.deleted
====
