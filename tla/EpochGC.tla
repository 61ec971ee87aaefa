---- MODULE EpochGC ----
(***************************************************************************)
(* Sessions, epochs and the release of retired memory (thread_info.h,      *)
(* thread_info_table.h, manager_thread.h, garbage_collection.h, epoch.h).  *)
(* Clients enter and leave sessions and read and retire items (nodes or    *)
(* values); the epoch thread advances the epoch and computes gc_epoch; the *)
(* gc thread releases the items retired long enough ago.  Each load and    *)
(* store of a shared variable is a step.                                   *)
(***************************************************************************)
EXTENDS Naturals, Sequences, FiniteSets

CONSTANTS
    Clients,    \* client threads
    NSlots,     \* YAKUSHIMA_MAX_PARALLEL_SESSIONS
    Nodes,      \* tree nodes that can be retired
    Vals,       \* value objects that can be retired
    MaxEpoch,   \* bound on the epoch
    None        \* nullptr

ASSUME EpochAssumption ==
    /\ NSlots \in Nat \ {0}
    /\ MaxEpoch \in Nat \ {0}
    /\ Nodes \cap Vals = {}
    /\ None \notin Clients \cup Nodes \cup Vals
    /\ None \notin [tag : 0 .. MaxEpoch, item : Nodes \cup Vals]

Slots == 1 .. NSlots
Items == Nodes \cup Vals
Kinds == {"node", "value"}
kindOf(x) == IF x \in Nodes THEN "node" ELSE "value"
Epoch == 0 .. MaxEpoch

VARIABLES
    epoch,      \* epoch_, starts at 1
    gc_epoch,   \* gc_epoch_, starts at 0
    running,    \* running[s]: running_ of slot s
    begin,      \* begin[s]: begin_epoch_ of slot s, 0 when invalid
    queue,      \* queue[s][k]: node_container_ or value_container_ of slot s
    cache,      \* cache[s][k]: the element a gc popped too early, or None
    pc,         \* pc[c]: what client c is doing
    at,         \* at[c]: the slot c is trying, or its token
    loaded,     \* loaded[c]: the epoch c read in enter
    victim,     \* victim[c]: the item c is retiring, or None
    epc, ei, emin,          \* the epoch thread: step, loop index, min_epoch
    gpc, gi, gk, glocal,    \* the gc thread: step, slot, container, local gc_epoch
    linked,     \* the items reachable from the tree
    held,       \* held[c]: items c has read in this session
    freed,      \* history: items released
    claimed,    \* history: items some client has begun to retire
    pub,        \* history: pub[c]: the epoch when c stored its begin epoch
    lateRetired \* history: items retired by a session that was late, see Late

sess == <<running, begin, pc, at, loaded>>
conts == <<queue, cache>>
ethread == <<epc, ei, emin>>
gthread == <<gpc, gi, gk, glocal>>
vars == <<epoch, gc_epoch, sess, conts, victim, ethread, gthread, linked, held,
          freed, claimed, pub, lateRetired>>

Tagged == [tag : Epoch, item : Items]

Init ==
    /\ epoch = 1 /\ gc_epoch = 0
    /\ running = [s \in Slots |-> FALSE]
    /\ begin = [s \in Slots |-> 0]
    /\ queue = [s \in Slots |-> [k \in Kinds |-> <<>>]]
    /\ cache = [s \in Slots |-> [k \in Kinds |-> None]]
    /\ pc = [c \in Clients |-> "out"]
    /\ at = [c \in Clients |-> 0]
    /\ loaded = [c \in Clients |-> 0]
    /\ victim = [c \in Clients |-> None]
    /\ epc = "sleep" /\ ei = 1 /\ emin = 0
    /\ gpc = "sleep" /\ gi = 1 /\ gk = "node" /\ glocal = 0
    /\ linked = Items
    /\ held = [c \in Clients |-> {}]
    /\ freed = {} /\ claimed = {} /\ lateRetired = {}
    /\ pub = [c \in Clients |-> 0]

-----------------------------------------------------------------------------
(* enter and leave.                                                        *)

Enter(c) ==
    /\ pc[c] = "out"
    /\ pc' = [pc EXCEPT ![c] = "gain"]
    /\ at' = [at EXCEPT ![c] = 1]
    /\ UNCHANGED <<epoch, gc_epoch, running, begin, loaded, conts, victim, ethread,
                   gthread, linked, held, freed, claimed, pub, lateRetired>>

\* A plausible slip in GainTheRight: running_ is set without a compare.
GainUnchecked(c) ==
    /\ pc[c] = "gain"
    /\ running' = [running EXCEPT ![at[c]] = TRUE]
    /\ pc' = [pc EXCEPT ![c] = "load"]
    /\ UNCHANGED <<epoch, gc_epoch, begin, at, loaded, conts, victim, ethread,
                   gthread, linked, held, freed, claimed, pub, lateRetired>>

\* gain_the_right on the next slot; past the last one, WARN_MAX_SESSIONS.
GainTheRight(c) ==
    /\ pc[c] = "gain"
    /\ \/ /\ ~running[at[c]]
          /\ running' = [running EXCEPT ![at[c]] = TRUE]
          /\ pc' = [pc EXCEPT ![c] = "load"]
          /\ UNCHANGED at
       \/ /\ running[at[c]] /\ at[c] < NSlots
          /\ at' = [at EXCEPT ![c] = @ + 1]
          /\ UNCHANGED <<running, pc>>
       \/ /\ running[at[c]] /\ at[c] = NSlots
          /\ at' = [at EXCEPT ![c] = 0]
          /\ pc' = [pc EXCEPT ![c] = "out"]
          /\ UNCHANGED running
    /\ UNCHANGED <<epoch, gc_epoch, begin, loaded, conts, victim, ethread, gthread,
                   linked, held, freed, claimed, pub, lateRetired>>

\* assign_thread_info: the argument of set_begin_epoch is loaded ...
LoadEpoch(c) ==
    /\ pc[c] = "load"
    /\ loaded' = [loaded EXCEPT ![c] = epoch]
    /\ pc' = [pc EXCEPT ![c] = "publish"]
    /\ UNCHANGED <<epoch, gc_epoch, running, begin, at, conts, victim, ethread,
                   gthread, linked, held, freed, claimed, pub, lateRetired>>

\* ... and stored, by then possibly late.
SetBeginEpoch(c) ==
    /\ pc[c] = "publish"
    /\ begin' = [begin EXCEPT ![at[c]] = loaded[c]]
    /\ pub' = [pub EXCEPT ![c] = epoch]
    /\ loaded' = [loaded EXCEPT ![c] = 0]
    /\ pc' = [pc EXCEPT ![c] = "in"]
    /\ UNCHANGED <<epoch, gc_epoch, running, at, conts, victim, ethread, gthread,
                   linked, held, freed, claimed, lateRetired>>

\* A plausible slip in LeaveBegin: the begin epoch is not withdrawn.
LeaveKeepsEpoch(c) ==
    /\ pc[c] = "in" /\ victim[c] = None
    /\ held' = [held EXCEPT ![c] = {}]
    /\ pc' = [pc EXCEPT ![c] = "leave"]
    /\ pub' = [pub EXCEPT ![c] = 0]
    /\ UNCHANGED <<epoch, gc_epoch, running, begin, at, loaded, conts, victim, ethread,
                   gthread, linked, freed, claimed, lateRetired>>

\* leave_thread_info: begin_epoch_ first, then running_.
LeaveBegin(c) ==
    /\ pc[c] = "in" /\ victim[c] = None
    /\ held' = [held EXCEPT ![c] = {}]
    /\ begin' = [begin EXCEPT ![at[c]] = 0]
    /\ pc' = [pc EXCEPT ![c] = "leave"]
    /\ pub' = [pub EXCEPT ![c] = 0]
    /\ UNCHANGED <<epoch, gc_epoch, running, at, loaded, conts, victim, ethread,
                   gthread, linked, freed, claimed, lateRetired>>

LeaveRunning(c) ==
    /\ pc[c] = "leave"
    /\ running' = [running EXCEPT ![at[c]] = FALSE]
    /\ at' = [at EXCEPT ![c] = 0]
    /\ pc' = [pc EXCEPT ![c] = "out"]
    /\ UNCHANGED <<epoch, gc_epoch, begin, loaded, conts, victim, ethread, gthread,
                   linked, held, freed, claimed, pub, lateRetired>>

-----------------------------------------------------------------------------
(* What a session does with memory.                                        *)

\* An operation meets a reachable item; the session may use it until leave.
Read(c, x) ==
    /\ pc[c] = "in"
    /\ x \in linked \ held[c]
    /\ held' = [held EXCEPT ![c] = @ \cup {x}]
    /\ UNCHANGED <<epoch, gc_epoch, sess, conts, victim, ethread, gthread, linked,
                   freed, claimed, pub, lateRetired>>

\* push_node_container, push_value_container with get_begin_epoch as the tag.
Push(c, x) ==
    queue' = [queue EXCEPT ![at[c]][kindOf(x)] =
                Append(@, [tag |-> begin[at[c]], item |-> x])]

\* The session of c published an epoch that was over by then.
Late(c) == begin[at[c]] # pub[c]

Claim(c, x) ==
    /\ claimed' = claimed \cup {x}
    /\ lateRetired' = IF Late(c) THEN lateRetired \cup {x} ELSE lateRetired

\* remove of a value: delete_at pushes first and clears the slot after.
RetirePush(c, x) ==
    /\ pc[c] = "in" /\ victim[c] = None
    /\ x \in Vals /\ x \in linked \ claimed
    /\ Claim(c, x)
    /\ Push(c, x)
    /\ victim' = [victim EXCEPT ![c] = x]
    /\ UNCHANGED <<epoch, gc_epoch, sess, cache, ethread, gthread, linked, held,
                   freed, pub>>

\* Nodes, and the old value of an update, are unlinked first.
RetireUnlink(c, x) ==
    /\ pc[c] = "in" /\ victim[c] = None
    /\ x \in linked \ claimed
    /\ Claim(c, x)
    /\ linked' = linked \ {x}
    /\ victim' = [victim EXCEPT ![c] = x]
    /\ UNCHANGED <<epoch, gc_epoch, sess, conts, ethread, gthread, held, freed, pub>>

\* The second half of either.
RetireFinish(c) ==
    /\ victim[c] # None
    /\ IF victim[c] \in linked
       THEN linked' = linked \ {victim[c]} /\ UNCHANGED queue
       ELSE Push(c, victim[c]) /\ UNCHANGED linked
    /\ victim' = [victim EXCEPT ![c] = None]
    /\ UNCHANGED <<epoch, gc_epoch, sess, cache, ethread, gthread, held, freed,
                   claimed, pub, lateRetired>>

Client(c) ==
    \/ Enter(c) \/ GainTheRight(c) \/ LoadEpoch(c) \/ SetBeginEpoch(c)
    \/ LeaveBegin(c) \/ LeaveRunning(c)
    \/ \E x \in Items : Read(c, x) \/ RetirePush(c, x) \/ RetireUnlink(c, x)
    \/ RetireFinish(c)

-----------------------------------------------------------------------------
(* epoch_thread.                                                           *)

eFrame == <<sess, conts, victim, gthread, linked, held, freed, claimed, pub, lateRetired>>

\* A verify pass starts.  The bound keeps the epoch finite.
EpochVerify ==
    /\ epc = "sleep"
    /\ epoch < MaxEpoch
    /\ epc' = "verify" /\ ei' = 1 /\ emin' = 0
    /\ UNCHANGED <<epoch, gc_epoch, eFrame>>

\* A plausible slip in EpochVerifySlot: the pass does not wait for sessions.
EpochVerifyNobody ==
    /\ epc = "verify"
    /\ IF ei = NSlots THEN epc' = "inc" /\ ei' = 1 ELSE ei' = ei + 1 /\ UNCHANGED epc
    /\ UNCHANGED <<emin, epoch, gc_epoch, eFrame>>

\* A session of another epoch makes the pass start over.
EpochVerifySlot ==
    /\ epc = "verify"
    /\ IF begin[ei] \in {0, epoch}
       THEN IF ei = NSlots THEN epc' = "inc" /\ ei' = 1
                           ELSE ei' = ei + 1 /\ UNCHANGED epc
       ELSE epc' = "sleep" /\ ei' = 1
    /\ UNCHANGED <<emin, epoch, gc_epoch, eFrame>>

\* epoch_inc, and min_epoch starts from its maximum (0 stands for UINT64_MAX).
EpochInc ==
    /\ epc = "inc"
    /\ epoch' = epoch + 1
    /\ epc' = "min" /\ ei' = 1 /\ emin' = 0
    /\ UNCHANGED <<gc_epoch, eFrame>>

EpochMin ==
    /\ epc = "min"
    /\ emin' = IF begin[ei] # 0 /\ (emin = 0 \/ begin[ei] < emin) THEN begin[ei] ELSE emin
    /\ IF ei = NSlots THEN epc' = "set" /\ ei' = 1 ELSE ei' = ei + 1 /\ UNCHANGED epc
    /\ UNCHANGED <<epoch, gc_epoch, eFrame>>

\* A plausible slip in SetGcEpoch: the minimum itself, not the one before it.
SetGcEpochTooHigh ==
    /\ epc = "set"
    /\ gc_epoch' = IF emin # 0 THEN emin ELSE epoch
    /\ epc' = "sleep" /\ emin' = 0
    /\ UNCHANGED <<ei, epoch, eFrame>>

\* A plausible slip in SetGcEpoch: no session is active, and min_epoch is used
\* all the same.
SetGcEpochNoSession ==
    /\ epc = "set"
    /\ gc_epoch' = emin - 1
    /\ epc' = "sleep" /\ emin' = 0
    /\ UNCHANGED <<ei, epoch, eFrame>>

SetGcEpoch ==
    /\ epc = "set"
    /\ gc_epoch' = (IF emin # 0 THEN emin ELSE epoch) - 1
    /\ epc' = "sleep" /\ emin' = 0
    /\ UNCHANGED <<ei, epoch, eFrame>>

EpochThread == EpochVerify \/ EpochVerifySlot \/ EpochInc \/ EpochMin \/ SetGcEpoch

-----------------------------------------------------------------------------
(* gc_thread: gc_node then gc_value on each slot in turn.                  *)

gFrame == <<epoch, gc_epoch, sess, victim, ethread, linked, held, claimed, pub, lateRetired>>

\* gc_node and gc_value load gc_epoch once, at their start.
GcLoad ==
    /\ gpc = "sleep"
    /\ glocal' = gc_epoch
    /\ gpc' = "cache"
    /\ UNCHANGED <<gi, gk, conts, freed, gFrame>>

\* On to the value container, or the next slot, or the next round.
GcNext ==
    /\ gpc' = "sleep" /\ glocal' = 0
    /\ gk' = IF gk = "node" THEN "value" ELSE "node"
    /\ gi' = IF gk = "node" THEN gi ELSE IF gi = NSlots THEN 1 ELSE gi + 1

\* A plausible slip in GcCache: a kept element ends every pass.
GcCacheStuck ==
    /\ gpc = "cache"
    /\ IF cache[gi][gk] = None THEN gpc' = "pop" /\ UNCHANGED <<gi, gk, glocal>> ELSE GcNext
    /\ UNCHANGED <<conts, freed, gFrame>>

\* The element a former pass kept: still too young, or released now.
GcCache ==
    /\ gpc = "cache"
    /\ \/ /\ cache[gi][gk] = None
          /\ gpc' = "pop"
          /\ UNCHANGED <<gi, gk, glocal, cache, freed>>
       \/ /\ cache[gi][gk] # None
          /\ IF cache[gi][gk].tag >= glocal
             THEN GcNext /\ UNCHANGED <<cache, freed>>
             ELSE /\ freed' = freed \cup {cache[gi][gk].item}
                  /\ cache' = [cache EXCEPT ![gi][gk] = None]
                  /\ gpc' = "pop"
                  /\ UNCHANGED <<gi, gk, glocal>>
    /\ UNCHANGED <<queue, gFrame>>

\* A plausible slip in GcPop: an element too young is dropped, not cached.
GcPopForgets ==
    /\ gpc = "pop"
    /\ \/ /\ queue[gi][gk] = <<>>
          /\ GcNext
          /\ UNCHANGED <<conts, freed>>
       \/ /\ queue[gi][gk] # <<>>
          /\ queue' = [queue EXCEPT ![gi][gk] = Tail(@)]
          /\ LET e == Head(queue[gi][gk])
             IN  IF e.tag >= glocal
                 THEN GcNext /\ UNCHANGED <<cache, freed>>
                 ELSE /\ freed' = freed \cup {e.item}
                      /\ UNCHANGED <<cache, gpc, gi, gk, glocal>>
    /\ UNCHANGED gFrame

\* Pop: release what is old enough, keep the first that is not.
GcPop ==
    /\ gpc = "pop"
    /\ \/ /\ queue[gi][gk] = <<>>
          /\ GcNext
          /\ UNCHANGED <<conts, freed>>
       \/ /\ queue[gi][gk] # <<>>
          /\ queue' = [queue EXCEPT ![gi][gk] = Tail(@)]
          /\ LET e == Head(queue[gi][gk])
             IN  IF e.tag >= glocal
                 THEN /\ cache' = [cache EXCEPT ![gi][gk] = e]
                      /\ GcNext
                      /\ UNCHANGED freed
                 ELSE /\ freed' = freed \cup {e.item}
                      /\ UNCHANGED <<cache, gpc, gi, gk, glocal>>
    /\ UNCHANGED gFrame

GcThread == GcLoad \/ GcCache \/ GcPop

Next == (\E c \in Clients : Client(c)) \/ EpochThread \/ GcThread

Spec == Init /\ [][Next]_vars

\* The two threads are scheduled, and an application that entered leaves: its
\* calls go on to their end.  Nothing makes it enter again.
Fairness ==
    /\ WF_vars(EpochThread) /\ WF_vars(GcThread)
    /\ \A c \in Clients :
          /\ WF_vars(GainTheRight(c) \/ LoadEpoch(c) \/ SetBeginEpoch(c))
          /\ WF_vars(RetireFinish(c)) /\ WF_vars(LeaveBegin(c)) /\ WF_vars(LeaveRunning(c))

FairSpec == Spec /\ Fairness

-----------------------------------------------------------------------------
(* Properties.                                                             *)

\* Every variable has its type.
TypeOK ==
    /\ epoch \in Epoch \ {0} /\ gc_epoch \in Epoch
    /\ running \in [Slots -> BOOLEAN] /\ begin \in [Slots -> Epoch]
    /\ queue \in [Slots -> [Kinds -> Seq(Tagged)]]
    /\ cache \in [Slots -> [Kinds -> Tagged \cup {None}]]
    /\ pc \in [Clients -> {"out", "gain", "load", "publish", "in", "leave"}]
    /\ at \in [Clients -> 0 .. NSlots] /\ loaded \in [Clients -> Epoch]
    /\ victim \in [Clients -> Items \cup {None}]
    /\ epc \in {"sleep", "verify", "inc", "min", "set"}
    /\ ei \in Slots /\ emin \in Epoch
    /\ gpc \in {"sleep", "cache", "pop"}
    /\ gi \in Slots /\ gk \in Kinds /\ glocal \in Epoch
    /\ linked \subseteq Items /\ held \in [Clients -> SUBSET Items]
    /\ freed \subseteq Items /\ claimed \subseteq Items /\ lateRetired \subseteq Items
    /\ pub \in [Clients -> Epoch]

\* enter hands a slot to one client at a time, and leave gives it back only
\* after the client's begin epoch is withdrawn (gain_the_right, leave).
HoldsSlot(c) == pc[c] \in {"load", "publish", "in", "leave"}

SlotExclusive ==
    \A c, d \in Clients :
        c # d /\ HoldsSlot(c) /\ HoldsSlot(d) => at[c] # at[d]

\* Where a retired item waits: at index i of a queue, or in the cache (index 0).
WaitsAt(x, s, k, i) ==
    IF i = 0 THEN cache[s][k] # None /\ cache[s][k].item = x
             ELSE i <= Len(queue[s][k]) /\ queue[s][k][i].item = x

Waits(x) ==
    \E s \in Slots, k \in Kinds : \E i \in 0 .. Len(queue[s][k]) : WaitsAt(x, s, k, i)

\* No item waits at two places.
WaitsOnce(x) ==
    \A s, t \in Slots, k, l \in Kinds :
        \A i \in 0 .. Len(queue[s][k]), j \in 0 .. Len(queue[t][l]) :
            WaitsAt(x, s, k, i) /\ WaitsAt(x, t, l, j) => s = t /\ k = l /\ i = j

\* No leak and no double release: a retired item waits at one place until it
\* is released, and no longer, though two threads work on the containers.
RetiredAccounted ==
    \A x \in Items :
        /\ WaitsOnce(x)
        /\ x \in freed => ~Waits(x)
        /\ x \in claimed => x \in freed \/ Waits(x) \/ \E c \in Clients : victim[c] = x

\* Neither gc_epoch nor the copy a running gc works with reaches the epoch in
\* which an active session began, whatever the epoch thread read of its slot.
GcBehindSessions ==
    \A c \in Clients : pc[c] = "in" => gc_epoch < pub[c] /\ glocal < pub[c]

\* An item a session holds is not released, if the session that retired it
\* published its epoch in time (kvs.h: what get returns lives in the session).
NoUseAfterFree ==
    \A c \in Clients : held[c] \cap freed \subseteq lateRetired

\* The same without the provision.
SessionProtects ==
    \A c \in Clients : held[c] \cap freed = {}

\* As long as sessions end, the epoch advances: the verify loop is not kept
\* busy by sessions that come and go.
EpochAdvances ==
    \A e \in 1 .. MaxEpoch - 1 : (epoch = e) ~> (epoch = e + 1)

\* An item retired before gc_epoch is released in the end: the cache never
\* blocks its container for good.
Old(x) ==
    \E s \in Slots, k \in Kinds : \E i \in 0 .. Len(queue[s][k]) :
        /\ WaitsAt(x, s, k, i)
        /\ gc_epoch > IF i = 0 THEN cache[s][k].tag ELSE queue[s][k][i].tag

Reclaimed == \A x \in Items : (epoch = MaxEpoch /\ epc = "sleep" /\ Old(x)) ~> (x \in freed)
====
