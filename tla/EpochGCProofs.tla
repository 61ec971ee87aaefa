---- MODULE EpochGCProofs ----
(***************************************************************************)
(* Proofs about EpochGC for any number of clients, slots, items and        *)
(* epochs: type correctness, exclusive slots, gc_epoch behind the          *)
(* sessions, the protection of what sessions read, and the accounts of     *)
(* what is retired.                                                        *)
(***************************************************************************)
EXTENDS EpochGC, TLAPS

\* The epoch moves only while the bound leaves room.
BoundInv == epc \in {"verify", "inc"} => epoch < MaxEpoch

\* A client that tries or has a slot is at one, and the slot it has is taken.
SlotInv ==
    /\ \A c \in Clients :
          /\ pc[c] # "out" => at[c] \in Slots
          /\ HoldsSlot(c) => running[at[c]]
    /\ SlotExclusive

\* Only a session in progress holds or retires items.
IdleInv == \A c \in Clients : pc[c] # "in" => held[c] = {} /\ victim[c] = None

\* A session shows an epoch no later than the one it began in.
BeginInv ==
    /\ \A s \in Slots : begin[s] <= epoch
    /\ \A c \in Clients :
          /\ pc[c] = "publish" => 1 <= loaded[c] /\ loaded[c] <= epoch
          /\ pc[c] = "in" => /\ 1 <= begin[at[c]] /\ begin[at[c]] <= pub[c]
                             /\ pub[c] <= epoch

\* The minimum collected so far counts every session passed, unless it began
\* after the epoch moved; so gc_epoch stays below all of them.
GcInv ==
    /\ gc_epoch < epoch /\ glocal < epoch /\ emin <= epoch
    /\ GcBehindSessions
    /\ \A c \in Clients :
          pc[c] = "in" /\ (epc = "set" \/ (epc = "min" /\ ei > at[c])) =>
              pub[c] = epoch \/ (emin # 0 /\ emin <= pub[c])

\* The session of c published the epoch of that moment.
InTime(c) == pc[c] = "in" /\ ~Late(c)

\* While a session that published in time lasts, the epoch advances once at
\* most: the verify pass stops at its slot.
WaitInv ==
    \A c \in Clients :
        InTime(c) =>
            /\ epoch <= pub[c] + 1
            /\ epoch = pub[c] + 1 => epc # "inc" /\ (epc = "verify" => ei <= at[c])

\* A waiting item retired in time: as long as it is linked its retirer is in
\* session, and afterwards its tag is young for every session that holds it.
Sheltered(e) ==
    e.item \notin lateRetired =>
        IF e.item \in linked
        THEN \E d \in Clients : InTime(d) /\ victim[d] = e.item /\ e.tag = pub[d]
        ELSE \A c \in Clients : e.item \in held[c] => pub[c] <= e.tag + 1

\* An item about to be pushed is as young, as its tag will tell.
VictimInv ==
    \A d \in Clients :
        victim[d] # None /\ victim[d] \notin lateRetired =>
            /\ InTime(d)
            /\ victim[d] \notin linked =>
                  \A c \in Clients : victim[d] \in held[c] => pub[c] <= pub[d] + 1

\* Everything that waits in a container is sheltered.
WaitingInv ==
    \A s \in Slots, k \in Kinds :
        /\ \A i \in 1 .. Len(queue[s][k]) : Sheltered(queue[s][k][i])
        /\ cache[s][k] # None => Sheltered(cache[s][k])

\* What is released is out of the tree.
FreedInv == freed \cap linked \subseteq lateRetired

\* The part of the invariant about slots and sessions.
SessionInv == TypeOK /\ BoundInv /\ SlotInv /\ IdleInv /\ BeginInv

\* The part about items.
ItemInv == VictimInv /\ WaitingInv /\ FreedInv /\ NoUseAfterFree

\* The inductive invariant.
IInv == SessionInv /\ GcInv /\ WaitInv /\ ItemInv

\* What a client is retiring is its own; it waits or is released if it is still
\* linked, and is not in a container yet if it was unlinked first.
OwnInv ==
    /\ \A c, d \in Clients : victim[c] # None /\ victim[c] = victim[d] => c = d
    /\ \A c \in Clients :
          victim[c] # None =>
              /\ victim[c] \in claimed
              /\ IF victim[c] \in linked THEN Waits(victim[c]) \/ victim[c] \in freed
                                         ELSE ~Waits(victim[c]) /\ victim[c] \notin freed

\* Only what was claimed waits or is released, and a gc pass that pops has
\* emptied its cache: what it keeps next overwrites nothing.
AccountInv ==
    /\ OwnInv
    /\ \A x \in Items : Waits(x) \/ x \in freed => x \in claimed
    /\ gpc = "pop" => cache[gi][gk] = None
    /\ RetiredAccounted

-----------------------------------------------------------------------------
(* Sessions.                                                               *)

\* The bounds of slots and epochs.
LEMMA Bounds == /\ 0 \in Epoch /\ 1 \in Epoch /\ 1 \in Slots /\ NSlots \in Slots
                /\ 0 \in 0 .. NSlots /\ Slots \subseteq 0 .. NSlots
                /\ \A s \in Slots : s # NSlots => s + 1 \in Slots
                /\ Slots \subseteq Nat /\ Epoch \subseteq Nat
BY EpochAssumption DEF Epoch, Slots

\* Nobody is in a session at first.
LEMMA InitSession == Init => SessionInv
<1> SUFFICES ASSUME Init PROVE SessionInv
  OBVIOUS
<1>1. TypeOK
  BY EpochAssumption DEF Init, TypeOK, Items, Tagged, Slots, Kinds, Epoch
<1>2. BoundInv /\ SlotInv /\ IdleInv /\ BeginInv
  BY EpochAssumption DEF Init, BoundInv, SlotInv, SlotExclusive, HoldsSlot, IdleInv,
     BeginInv, Slots
<1> QED BY <1>1, <1>2 DEF SessionInv

\* enter begins its search at the first slot.
LEMMA EnterSession ==
    ASSUME SessionInv, NEW c \in Clients, Enter(c)
    PROVE  SessionInv'
<1> USE DEF Enter, conts, ethread, gthread
<1>1. TypeOK'
  BY Bounds DEF SessionInv, TypeOK, SlotInv, HoldsSlot
<1>2. BoundInv'
  BY DEF SessionInv, BoundInv
<1>3. SlotInv'
  BY Bounds DEF SessionInv, TypeOK, SlotInv, SlotExclusive, HoldsSlot
<1>4. IdleInv'
  BY DEF SessionInv, TypeOK, IdleInv
<1>5. BeginInv'
  BY Bounds DEF SessionInv, TypeOK, SlotInv, SlotExclusive, HoldsSlot, BeginInv
<1> QED BY <1>1, <1>2, <1>3, <1>4, <1>5 DEF SessionInv

\* A slot is won, passed over, or the last one was taken as well.
LEMMA GainSession ==
    ASSUME SessionInv, NEW c \in Clients, GainTheRight(c)
    PROVE  SessionInv'
<1> USE DEF conts, ethread, gthread
<1>0. at[c] \in Slots /\ pc[c] = "gain"
  BY DEF GainTheRight, SessionInv, SlotInv
<1>1. CASE /\ ~running[at[c]]
           /\ running' = [running EXCEPT ![at[c]] = TRUE]
           /\ pc' = [pc EXCEPT ![c] = "load"] /\ at' = at
  <2>1. TypeOK'
    BY <1>0, <1>1, Bounds DEF GainTheRight, SessionInv, TypeOK
  <2>2. SlotInv'
    BY <1>0, <1>1 DEF SessionInv, TypeOK, SlotInv, SlotExclusive, HoldsSlot
  <2>3. BoundInv' /\ IdleInv'
    BY <1>0, <1>1 DEF GainTheRight, SessionInv, TypeOK, BoundInv, IdleInv
  <2>4. BeginInv'
    BY <1>0, <1>1 DEF GainTheRight, SessionInv, TypeOK, BeginInv
  <2> QED BY <2>1, <2>2, <2>3, <2>4 DEF SessionInv
<1>2. CASE /\ running[at[c]] /\ at[c] < NSlots
           /\ at' = [at EXCEPT ![c] = @ + 1]
           /\ running' = running /\ pc' = pc
  <2>0. at[c] + 1 \in Slots
    BY <1>0, <1>2, EpochAssumption DEF Slots
  <2>1. TypeOK'
    BY <1>0, <1>2, <2>0, Bounds DEF GainTheRight, SessionInv, TypeOK
  <2>2. SlotInv'
    BY <1>0, <1>2, <2>0 DEF SessionInv, TypeOK, SlotInv, SlotExclusive, HoldsSlot
  <2>3. BoundInv' /\ IdleInv'
    BY <1>0, <1>2 DEF GainTheRight, SessionInv, TypeOK, BoundInv, IdleInv
  <2>4. BeginInv'
    BY <1>0, <1>2 DEF GainTheRight, SessionInv, TypeOK, BeginInv
  <2> QED BY <2>1, <2>2, <2>3, <2>4 DEF SessionInv
<1>3. CASE /\ at' = [at EXCEPT ![c] = 0]
           /\ pc' = [pc EXCEPT ![c] = "out"]
           /\ running' = running
  <2>1. TypeOK'
    BY <1>0, <1>3, Bounds DEF GainTheRight, SessionInv, TypeOK
  <2>2. SlotInv'
    BY <1>0, <1>3 DEF SessionInv, TypeOK, SlotInv, SlotExclusive, HoldsSlot
  <2>3. BoundInv' /\ IdleInv'
    BY <1>0, <1>3 DEF GainTheRight, SessionInv, TypeOK, BoundInv, IdleInv
  <2>4. BeginInv'
    BY <1>0, <1>3 DEF GainTheRight, SessionInv, TypeOK, BeginInv
  <2> QED BY <2>1, <2>2, <2>3, <2>4 DEF SessionInv
<1> QED BY <1>1, <1>2, <1>3 DEF GainTheRight

\* The epoch loaded is the current one.
LEMMA LoadSession ==
    ASSUME SessionInv, NEW c \in Clients, LoadEpoch(c)
    PROVE  SessionInv'
<1> USE DEF LoadEpoch, conts, ethread, gthread
<1>1. TypeOK'
  BY Bounds DEF SessionInv, TypeOK, SlotInv, HoldsSlot
<1>2. BoundInv'
  BY DEF SessionInv, BoundInv
<1>3. SlotInv'
  BY Bounds DEF SessionInv, TypeOK, SlotInv, SlotExclusive, HoldsSlot
<1>4. IdleInv'
  BY DEF SessionInv, TypeOK, IdleInv
<1>5. BeginInv'
  BY Bounds DEF SessionInv, TypeOK, SlotInv, SlotExclusive, HoldsSlot, BeginInv
<1> QED BY <1>1, <1>2, <1>3, <1>4, <1>5 DEF SessionInv

\* The epoch stored was loaded before, so it is not ahead.
LEMMA PublishSession ==
    ASSUME SessionInv, NEW c \in Clients, SetBeginEpoch(c)
    PROVE  SessionInv'
<1> USE DEF SetBeginEpoch, conts, ethread, gthread
<1>1. TypeOK'
  BY Bounds DEF SessionInv, TypeOK, SlotInv, HoldsSlot
<1>2. BoundInv'
  BY DEF SessionInv, BoundInv
<1>3. SlotInv'
  BY Bounds DEF SessionInv, TypeOK, SlotInv, SlotExclusive, HoldsSlot
<1>4. IdleInv'
  BY DEF SessionInv, TypeOK, IdleInv
<1>5. BeginInv'
  BY Bounds DEF SessionInv, TypeOK, SlotInv, SlotExclusive, HoldsSlot, BeginInv
<1> QED BY <1>1, <1>2, <1>3, <1>4, <1>5 DEF SessionInv

\* leave withdraws the begin epoch of its own slot.
LEMMA LeaveBeginSession ==
    ASSUME SessionInv, NEW c \in Clients, LeaveBegin(c)
    PROVE  SessionInv'
<1> USE DEF LeaveBegin, conts, ethread, gthread
<1>1. TypeOK'
  BY Bounds DEF SessionInv, TypeOK, SlotInv, HoldsSlot
<1>2. BoundInv'
  BY DEF SessionInv, BoundInv
<1>3. SlotInv'
  BY Bounds DEF SessionInv, TypeOK, SlotInv, SlotExclusive, HoldsSlot
<1>4. IdleInv'
  BY DEF SessionInv, TypeOK, IdleInv
<1>5. BeginInv'
  BY Bounds, SMTT(40) DEF SessionInv, TypeOK, SlotInv, SlotExclusive, HoldsSlot, BeginInv
<1> QED BY <1>1, <1>2, <1>3, <1>4, <1>5 DEF SessionInv

\* leave gives back its own slot.
LEMMA LeaveRunningSession ==
    ASSUME SessionInv, NEW c \in Clients, LeaveRunning(c)
    PROVE  SessionInv'
<1> USE DEF LeaveRunning, conts, ethread, gthread
<1>1. TypeOK'
  BY Bounds DEF SessionInv, TypeOK, SlotInv, HoldsSlot
<1>2. BoundInv'
  BY DEF SessionInv, BoundInv
<1>3. SlotInv'
  BY Bounds DEF SessionInv, TypeOK, SlotInv, SlotExclusive, HoldsSlot
<1>4. IdleInv'
  BY DEF SessionInv, TypeOK, IdleInv
<1>5. BeginInv'
  BY Bounds DEF SessionInv, TypeOK, SlotInv, SlotExclusive, HoldsSlot, BeginInv
<1> QED BY <1>1, <1>2, <1>3, <1>4, <1>5 DEF SessionInv

\* One entry of a two-level function is replaced: the containers of a slot.
LEMMA UpdateEntry ==
    ASSUME NEW T, NEW f \in [Slots -> [Kinds -> T]], NEW s \in Slots, NEW k \in Kinds,
           NEW y \in T
    PROVE  LET g == [f EXCEPT ![s][k] = y]
           IN  /\ g \in [Slots -> [Kinds -> T]]
               /\ \A r \in Slots, j \in Kinds :
                     g[r][j] = IF r = s /\ j = k THEN y ELSE f[r][j]
<1> DEFINE g == [f EXCEPT ![s][k] = y]
<1>1. g = [f EXCEPT ![s] = [f[s] EXCEPT ![k] = y]]
  OBVIOUS
<1>2. [f[s] EXCEPT ![k] = y] \in [Kinds -> T]
  OBVIOUS
<1>3. g \in [Slots -> [Kinds -> T]]
  BY <1>1, <1>2
<1>4. ASSUME NEW r \in Slots, NEW j \in Kinds
      PROVE  g[r][j] = IF r = s /\ j = k THEN y ELSE f[r][j]
  BY <1>1
<1> QED BY <1>3, <1>4

\* Pushing to a container: its type, and what is in the containers afterwards.
LEMMA PushEffect ==
    ASSUME TypeOK, NEW c \in Clients, at[c] \in Slots, NEW x \in Items, Push(c, x)
    PROVE  /\ queue' \in [Slots -> [Kinds -> Seq(Tagged)]]
           /\ \A s \in Slots, k \in Kinds : \A i \in 1 .. Len(queue'[s][k]) :
                 \/ i \in 1 .. Len(queue[s][k]) /\ queue'[s][k][i] = queue[s][k][i]
                 \/ queue'[s][k][i] = [tag |-> begin[at[c]], item |-> x]
<1> DEFINE e == [tag |-> begin[at[c]], item |-> x]
<1>1. e \in Tagged
  BY DEF TypeOK, Tagged
<1>2. kindOf(x) \in Kinds
  BY DEF kindOf, Kinds
<1>3. queue[at[c]][kindOf(x)] \in Seq(Tagged)
  BY <1>2 DEF TypeOK
<1>4. Append(queue[at[c]][kindOf(x)], e) \in Seq(Tagged)
  BY <1>1, <1>3
<1>5. queue' = [queue EXCEPT ![at[c]] = [queue[at[c]] EXCEPT ![kindOf(x)] =
                   Append(queue[at[c]][kindOf(x)], e)]]
  BY DEF Push
<1>6. queue' \in [Slots -> [Kinds -> Seq(Tagged)]]
  BY <1>2, <1>4, <1>5 DEF TypeOK
<1>7. ASSUME NEW s \in Slots, NEW k \in Kinds, NEW i \in 1 .. Len(queue'[s][k])
      PROVE  \/ i \in 1 .. Len(queue[s][k]) /\ queue'[s][k][i] = queue[s][k][i]
             \/ queue'[s][k][i] = e
  <2>1. CASE s = at[c] /\ k = kindOf(x)
    <3>1. queue'[s][k] = Append(queue[s][k], e)
      BY <1>2, <1>5, <2>1 DEF TypeOK
    <3> QED BY <3>1, <1>1, <1>3, <2>1
  <2>2. CASE ~(s = at[c] /\ k = kindOf(x))
    <3>1. queue'[s][k] = queue[s][k]
      BY <1>2, <1>5, <2>2 DEF TypeOK
    <3> QED BY <3>1
  <2> QED BY <2>1, <2>2
<1> QED BY <1>6, <1>7

\* Steps that leave the slots and the epoch alone keep what is said of them.
LEMMA SessionFrame ==
    ASSUME SessionInv, UNCHANGED <<sess, pub, epoch, epc>>
    PROVE  BoundInv' /\ SlotInv' /\ BeginInv'
BY DEF SessionInv, BoundInv, SlotInv, SlotExclusive, HoldsSlot, BeginInv, sess

\* Reading and retiring are done in a session.
LEMMA MemorySession ==
    ASSUME SessionInv, NEW c \in Clients,
           (\E x \in Items : Read(c, x) \/ RetirePush(c, x) \/ RetireUnlink(c, x))
               \/ RetireFinish(c)
    PROVE  SessionInv'
<1> USE DEF conts, ethread, gthread
<1>0. UNCHANGED <<sess, pub, epoch, epc>>
  BY DEF Read, RetirePush, RetireUnlink, RetireFinish
<1>1. BoundInv' /\ SlotInv' /\ BeginInv'
  BY <1>0, SessionFrame
<1>2. pc[c] = "in" /\ at[c] \in Slots
  BY DEF Read, RetirePush, RetireUnlink, RetireFinish, SessionInv, IdleInv, SlotInv
<1>3. CASE \E x \in Items : Read(c, x)
  <2>1. TypeOK'
    BY <1>3 DEF Read, SessionInv, TypeOK, sess
  <2>2. IdleInv'
    BY <1>2, <1>3 DEF Read, SessionInv, TypeOK, IdleInv, sess
  <2> QED BY <1>1, <2>1, <2>2 DEF SessionInv
<1>4. CASE \E x \in Items : RetirePush(c, x)
  <2> PICK x \in Items : RetirePush(c, x)
    BY <1>4
  <2>0. queue' \in [Slots -> [Kinds -> Seq(Tagged)]]
    BY <1>2, PushEffect DEF RetirePush, SessionInv
  <2>1. TypeOK'
    BY <2>0 DEF RetirePush, Claim, SessionInv, TypeOK, sess
  <2>2. IdleInv'
    BY <1>2 DEF RetirePush, SessionInv, TypeOK, IdleInv, sess
  <2> QED BY <1>1, <2>1, <2>2 DEF SessionInv
<1>5. CASE \E x \in Items : RetireUnlink(c, x)
  <2> PICK x \in Items : RetireUnlink(c, x)
    BY <1>5
  <2>1. TypeOK'
    BY DEF RetireUnlink, Claim, SessionInv, TypeOK, sess
  <2>2. IdleInv'
    BY <1>2 DEF RetireUnlink, SessionInv, TypeOK, IdleInv, sess
  <2> QED BY <1>1, <2>1, <2>2 DEF SessionInv
<1>6. CASE RetireFinish(c)
  <2>0. victim[c] \in Items
    BY <1>6 DEF RetireFinish, SessionInv, TypeOK
  <2>1. queue' \in [Slots -> [Kinds -> Seq(Tagged)]]
    BY <1>2, <1>6, <2>0, PushEffect DEF RetireFinish, SessionInv, TypeOK
  <2>2. TypeOK'
    BY <1>6, <2>1 DEF RetireFinish, SessionInv, TypeOK, sess
  <2>3. IdleInv'
    BY <1>2, <1>6 DEF RetireFinish, SessionInv, TypeOK, IdleInv, sess
  <2> QED BY <1>1, <2>2, <2>3 DEF SessionInv
<1> QED BY <1>3, <1>4, <1>5, <1>6

\* The epoch thread moves the epoch within its bound, and never back.
LEMMA EpochSession ==
    ASSUME SessionInv, GcInv, EpochThread
    PROVE  SessionInv'
<1> USE DEF eFrame, sess, conts, gthread
<1>0. UNCHANGED eFrame
  BY DEF EpochThread, EpochVerify, EpochVerifySlot, EpochInc, EpochMin, SetGcEpoch
<1>1. SlotInv' /\ IdleInv'
  BY <1>0 DEF SessionInv, SlotInv, SlotExclusive, HoldsSlot, IdleInv
<1>2. /\ epoch' \in Epoch \ {0} /\ gc_epoch' \in Epoch /\ emin' \in Epoch /\ ei' \in Slots
      /\ epc' \in {"sleep", "verify", "inc", "min", "set"} /\ epoch <= epoch' /\ BoundInv'
  <2> USE EpochAssumption DEF SessionInv, TypeOK, BoundInv, Slots, Epoch
  <2>1. CASE EpochVerify
    BY <2>1 DEF EpochVerify
  <2>2. CASE EpochVerifySlot
    BY <2>2 DEF EpochVerifySlot
  <2>3. CASE EpochInc
    BY <2>3 DEF EpochInc
  <2>4. CASE EpochMin
    BY <2>4 DEF EpochMin
  <2>5. CASE SetGcEpoch
    BY <2>5 DEF SetGcEpoch
  <2> QED BY <2>1, <2>2, <2>3, <2>4, <2>5 DEF EpochThread
<1>3. TypeOK'
  BY <1>0, <1>2 DEF SessionInv, TypeOK
<1>4. BeginInv'
  <2>1. \A s \in Slots : begin'[s] \in Nat /\ begin'[s] <= epoch
    BY <1>0, Bounds DEF SessionInv, TypeOK, BeginInv
  <2>2. \A c \in Clients : pub'[c] \in Nat /\ loaded'[c] \in Nat
    BY <1>0, Bounds DEF SessionInv, TypeOK
  <2>3. epoch \in Nat /\ epoch' \in Nat /\ epoch <= epoch'
    BY <1>2, Bounds DEF SessionInv, TypeOK
  <2> QED BY <1>0, <2>1, <2>2, <2>3 DEF SessionInv, BeginInv
<1> QED BY <1>1, <1>2, <1>3, <1>4 DEF SessionInv

\* The gc thread keeps the types of what it moves.
LEMMA GcSession ==
    ASSUME SessionInv, GcThread
    PROVE  SessionInv'
<1> USE DEF gFrame, ethread
<1>0. UNCHANGED gFrame
  BY DEF GcThread, GcLoad, GcCache, GcPop
<1>1. BoundInv' /\ SlotInv' /\ BeginInv' /\ IdleInv'
  BY <1>0, SessionFrame DEF SessionInv, IdleInv, sess
<1>2. /\ gpc' \in {"sleep", "cache", "pop"} /\ gi' \in Slots /\ gk' \in Kinds
      /\ glocal' \in Epoch
  BY Bounds, SMTT(40) DEF GcThread, GcLoad, GcCache, GcPop, GcNext, SessionInv, TypeOK, Kinds
<1>3. /\ queue' \in [Slots -> [Kinds -> Seq(Tagged)]] /\ freed' \subseteq Items
      /\ cache' \in [Slots -> [Kinds -> Tagged \cup {None}]]
  <2>1. CASE GcLoad
    BY <2>1 DEF GcLoad, conts, SessionInv, TypeOK
  <2>2. CASE GcCache
    <3> DEFINE e == cache[gi][gk]
    <3>1. gi \in Slots /\ gk \in Kinds /\ e \in Tagged \cup {None}
      BY DEF SessionInv, TypeOK
    <3>2. queue' = queue /\ (\/ cache' = cache /\ freed' = freed
                            \/ /\ e # None
                               /\ cache' = [cache EXCEPT ![gi][gk] = None]
                               /\ freed' = freed \cup {e.item})
      BY <2>2 DEF GcCache
    <3>3. [cache EXCEPT ![gi][gk] = None] \in [Slots -> [Kinds -> Tagged \cup {None}]]
      BY <3>1, UpdateEntry DEF SessionInv, TypeOK
    <3>4. e # None => e.item \in Items
      BY <3>1 DEF Tagged
    <3> QED BY <3>2, <3>3, <3>4 DEF SessionInv, TypeOK
  <2>3. CASE GcPop
    <3> DEFINE q == queue[gi][gk]
    <3>1. q \in Seq(Tagged)
      BY DEF SessionInv, TypeOK
    <3>2. CASE q = <<>>
      BY <2>3, <3>2 DEF GcPop, conts, SessionInv, TypeOK
    <3>3. CASE q # <<>>
      <4>1. Head(q) \in Tagged /\ Tail(q) \in Seq(Tagged)
        BY <3>1, <3>3
      <4>2. Head(q).item \in Items
        BY <4>1 DEF Tagged
      <4>3. queue' = [queue EXCEPT ![gi][gk] = Tail(q)]
        BY <2>3, <3>3 DEF GcPop
      <4>4. \/ cache' = cache /\ freed' = freed \cup {Head(q).item}
            \/ cache' = [cache EXCEPT ![gi][gk] = Head(q)] /\ freed' = freed
        BY <2>3, <3>3 DEF GcPop
      <4>5. gi \in Slots /\ gk \in Kinds
        BY DEF SessionInv, TypeOK
      <4>6. queue' \in [Slots -> [Kinds -> Seq(Tagged)]]
        BY <4>1, <4>3, <4>5, UpdateEntry DEF SessionInv, TypeOK
      <4>7. [cache EXCEPT ![gi][gk] = Head(q)] \in [Slots -> [Kinds -> Tagged \cup {None}]]
        BY <4>1, <4>5, UpdateEntry DEF SessionInv, TypeOK
      <4> QED BY <4>2, <4>4, <4>6, <4>7 DEF SessionInv, TypeOK
    <3> QED BY <3>2, <3>3
  <2> QED BY <2>1, <2>2, <2>3 DEF GcThread
<1>4. TypeOK'
  BY <1>0, <1>2, <1>3 DEF SessionInv, TypeOK, sess
<1> QED BY <1>1, <1>4 DEF SessionInv

-----------------------------------------------------------------------------
(* gc_epoch and the epoch of the sessions.                                 *)

\* The numbers involved are natural numbers, and sessions sit at slots.
LEMMA Numbers ==
    ASSUME SessionInv
    PROVE  /\ epoch \in Nat /\ gc_epoch \in Nat /\ emin \in Nat /\ glocal \in Nat
           /\ ei \in Nat /\ 1 <= epoch
           /\ \A c \in Clients : pub[c] \in Nat /\ loaded[c] \in Nat /\ at[c] \in Nat
           /\ \A s \in Slots : begin[s] \in Nat
           /\ \A c \in Clients : pc[c] = "in" => at[c] \in Slots /\ 1 <= at[c]
BY EpochAssumption, SMTT(40) DEF SessionInv, TypeOK, SlotInv, Epoch, Slots

\* No session has begun, and gc_epoch is below the first epoch.
LEMMA InitGc == Init => GcInv /\ WaitInv
BY DEF Init, GcInv, GcBehindSessions, WaitInv, InTime

\* A client's step: sessions other than c's are as they were, and c's began
\* now or is over.
LEMMA ClientGc ==
    ASSUME SessionInv, GcInv, WaitInv, NEW c \in Clients, Client(c)
    PROVE  GcInv' /\ WaitInv'
<1> USE DEF sess, conts, ethread, gthread
<1>0. UNCHANGED <<epoch, gc_epoch, glocal, epc, ei, emin>>
  BY DEF Client, Enter, GainTheRight, LoadEpoch, SetBeginEpoch, LeaveBegin,
     LeaveRunning, Read, RetirePush, RetireUnlink, RetireFinish
<1>1. CASE SetBeginEpoch(c)
  <2>1. /\ pc' = [pc EXCEPT ![c] = "in"] /\ pub' = [pub EXCEPT ![c] = epoch]
        /\ at' = at /\ begin' = [begin EXCEPT ![at[c]] = loaded[c]] /\ pc[c] = "publish"
    BY <1>1 DEF SetBeginEpoch
  <2>2. GcInv'
    BY <1>0, <2>1, Numbers DEF GcInv, GcBehindSessions, SessionInv, TypeOK
  <2>3. ASSUME NEW d \in Clients, d # c, InTime(d)'
        PROVE  InTime(d) /\ pub'[d] = pub[d]
    BY <2>1, <2>3 DEF InTime, Late, SessionInv, TypeOK, SlotInv, SlotExclusive, HoldsSlot
  <2>4. WaitInv'
    BY <1>0, <2>1, <2>3, Numbers, SMTT(40) DEF WaitInv, SessionInv, TypeOK
  <2> QED BY <2>2, <2>4
<1>2. CASE ~SetBeginEpoch(c)
  <2>1. ASSUME NEW d \in Clients, pc'[d] = "in"
        PROVE  pc[d] = "in" /\ pub'[d] = pub[d] /\ at'[d] = at[d]
    BY <1>2, <2>1 DEF Client, Enter, GainTheRight, LoadEpoch, LeaveBegin,
       LeaveRunning, Read, RetirePush, RetireUnlink, RetireFinish, SessionInv, TypeOK
  <2>2. GcInv'
    BY <1>0, <2>1 DEF GcInv, GcBehindSessions
  <2>3. ASSUME NEW d \in Clients, pc'[d] = "in"
        PROVE  begin'[at'[d]] = begin[at[d]]
    BY <1>2, <2>1, <2>3 DEF Client, Enter, GainTheRight, LoadEpoch, LeaveBegin,
       LeaveRunning, Read, RetirePush, RetireUnlink, RetireFinish, SessionInv, TypeOK,
       SlotInv, SlotExclusive, HoldsSlot
  <2>4. WaitInv'
    BY <1>0, <2>1, <2>3 DEF WaitInv, InTime, Late
  <2> QED BY <2>2, <2>4
<1> QED BY <1>1, <1>2

\* The epoch thread: what is passed in the verify pass stays in its epoch, and
\* what is passed in the second pass is in the minimum.
LEMMA EpochGc ==
    ASSUME SessionInv, GcInv, WaitInv, EpochThread
    PROVE  GcInv' /\ WaitInv'
<1> USE DEF eFrame, sess, conts, gthread
<1>0. UNCHANGED <<pc, at, pub, begin, glocal>>
  BY DEF EpochThread, EpochVerify, EpochVerifySlot, EpochInc, EpochMin, SetGcEpoch
<1>1. CASE EpochVerify
  <2>1. GcInv'
    BY <1>0, <1>1, Numbers DEF EpochVerify, GcInv, GcBehindSessions
  <2>2. WaitInv'
    BY <1>0, <1>1, Numbers DEF EpochVerify, WaitInv, InTime, Late
  <2> QED BY <2>1, <2>2
<1>2. CASE EpochVerifySlot
  <2>1. GcInv'
    BY <1>0, <1>2, Numbers DEF EpochVerifySlot, GcInv, GcBehindSessions
  <2>2. ASSUME NEW c \in Clients, InTime(c), epoch = pub[c] + 1
        PROVE  epc' # "inc" /\ (epc' = "verify" => ei' <= at[c])
    <3>1. epc = "verify" /\ ei <= at[c] /\ begin[at[c]] = pub[c] /\ 1 <= pub[c]
      BY <1>2, <2>2 DEF EpochVerifySlot, WaitInv, InTime, Late, SessionInv, BeginInv
    <3>2. CASE ei = at[c]
      BY <1>2, <2>2, <3>1, <3>2, Numbers DEF EpochVerifySlot
    <3>3. CASE ei # at[c]
      <4>1. at[c] \in Slots
        BY <2>2 DEF InTime, SessionInv, SlotInv
      <4>2. ei < at[c] /\ ei < NSlots
        BY <3>1, <3>3, <4>1, Numbers, EpochAssumption DEF Slots
      <4> QED BY <1>2, <4>2, Numbers, EpochAssumption DEF EpochVerifySlot
    <3> QED BY <3>2, <3>3
  <2>3. WaitInv'
    BY <1>0, <1>2, <2>2 DEF EpochVerifySlot, WaitInv, InTime, Late
  <2> QED BY <2>1, <2>3
<1>3. CASE EpochInc
  <2>1. GcInv'
    BY <1>0, <1>3, Numbers DEF EpochInc, GcInv, GcBehindSessions
  <2>2. WaitInv'
    BY <1>0, <1>3, Numbers DEF EpochInc, WaitInv, InTime, Late
  <2> QED BY <2>1, <2>2
<1>4. CASE EpochMin
  <2>1. begin[ei] \in Nat /\ begin[ei] <= epoch
    BY Numbers DEF SessionInv, TypeOK, BeginInv
  <2>2. ASSUME NEW c \in Clients, pc[c] = "in", epc' = "set" \/ (epc' = "min" /\ ei' > at[c])
        PROVE  pub[c] = epoch \/ (emin' # 0 /\ emin' <= pub[c])
    <3>1. CASE ei = at[c]
      BY <1>4, <2>1, <2>2, <3>1, Numbers DEF EpochMin, SessionInv, BeginInv
    <3>2. CASE ei # at[c]
      <4>1. at[c] \in Slots /\ ei \in Slots
        BY <2>2 DEF SessionInv, TypeOK, SlotInv
      <4>2. ei > at[c]
        BY <1>4, <2>2, <3>2, <4>1, EpochAssumption DEF EpochMin, Slots
      <4>3. pub[c] = epoch \/ (emin # 0 /\ emin <= pub[c])
        BY <1>4, <2>2, <4>2 DEF EpochMin, GcInv
      <4> QED BY <1>4, <2>1, <4>3, Numbers DEF EpochMin
    <3> QED BY <3>1, <3>2
  <2>3. GcInv'
    BY <1>0, <1>4, <2>1, <2>2 DEF EpochMin, GcInv, GcBehindSessions
  <2>4. WaitInv'
    BY <1>0, <1>4 DEF EpochMin, WaitInv, InTime, Late
  <2> QED BY <2>3, <2>4
<1>5. CASE SetGcEpoch
  <2>1. GcInv'
    BY <1>0, <1>5, Numbers DEF SetGcEpoch, GcInv, GcBehindSessions
  <2>2. WaitInv'
    BY <1>0, <1>5 DEF SetGcEpoch, WaitInv, InTime, Late
  <2> QED BY <2>1, <2>2
<1> QED BY <1>1, <1>2, <1>3, <1>4, <1>5 DEF EpochThread

\* The gc thread copies gc_epoch, which is behind the sessions, or drops its copy.
LEMMA GcGc ==
    ASSUME SessionInv, GcInv, WaitInv, GcThread
    PROVE  GcInv' /\ WaitInv'
<1>1. /\ UNCHANGED <<pc, at, pub, begin, epoch, gc_epoch, epc, ei, emin>>
      /\ glocal' \in {0, glocal, gc_epoch}
  BY DEF GcThread, GcLoad, GcCache, GcPop, GcNext, gFrame, sess, ethread
<1>2. \A c \in Clients : pc[c] = "in" => 1 <= pub[c]
  BY Numbers DEF SessionInv, BeginInv
<1>3. GcInv'
  BY <1>1, <1>2, Numbers DEF GcInv, GcBehindSessions
<1>4. WaitInv'
  BY <1>1 DEF WaitInv, InTime, Late
<1> QED BY <1>3, <1>4

-----------------------------------------------------------------------------
(* What sessions hold is not released.                                     *)

\* Nothing is retired at first.
LEMMA InitItem == Init => ItemInv
<1> SUFFICES ASSUME Init PROVE ItemInv
  OBVIOUS
<1>1. VictimInv /\ FreedInv /\ NoUseAfterFree
  BY DEF Init, VictimInv, FreedInv, NoUseAfterFree
<1>2. \A s \in Slots, k \in Kinds : queue[s][k] = <<>> /\ cache[s][k] = None
  BY DEF Init
<1>3. WaitingInv
  BY <1>2 DEF WaitingInv
<1> QED BY <1>1, <1>3 DEF ItemInv

\* A waiting element is tagged and names an item.
LEMMA WaitingTyped ==
    ASSUME TypeOK
    PROVE  \A s \in Slots, k \in Kinds :
              /\ \A i \in 1 .. Len(queue[s][k]) :
                    queue[s][k][i].item \in Items /\ queue[s][k][i].tag \in Nat
              /\ cache[s][k] # None => cache[s][k].item \in Items /\ cache[s][k].tag \in Nat
<1>1. ASSUME NEW e \in Tagged
      PROVE  e.item \in Items /\ e.tag \in Nat
  BY Bounds DEF Tagged
<1>2. \A s \in Slots, k \in Kinds : \A i \in 1 .. Len(queue[s][k]) : queue[s][k][i] \in Tagged
  BY DEF TypeOK
<1>3. \A s \in Slots, k \in Kinds : cache[s][k] # None => cache[s][k] \in Tagged
  BY DEF TypeOK
<1> QED BY <1>1, <1>2, <1>3

\* Containers that are not touched keep elements that stay sheltered.
LEMMA WaitingFrame ==
    ASSUME TypeOK, WaitingInv, UNCHANGED <<queue, cache>>,
           ASSUME NEW e, e.item \in Items, e.tag \in Nat, Sheltered(e) PROVE Sheltered(e)'
    PROVE  WaitingInv'
<1> SUFFICES ASSUME NEW s \in Slots, NEW k \in Kinds
             PROVE  /\ \A i \in 1 .. Len(queue[s][k]) : Sheltered(queue[s][k][i])'
                    /\ cache[s][k] # None => Sheltered(cache[s][k])'
  BY DEF WaitingInv, Sheltered, InTime, Late
<1>1. ASSUME NEW i \in 1 .. Len(queue[s][k])
      PROVE  Sheltered(queue[s][k][i])'
  BY WaitingTyped DEF WaitingInv
<1>2. cache[s][k] # None => Sheltered(cache[s][k])'
  BY WaitingTyped DEF WaitingInv
<1> QED BY <1>1, <1>2

\* Steps of enter and leave, in which c has nothing in hand.
LEMMA SessionItem ==
    ASSUME SessionInv, ItemInv, NEW c \in Clients,
           \/ Enter(c) \/ GainTheRight(c) \/ LoadEpoch(c) \/ SetBeginEpoch(c)
           \/ LeaveBegin(c) \/ LeaveRunning(c)
    PROVE  ItemInv'
<1> USE DEF conts
<1>1. /\ UNCHANGED <<queue, cache, victim, linked, freed, lateRetired>>
      /\ victim[c] = None /\ held'[c] = {}
      /\ \A d \in Clients : d # c => held'[d] = held[d] /\ pub'[d] = pub[d]
  BY DEF Enter, GainTheRight, LoadEpoch, SetBeginEpoch, LeaveBegin, LeaveRunning,
     SessionInv, TypeOK, IdleInv
<1>2. ASSUME NEW d \in Clients, d # c, InTime(d)
      PROVE  InTime(d)'
  BY <1>1, <1>2 DEF InTime, Late, Enter, GainTheRight, LoadEpoch, SetBeginEpoch,
     LeaveBegin, LeaveRunning, SessionInv, TypeOK, SlotInv, SlotExclusive, HoldsSlot
<1>3. ASSUME NEW e, e.item \in Items, e.tag \in Nat, Sheltered(e)
      PROVE  Sheltered(e)'
  <2>1. e.item # None
    BY <1>3, EpochAssumption DEF Items
  <2>2. CASE e.item \in linked
    BY <1>1, <1>2, <1>3, <2>1, <2>2 DEF Sheltered
  <2>3. CASE e.item \notin linked
    BY <1>1, <1>3, <2>3 DEF Sheltered
  <2> QED BY <2>2, <2>3
<1>4. WaitingInv'
  BY <1>1, <1>3, WaitingFrame DEF ItemInv, SessionInv
<1>5. VictimInv'
  BY <1>1, <1>2 DEF ItemInv, VictimInv
<1>6. FreedInv' /\ NoUseAfterFree'
  BY <1>1 DEF ItemInv, FreedInv, NoUseAfterFree
<1> QED BY <1>4, <1>5, <1>6 DEF ItemInv

\* A session meets an item in the tree, which is not released unless late.
LEMMA ReadItem ==
    ASSUME SessionInv, ItemInv, NEW c \in Clients, NEW x \in Items, Read(c, x)
    PROVE  ItemInv'
<1> USE DEF conts, sess
<1>1. /\ UNCHANGED <<queue, cache, victim, linked, freed, lateRetired, pub, pc, at, begin>>
      /\ x \in linked /\ held' = [held EXCEPT ![c] = @ \cup {x}]
  BY DEF Read
<1>2. \A d \in Clients, y \in Items : y # x => (y \in held'[d] <=> y \in held[d])
  BY <1>1 DEF SessionInv, TypeOK
<1>3. \A d \in Clients : InTime(d)' = InTime(d)
  BY <1>1 DEF InTime, Late
<1>4. ASSUME NEW e, e.item \in Items, e.tag \in Nat, Sheltered(e)
      PROVE  Sheltered(e)'
  BY <1>1, <1>2, <1>3, <1>4 DEF Sheltered
<1>5. WaitingInv'
  BY <1>1, <1>4, WaitingFrame DEF ItemInv, SessionInv
<1>6. VictimInv'
  <2> SUFFICES ASSUME NEW d \in Clients, victim[d] # None, victim[d] \notin lateRetired
               PROVE  /\ InTime(d)
                      /\ victim[d] \notin linked =>
                            \A b \in Clients : victim[d] \in held'[b] => pub[b] <= pub[d] + 1
    BY <1>1, <1>3 DEF VictimInv
  <2>1. victim[d] \in Items
    BY DEF SessionInv, TypeOK
  <2> QED BY <1>1, <1>2, <2>1 DEF ItemInv, VictimInv
<1>7. FreedInv' /\ NoUseAfterFree'
  BY <1>1, <1>2 DEF ItemInv, FreedInv, NoUseAfterFree, SessionInv, TypeOK
<1> QED BY <1>5, <1>6, <1>7 DEF ItemInv

\* Sessions that hold an item while its retirer, in time, is still in session,
\* began at most one epoch after the retirer.
LEMMA HoldersYoung ==
    ASSUME SessionInv, WaitInv, NEW d \in Clients, InTime(d), NEW x,
           NEW b \in Clients, x \in held[b]
    PROVE  pub[b] <= pub[d] + 1
<1>1. pc[b] = "in"
  BY DEF SessionInv, IdleInv
<1>2. pub[b] <= epoch /\ epoch <= pub[d] + 1
  BY <1>1 DEF SessionInv, BeginInv, WaitInv
<1> QED BY <1>2, Numbers

\* A value is pushed while it is still in the tree.
LEMMA PushItem ==
    ASSUME SessionInv, ItemInv, NEW c \in Clients, NEW x \in Items, RetirePush(c, x)
    PROVE  ItemInv'
<1> USE DEF sess
<1>1. /\ UNCHANGED <<cache, linked, freed, held, pub, pc, at, begin>>
      /\ x \in linked /\ pc[c] = "in" /\ victim[c] = None
      /\ victim' = [victim EXCEPT ![c] = x]
      /\ lateRetired \subseteq lateRetired'
      /\ Late(c) => x \in lateRetired'
      /\ Push(c, x)
  BY DEF RetirePush, Claim
<1>2. \A d \in Clients : InTime(d)' = InTime(d)
  BY <1>1 DEF InTime, Late
<1>3. \A d \in Clients : victim'[d] = IF d = c THEN x ELSE victim[d]
  BY <1>1 DEF SessionInv, TypeOK
<1>4. ASSUME NEW e, e.item \in Items, e.tag \in Nat, Sheltered(e)
      PROVE  Sheltered(e)'
  <2>1. e.item # None
    BY <1>4, EpochAssumption DEF Items
  <2> QED BY <1>1, <1>2, <1>3, <1>4, <2>1 DEF Sheltered
<1>5. Sheltered([tag |-> begin[at[c]], item |-> x])'
  BY <1>1, <1>2, <1>3 DEF Sheltered, InTime, Late
<1>6. WaitingInv'
  <2> SUFFICES ASSUME NEW s \in Slots, NEW k \in Kinds
               PROVE  /\ \A i \in 1 .. Len(queue'[s][k]) : Sheltered(queue[s][k][i])'
                      /\ cache[s][k] # None => Sheltered(cache[s][k])'
    BY <1>1 DEF WaitingInv
  <2>1. cache[s][k] # None => Sheltered(cache[s][k])'
    BY <1>1, <1>4, WaitingTyped DEF ItemInv, WaitingInv, SessionInv
  <2>2. ASSUME NEW i \in 1 .. Len(queue'[s][k])
        PROVE  Sheltered(queue[s][k][i])'
    <3>0. at[c] \in Slots
      BY <1>1 DEF SessionInv, SlotInv
    <3>1. \/ i \in 1 .. Len(queue[s][k]) /\ queue'[s][k][i] = queue[s][k][i]
          \/ queue'[s][k][i] = [tag |-> begin[at[c]], item |-> x]
      BY <1>1, <3>0, PushEffect DEF SessionInv
    <3>2. CASE i \in 1 .. Len(queue[s][k]) /\ queue'[s][k][i] = queue[s][k][i]
      BY <1>4, <3>2, WaitingTyped DEF ItemInv, WaitingInv, SessionInv
    <3>3. CASE queue'[s][k][i] = [tag |-> begin[at[c]], item |-> x]
      BY <1>1, <1>5, <3>3
    <3> QED BY <3>1, <3>2, <3>3
  <2> QED BY <2>1, <2>2
<1>7. VictimInv'
  BY <1>1, <1>2, <1>3 DEF ItemInv, VictimInv, InTime
<1>8. FreedInv' /\ NoUseAfterFree'
  BY <1>1 DEF ItemInv, FreedInv, NoUseAfterFree
<1> QED BY <1>6, <1>7, <1>8 DEF ItemInv

\* An item is unlinked, now or by the second half of a removal: from here on
\* nobody new can hold it, and the holders are young.
LEMMA UnlinkItem ==
    ASSUME SessionInv, WaitInv, ItemInv, NEW c \in Clients, NEW x \in Items, x \in linked,
           linked' = linked \ {x},
           UNCHANGED <<queue, cache, freed, held, pub, pc, at, begin>>,
           lateRetired \subseteq lateRetired', Late(c) => x \in lateRetired',
           \/ victim[c] = None /\ pc[c] = "in" /\ victim' = [victim EXCEPT ![c] = x]
           \/ victim[c] = x /\ victim' = [victim EXCEPT ![c] = None]
    PROVE  ItemInv'
<1>1. \A d \in Clients : InTime(d)' = InTime(d)
  BY DEF InTime, Late
<1>2. \A d \in Clients : d # c => victim'[d] = victim[d]
  BY DEF SessionInv, TypeOK
<1>3. ASSUME NEW e, e.item \in Items, e.tag \in Nat, Sheltered(e)
      PROVE  Sheltered(e)'
  <2>0. e.item # None
    BY <1>3, EpochAssumption DEF Items
  <2>1. CASE e.item = x
    <3> SUFFICES ASSUME e.item \notin lateRetired', NEW b \in Clients, e.item \in held[b]
                 PROVE  pub[b] <= e.tag + 1
      BY <2>1 DEF Sheltered
    <3>1. PICK d \in Clients : InTime(d) /\ e.tag = pub[d]
      BY <1>3, <2>1 DEF Sheltered
    <3> QED BY <3>1, HoldersYoung
  <2>2. CASE e.item # x /\ e.item \in linked
    BY <1>1, <1>2, <1>3, <2>0, <2>2 DEF Sheltered
  <2>3. CASE e.item # x /\ e.item \notin linked
    BY <1>3, <2>3 DEF Sheltered
  <2> QED BY <2>1, <2>2, <2>3
<1>4. WaitingInv'
  BY <1>3, WaitingFrame DEF ItemInv, SessionInv
<1>5. VictimInv'
  <2> SUFFICES ASSUME NEW d \in Clients, victim'[d] # None, victim'[d] \notin lateRetired'
               PROVE  /\ InTime(d)
                      /\ victim'[d] \notin linked' =>
                            \A b \in Clients : victim'[d] \in held[b] => pub[b] <= pub[d] + 1
    BY <1>1 DEF VictimInv
  <2>1. InTime(d)
    <3>1. CASE d = c
      BY <3>1 DEF InTime, SessionInv, TypeOK
    <3>2. CASE d # c
      BY <1>2, <3>2 DEF ItemInv, VictimInv
    <3> QED BY <3>1, <3>2
  <2>2. \A b \in Clients : victim'[d] \in held[b] => pub[b] <= pub[d] + 1
    BY <2>1, HoldersYoung
  <2> QED BY <2>1, <2>2
<1>6. FreedInv' /\ NoUseAfterFree'
  BY DEF ItemInv, FreedInv, NoUseAfterFree
<1> QED BY <1>4, <1>5, <1>6 DEF ItemInv

\* The second half of an unlinked item: it is pushed with the tag of its session.
LEMMA FinishPushItem ==
    ASSUME SessionInv, ItemInv, NEW c \in Clients, RetireFinish(c), victim[c] \notin linked
    PROVE  ItemInv'
<1> USE DEF sess
<1>0. victim[c] \in Items
  BY DEF RetireFinish, SessionInv, TypeOK
<1> PICK x \in Items : x = victim[c]
  BY <1>0
<1> DEFINE e0 == [tag |-> begin[at[c]], item |-> x]
<1>1. /\ UNCHANGED <<cache, linked, freed, held, pub, pc, at, begin, lateRetired>>
      /\ x # None /\ x \notin linked /\ Push(c, x)
      /\ victim' = [victim EXCEPT ![c] = None]
  BY DEF RetireFinish
<1>2. pc[c] = "in" /\ at[c] \in Slots
  BY <1>1 DEF SessionInv, TypeOK, IdleInv, SlotInv
<1>3. \A d \in Clients : InTime(d)' = InTime(d)
  BY <1>1 DEF InTime, Late
<1>4. \A d \in Clients : victim'[d] = IF d = c THEN None ELSE victim[d]
  BY <1>1 DEF SessionInv, TypeOK
<1>5. ASSUME NEW e, e.item \in Items, e.tag \in Nat, Sheltered(e)
      PROVE  Sheltered(e)'
  <2>1. CASE e.item \in linked
    BY <1>1, <1>3, <1>4, <1>5, <2>1 DEF Sheltered
  <2>2. CASE e.item \notin linked
    BY <1>1, <1>5, <2>2 DEF Sheltered
  <2> QED BY <2>1, <2>2
<1>6. Sheltered(e0)'
  <2> SUFFICES ASSUME x \notin lateRetired, NEW b \in Clients, x \in held[b]
               PROVE  pub[b] <= begin[at[c]] + 1
    BY <1>1 DEF Sheltered
  <2>1. InTime(c) /\ pub[b] <= pub[c] + 1
    BY <1>1 DEF ItemInv, VictimInv
  <2> QED BY <2>1 DEF InTime, Late
<1>7. WaitingInv'
  <2> SUFFICES ASSUME NEW s \in Slots, NEW k \in Kinds
               PROVE  /\ \A i \in 1 .. Len(queue'[s][k]) : Sheltered(queue[s][k][i])'
                      /\ cache[s][k] # None => Sheltered(cache[s][k])'
    BY <1>1 DEF WaitingInv
  <2>1. cache[s][k] # None => Sheltered(cache[s][k])'
    BY <1>1, <1>5, WaitingTyped DEF ItemInv, WaitingInv, SessionInv
  <2>2. ASSUME NEW i \in 1 .. Len(queue'[s][k])
        PROVE  Sheltered(queue[s][k][i])'
    <3>1. \/ i \in 1 .. Len(queue[s][k]) /\ queue'[s][k][i] = queue[s][k][i]
          \/ queue'[s][k][i] = e0
      BY <1>1, <1>2, PushEffect DEF SessionInv
    <3>2. CASE i \in 1 .. Len(queue[s][k]) /\ queue'[s][k][i] = queue[s][k][i]
      BY <1>5, <3>2, WaitingTyped DEF ItemInv, WaitingInv, SessionInv
    <3>3. CASE queue'[s][k][i] = e0
      BY <1>1, <1>6, <3>3
    <3> QED BY <3>1, <3>2, <3>3
  <2> QED BY <2>1, <2>2
<1>8. VictimInv'
  BY <1>1, <1>3, <1>4 DEF ItemInv, VictimInv
<1>9. FreedInv' /\ NoUseAfterFree'
  BY <1>1 DEF ItemInv, FreedInv, NoUseAfterFree
<1> QED BY <1>7, <1>8, <1>9 DEF ItemInv

\* Every step of a client.
LEMMA ClientItem ==
    ASSUME SessionInv, WaitInv, ItemInv, NEW c \in Clients, Client(c)
    PROVE  ItemInv'
<1> USE DEF sess, conts
<1>1. CASE \/ Enter(c) \/ GainTheRight(c) \/ LoadEpoch(c) \/ SetBeginEpoch(c)
           \/ LeaveBegin(c) \/ LeaveRunning(c)
  BY <1>1, SessionItem
<1>2. CASE \E x \in Items : Read(c, x)
  BY <1>2, ReadItem
<1>3. CASE \E x \in Items : RetirePush(c, x)
  BY <1>3, PushItem
<1>4. CASE \E x \in Items : RetireUnlink(c, x)
  <2> PICK x \in Items : RetireUnlink(c, x)
    BY <1>4
  <2> QED BY UnlinkItem DEF RetireUnlink, Claim
<1>5. CASE RetireFinish(c)
  <2>1. CASE victim[c] \in linked
    <3>1. /\ victim[c] \in Items
          /\ linked' = linked \ {victim[c]}
          /\ UNCHANGED <<queue, cache, freed, held, pub, pc, at, begin, lateRetired>>
          /\ victim' = [victim EXCEPT ![c] = None] /\ victim[c] # None
      BY <1>5, <2>1 DEF RetireFinish, SessionInv, TypeOK
    <3>2. Late(c) => victim[c] \in lateRetired
      BY <3>1 DEF ItemInv, VictimInv, InTime
    <3> QED BY <2>1, <3>1, <3>2, UnlinkItem
  <2>2. CASE victim[c] \notin linked
    BY <1>5, <2>2, FinishPushItem
  <2> QED BY <2>1, <2>2
<1> QED BY <1>1, <1>2, <1>3, <1>4, <1>5 DEF Client

\* The epoch thread touches no item.
LEMMA EpochItem ==
    ASSUME SessionInv, ItemInv, EpochThread
    PROVE  ItemInv'
<1>1. UNCHANGED <<queue, cache, victim, linked, freed, held, lateRetired, pub, pc, at, begin>>
  BY DEF EpochThread, EpochVerify, EpochVerifySlot, EpochInc, EpochMin, SetGcEpoch,
     eFrame, sess, conts
<1>2. \A d \in Clients : InTime(d)' = InTime(d)
  BY <1>1 DEF InTime, Late
<1>3. ASSUME NEW e, e.item \in Items, e.tag \in Nat, Sheltered(e)
      PROVE  Sheltered(e)'
  BY <1>1, <1>2, <1>3 DEF Sheltered
<1>4. WaitingInv'
  BY <1>1, <1>3, WaitingFrame DEF ItemInv, SessionInv
<1>5. VictimInv' /\ FreedInv' /\ NoUseAfterFree'
  BY <1>1, <1>2 DEF ItemInv, VictimInv, FreedInv, NoUseAfterFree
<1> QED BY <1>4, <1>5 DEF ItemInv

\* A sheltered element whose tag is below gc_epoch: its item is out of the tree
\* and no session holds it, unless it was retired late.
LEMMA ReleaseSafe ==
    ASSUME SessionInv, GcInv, NEW e, e.tag \in Nat, Sheltered(e), e.tag < glocal,
           e.item \notin lateRetired
    PROVE  e.item \notin linked /\ \A b \in Clients : e.item \notin held[b]
<1>1. \A d \in Clients : pc[d] = "in" => glocal < pub[d]
  BY DEF GcInv, GcBehindSessions
<1>2. e.item \notin linked
  BY <1>1, Numbers DEF Sheltered, InTime
<1>3. ASSUME NEW b \in Clients, e.item \in held[b]
      PROVE  FALSE
  <2>1. pc[b] = "in"
    BY <1>3 DEF SessionInv, IdleInv
  <2>2. pub[b] <= e.tag + 1
    BY <1>2, <1>3 DEF Sheltered
  <2> QED BY <1>1, <2>1, <2>2, Numbers
<1> QED BY <1>2, <1>3

\* The gc thread moves elements and releases those it may.
LEMMA GcItem ==
    ASSUME SessionInv, GcInv, ItemInv, GcThread
    PROVE  ItemInv'
<1>1. UNCHANGED <<victim, linked, held, lateRetired, pub, pc, at, begin>>
  BY DEF GcThread, GcLoad, GcCache, GcPop, gFrame, sess
<1>2. \A d \in Clients : InTime(d)' = InTime(d)
  BY <1>1 DEF InTime, Late
<1>3. ASSUME NEW e, Sheltered(e)
      PROVE  Sheltered(e)'
  BY <1>1, <1>2, <1>3 DEF Sheltered
<1>4. VictimInv'
  BY <1>1, <1>2 DEF ItemInv, VictimInv
<1> DEFINE Released(e) == /\ e.tag \in Nat /\ Sheltered(e) /\ e.tag < glocal
                          /\ freed' = freed \cup {e.item}
<1>5. ASSUME NEW e, Released(e)
      PROVE  FreedInv' /\ NoUseAfterFree'
  BY <1>1, <1>5, ReleaseSafe DEF ItemInv, FreedInv, NoUseAfterFree
<1>6. freed' = freed => FreedInv' /\ NoUseAfterFree'
  BY <1>1 DEF ItemInv, FreedInv, NoUseAfterFree
<1>7. gi \in Slots /\ gk \in Kinds /\ glocal \in Nat
  BY Numbers DEF SessionInv, TypeOK
<1>8. CASE UNCHANGED <<queue, cache, freed>>
  <2>1. WaitingInv'
    BY <1>3, <1>8, WaitingFrame DEF ItemInv, SessionInv
  <2> QED BY <1>4, <1>6, <1>8, <2>1 DEF ItemInv
<1>9. CASE /\ cache[gi][gk] # None /\ cache[gi][gk].tag < glocal
           /\ freed' = freed \cup {cache[gi][gk].item}
           /\ cache' = [cache EXCEPT ![gi][gk] = None] /\ queue' = queue
  <2>1. Released(cache[gi][gk])
    BY <1>7, <1>9, WaitingTyped DEF ItemInv, WaitingInv, SessionInv
  <2>2. \A s \in Slots, k \in Kinds : cache'[s][k] \in {None, cache[s][k]}
    BY <1>7, <1>9, UpdateEntry DEF SessionInv, TypeOK
  <2>3. WaitingInv'
    <3> SUFFICES ASSUME NEW s \in Slots, NEW k \in Kinds
                 PROVE  /\ \A i \in 1 .. Len(queue[s][k]) : Sheltered(queue[s][k][i])'
                        /\ cache'[s][k] # None => Sheltered(cache[s][k])'
      BY <1>9 DEF WaitingInv
    <3>1. \A i \in 1 .. Len(queue[s][k]) : Sheltered(queue[s][k][i])'
      BY <1>3, <1>9 DEF ItemInv, WaitingInv
    <3>2. cache'[s][k] # None => Sheltered(cache[s][k])'
      BY <1>3, <2>2 DEF ItemInv, WaitingInv
    <3> QED BY <3>1, <3>2
  <2> QED BY <1>4, <1>5, <2>1, <2>3 DEF ItemInv
<1>10. CASE /\ queue[gi][gk] # <<>>
            /\ queue' = [queue EXCEPT ![gi][gk] = Tail(queue[gi][gk])]
            /\ \/ /\ cache' = [cache EXCEPT ![gi][gk] = Head(queue[gi][gk])] /\ freed' = freed
               \/ /\ cache' = cache /\ Head(queue[gi][gk]).tag < glocal
                  /\ freed' = freed \cup {Head(queue[gi][gk]).item}
  <2> DEFINE q == queue[gi][gk]
             h == Head(q)
  <2>1. q \in Seq(Tagged) /\ Len(q) \in Nat /\ 1 \in 1 .. Len(q) /\ h = q[1] /\ h \in Tagged
        /\ Tail(q) \in Seq(Tagged)
    BY <1>7, <1>10 DEF SessionInv, TypeOK
  <2>2. \A i \in 1 .. Len(Tail(q)) : i + 1 \in 1 .. Len(q) /\ Tail(q)[i] = q[i + 1]
    BY <2>1, <1>10
  <2>3. Sheltered(h) /\ h.tag \in Nat
    BY <1>7, <2>1, WaitingTyped DEF ItemInv, WaitingInv, SessionInv
  <2>4. FreedInv' /\ NoUseAfterFree'
    BY <1>5, <1>6, <1>10, <2>3
  <2>5. \A s \in Slots, k \in Kinds :
           queue'[s][k] = IF s = gi /\ k = gk THEN Tail(q) ELSE queue[s][k]
    BY <1>7, <1>10, <2>1, UpdateEntry DEF SessionInv, TypeOK
  <2>6. \A s \in Slots, k \in Kinds : cache'[s][k] \in {h, cache[s][k]}
    <3>1. h \in Tagged \cup {None} /\ cache \in [Slots -> [Kinds -> Tagged \cup {None}]]
      BY <2>1 DEF SessionInv, TypeOK
    <3>2. \A s \in Slots, k \in Kinds :
             [cache EXCEPT ![gi][gk] = h][s][k] = IF s = gi /\ k = gk THEN h ELSE cache[s][k]
      BY <1>7, <3>1, UpdateEntry
    <3> QED BY <1>10, <3>2, ZenonT(60)
  <2>7. WaitingInv'
    <3> SUFFICES ASSUME NEW s \in Slots, NEW k \in Kinds
                 PROVE  /\ \A i \in 1 .. Len(queue'[s][k]) : Sheltered(queue[s][k][i])'
                        /\ cache'[s][k] # None => Sheltered(cache[s][k])'
      BY DEF WaitingInv
    <3>1. ASSUME NEW i \in 1 .. Len(queue'[s][k])
          PROVE  Sheltered(queue[s][k][i])'
      <4>1. PICK j \in 1 .. Len(queue[s][k]) : queue'[s][k][i] = queue[s][k][j]
        BY <2>2, <2>5
      <4>2. Sheltered(queue[s][k][j])
        BY DEF ItemInv, WaitingInv
      <4> QED BY <1>3, <4>1, <4>2
    <3>2. cache'[s][k] # None => Sheltered(cache[s][k])'
      BY <1>3, <2>3, <2>6 DEF ItemInv, WaitingInv
    <3> QED BY <3>1, <3>2
  <2> QED BY <1>4, <2>4, <2>7 DEF ItemInv
<1>11. CASE GcLoad
  BY <1>8, <1>11 DEF GcLoad, conts
<1>12. CASE GcCache
  BY <1>7, <1>8, <1>9, <1>12, WaitingTyped DEF GcCache, SessionInv
<1>13. CASE GcPop
  <2>1. CASE queue[gi][gk] = <<>>
    BY <1>8, <1>13, <2>1 DEF GcPop, conts
  <2>2. CASE queue[gi][gk] # <<>>
    <3>1. Head(queue[gi][gk]) \in Tagged
      BY <1>7, <2>2 DEF SessionInv, TypeOK
    <3>2. Head(queue[gi][gk]).tag \in Nat
      BY <3>1, Bounds DEF Tagged
    <3> QED BY <1>7, <1>10, <1>13, <2>2, <3>2 DEF GcPop
  <2> QED BY <2>1, <2>2
<1> QED BY <1>11, <1>12, <1>13 DEF GcThread

-----------------------------------------------------------------------------
(* The accounts of what is retired.                                        *)

\* A place is an index in a queue, or the cache: a natural number.
PlacesNat ==
    /\ \A x : Waits(x) <=> \E s \in Slots, k \in Kinds, i \in Nat : WaitsAt(x, s, k, i)
    /\ \A x : WaitsOnce(x) <=>
          \A s, t \in Slots, k, l \in Kinds, i, j \in Nat :
              WaitsAt(x, s, k, i) /\ WaitsAt(x, t, l, j) => s = t /\ k = l /\ i = j

\* Where something waits is within the container it waits in.
LEMMA PlacesBounded == TypeOK => PlacesNat
<1> HAVE TypeOK
<1>0. \A s \in Slots, k \in Kinds : Len(queue[s][k]) \in Nat
  BY DEF TypeOK
<1>1. ASSUME NEW x, NEW s \in Slots, NEW k \in Kinds, NEW i \in Nat, WaitsAt(x, s, k, i)
      PROVE  i \in 0 .. Len(queue[s][k])
  BY <1>0, <1>1 DEF WaitsAt
<1>2. \A s \in Slots, k \in Kinds : \A i \in 0 .. Len(queue[s][k]) : i \in Nat
  BY <1>0
<1>3. ASSUME NEW x
      PROVE  Waits(x) <=> \E s \in Slots, k \in Kinds, i \in Nat : WaitsAt(x, s, k, i)
  BY <1>1, <1>2 DEF Waits
<1>4. ASSUME NEW x
      PROVE  WaitsOnce(x) <=>
                 \A s, t \in Slots, k, l \in Kinds, i, j \in Nat :
                     WaitsAt(x, s, k, i) /\ WaitsAt(x, t, l, j) => s = t /\ k = l /\ i = j
  BY <1>1, <1>2 DEF WaitsOnce
<1> QED BY <1>3, <1>4 DEF PlacesNat

\* The same after a step.
LEMMA PlacesBoundedNext == TypeOK' => PlacesNat'
BY PlacesBounded, PTL

\* Steps that leave the places, the victims and what is reachable alone.
LEMMA AccountFrame ==
    ASSUME AccountInv, UNCHANGED <<queue, cache, victim, linked, freed, claimed>>,
           UNCHANGED <<gpc, gi, gk>>
    PROVE  AccountInv'
<1>1. \A x : (Waits(x)' <=> Waits(x)) /\ (WaitsOnce(x)' <=> WaitsOnce(x))
  BY DEF Waits, WaitsOnce, WaitsAt
<1>2. OwnInv'
  BY <1>1 DEF AccountInv, OwnInv
<1>3. RetiredAccounted'
  BY <1>1 DEF AccountInv, RetiredAccounted
<1> QED BY <1>1, <1>2, <1>3 DEF AccountInv

\* The item x waits at a place where nothing waited.
OnePlaceMore(x) ==
    \E t \in Slots, l \in Kinds, n \in Nat :
        /\ \A y : ~WaitsAt(y, t, l, n)
        /\ \A y : \A s \in Slots, k \in Kinds, i \in Nat :
              WaitsAt(y, s, k, i)' <=>
                  WaitsAt(y, s, k, i) \/ (y = x /\ s = t /\ k = l /\ i = n)

\* A push adds one place, behind all others of its container.
LEMMA PushPlaces ==
    ASSUME TypeOK, NEW c \in Clients, at[c] \in Slots, NEW x \in Items, Push(c, x),
           UNCHANGED cache
    PROVE  OnePlaceMore(x)
<1> DEFINE t == at[c]
           l == kindOf(x)
           q == queue[t][l]
           e == [tag |-> begin[at[c]], item |-> x]
           n == Len(q) + 1
<1>1. l \in Kinds /\ t \in Slots
  BY DEF kindOf, Kinds
<1>2. e \in Tagged /\ e.item = x
  BY DEF TypeOK, Tagged
<1>3. q \in Seq(Tagged)
  BY <1>1 DEF TypeOK
<1> HIDE DEF l, e
<1>4. queue' = [queue EXCEPT ![t][l] = Append(q, e)]
  BY DEF Push, e, l
<1>5. Append(q, e) \in Seq(Tagged) /\ Len(q) \in Nat /\ Len(Append(q, e)) = Len(q) + 1
  BY <1>2, <1>3
<1>6. \A s \in Slots, k \in Kinds :
         queue'[s][k] = IF s = t /\ k = l THEN Append(q, e) ELSE queue[s][k]
  BY <1>1, <1>4, <1>5, UpdateEntry, SMTT(40) DEF TypeOK
<1>7. ASSUME NEW y PROVE ~WaitsAt(y, t, l, n)
  BY <1>5 DEF WaitsAt
<1>8. ASSUME NEW y, NEW s \in Slots, NEW k \in Kinds, NEW i \in Nat
      PROVE  WaitsAt(y, s, k, i)' <=>
                 WaitsAt(y, s, k, i) \/ (y = x /\ s = t /\ k = l /\ i = n)
  <2>1. CASE i = 0
    BY <1>5, <2>1 DEF WaitsAt
  <2>2. CASE i # 0 /\ s = t /\ k = l
    <3>1. queue'[s][k] = Append(q, e)
      BY <1>6, <2>2
    <3>2. CASE i <= Len(q)
      <4>1. Append(q, e)[i] = q[i]
        BY <1>2, <1>3, <2>2, <3>2
      <4> QED BY <1>5, <2>2, <3>1, <3>2, <4>1 DEF WaitsAt
    <3>3. CASE i = n
      <4>1. Append(q, e)[i] = e
        BY <1>2, <1>3, <3>3
      <4> QED BY <1>2, <1>5, <2>2, <3>1, <3>3, <4>1 DEF WaitsAt
    <3>4. CASE i > n
      BY <1>5, <2>2, <3>1, <3>4 DEF WaitsAt
    <3> QED BY <1>5, <3>2, <3>3, <3>4
  <2>3. CASE i # 0 /\ ~(s = t /\ k = l)
    <3>1. queue'[s][k] = queue[s][k]
      BY <1>6, <2>3
    <3> QED BY <2>3, <3>1 DEF WaitsAt
  <2> QED BY <2>1, <2>2, <2>3
<1>9. n \in Nat
  BY <1>5
<1> HIDE DEF n, t
<1> QED BY <1>1, <1>7, <1>8, <1>9 DEF OnePlaceMore

\* A pop moves the places of its container up by one; the first goes to the
\* cache, if that is where it goes.
LEMMA PopPlaces ==
    ASSUME TypeOK, NEW t \in Slots, NEW l \in Kinds, queue[t][l] # <<>>,
           queue' = [queue EXCEPT ![t][l] = Tail(@)],
           \/ cache' = cache
           \/ cache[t][l] = None /\ cache' = [cache EXCEPT ![t][l] = Head(queue[t][l])]
    PROVE  /\ \A y : WaitsAt(y, t, l, 1) <=> y = Head(queue[t][l]).item
           /\ \A y : \A s \in Slots, k \in Kinds, i \in Nat :
                 ~(s = t /\ k = l) => (WaitsAt(y, s, k, i)' <=> WaitsAt(y, s, k, i))
           /\ \A y : \A i \in Nat \ {0} : WaitsAt(y, t, l, i)' <=> WaitsAt(y, t, l, i + 1)
           /\ cache' = cache => \A y : WaitsAt(y, t, l, 0)' <=> WaitsAt(y, t, l, 0)
           /\ cache' # cache => \A y : /\ ~WaitsAt(y, t, l, 0)
                                       /\ WaitsAt(y, t, l, 0)' <=> WaitsAt(y, t, l, 1)
<1> DEFINE q == queue[t][l]
<1>1. q \in Seq(Tagged) /\ q # <<>>
  BY DEF TypeOK
<1>2. /\ Tail(q) \in Seq(Tagged) /\ Head(q) \in Tagged /\ Head(q) = q[1]
      /\ Len(q) \in Nat \ {0} /\ Len(Tail(q)) = Len(q) - 1
      /\ \A i \in 1 .. Len(q) - 1 : Tail(q)[i] = q[i + 1]
  BY <1>1
<1>3. \A s \in Slots, k \in Kinds :
         queue'[s][k] = IF s = t /\ k = l THEN Tail(q) ELSE queue[s][k]
  BY <1>2, UpdateEntry, SMTT(40) DEF TypeOK
<1>4. cache' # cache => \A s \in Slots, k \in Kinds :
         cache'[s][k] = IF s = t /\ k = l THEN Head(q) ELSE cache[s][k]
  <2>1. Head(q) \in Tagged \cup {None}
    BY <1>2
  <2>2. cache \in [Slots -> [Kinds -> Tagged \cup {None}]]
    BY DEF TypeOK
  <2> HIDE DEF q
  <2>3. cache' # cache => cache' = [cache EXCEPT ![t][l] = Head(q)]
    BY DEF q
  <2> QED BY <2>1, <2>2, <2>3, UpdateEntry
<1>10. Head(q) # None
  BY <1>2, EpochAssumption DEF Tagged, Items, Epoch
<1> HIDE DEF q
<1>5. ASSUME NEW y PROVE WaitsAt(y, t, l, 1) <=> y = Head(q).item
  BY <1>2 DEF WaitsAt, q
<1>6. ASSUME NEW y, NEW s \in Slots, NEW k \in Kinds, NEW i \in Nat, ~(s = t /\ k = l)
      PROVE  WaitsAt(y, s, k, i)' <=> WaitsAt(y, s, k, i)
  <2>1. queue'[s][k] = queue[s][k] /\ cache'[s][k] = cache[s][k]
    BY <1>3, <1>4, <1>6
  <2> QED BY <2>1 DEF WaitsAt
<1>7. ASSUME NEW y, NEW i \in Nat \ {0}
      PROVE  WaitsAt(y, t, l, i)' <=> WaitsAt(y, t, l, i + 1)
  <2>1. queue'[t][l] = Tail(q)
    BY <1>3
  <2>2. WaitsAt(y, t, l, i)' <=> i <= Len(Tail(q)) /\ Tail(q)[i].item = y
    BY <2>1 DEF WaitsAt
  <2>3. WaitsAt(y, t, l, i + 1) <=> i + 1 <= Len(q) /\ q[i + 1].item = y
    BY DEF WaitsAt, q
  <2>4. i + 1 <= Len(q) <=> i <= Len(Tail(q))
    BY <1>2
  <2>5. i <= Len(Tail(q)) => Tail(q)[i] = q[i + 1]
    BY <1>2
  <2> QED BY <2>2, <2>3, <2>4, <2>5
<1>8. ASSUME NEW y, cache' = cache PROVE WaitsAt(y, t, l, 0)' <=> WaitsAt(y, t, l, 0)
  BY <1>8 DEF WaitsAt
<1>9. ASSUME cache' # cache, NEW y
      PROVE  ~WaitsAt(y, t, l, 0) /\ (WaitsAt(y, t, l, 0)' <=> WaitsAt(y, t, l, 1))
  BY <1>2, <1>4, <1>9, <1>10 DEF WaitsAt, q
<1> QED BY <1>5, <1>6, <1>7, <1>8, <1>9 DEF q

\* The second half of a push: the item had no place before and has one now.
LEMMA PushWaits ==
    ASSUME TypeOK, TypeOK', NEW c \in Clients, at[c] \in Slots, NEW x \in Items, Push(c, x),
           UNCHANGED cache
    PROVE  /\ \A y : Waits(y)' <=> Waits(y) \/ y = x
           /\ \A y : (y # x \/ ~Waits(x)) /\ WaitsOnce(y) => WaitsOnce(y)'
<1>0. PlacesNat /\ PlacesNat'
  BY PlacesBounded, PlacesBoundedNext
<1>4. OnePlaceMore(x)
  BY PushPlaces
<1>1. PICK t \in Slots, l \in Kinds, n \in Nat :
         /\ \A y : ~WaitsAt(y, t, l, n)
         /\ \A y : \A s \in Slots, k \in Kinds, i \in Nat :
               WaitsAt(y, s, k, i)' <=>
                   WaitsAt(y, s, k, i) \/ (y = x /\ s = t /\ k = l /\ i = n)
  BY <1>4 DEF OnePlaceMore
<1>2. ASSUME NEW y PROVE Waits(y)' <=> Waits(y) \/ y = x
  BY <1>0, <1>1 DEF PlacesNat
<1>3. ASSUME NEW y, y # x \/ ~Waits(x), WaitsOnce(y) PROVE WaitsOnce(y)'
  BY <1>0, <1>1, <1>3 DEF PlacesNat
<1> QED BY <1>2, <1>3

\* RetirePush claims an item nobody claimed and gives it its place.
LEMMA RetirePushAccount ==
    ASSUME SessionInv, TypeOK', AccountInv, NEW c \in Clients, NEW x \in Items,
           RetirePush(c, x)
    PROVE  AccountInv'
<1>1. TypeOK /\ at[c] \in Slots /\ x \in linked /\ x \notin claimed /\ victim[c] = None
  BY DEF SessionInv, SlotInv, RetirePush
<1>2. ~Waits(x) /\ x \notin freed
  BY <1>1 DEF AccountInv
<1>3. /\ \A y : Waits(y)' <=> Waits(y) \/ y = x
      /\ \A y : WaitsOnce(y) => WaitsOnce(y)'
  BY <1>1, <1>2, PushWaits DEF RetirePush
<1>4. /\ claimed' = claimed \cup {x} /\ victim' = [victim EXCEPT ![c] = x]
      /\ UNCHANGED <<linked, freed, cache, gpc, gi, gk>>
  BY DEF RetirePush, Claim, gthread
<1>5. \A d \in Clients : victim'[d] = IF d = c THEN x ELSE victim[d]
  BY <1>1, <1>4 DEF TypeOK
<1>6. \A d \in Clients : victim[d] # None => victim[d] \in claimed /\ victim[d] # x
  BY <1>1 DEF AccountInv, OwnInv
<1>7. OwnInv'
  BY <1>1, <1>2, <1>3, <1>4, <1>5, <1>6 DEF AccountInv, OwnInv
<1>8. RetiredAccounted'
  <2> SUFFICES ASSUME NEW y \in Items
               PROVE  /\ WaitsOnce(y)' /\ (y \in freed' => ~Waits(y)')
                      /\ y \in claimed' => \/ y \in freed' \/ Waits(y)'
                                           \/ \E d \in Clients : victim'[d] = y
    BY DEF RetiredAccounted
  <2>1. CASE y = x
    BY <1>2, <1>3, <1>4, <1>5, <2>1 DEF AccountInv, RetiredAccounted
  <2>2. CASE y # x
    <3>1. \A d \in Clients : victim[d] = y => victim'[d] = y
      BY <1>1, <1>5, EpochAssumption DEF Items
    <3> QED BY <1>3, <1>4, <3>1, <2>2 DEF AccountInv, RetiredAccounted
  <2> QED BY <2>1, <2>2
<1> QED BY <1>3, <1>4, <1>7, <1>8 DEF AccountInv

\* RetireUnlink claims an item nobody claimed; it has no place yet.
LEMMA RetireUnlinkAccount ==
    ASSUME SessionInv, AccountInv, NEW c \in Clients, NEW x \in Items, RetireUnlink(c, x)
    PROVE  AccountInv'
<1>1. TypeOK /\ x \in linked /\ x \notin claimed /\ victim[c] = None
  BY DEF SessionInv, RetireUnlink
<1>2. ~Waits(x) /\ x \notin freed
  BY <1>1 DEF AccountInv
<1>3. /\ claimed' = claimed \cup {x} /\ victim' = [victim EXCEPT ![c] = x]
      /\ linked' = linked \ {x}
      /\ UNCHANGED <<queue, cache, freed, gpc, gi, gk>>
  BY DEF RetireUnlink, Claim, gthread, conts
<1>4. \A y : (Waits(y)' <=> Waits(y)) /\ (WaitsOnce(y)' <=> WaitsOnce(y))
  BY <1>3 DEF Waits, WaitsOnce, WaitsAt
<1>5. \A d \in Clients : victim'[d] = IF d = c THEN x ELSE victim[d]
  BY <1>1, <1>3 DEF TypeOK
<1>6. \A d \in Clients : victim[d] # None => victim[d] \in claimed /\ victim[d] # x
  BY <1>1 DEF AccountInv, OwnInv
<1>7. OwnInv'
  BY <1>1, <1>2, <1>3, <1>4, <1>5, <1>6 DEF AccountInv, OwnInv
<1>8. RetiredAccounted'
  <2> SUFFICES ASSUME NEW y \in Items
               PROVE  /\ WaitsOnce(y)' /\ (y \in freed' => ~Waits(y)')
                      /\ y \in claimed' => \/ y \in freed' \/ Waits(y)'
                                           \/ \E d \in Clients : victim'[d] = y
    BY DEF RetiredAccounted
  <2>1. CASE y = x
    BY <1>2, <1>3, <1>4, <1>5, <2>1 DEF AccountInv, RetiredAccounted
  <2>2. CASE y # x
    <3>1. \A d \in Clients : victim[d] = y => victim'[d] = y
      BY <1>1, <1>5, EpochAssumption DEF Items
    <3> QED BY <1>3, <1>4, <3>1, <2>2 DEF AccountInv, RetiredAccounted
  <2> QED BY <2>1, <2>2
<1> QED BY <1>3, <1>4, <1>7, <1>8 DEF AccountInv

\* RetireFinish unlinks an item that waits or is released, or gives one that is
\* unlinked its place.
LEMMA RetireFinishAccount ==
    ASSUME SessionInv, TypeOK', AccountInv, NEW c \in Clients, RetireFinish(c)
    PROVE  AccountInv'
<1>0. TypeOK /\ at[c] \in Slots /\ victim[c] # None /\ victim[c] \in Items
  BY DEF SessionInv, SlotInv, IdleInv, TypeOK, RetireFinish
<1>8. PICK x \in Items : x = victim[c]
  BY <1>0
<1>1. TypeOK /\ at[c] \in Slots /\ x # None /\ x = victim[c]
  BY <1>0, <1>8
<1>2. /\ victim' = [victim EXCEPT ![c] = None]
      /\ UNCHANGED <<cache, freed, claimed, gpc, gi, gk>>
  BY DEF RetireFinish, gthread
<1>3. \A d \in Clients : victim'[d] = IF d = c THEN None ELSE victim[d]
  BY <1>1, <1>2 DEF TypeOK
<1>4. \A d \in Clients : d # c /\ victim[d] # None => victim[d] # x
  BY <1>1 DEF AccountInv, OwnInv
<1>5. x \in claimed
  BY <1>1 DEF AccountInv, OwnInv
<1>6. CASE x \in linked
  <2>1. linked' = linked \ {x} /\ queue' = queue
    BY <1>1, <1>6 DEF RetireFinish
  <2>2. Waits(x) \/ x \in freed
    BY <1>1, <1>6 DEF AccountInv, OwnInv
  <2>3. \A y : (Waits(y)' <=> Waits(y)) /\ (WaitsOnce(y)' <=> WaitsOnce(y))
    BY <1>2, <2>1 DEF Waits, WaitsOnce, WaitsAt
  <2>4. OwnInv'
    BY <1>2, <1>3, <1>4, <2>1, <2>3 DEF AccountInv, OwnInv
  <2>5. RetiredAccounted'
    <3> SUFFICES ASSUME NEW y \in Items
                 PROVE  /\ WaitsOnce(y)' /\ (y \in freed => ~Waits(y)')
                        /\ y \in claimed => \/ y \in freed \/ Waits(y)'
                                            \/ \E d \in Clients : victim'[d] = y
      BY <1>2 DEF RetiredAccounted
    <3>1. CASE y = x
      BY <2>2, <2>3, <3>1 DEF AccountInv, RetiredAccounted
    <3>2. CASE y # x
      BY <1>1, <1>3, <2>3, <3>2 DEF AccountInv, RetiredAccounted
    <3> QED BY <3>1, <3>2
  <2> QED BY <1>2, <2>3, <2>4, <2>5 DEF AccountInv
<1>7. CASE x \notin linked
  <2>1. Push(c, x) /\ linked' = linked
    BY <1>1, <1>7 DEF RetireFinish
  <2>2. ~Waits(x) /\ x \notin freed
    BY <1>1, <1>7 DEF AccountInv, OwnInv
  <2>3. /\ \A y : Waits(y)' <=> Waits(y) \/ y = x
        /\ \A y : WaitsOnce(y) => WaitsOnce(y)'
    BY <1>1, <1>2, <2>1, <2>2, PushWaits
  <2>4. OwnInv'
    BY <1>2, <1>3, <1>4, <2>1, <2>3 DEF AccountInv, OwnInv
  <2>5. RetiredAccounted'
    <3> SUFFICES ASSUME NEW y \in Items
                 PROVE  /\ WaitsOnce(y)' /\ (y \in freed => ~Waits(y)')
                        /\ y \in claimed => \/ y \in freed \/ Waits(y)'
                                            \/ \E d \in Clients : victim'[d] = y
      BY <1>2 DEF RetiredAccounted
    <3>1. CASE y = x
      BY <2>2, <2>3, <3>1 DEF AccountInv, RetiredAccounted
    <3>2. CASE y # x
      BY <1>1, <1>3, <2>3, <3>2 DEF AccountInv, RetiredAccounted
    <3> QED BY <3>1, <3>2
  <2> QED BY <1>2, <1>5, <2>3, <2>4, <2>5 DEF AccountInv
<1> QED BY <1>6, <1>7

\* The gc thread: what it takes out of the cache or a queue is released, or
\* kept in the cache, which is empty when it pops.
LEMMA GcAccount ==
    ASSUME SessionInv, TypeOK', AccountInv, GcThread
    PROVE  AccountInv'
<1>0. TypeOK /\ PlacesNat /\ PlacesNat' /\ gi \in Slots /\ gk \in Kinds
  BY PlacesBounded, PlacesBoundedNext DEF SessionInv, TypeOK
<1>8. PICK t \in Slots, l \in Kinds : t = gi /\ l = gk
  BY <1>0
<1> DEFINE e == cache[t][l]
           q == queue[t][l]
<1>1. UNCHANGED <<victim, linked, claimed>>
  BY DEF GcThread, GcLoad, GcCache, GcPop, gFrame
<1>2. ASSUME NEW z, WaitsOnce(z), Waits(z), freed' = freed \cup {z},
             \A y : (Waits(y)' <=> Waits(y) /\ y # z) /\ (WaitsOnce(y) => WaitsOnce(y)'),
             gpc' = "pop" => cache'[gi'][gk'] = None
      PROVE  AccountInv'
  <2>1. OwnInv'
    BY <1>1, <1>2 DEF AccountInv, OwnInv
  <2>2. RetiredAccounted'
    BY <1>1, <1>2 DEF AccountInv, RetiredAccounted
  <2> QED BY <1>1, <1>2, <2>1, <2>2 DEF AccountInv
<1>3. ASSUME UNCHANGED freed,
             \A y : (Waits(y)' <=> Waits(y)) /\ (WaitsOnce(y) => WaitsOnce(y)'),
             gpc' = "pop" => cache'[gi'][gk'] = None
      PROVE  AccountInv'
  <2>1. OwnInv'
    BY <1>1, <1>3 DEF AccountInv, OwnInv
  <2>2. RetiredAccounted'
    BY <1>1, <1>3 DEF AccountInv, RetiredAccounted
  <2> QED BY <1>1, <1>3, <2>1, <2>2 DEF AccountInv
<1>4. ASSUME UNCHANGED <<queue, cache>>
      PROVE  \A y : (Waits(y)' <=> Waits(y)) /\ (WaitsOnce(y) => WaitsOnce(y)')
  BY <1>4 DEF Waits, WaitsOnce, WaitsAt
<1>5. CASE GcLoad
  BY <1>3, <1>4, <1>5 DEF GcLoad, conts
<1>6. CASE GcCache
  <2>1. CASE e = None
    BY <1>8, <1>3, <1>4, <1>6, <2>1 DEF GcCache
  <2>2. CASE e # None /\ e.tag >= glocal
    BY <1>8, <1>3, <1>4, <1>6, <2>2 DEF GcCache, GcNext
  <2>3. CASE e # None /\ ~(e.tag >= glocal)
    <3>1. /\ queue' = queue /\ freed' = freed \cup {e.item} /\ gpc' = "pop"
          /\ gi' = gi /\ gk' = gk /\ cache' = [cache EXCEPT ![t][l] = None]
      BY <1>8, <1>6, <2>3 DEF GcCache
    <3>2. None \in Tagged \cup {None} /\ cache \in [Slots -> [Kinds -> Tagged \cup {None}]]
      BY <1>0 DEF TypeOK
    <3>3. \A s \in Slots, k \in Kinds :
             cache'[s][k] = IF s = t /\ k = l THEN None ELSE cache[s][k]
      BY <1>0, <1>8, <3>1, <3>2, UpdateEntry
    <3>4. \A y : \A s \in Slots, k \in Kinds, i \in Nat :
             WaitsAt(y, s, k, i)' <=> WaitsAt(y, s, k, i) /\ ~(s = t /\ k = l /\ i = 0)
      BY <3>1, <3>3 DEF WaitsAt
    <3>5. \A y : WaitsAt(y, t, l, 0) <=> y = e.item
      BY <2>3 DEF WaitsAt
    <3>6. e.item \in Items
      BY <1>0, <1>8, <2>3 DEF TypeOK, Tagged
    <3>7. Waits(e.item) /\ WaitsOnce(e.item)
      BY <1>0, <1>8, <3>5, <3>6 DEF PlacesNat, AccountInv, RetiredAccounted
    <3> DEFINE z == e.item
    <3> HIDE DEF z
    <3>8. ASSUME NEW y PROVE Waits(y)' <=> Waits(y) /\ y # z
      BY <1>0, <1>8, <3>4, <3>5, <3>7 DEF PlacesNat, z
    <3>9. ASSUME NEW y, WaitsOnce(y) PROVE WaitsOnce(y)'
      BY <1>0, <1>8, <3>4, <3>9 DEF PlacesNat
    <3>10. cache'[gi'][gk'] = None
      BY <1>0, <1>8, <3>1, <3>3
    <3> QED BY <1>2, <3>1, <3>7, <3>8, <3>9, <3>10 DEF z
  <2> QED BY <2>1, <2>2, <2>3
<1>7. CASE GcPop
  <2>1. CASE q = <<>>
    BY <1>8, <1>3, <1>4, <1>7, <2>1 DEF GcPop, GcNext, conts
  <2>2. CASE q # <<>>
    <3> DEFINE h == Head(q)
    <3>1. /\ queue' = [queue EXCEPT ![t][l] = Tail(@)] /\ cache[t][l] = None
      BY <1>8, <1>7, <2>2 DEF GcPop, AccountInv
    <3>2. h \in Tagged /\ h # None /\ h.item \in Items
      <4>1. q \in Seq(Tagged)
        BY <1>0 DEF TypeOK
      <4>2. h \in Tagged
        BY <2>2, <4>1
      <4> QED BY <4>2, EpochAssumption DEF Tagged, Items, Epoch
    <3> DEFINE up(s, k, i) == IF s = t /\ k = l THEN i + 1 ELSE i
    <3>5. \A s \in Slots, k \in Kinds, i \in Nat :
             /\ up(s, k, i) \in Nat
             /\ \A j \in Nat : up(s, k, i) = up(s, k, j) => i = j
      OBVIOUS
    <3>3. CASE h.tag >= glocal
      <4>1. /\ cache' = [cache EXCEPT ![t][l] = h] /\ freed' = freed /\ gpc' # "pop"
        BY <1>8, <1>7, <2>2, <3>3 DEF GcPop, GcNext
      <4>2. cache' # cache
        <5>1. cache'[t][l] = h
          BY <1>0, <1>8, <4>1 DEF TypeOK
        <5> QED BY <3>1, <3>2, <5>1
      <4>3. /\ \A y : \A s \in Slots, k \in Kinds, i \in Nat :
                  ~(s = t /\ k = l) => (WaitsAt(y, s, k, i)' <=> WaitsAt(y, s, k, i))
            /\ \A y : \A i \in Nat \ {0} : WaitsAt(y, t, l, i)' <=> WaitsAt(y, t, l, i + 1)
            /\ \A y : /\ ~WaitsAt(y, t, l, 0)
                      /\ WaitsAt(y, t, l, 0)' <=> WaitsAt(y, t, l, 1)
        <5>1. cache[t][l] = None /\ cache' = [cache EXCEPT ![t][l] = Head(queue[t][l])]
          BY <3>1, <4>1
        <5> QED BY <1>0, <1>8, <2>2, <3>1, <4>2, <5>1, PopPlaces, ZenonT(60)
      <4>4. ASSUME NEW y, NEW s \in Slots, NEW k \in Kinds, NEW i \in Nat
            PROVE  /\ WaitsAt(y, s, k, i)' => WaitsAt(y, s, k, up(s, k, i))
                   /\ WaitsAt(y, s, k, i) =>
                         \E j \in Nat : i = up(s, k, j) /\ WaitsAt(y, s, k, j)'
        <5>1. CASE ~(s = t /\ k = l)
          BY <4>3, <5>1
        <5>2. CASE s = t /\ k = l
          <6>1. ASSUME NEW j \in Nat
                PROVE  WaitsAt(y, t, l, j)' <=> WaitsAt(y, t, l, j + 1)
            <7>1. CASE j = 0
              BY <4>3, <7>1
            <7>2. CASE j \in Nat \ {0}
              BY <4>3, <7>2
            <7> QED BY <7>1, <7>2
          <6>2. ASSUME WaitsAt(y, t, l, i)
                PROVE  \E j \in Nat : i = j + 1 /\ WaitsAt(y, t, l, j)'
            <7>1. i # 0
              BY <4>3, <6>2
            <7>2. i - 1 \in Nat /\ i = (i - 1) + 1
              BY <7>1
            <7> QED BY <6>1, <6>2, <7>2
          <6> QED BY <5>2, <6>1, <6>2
        <5> QED BY <5>1, <5>2
      <4> HIDE DEF up
      <4>5. ASSUME NEW y PROVE Waits(y)' <=> Waits(y)
        BY <1>0, <1>8, <3>5, <4>4 DEF PlacesNat
      <4>6. ASSUME NEW y, WaitsOnce(y) PROVE WaitsOnce(y)'
        BY <1>0, <1>8, <3>5, <4>4, <4>6, SMTT(40) DEF PlacesNat
      <4> QED BY <1>3, <4>1, <4>5, <4>6
    <3>4. CASE ~(h.tag >= glocal)
      <4>1. cache' = cache /\ freed' = freed \cup {h.item} /\ UNCHANGED <<gi, gk>>
        BY <1>8, <1>7, <2>2, <3>4 DEF GcPop
      <4>2. /\ \A y : WaitsAt(y, t, l, 1) <=> y = h.item
            /\ \A y : \A s \in Slots, k \in Kinds, i \in Nat :
                  ~(s = t /\ k = l) => (WaitsAt(y, s, k, i)' <=> WaitsAt(y, s, k, i))
            /\ \A y : \A i \in Nat \ {0} : WaitsAt(y, t, l, i)' <=> WaitsAt(y, t, l, i + 1)
            /\ \A y : WaitsAt(y, t, l, 0)' <=> WaitsAt(y, t, l, 0)
        BY <1>0, <1>8, <2>2, <3>1, <4>1, PopPlaces, ZenonT(60)
      <4>3. \A y : ~WaitsAt(y, t, l, 0)
        BY <3>1 DEF WaitsAt
      <4>4. Waits(h.item) /\ WaitsOnce(h.item)
        BY <1>0, <1>8, <4>2, <3>2 DEF PlacesNat, AccountInv, RetiredAccounted
      <4> DEFINE z == h.item
      <4> HIDE DEF z
      <4>5. ASSUME NEW y, NEW s \in Slots, NEW k \in Kinds, NEW i \in Nat
            PROVE  /\ WaitsAt(y, s, k, i)' =>
                         WaitsAt(y, s, k, up(s, k, i)) /\ ~(s = t /\ k = l /\ up(s, k, i) = 1)
                   /\ WaitsAt(y, s, k, i) =>
                         y = z \/ \E j \in Nat : i = up(s, k, j) /\ WaitsAt(y, s, k, j)'
        <5>1. CASE ~(s = t /\ k = l)
          BY <4>2, <5>1
        <5>2. CASE s = t /\ k = l
          <6>1. ASSUME WaitsAt(y, t, l, i)'
                PROVE  i + 1 # 1 /\ WaitsAt(y, t, l, i + 1)
            <7>1. i # 0
              BY <4>2, <4>3, <6>1
            <7> QED BY <4>2, <6>1, <7>1
          <6>2. ASSUME WaitsAt(y, t, l, i), y # z
                PROVE  \E j \in Nat : i = j + 1 /\ WaitsAt(y, t, l, j)'
            <7>1. i # 0 /\ i # 1
              BY <4>2, <4>3, <6>2 DEF z
            <7>2. i - 1 \in Nat \ {0} /\ i = (i - 1) + 1
              BY <7>1
            <7>3. WaitsAt(y, t, l, i - 1)'
              BY <4>2, <6>2, <7>2
            <7> QED BY <7>2, <7>3
          <6> QED BY <5>2, <6>1, <6>2
        <5> QED BY <5>1, <5>2
      <4> HIDE DEF up
      <4>6. ASSUME NEW y PROVE Waits(y)' <=> Waits(y) /\ y # z
        <5>1. ASSUME y # z PROVE Waits(y)' <=> Waits(y)
          BY <1>0, <1>8, <3>5, <4>5, <5>1 DEF PlacesNat
        <5>2. ASSUME y = z, Waits(y)' PROVE FALSE
          <6>1. PICK s \in Slots, k \in Kinds, i \in Nat : WaitsAt(y, s, k, i)'
            BY <1>0, <1>8, <5>2 DEF PlacesNat
          <6>2. WaitsAt(y, t, l, 1) /\ WaitsOnce(y)
            BY <4>2, <4>4, <5>2 DEF z
          <6>3. WaitsAt(y, s, k, up(s, k, i)) /\ ~(s = t /\ k = l /\ up(s, k, i) = 1)
            BY <4>5, <6>1
          <6> QED BY <1>0, <1>8, <3>5, <6>2, <6>3 DEF PlacesNat
        <5> QED BY <5>1, <5>2
      <4>7. ASSUME NEW y, WaitsOnce(y) PROVE WaitsOnce(y)'
        BY <1>0, <1>8, <3>5, <4>5, <4>7, SMTT(40) DEF PlacesNat
      <4>8. cache'[gi'][gk'] = None
        BY <1>8, <3>1, <4>1
      <4> QED BY <1>2, <4>1, <4>4, <4>6, <4>7, <4>8 DEF z
    <3> QED BY <3>3, <3>4
  <2> QED BY <2>1, <2>2
<1> QED BY <1>5, <1>6, <1>7 DEF GcThread

\* Nothing waits at first.
LEMMA InitAccount == Init => AccountInv
<1> SUFFICES ASSUME Init PROVE AccountInv
  OBVIOUS
<1>1. ASSUME NEW x, NEW s \in Slots, NEW k \in Kinds, NEW i \in 0 .. Len(queue[s][k])
      PROVE  ~WaitsAt(x, s, k, i)
  <2>1. queue[s][k] = <<>> /\ cache[s][k] = None
    BY DEF Init
  <2>2. i = 0
    BY <2>1
  <2> QED BY <2>1, <2>2 DEF WaitsAt
<1>2. \A x : ~Waits(x) /\ WaitsOnce(x)
  BY <1>1 DEF Waits, WaitsOnce
<1> QED BY <1>2 DEF Init, AccountInv, OwnInv, RetiredAccounted

\* Every step keeps the accounts.
LEMMA NextAccount == SessionInv /\ SessionInv' /\ AccountInv /\ [Next]_vars => AccountInv'
<1> SUFFICES ASSUME SessionInv, SessionInv', AccountInv, [Next]_vars PROVE AccountInv'
  OBVIOUS
<1>0. TypeOK'
  BY DEF SessionInv
<1> DEFINE Still == UNCHANGED <<queue, cache, victim, linked, freed, claimed, gpc, gi, gk>>
<1>1. ASSUME NEW c \in Clients, Client(c) PROVE AccountInv'
  <2>1. CASE \/ Enter(c) \/ GainTheRight(c) \/ LoadEpoch(c) \/ SetBeginEpoch(c)
             \/ LeaveBegin(c) \/ LeaveRunning(c)
    <3>1. Still
      BY <2>1 DEF Enter, GainTheRight, LoadEpoch, SetBeginEpoch, LeaveBegin, LeaveRunning,
         conts, gthread
    <3> QED BY <3>1, AccountFrame
  <2>2. ASSUME NEW x \in Items, Read(c, x) PROVE AccountInv'
    <3>1. Still
      BY <2>2 DEF Read, conts, gthread
    <3> QED BY <3>1, AccountFrame
  <2> QED BY <1>0, <1>1, <2>1, <2>2, RetirePushAccount, RetireUnlinkAccount,
             RetireFinishAccount DEF Client
<1>2. CASE EpochThread
  <2>1. Still
    BY <1>2 DEF EpochThread, EpochVerify, EpochVerifySlot, EpochInc, EpochMin, SetGcEpoch,
       eFrame, conts, gthread
  <2> QED BY <2>1, AccountFrame
<1>3. CASE GcThread
  BY <1>0, <1>3, GcAccount
<1>4. CASE UNCHANGED vars
  <2>1. Still
    BY <1>4 DEF vars, conts, gthread
  <2> QED BY <2>1, AccountFrame
<1> QED BY <1>1, <1>2, <1>3, <1>4 DEF Next

-----------------------------------------------------------------------------
(* The theorems.                                                           *)

\* Every step of every thread, and every stuttering step, preserves IInv.
LEMMA NextIInv == IInv /\ [Next]_vars => IInv'
<1> SUFFICES ASSUME IInv, [Next]_vars PROVE IInv'
  OBVIOUS
<1>0. SessionInv /\ GcInv /\ WaitInv /\ ItemInv
  BY DEF IInv
<1>1. ASSUME NEW c \in Clients, Client(c) PROVE IInv'
  <2>1. SessionInv'
    BY <1>0, <1>1, EnterSession, GainSession, LoadSession, PublishSession,
       LeaveBeginSession, LeaveRunningSession, MemorySession DEF Client
  <2> QED BY <1>0, <1>1, <2>1, ClientGc, ClientItem DEF IInv
<1>2. CASE EpochThread
  BY <1>0, <1>2, EpochSession, EpochGc, EpochItem DEF IInv
<1>3. CASE GcThread
  BY <1>0, <1>3, GcSession, GcGc, GcItem DEF IInv
<1>4. CASE UNCHANGED vars
  BY <1>4 DEF vars, sess, conts, ethread, gthread, IInv, ItemInv, SessionInv, TypeOK, BoundInv,
     SlotInv, SlotExclusive, HoldsSlot, IdleInv, BeginInv, GcInv, GcBehindSessions,
     WaitInv, VictimInv, WaitingInv, Sheltered, InTime, Late, FreedInv, NoUseAfterFree
<1> QED BY <1>1, <1>2, <1>3, <1>4 DEF Next

\* IInv holds in every reachable state.
THEOREM EpochInvariant == Spec => []IInv
<1>1. Init => IInv
  BY InitSession, InitGc, InitItem DEF IInv
<1> QED BY <1>1, NextIInv, PTL DEF Spec

\* Every variable keeps its type; gc_epoch never falls below zero though it is
\* computed by a subtraction (manager_thread.h, epoch_thread).
THEOREM EpochTyped == Spec => []TypeOK
<1>1. IInv => TypeOK
  BY DEF IInv, SessionInv
<1> QED BY <1>1, EpochInvariant, PTL

\* No session slot is handed to two clients at a time (gain_the_right, leave).
THEOREM EpochSlotExclusive == Spec => []SlotExclusive
<1>1. IInv => SlotExclusive
  BY DEF IInv, SessionInv, SlotInv
<1> QED BY <1>1, EpochInvariant, PTL

\* gc_epoch, and the copy a gc pass works with, stay below the epoch in which
\* any session in progress began (epoch_thread against enter and leave).
THEOREM EpochGcBehindSessions == Spec => []GcBehindSessions
<1>1. IInv => GcBehindSessions
  BY DEF IInv, GcInv
<1> QED BY <1>1, EpochInvariant, PTL

\* What a session holds is not released by the gc thread, unless it was retired
\* by a session that published its epoch late (kvs.h, get).
THEOREM EpochNoUseAfterFree == Spec => []NoUseAfterFree
<1>1. IInv => NoUseAfterFree
  BY DEF IInv, ItemInv
<1> QED BY <1>1, EpochInvariant, PTL

\* A retired item is neither lost nor released twice: it waits at one place, in a
\* container or in the cache, until the gc thread releases it (garbage_collection.h,
\* gc_node and gc_value against push_node_container and push_value_container).
THEOREM EpochRetiredAccounted == Spec => []RetiredAccounted
<1>1. Init => AccountInv
  BY InitAccount
<1>2. IInv => SessionInv
  BY DEF IInv
<1>3. SessionInv /\ SessionInv' /\ AccountInv /\ [Next]_vars => AccountInv'
  BY NextAccount
<1>4. AccountInv => RetiredAccounted
  BY DEF AccountInv
<1> QED BY <1>1, <1>2, <1>3, <1>4, EpochInvariant, PTL DEF Spec
====
