---- MODULE StorageReleased ----
(***************************************************************************)
(* Proof that create_storage, delete_storage and fin release every tree    *)
(* once, for any trees, names, clients, number of sessions and             *)
(* concurrency. It rests on the inductive invariant of StorageProofs.      *)
(***************************************************************************)
EXTENDS StorageProofs, WellFoundedInduction

-----------------------------------------------------------------------------
(* Every tree is released once: the invariant.                             *)

\* The call of c has made a tree that is not named, and no longer will be if it failed.
Creating(c) ==
    \/ pc[c] \in {"enter", "put"} /\ op[c].type = "create"
    \/ pc[c] = "leave" /\ answer[c] = "WARN_UNIQUE_RESTRICTION"

\* The call of c is about to destroy the tree it looked up, or does it.
Deleting(c) == pc[c] \in {"load", "destroy"}

\* A delete_storage that looked up t removed another tree; one that looked up another removed t.
Confused(t) == \E m \in mixed : m[1] = t
Forgotten(t) == \E m \in mixed : m[2] = t

\* t is the tree of a name; its entry is in a container of a session.
Named(t) == \E n \in Names : named[n] = t
Waiting(t) == \E s \in Slots : Entry(t) \in retired[s]

\* A call that has entered runs a session.
SessionInv ==
    /\ DOMAIN sess = Slots
    /\ \A c \in Clients : pc[c] \notin {"idle", "enter"} => \E r \in Slots : sess[r] = c

\* A tree in the making is its creator's alone.
CreateInv ==
    /\ instance \in [Trees -> {"root", "null", "none"}]
    /\ \A t \in Trees : t > made => instance[t] = "none" /\ Root(t) \notin freed
    /\ \A c \in Clients : Creating(c) =>
          /\ mine[c] \in Trees /\ mine[c] <= made
          /\ instance[mine[c]] = "none" /\ Root(mine[c]) \notin freed
          /\ \A d \in Clients : Creating(d) /\ d # c => mine[d] # mine[c]

\* A tree that was named has an instance and one name at most; only a delete_storage that
\* removed another tree comes to a tree besides the one who removed it.
LookedUpInv ==
    /\ \A n \in Names : named[n] # None => instance[named[n]] # "none"
    /\ \A n, m \in Names : named[n] = named[m] /\ named[n] # None => n = m
    /\ \A c \in Clients : pc[c] = "remove" \/ Deleting(c) => instance[mine[c]] # "none"
    /\ \A c \in Clients : Deleting(c) =>
          /\ Named(mine[c]) => Confused(mine[c])
          /\ \A d \in Clients : Deleting(d) /\ d # c /\ mine[d] = mine[c] => Confused(mine[c])

\* The entry of a tree is in the tree of storages, then in one container, then released.
EntryInv ==
    \A t \in Trees :
        /\ Named(t) => ~Waiting(t)
        /\ \A s, r \in Slots : Entry(t) \in retired[s] /\ Entry(t) \in retired[r] => s = r
        /\ \A s \in Slots : Entry(t) \in retired[s] /\ Entry(t) \in freed => act[Containers(s)].pc = "gone"
        /\ Waiting(t) \/ Entry(t) \in freed => instance[t] # "none"
        /\ instance[t] # "none" => Entry(t) \in freed \/ Named(t) \/ Waiting(t)

\* A value is released when its node has passed it, a node when its destroy() ends or, as
\* the root of a tree that was never named, by its creator.
OnceInv ==
    /\ \A x \in AllItems : \A k \in 1 .. Len(Kids(x)) :
          IsValue(Kids(x)[k]) /\ Kids(x)[k] \in freed => act[x].pc # "none" /\ k < act[x].i
    /\ \A x \in freed : ~IsValue(x) =>
          /\ x \in AllItems /\ x[1] # -1
          /\ act[x].pc = "gone" \/ \E t \in Trees : x = Root(t) /\ instance[t] = "none"

\* Who called destroy() of a tree.
CallerInv ==
    \A t \in Trees :
        /\ instance[t] = "null" => Root(t) \in freed
        /\ act[Root(t)].pc # "none" =>
              /\ instance[t] # "none"
              /\ \/ instance[t] = "null" \/ \E c \in Clients : pc[c] = "destroy" /\ mine[c] = t
                 \/ main = "destroy" /\ Head(todo) = t

\* Where a tree is that was made.
WhereInv ==
    /\ \A t \in Trees : t <= made =>
          \/ Forgotten(t) \/ Root(t) \in freed \/ Named(t)
          \/ \E c \in Clients : (Creating(c) \/ Deleting(c)) /\ mine[c] = t
    /\ main \in {"each", "destroy", "storages"} =>
          \A n \in Names : named[n] # None =>
              Root(named[n]) \in freed \/ \E i \in 1 .. Len(todo) : todo[i] = named[n]
    /\ main = "storages" => todo = <<>>
    /\ main \in {"flags", "join", "table", "down"} => ~hasRoot

\* The containers of the sessions are emptied before their table is gone.
ContainersInv ==
    \A s \in Slots :
        /\ act[Containers(s)].pc = "gone" => retired[s] \subseteq freed
        /\ act[SessionTable].pc # "none" /\ s < act[SessionTable].i =>
              \/ act[Containers(s)].pc = "gone"
              \/ \E j \in 1 .. Len(act[SessionTable].threads) :
                    act[SessionTable].threads[j] = Containers(s)
        /\ act[SessionTable].pc = "gone" => act[Containers(s)].pc = "gone"

\* All of these together, which hold as long as nothing was destroyed twice.
JInv ==
    /\ SessionInv /\ CreateInv /\ LookedUpInv /\ EntryInv /\ OnceInv /\ CallerInv
    /\ WhereInv /\ ContainersInv

\* What is shown of every state: the property, and what its proof needs. A double destroy()
\* (of two trees that a delete_storage took for each other) is the end of a behaviour.
OnceAndAll == TreesReleasedOnce /\ (twice = {} => JInv)

-----------------------------------------------------------------------------
(* What SetToSeq enumerates, and what hangs below a root.                  *)

\* A nonempty set of natural numbers has a least element.
LEMMA LeastOf ==
    ASSUME NEW S \in SUBSET Nat, S # {}
    PROVE  \E x \in S : \A y \in S : x <= y
<1> DEFINE R == {ss \in Nat \X Nat : ss[1] < ss[2]}
<1>1. IsWellFoundedOn(R, Nat)
  BY NatLessThanWellFounded DEF OpToRel
<1> HIDE DEF R
<1>2. PICK x \in S : \A y \in S : <<y, x>> \notin R
  BY <1>1, WFMin
<1>3. \A y \in S : ~(y < x)
  BY <1>2 DEF R
<1>4. \A y \in S : x <= y
  <2> TAKE y \in S
  <2>1. x \in Nat /\ y \in Nat
    OBVIOUS
  <2> QED BY <1>3, <2>1
<1> QED BY <1>4

\* Every element of a finite set is in its sequence.
LEMMA SetToSeqOnto ==
    ASSUME NEW S, IsFiniteSet(S), NEW e \in S
    PROVE  \E i \in 1 .. Len(SetToSeq(S)) : SetToSeq(S)[i] = e
<1> DEFINE n == Cardinality(S)
<1>1. n \in Nat /\ ExistsBijection(1 .. n, S)
  BY FS_CardinalityType
<1>2. IsFiniteSet(1 .. n) /\ Cardinality(1 .. n) = n
  <2>1. n \in Int /\ 1 \in Int
    BY <1>1
  <2>2. IsFiniteSet(1 .. n) /\ Cardinality(1 .. n) = IF 1 > n THEN 0 ELSE n - 1 + 1
    BY <2>1, FS_Interval
  <2> QED BY <1>1, <2>2
<1> HIDE DEF n
<1>3. PICK b : b \in Bijection(1 .. n, S)
  BY <1>1 DEF ExistsBijection
<1>4. b \in [1 .. n -> S] /\ IsInjective(b)
  BY <1>3 DEF Bijection, Injection, IsInjective
<1>5. SetToSeq(S) \in [1 .. n -> S] /\ IsInjective(SetToSeq(S))
  BY <1>4 DEF SetToSeq, n
<1>6. SetToSeq(S) \in Injection(1 .. n, S)
  BY <1>5 DEF Injection, IsInjective
<1>7. SetToSeq(S) \in Surjection(1 .. n, S)
  BY <1>2, <1>6, FS_Injection DEF n
<1>8. Len(SetToSeq(S)) = n
  BY <1>1, <1>5
<1> QED BY <1>7, <1>8 DEF Surjection

\* There are finitely many trees.
LEMMA TreesFinite == IsFiniteSet(Trees) /\ IsFiniteSet(Entries)
<1>1. MaxTrees \in Nat /\ Trees = 1 .. MaxTrees
  BY DestroyAssumption DEF Trees
<1>2. IsFiniteSet(Trees)
  BY <1>1, FS_Interval
<1>3. ExistsBijection(Trees, Entries)
  <2> DEFINE g == [t \in Trees |-> Entry(t)]
  <2>1. g \in Bijection(Trees, Entries)
    BY DEF Bijection, Injection, Surjection, IsInjective, Entries, Entry
  <2> QED BY <2>1 DEF ExistsBijection
<1> QED BY <1>2, <1>3, FS_Bijection

\* The entries of the tree of storages are those of the named trees.
LEMMA EntriesNamed ==
    ASSUME NEW f \in [Names -> Trees \cup {None}]
    PROVE  LET s == SetToSeq({Entry(f[n]) : n \in {m \in Names : f[m] # None}})
           IN  /\ \A i \in 1 .. Len(s) : \E n \in Names : f[n] \in Trees /\ s[i] = Entry(f[n])
               /\ \A n \in Names : f[n] # None => \E i \in 1 .. Len(s) : s[i] = Entry(f[n])
<1> DEFINE S == {Entry(f[n]) : n \in {m \in Names : f[m] # None}}
<1>1. IsFiniteSet(S)
  <2>1. S \subseteq Entries
    BY DEF Entries
  <2> QED BY <2>1, TreesFinite, FS_Subset
<1>2. \A e \in S : \E n \in Names : f[n] \in Trees /\ e = Entry(f[n])
  OBVIOUS
<1>3. \A n \in Names : f[n] # None => Entry(f[n]) \in S
  OBVIOUS
<1> HIDE DEF S
<1>4. SetToSeq(S) \in Seq(S)
  BY <1>1, SetToSeqIs
<1>5. \A i \in 1 .. Len(SetToSeq(S)) : SetToSeq(S)[i] \in S
  BY <1>4
<1>6. \A e \in S : \E i \in 1 .. Len(SetToSeq(S)) : SetToSeq(S)[i] = e
  BY <1>1, SetToSeqOnto
<1>7. /\ \A i \in 1 .. Len(SetToSeq(S)) : \E n \in Names : f[n] \in Trees /\ SetToSeq(S)[i] = Entry(f[n])
      /\ \A n \in Names : f[n] # None => \E i \in 1 .. Len(SetToSeq(S)) : SetToSeq(S)[i] = Entry(f[n])
  BY <1>2, <1>3, <1>5, <1>6
<1> QED BY <1>7 DEF S

\* The same for the children of the tree of storages.
LEMMA StoragesKids ==
    ASSUME named \in [Names -> Trees \cup {None}]
    PROVE  /\ \A i \in 1 .. Len(Kids(Storages)) :
                 \E n \in Names : named[n] \in Trees /\ Kids(Storages)[i] = Entry(named[n])
           /\ \A n \in Names : named[n] # None =>
                 \E i \in 1 .. Len(Kids(Storages)) : Kids(Storages)[i] = Entry(named[n])
BY EntriesNamed DEF Kids

\* The children of the tree of storages after a step.
LEMMA StoragesKidsNext ==
    ASSUME named' \in [Names -> Trees \cup {None}]
    PROVE  /\ \A i \in 1 .. Len(Kids(Storages)') :
                 \E n \in Names : named'[n] \in Trees /\ Kids(Storages)'[i] = Entry(named'[n])
           /\ \A n \in Names : named'[n] # None =>
                 \E i \in 1 .. Len(Kids(Storages)') : Kids(Storages)'[i] = Entry(named'[n])
BY EntriesNamed DEF Kids

\* Once the root is released, everything below it is.
LEMMA RootBelow ==
    ASSUME TypeInv, BottomUp, NEW t \in Trees, Root(t) \in freed
    PROVE  Below(t) \subseteq freed
<1>1. IsShape(shape[t])
  BY DEF TypeInv
<1>2. \A p \in DOMAIN shape[t] : \A i \in 1 .. shape[t][p] :
         <<t, p>> \in freed => <<t, Append(p, i)>> \in freed
  <2> TAKE p \in DOMAIN shape[t]
  <2> TAKE i \in 1 .. shape[t][p]
  <2> HAVE <<t, p>> \in freed
  <2>1. Kids(<<t, p>>) = [k \in 1 .. shape[t][p] |-> <<t, Append(p, k)>>]
    BY KidsOfTree, ShapeFacts
  <2>2. i \in DOMAIN Kids(<<t, p>>) /\ Kids(<<t, p>>)[i] = <<t, Append(p, i)>>
    BY <2>1
  <2> QED BY <2>2 DEF BottomUp
<1>3. \A p \in DOMAIN shape[t] : <<t, p>> \in freed
  <2> DEFINE bad == {p \in DOMAIN shape[t] : <<t, p>> \notin freed}
             lens == {Len(p) : p \in bad}
  <2>1. SUFFICES ASSUME bad # {} PROVE FALSE
    OBVIOUS
  <2>2. lens \in SUBSET Nat /\ lens # {}
    <3>1. \A p \in bad : Len(p) \in Nat
      <4> TAKE p \in bad
      <4>1. p \in Seq(Nat)
        BY <1>1 DEF IsShape
      <4> QED BY <4>1
    <3> HIDE DEF bad
    <3> QED BY <2>1, <3>1
  <2>3. PICK l \in lens : \A k \in lens : l <= k
    BY <2>2, LeastOf
  <2>4. PICK p \in bad : Len(p) = l
    BY <2>3
  <2>5. p # <<>>
    BY <2>4 DEF Root
  <2>6. PICK q \in DOMAIN shape[t] : \E i \in 1 .. shape[t][q] : p = Append(q, i)
    BY <1>1, <2>4, <2>5 DEF IsShape
  <2>7. PICK i \in 1 .. shape[t][q] : p = Append(q, i)
    BY <2>6
  <2>8. q \in Seq(Nat) /\ Len(q) \in Nat /\ Len(p) = Len(q) + 1
    BY <1>1, <2>7 DEF IsShape
  <2>9. q \notin bad
    <3>1. ASSUME q \in bad PROVE FALSE
      <4>1. Len(q) \in lens
        BY <3>1
      <4>2. l <= Len(q)
        BY <2>3, <4>1
      <4> QED BY <2>4, <2>8, <4>2
    <3> QED BY <3>1
  <2> QED BY <1>2, <2>4, <2>6, <2>7, <2>9
<1>4. ASSUME NEW x \in Below(t) PROVE x \in freed
  <2>1. CASE \E p \in DOMAIN shape[t] : x = <<t, p>>
    BY <1>3, <2>1
  <2>2. CASE \E p \in DOMAIN shape[t] : \E i \in 1 .. shape[t][p] : x = <<t, Append(p, i)>>
    BY <1>2, <1>3, <2>2
  <2> QED BY <2>1, <2>2 DEF Below
<1> QED BY <1>4

-----------------------------------------------------------------------------
(* The steps of the clients.                                               *)

\* The types of what the invariant speaks of.
LEMMA Bases ==
    ASSUME IInv, JInv
    PROVE  /\ named \in [Names -> Trees \cup {None}] /\ mine \in [Clients -> Trees \cup {None}]
           /\ DOMAIN pc = Clients /\ DOMAIN op = Clients /\ DOMAIN answer = Clients
           /\ instance \in [Trees -> {"root", "null", "none"}]
           /\ made \in Nat /\ Trees \subseteq Nat /\ None \notin Trees /\ None \notin Clients
           /\ \A c \in Clients : CallRight(c)
           /\ TypeInv /\ CallInv /\ StoragesInv
           /\ SessionInv /\ CreateInv /\ LookedUpInv /\ EntryInv /\ OnceInv /\ CallerInv
           /\ WhereInv /\ ContainersInv
<1>1. TypeInv /\ CallInv /\ StoragesInv
  BY DEF IInv
<1>2. Trees \subseteq Nat /\ made \in Nat /\ None \notin Trees
  BY <1>1, DestroyAssumption DEF Trees, TypeInv
<1>3. None \notin Clients
  BY StorageAssumption
<1> QED BY <1>1, <1>2, <1>3 DEF TypeInv, CallInv, JInv, CreateInv

\* A step that names, retires and releases nothing leaves the entries where they are.
LEMMA EntrySame ==
    ASSUME EntryInv, UNCHANGED <<named, retired, act, freed>>,
           \A t \in Trees : instance'[t] = "none" <=> instance[t] = "none"
    PROVE  EntryInv'
BY DEF EntryInv, Named, Waiting

\* A step that releases nothing and moves no destroy() keeps what was released when.
LEMMA OnceSame ==
    ASSUME OnceInv, UNCHANGED <<shape, named, act, freed>>,
           \A t \in Trees : instance'[t] = "none" <=> instance[t] = "none"
    PROVE  OnceInv'
<1>1. AllItems' = AllItems /\ \A y : IsValue(y)' = IsValue(y) /\ Kids(y)' = Kids(y)
  BY Static
<1> QED BY <1>1 DEF OnceInv

\* The same for the containers of the sessions.
LEMMA ContainersSame ==
    ASSUME ContainersInv, UNCHANGED <<retired, act, freed>>
    PROVE  ContainersInv'
BY DEF ContainersInv

\* A step of c within its call, while the trees, their names and their destroyers stay.
Within(c) ==
    /\ UNCHANGED <<named, shape, hasRoot, instance, made, retired, act, freed, mixed, main, todo>>
    /\ DOMAIN pc' = Clients
    /\ \A d \in Clients : d # c => /\ pc'[d] = pc[d] /\ mine'[d] = mine[d] /\ op'[d] = op[d]
                                   /\ answer'[d] = answer[d]

\* Such a step keeps the invariant if it keeps what the invariant says of c.
LEMMA WithinKeeps ==
    ASSUME IInv, JInv, NEW c \in Clients, Within(c), SessionInv',
           Creating(c)' => Creating(c) /\ mine'[c] = mine[c],
           pc'[c] \in {"remove", "load", "destroy"} => instance[mine'[c]] # "none",
           Deleting(c)' => Deleting(c) /\ mine'[c] = mine[c],
           pc[c] = "destroy" => pc'[c] = "destroy" /\ mine'[c] = mine[c],
           Creating(c) \/ Deleting(c) =>
               \/ (Creating(c)' \/ Deleting(c)') /\ mine'[c] = mine[c]
               \/ Root(mine[c]) \in freed
    PROVE  JInv'
<1>1. /\ instance \in [Trees -> {"root", "null", "none"}]
      /\ CreateInv /\ LookedUpInv /\ EntryInv /\ OnceInv /\ CallerInv
      /\ WhereInv /\ ContainersInv
  BY Bases
<1>2. EntryInv' /\ OnceInv' /\ ContainersInv'
  BY <1>1, EntrySame, OnceSame, ContainersSame DEF Within
<1>3. \A d \in Clients : d # c => /\ Creating(d)' = Creating(d) /\ Deleting(d)' = Deleting(d)
                                  /\ mine'[d] = mine[d] /\ pc'[d] = pc[d]
  BY DEF Within, Creating, Deleting
<1>4. /\ \A t : Named(t)' = Named(t) /\ Confused(t)' = Confused(t) /\ Forgotten(t)' = Forgotten(t)
      /\ UNCHANGED <<named, instance, made, freed, main, todo, hasRoot, act>>
  BY DEF Within, Named, Confused, Forgotten
<1>5. CreateInv'
  BY <1>1, <1>3, <1>4 DEF CreateInv
<1>6. LookedUpInv'
  <2>1. \A d \in Clients : pc'[d] = "remove" \/ Deleting(d)' => instance[mine'[d]] # "none"
    BY <1>1, <1>3 DEF LookedUpInv, Deleting
  <2> QED BY <1>1, <1>3, <1>4, <2>1 DEF LookedUpInv
<1>7. CallerInv'
  BY <1>1, <1>3, <1>4 DEF CallerInv
<1>8. WhereInv'
  <2>1. ASSUME NEW t \in Trees, t <= made
        PROVE  \/ Forgotten(t) \/ Root(t) \in freed \/ Named(t)
               \/ \E d \in Clients : (Creating(d)' \/ Deleting(d)') /\ mine'[d] = t
    BY <1>1, <1>3, <2>1 DEF WhereInv
  <2> QED BY <1>1, <1>4, <2>1 DEF WhereInv
<1> QED BY <1>2, <1>5, <1>6, <1>7, <1>8 DEF JInv

\* Call.
LEMMA CallOnce ==
    ASSUME IInv, JInv, NEW c \in Clients, NEW o \in may[c], Call(c, o)
    PROVE  JInv'
<1>1. /\ instance \in [Trees -> {"root", "null", "none"}] /\ mine \in [Clients -> Trees \cup {None}]
      /\ DOMAIN pc = Clients /\ DOMAIN op = Clients /\ made \in Nat /\ Trees \subseteq Nat
      /\ \A d \in Clients : CallRight(d)
      /\ SessionInv /\ CreateInv /\ LookedUpInv /\ EntryInv /\ OnceInv /\ CallerInv
      /\ WhereInv /\ ContainersInv
  BY Bases
<1>2. /\ op' = [op EXCEPT ![c] = o] /\ pc' = [pc EXCEPT ![c] = "enter"] /\ answer' = answer
      /\ UNCHANGED <<named, shape, hasRoot, instance, retired, act, room, freed, main, todo, sess, mixed>>
      /\ pc[c] = "idle"
  BY <1>1 DEF Call, Goto, destroying, life, CallRight
<1>3. SessionInv'
  BY <1>1, <1>2 DEF SessionInv
<1>4. CASE o.type # "create"
  <2>1. made' = made /\ mine' = mine
    BY <1>4 DEF Call
  <2>2. Within(c)
    BY <1>1, <1>2, <2>1 DEF Within
  <2>3. ~Creating(c)' /\ ~Deleting(c)' /\ ~Creating(c) /\ ~Deleting(c)
    BY <1>1, <1>2, <1>4 DEF Creating, Deleting
  <2> QED BY <1>1, <1>2, <1>3, <2>2, <2>3, WithinKeeps
<1>5. CASE o.type = "create"
  <2>1. made < MaxTrees /\ made' = made + 1 /\ mine' = [mine EXCEPT ![c] = made + 1]
    BY <1>5 DEF Call
  <2>2. made + 1 \in Trees
    BY <1>1, <2>1, DestroyAssumption DEF Trees
  <2>3. EntryInv' /\ OnceInv' /\ ContainersInv'
    BY <1>1, <1>2, EntrySame, OnceSame, ContainersSame
  <2>4. \A d \in Clients : d # c => /\ Creating(d)' = Creating(d) /\ Deleting(d)' = Deleting(d)
                                    /\ mine'[d] = mine[d] /\ pc'[d] = pc[d]
    BY <1>1, <1>2, <2>1 DEF Creating, Deleting
  <2>5. /\ \A t : Named(t)' = Named(t) /\ Confused(t)' = Confused(t) /\ Forgotten(t)' = Forgotten(t)
    BY <1>2 DEF Named, Confused, Forgotten
  <2>6. mine'[c] = made + 1 /\ pc'[c] = "enter" /\ Creating(c)' /\ ~Deleting(c)'
    BY <1>1, <1>2, <1>5, <2>1 DEF Creating, Deleting
  <2>7. CreateInv'
    <3>1. \A t \in Trees : t > made + 1 => instance[t] = "none" /\ Root(t) \notin freed
      <4> TAKE t \in Trees
      <4> HAVE t > made + 1
      <4>1. t > made
        BY <1>1
      <4> QED BY <1>1, <4>1 DEF CreateInv
    <3>2. instance[made + 1] = "none" /\ Root(made + 1) \notin freed
      BY <1>1, <2>2 DEF CreateInv
    <3>3. \A d \in Clients : d # c /\ Creating(d) => mine[d] \in Trees /\ mine[d] <= made /\ mine[d] # made + 1
      BY <1>1 DEF CreateInv
    <3>4. ASSUME NEW d \in Clients, Creating(d)'
          PROVE  /\ mine'[d] \in Trees /\ mine'[d] <= made + 1
                 /\ instance[mine'[d]] = "none" /\ Root(mine'[d]) \notin freed
                 /\ \A e \in Clients : Creating(e)' /\ e # d => mine'[e] # mine'[d]
      <4>1. CASE d = c
        BY <1>1, <2>2, <2>4, <2>6, <3>2, <3>3, <4>1
      <4>2. CASE d # c
        <5>1. Creating(d) /\ mine'[d] = mine[d]
          BY <2>4, <3>4, <4>2
        <5>2. /\ mine[d] \in Trees /\ mine[d] <= made /\ mine[d] # made + 1
              /\ instance[mine[d]] = "none" /\ Root(mine[d]) \notin freed
              /\ \A e \in Clients : Creating(e) /\ e # d => mine[e] # mine[d]
          BY <1>1, <3>3, <4>2, <5>1 DEF CreateInv
        <5>3. mine[d] <= made + 1
          <6>1. mine[d] \in Nat /\ made \in Nat
            BY <1>1, <5>2
          <6> QED BY <5>2, <6>1
        <5>4. ASSUME NEW e \in Clients, Creating(e)', e # d PROVE mine'[e] # mine'[d]
          BY <2>4, <2>6, <5>1, <5>2, <5>4
        <5> QED BY <5>1, <5>2, <5>3, <5>4
      <4> QED BY <4>1, <4>2
    <3> QED BY <1>1, <1>2, <2>1, <3>1, <3>4 DEF CreateInv
  <2>8. LookedUpInv'
    BY <1>1, <1>2, <2>4, <2>5, <2>6 DEF LookedUpInv
  <2>9. CallerInv'
    BY <1>1, <1>2, <2>4 DEF CallerInv
  <2>10. WhereInv'
    <3>1. ASSUME NEW t \in Trees, t <= made + 1
          PROVE  \/ Forgotten(t) \/ Root(t) \in freed \/ Named(t)
                 \/ \E d \in Clients : (Creating(d)' \/ Deleting(d)') /\ mine'[d] = t
      <4>1. CASE t = made + 1
        BY <2>6, <4>1
      <4>2. CASE t # made + 1
        <5>1. t <= made
          BY <1>1, <3>1, <4>2
        <5>2. ~Creating(c) /\ ~Deleting(c)
          BY <1>2 DEF Creating, Deleting
        <5> QED BY <1>1, <2>4, <5>1, <5>2 DEF WhereInv
      <4> QED BY <4>1, <4>2
    <3> QED BY <1>1, <1>2, <2>1, <2>5, <3>1 DEF WhereInv
  <2> QED BY <1>3, <2>3, <2>7, <2>8, <2>9, <2>10 DEF JInv
<1> QED BY <1>4, <1>5

\* Enter.
LEMMA EnterOnce ==
    ASSUME IInv, JInv, NEW c \in Clients, Enter(c)
    PROVE  JInv'
<1>1. /\ DOMAIN pc = Clients /\ CallRight(c) /\ None \notin Clients /\ SessionInv /\ LookedUpInv
  BY Bases
<1>2. /\ pc[c] = "enter" /\ pc' = [pc EXCEPT ![c] = IF op[c].type = "create" THEN "put" ELSE "get"]
      /\ UNCHANGED <<named, shape, hasRoot, instance, made, retired, act, freed, mixed, main, todo,
                     op, mine, answer>>
  BY DEF Enter, Goto, table, destroying, life
<1>3. PICK s \in Slots : sess[s] = None /\ sess' = [sess EXCEPT ![s] = c]
  BY DEF Enter
<1>4. SessionInv'
  <2>1. ASSUME NEW d \in Clients, pc'[d] \notin {"idle", "enter"} PROVE \E r \in Slots : sess'[r] = d
    <3>1. CASE d = c
      BY <1>1, <1>3, <3>1 DEF SessionInv
    <3>2. CASE d # c
      <4>1. PICK r \in Slots : sess[r] = d
        BY <1>1, <1>2, <2>1, <3>2 DEF SessionInv
      <4>2. r # s
        BY <1>1, <1>3, <4>1
      <4> QED BY <1>1, <1>3, <4>1, <4>2 DEF SessionInv
    <3> QED BY <3>1, <3>2
  <2>2. DOMAIN sess' = Slots
    BY <1>1, <1>3 DEF SessionInv
  <2> QED BY <2>1, <2>2 DEF SessionInv
<1>5. Within(c)
  BY <1>1, <1>2 DEF Within
<1>6. ~Deleting(c) /\ ~Deleting(c)' /\ pc'[c] \in {"put", "get"} /\ pc[c] # "destroy"
  BY <1>1, <1>2 DEF Deleting
<1>7. Creating(c)' <=> Creating(c)
  BY <1>1, <1>2 DEF Creating
<1> QED BY <1>2, <1>4, <1>5, <1>6, <1>7, WithinKeeps

\* GetEntry.
LEMMA GetEntryOnce ==
    ASSUME IInv, JInv, NEW c \in Clients, GetEntry(c)
    PROVE  JInv'
<1>1. /\ DOMAIN pc = Clients /\ DOMAIN answer = Clients /\ CallRight(c) /\ SessionInv /\ LookedUpInv
      /\ mine \in [Clients -> Trees \cup {None}]
  BY Bases
<1>2. /\ pc[c] = "get" /\ op[c].name \in Names /\ op[c].type # "create"
      /\ UNCHANGED <<named, shape, hasRoot, instance, made, retired, act, freed, mixed, main, todo,
                     op, sess>>
  BY <1>1 DEF GetEntry, table, destroying, life, CallRight
<1>3. CASE named[op[c].name] = None
  <2>1. /\ mine' = mine /\ pc' = [pc EXCEPT ![c] = "leave"]
        /\ answer' = [answer EXCEPT ![c] = "WARN_NOT_EXIST"]
    BY <1>3 DEF GetEntry, Goto, Answer
  <2>2. SessionInv'
    BY <1>1, <1>2, <2>1 DEF SessionInv
  <2>3. Within(c)
    BY <1>1, <1>2, <2>1 DEF Within
  <2>4. /\ ~Deleting(c) /\ ~Deleting(c)' /\ ~Creating(c) /\ ~Creating(c)'
        /\ pc'[c] = "leave"
    BY <1>1, <1>2, <2>1 DEF Deleting, Creating
  <2> QED BY <1>2, <2>2, <2>3, <2>4, WithinKeeps
<1>4. CASE named[op[c].name] # None
  <2>1. /\ mine' = [mine EXCEPT ![c] = named[op[c].name]] /\ pc' = [pc EXCEPT ![c] = "remove"]
        /\ answer' = answer
    BY <1>4 DEF GetEntry, Goto
  <2>2. SessionInv'
    BY <1>1, <1>2, <2>1 DEF SessionInv
  <2>3. Within(c)
    BY <1>1, <1>2, <2>1 DEF Within
  <2>4. /\ ~Deleting(c) /\ ~Deleting(c)' /\ ~Creating(c) /\ ~Creating(c)'
        /\ pc'[c] = "remove" /\ mine'[c] = named[op[c].name]
    BY <1>1, <1>2, <2>1 DEF Deleting, Creating
  <2>5. instance[mine'[c]] # "none"
    BY <1>1, <1>2, <1>4, <2>4 DEF LookedUpInv
  <2> QED BY <1>2, <2>2, <2>3, <2>4, <2>5, WithinKeeps
<1> QED BY <1>3, <1>4

\* While nobody has destroyed the tree of storages none of its entries is released.
LEMMA NamedUnfreed ==
    ASSUME IInv, JInv, act[Storages].pc = "none"
    PROVE  \A n \in Names : named[n] # None => Entry(named[n]) \notin freed
<1> TAKE n \in Names
<1> HAVE named[n] # None
<1>1. named \in [Names -> Trees \cup {None}] /\ OnceInv /\ Storages \in AllItems
  BY Bases DEF AllItems
<1>2. PICK i \in 1 .. Len(Kids(Storages)) : Kids(Storages)[i] = Entry(named[n])
  BY <1>1, StoragesKids
<1>3. IsValue(Entry(named[n]))
  BY KidsOfOthers
<1> QED BY <1>1, <1>2, <1>3 DEF OnceInv

\* The names change while nobody has destroyed the tree of storages.
LEMMA OnceNames ==
    ASSUME IInv, JInv, shape' = shape, named' \in [Names -> Trees \cup {None}],
           \A n \in Names : named'[n] # None => Entry(named'[n]) \notin freed,
           freed' = freed \ {Storages}, act[Storages].pc = "none" => Storages \notin freed,
           \A y \in AllItems : y # Storages => act'[y] = act[y],
           \A t \in Trees : instance'[t] = instance[t] \/ Root(t) \notin freed
    PROVE  OnceInv'
<1>1. /\ AllItems' = AllItems /\ \A y : IsValue(y)' = IsValue(y)
      /\ \A y : y # Storages => Kids(y)' = Kids(y)
  BY Static
<1>2. OnceInv /\ TypeInv
  BY Bases
<1>3. ASSUME NEW y \in AllItems, NEW k \in 1 .. Len(Kids(y)'), IsValue(Kids(y)'[k]), Kids(y)'[k] \in freed'
      PROVE  act'[y].pc # "none" /\ k < act'[y].i
  <2>1. CASE y = Storages
    <3>1. PICK n \in Names : named'[n] \in Trees /\ Kids(Storages)'[k] = Entry(named'[n])
      BY <1>3, <2>1, StoragesKidsNext
    <3>2. named'[n] # None
      BY <3>1, DestroyAssumption DEF Trees
    <3> QED BY <1>3, <2>1, <3>1, <3>2
  <2>2. CASE y # Storages
    BY <1>1, <1>2, <1>3, <2>2 DEF OnceInv
  <2> QED BY <2>1, <2>2
<1>4. ASSUME NEW y \in freed', ~IsValue(y)
      PROVE  /\ y \in AllItems /\ y[1] # -1
             /\ act'[y].pc = "gone" \/ \E t \in Trees : y = Root(t) /\ instance'[t] = "none"
  BY <1>2, <1>4 DEF OnceInv
<1> QED BY <1>1, <1>3, <1>4 DEF OnceInv

\* PutEntry.
LEMMA PutEntryOnce ==
    ASSUME IInv, JInv, NEW c \in Clients, PutEntry(c)
    PROVE  JInv'
<1>1. /\ DOMAIN pc = Clients /\ DOMAIN answer = Clients /\ CallRight(c)
      /\ mine \in [Clients -> Trees \cup {None}] /\ named \in [Names -> Trees \cup {None}]
      /\ instance \in [Trees -> {"root", "null", "none"}] /\ None \notin Trees
      /\ SessionInv /\ CreateInv /\ LookedUpInv /\ EntryInv /\ OnceInv /\ CallerInv
      /\ WhereInv /\ ContainersInv /\ TypeInv /\ StoragesInv /\ Trees \subseteq Nat /\ made \in Nat
  BY Bases
<1>2. /\ pc[c] = "put" /\ op[c].type = "create" /\ op[c].name \in Names
      /\ UNCHANGED <<shape, made, retired, mixed, main, todo, op, mine, sess>>
  BY <1>1 DEF PutEntry, life, CallRight, table
<1>3. CASE named[op[c].name] # None
  <2>1. /\ pc' = [pc EXCEPT ![c] = "leave"]
        /\ answer' = [answer EXCEPT ![c] = "WARN_UNIQUE_RESTRICTION"]
        /\ UNCHANGED <<named, hasRoot, instance, act, freed>>
    BY <1>3 DEF PutEntry, Goto, Answer, table, destroying
  <2>2. SessionInv'
    BY <1>1, <1>2, <2>1 DEF SessionInv
  <2>3. Within(c)
    BY <1>1, <1>2, <2>1 DEF Within
  <2>4. /\ ~Deleting(c) /\ ~Deleting(c)' /\ Creating(c) /\ Creating(c)'
        /\ pc'[c] = "leave"
    BY <1>1, <1>2, <2>1 DEF Deleting, Creating
  <2> QED BY <1>2, <2>2, <2>3, <2>4, WithinKeeps
<1>4. CASE named[op[c].name] = None
  <2> DEFINE n == op[c].name
             t == mine[c]
  <2>1. /\ pc' = [pc EXCEPT ![c] = "leave"] /\ answer' = [answer EXCEPT ![c] = "OK"]
        /\ named' = [named EXCEPT ![n] = t] /\ hasRoot' = TRUE
        /\ instance' = [instance EXCEPT ![t] = "root"]
        /\ act' = (IF hasRoot THEN act ELSE [act EXCEPT ![Storages] = NotCalled])
        /\ freed' = (IF hasRoot THEN freed ELSE freed \ {Storages})
    BY <1>4 DEF PutEntry, Goto, Answer
  <2>2. Creating(c) /\ ~Creating(c)' /\ ~Deleting(c) /\ ~Deleting(c)' /\ pc'[c] = "leave"
    BY <1>1, <1>2, <2>1 DEF Creating, Deleting
  <2>3. /\ t \in Trees /\ t <= made /\ instance[t] = "none" /\ Root(t) \notin freed
        /\ \A d \in Clients : Creating(d) /\ d # c => mine[d] # t
    BY <1>1, <2>2 DEF CreateInv
  <2>4. /\ main = "up" /\ Storages \in AllItems
        /\ hasRoot => act[Storages] = NotCalled /\ Storages \notin freed
    BY <1>2, StoragesSafe
  <2>5. n \in Names /\ named[n] = None
    BY <1>2, <1>4
  <2>6. /\ ~Named(t) /\ ~Waiting(t) /\ Entry(t) \notin freed /\ act[Root(t)].pc = "none"
    <3>1. ~Named(t)
      BY <1>1, <2>3 DEF LookedUpInv, Named
    <3>2. ~Waiting(t) /\ Entry(t) \notin freed
      BY <1>1, <2>3 DEF EntryInv
    <3>3. act[Root(t)].pc = "none"
      BY <1>1, <2>3 DEF CallerInv
    <3> QED BY <3>1, <3>2, <3>3
  <2> HIDE DEF n, t
  <2>7. /\ named'[n] = t /\ \A m \in Names : m # n => named'[m] = named[m]
        /\ named' \in [Names -> Trees \cup {None}]
        /\ instance' \in [Trees -> {"root", "null", "none"}]
        /\ instance'[t] = "root" /\ \A u \in Trees : u # t => instance'[u] = instance[u]
    BY <1>1, <2>1, <2>3, <2>5
  <2>8. \A u \in Trees : Named(u)' <=> Named(u) \/ u = t
    BY <1>1, <2>5, <2>7 DEF Named
  <2>9. /\ \A y \in AllItems : y # Storages => act'[y] = act[y]
        /\ freed' = freed \ {Storages} /\ DOMAIN act = AllItems
    BY <1>1, <2>1, <2>4 DEF TypeInv
  <2>10. \A d \in Clients : d # c => /\ Creating(d)' = Creating(d) /\ Deleting(d)' = Deleting(d)
                                     /\ mine'[d] = mine[d] /\ pc'[d] = pc[d]
    BY <1>1, <1>2, <2>1 DEF Creating, Deleting
  <2>11. \A u : Confused(u)' = Confused(u) /\ Forgotten(u)' = Forgotten(u) /\ Waiting(u)' = Waiting(u)
    BY <1>2 DEF Confused, Forgotten, Waiting
  <2>12. \A u \in Trees : /\ Root(u) \in AllItems /\ Root(u) # Storages /\ Entry(u) # Storages
                          /\ Root(u) \in freed' <=> Root(u) \in freed
                          /\ Entry(u) \in freed' <=> Entry(u) \in freed
                          /\ act'[Root(u)] = act[Root(u)]
    BY <1>1, <2>9, RootFacts, KidsOfOthers
  <2>13. \A s \in Slots : Containers(s) \in AllItems /\ act'[Containers(s)] = act[Containers(s)]
    BY <2>9, KidsOfOthers DEF AllItems
  <2>14. act'[SessionTable] = act[SessionTable]
    BY <2>9, KidsOfOthers DEF AllItems
  <2>15. SessionInv'
    BY <1>1, <1>2, <2>1 DEF SessionInv
  <2>16. CreateInv'
    <3>1. \A u \in Trees : u > made => instance'[u] = "none" /\ Root(u) \notin freed'
      <4> TAKE u \in Trees
      <4> HAVE u > made
      <4>1. u # t
        BY <1>1, <2>3
      <4> QED BY <1>1, <2>7, <2>12, <4>1 DEF CreateInv
    <3>2. ASSUME NEW d \in Clients, Creating(d)'
          PROVE  /\ mine'[d] \in Trees /\ mine'[d] <= made
                 /\ instance'[mine'[d]] = "none" /\ Root(mine'[d]) \notin freed'
                 /\ \A e \in Clients : Creating(e)' /\ e # d => mine'[e] # mine'[d]
      <4>1. d # c /\ Creating(d) /\ mine'[d] = mine[d] /\ mine[d] # t
        BY <2>2, <2>3, <2>10, <3>2
      <4>2. /\ mine[d] \in Trees /\ mine[d] <= made
            /\ instance[mine[d]] = "none" /\ Root(mine[d]) \notin freed
            /\ \A e \in Clients : Creating(e) /\ e # d => mine[e] # mine[d]
        BY <1>1, <4>1 DEF CreateInv
      <4>3. \A e \in Clients : Creating(e)' /\ e # d => mine'[e] # mine'[d]
        BY <2>2, <2>10, <4>1, <4>2
      <4> QED BY <2>7, <2>12, <4>1, <4>2, <4>3
    <3> QED BY <1>2, <2>7, <3>1, <3>2 DEF CreateInv
  <2>17. LookedUpInv'
    <3>1. \A m \in Names : named'[m] # None => instance'[named'[m]] # "none"
      <4> TAKE m \in Names
      <4> HAVE named'[m] # None
      <4>1. CASE m = n
        BY <2>7, <4>1
      <4>2. CASE m # n
        <5>1. named'[m] = named[m] /\ named[m] \in Trees /\ instance[named[m]] # "none"
          BY <1>1, <2>7, <4>2 DEF LookedUpInv
        <5> QED BY <2>3, <2>7, <5>1
      <4> QED BY <4>1, <4>2
    <3>2. \A k, m \in Names : named'[k] = named'[m] /\ named'[k] # None => k = m
      <4>1. \A m \in Names : named[m] # t
        BY <2>6 DEF Named
      <4> QED BY <1>1, <2>7, <4>1 DEF LookedUpInv
    <3>3. \A d \in Clients : pc'[d] = "remove" \/ Deleting(d)' => /\ d # c /\ mine[d] \in Trees /\ mine'[d] = mine[d]
                                                              /\ instance[mine[d]] # "none" /\ mine[d] # t
      <4> TAKE d \in Clients
      <4> HAVE pc'[d] = "remove" \/ Deleting(d)'
      <4>1. d # c /\ mine'[d] = mine[d] /\ (pc[d] = "remove" \/ Deleting(d))
        BY <2>2, <2>10
      <4>2. CallRight(d)
        BY Bases
      <4> QED BY <1>1, <2>3, <4>1, <4>2 DEF LookedUpInv, CallRight, Deleting
    <3>4. \A d \in Clients : Deleting(d)' =>
             /\ Named(mine[d])' => Confused(mine[d])'
             /\ \A e \in Clients : Deleting(e)' /\ e # d /\ mine'[e] = mine'[d] => Confused(mine[d])'
      <4> TAKE d \in Clients
      <4> HAVE Deleting(d)'
      <4>1. d # c /\ mine[d] \in Trees /\ mine'[d] = mine[d] /\ mine[d] # t /\ Deleting(d)
        BY <2>10, <3>3
      <4>2. Named(mine[d])' => Named(mine[d])
        BY <2>7, <4>1 DEF Named
      <4>3. Confused(mine[d]) => Confused(mine[d])'
        BY <1>2, <4>1 DEF Confused
      <4> QED BY <1>1, <2>2, <2>10, <4>1, <4>2, <4>3 DEF LookedUpInv
    <3> QED BY <2>7, <3>1, <3>2, <3>3, <3>4 DEF LookedUpInv
  <2>18. EntryInv'
    <3> SUFFICES ASSUME NEW u \in Trees
                 PROVE  /\ Named(u)' => ~Waiting(u)
                        /\ \A s, r \in Slots : Entry(u) \in retired[s] /\ Entry(u) \in retired[r] => s = r
                        /\ \A s \in Slots : Entry(u) \in retired[s] /\ Entry(u) \in freed =>
                              act[Containers(s)].pc = "gone"
                        /\ Waiting(u) \/ Entry(u) \in freed => instance'[u] # "none"
                        /\ instance'[u] # "none" => Entry(u) \in freed \/ Named(u)' \/ Waiting(u)
      BY <1>2, <2>11, <2>12, <2>13 DEF EntryInv
    <3>1. CASE u = t
      BY <1>1, <2>6, <2>7, <2>8, <3>1 DEF EntryInv
    <3>2. CASE u # t
      BY <1>1, <2>7, <2>8, <3>2 DEF EntryInv
    <3> QED BY <3>1, <3>2
  <2>19. OnceInv'
    <3>1. \A m \in Names : named'[m] # None => Entry(named'[m]) \notin freed
      <4> TAKE m \in Names
      <4> HAVE named'[m] # None
      <4>1. CASE m = n
        BY <2>6, <2>7, <4>1
      <4>2. CASE m # n
        <5>1. named[m] # None /\ named'[m] = named[m]
          BY <2>7, <4>2
        <5>2. hasRoot
          BY <1>1, <5>1 DEF StoragesInv
        <5> QED BY <2>4, <5>1, <5>2, NamedUnfreed DEF NotCalled
      <4> QED BY <4>1, <4>2
    <3>2. act[Storages].pc = "none" => Storages \notin freed
      <4>1. \A u \in Trees : Storages # Root(u)
        BY <2>12
      <4> QED BY <1>1, <4>1, KidsOfOthers DEF OnceInv
    <3> QED BY <1>2, <2>3, <2>7, <2>9, <3>1, <3>2, OnceNames
  <2>20. CallerInv'
    <3> SUFFICES ASSUME NEW u \in Trees
                 PROVE  /\ instance'[u] = "null" => Root(u) \in freed
                        /\ act[Root(u)].pc # "none" =>
                              /\ instance'[u] # "none"
                              /\ \/ instance'[u] = "null"
                                 \/ \E d \in Clients : pc'[d] = "destroy" /\ mine'[d] = u
                                 \/ main = "destroy" /\ Head(todo) = u
      BY <1>2, <2>12 DEF CallerInv
    <3>1. CASE u = t
      BY <2>6, <2>7, <3>1
    <3>2. CASE u # t
      <4>1. \A d \in Clients : pc[d] = "destroy" => d # c
        BY <1>2
      <4> QED BY <1>1, <2>7, <2>10, <3>2, <4>1 DEF CallerInv
    <3> QED BY <3>1, <3>2
  <2>21. WhereInv'
    <3>1. ASSUME NEW u \in Trees, u <= made
          PROVE  \/ Forgotten(u) \/ Root(u) \in freed \/ Named(u)'
                 \/ \E d \in Clients : (Creating(d)' \/ Deleting(d)') /\ mine'[d] = u
      <4>1. CASE u = t
        BY <2>8, <4>1
      <4>2. CASE u # t
        BY <1>1, <2>8, <2>10, <3>1, <4>2 DEF WhereInv, t
      <4> QED BY <4>1, <4>2
    <3> QED BY <1>2, <2>4, <2>11, <2>12, <3>1 DEF WhereInv
  <2>22. ContainersInv'
    <3>1. \A s \in Slots : retired[s] \subseteq Entries
      BY <1>1 DEF TypeInv
    <3>2. \A s \in Slots : retired[s] \subseteq freed => retired[s] \subseteq freed'
      BY <2>9, <3>1, KidsOfOthers DEF Entries
    <3> QED BY <1>1, <1>2, <2>13, <2>14, <3>2 DEF ContainersInv
  <2> QED BY <2>15, <2>16, <2>17, <2>18, <2>19, <2>20, <2>21, <2>22 DEF JInv
<1> QED BY <1>3, <1>4

\* RemoveEntry.
LEMMA RemoveEntryOnce ==
    ASSUME IInv, JInv, NEW c \in Clients, RemoveEntry(c)
    PROVE  JInv'
<1>1. /\ DOMAIN pc = Clients /\ DOMAIN answer = Clients /\ CallRight(c)
      /\ mine \in [Clients -> Trees \cup {None}] /\ named \in [Names -> Trees \cup {None}]
      /\ None \notin Trees
      /\ SessionInv /\ CreateInv /\ LookedUpInv /\ EntryInv /\ OnceInv /\ CallerInv
      /\ WhereInv /\ ContainersInv /\ TypeInv /\ StoragesInv
  BY Bases
<1>2. /\ pc[c] = "remove" /\ op[c].type # "create" /\ op[c].name \in Names /\ mine[c] \in Trees
      /\ UNCHANGED <<shape, hasRoot, instance, made, act, freed, main, todo, op, mine, sess>>
  BY <1>1 DEF RemoveEntry, life, destroying, CallRight
<1>3. CASE named[op[c].name] = None
  <2>1. /\ pc' = [pc EXCEPT ![c] = "leave"]
        /\ answer' = [answer EXCEPT ![c] = "WARN_CONCURRENT_OPERATIONS"]
        /\ UNCHANGED <<named, retired, mixed>>
    BY <1>3 DEF RemoveEntry, Goto, Answer
  <2>2. SessionInv'
    BY <1>1, <1>2, <2>1 DEF SessionInv
  <2>3. Within(c)
    BY <1>1, <1>2, <2>1 DEF Within
  <2>4. /\ ~Deleting(c) /\ ~Deleting(c)' /\ ~Creating(c) /\ ~Creating(c)'
        /\ pc'[c] = "leave"
    BY <1>1, <1>2, <2>1 DEF Deleting, Creating
  <2> QED BY <1>2, <2>2, <2>3, <2>4, WithinKeeps
<1>4. CASE named[op[c].name] # None
  <2>1. PICK n \in Names, t \in Trees, s \in Slots, w \in Trees :
           /\ n = op[c].name /\ t = named[n] /\ w = mine[c]
           /\ pc' = [pc EXCEPT ![c] = "load"] /\ answer' = answer
           /\ named' = [named EXCEPT ![n] = None]
           /\ retired' = [retired EXCEPT ![s] = @ \cup {Entry(t)}]
           /\ mixed' = (IF t = w THEN mixed ELSE mixed \cup {<<w, t>>})
    <3> DEFINE r == CHOOSE r \in Slots : sess[r] = c
    <3>1. r \in Slots
      BY <1>1, <1>2 DEF SessionInv
    <3>2. /\ pc' = [pc EXCEPT ![c] = "load"] /\ answer' = answer
          /\ named' = [named EXCEPT ![op[c].name] = None]
          /\ retired' = [retired EXCEPT ![r] = @ \cup {Entry(named[op[c].name])}]
          /\ mixed' = (IF named[op[c].name] = mine[c] THEN mixed
                       ELSE mixed \cup {<<mine[c], named[op[c].name]>>})
      BY <1>4 DEF RemoveEntry, Goto
    <3> HIDE DEF r
    <3> QED BY <1>1, <1>2, <1>4, <3>1, <3>2
  <2>2. t = named[n] /\ w = mine[c] /\ n = op[c].name
    BY <2>1
  <2>4. /\ named'[n] = None /\ \A m \in Names : m # n => named'[m] = named[m]
        /\ named' \in [Names -> Trees \cup {None}]
    BY <1>1, <2>1, <2>2
  <2>5. /\ Named(t) /\ ~Waiting(t) /\ instance[t] # "none"
        /\ \A m \in Names : m # n => named[m] # t
    <3>1. Named(t)
      BY <2>2 DEF Named
    <3>2. instance[t] # "none" /\ \A m \in Names : m # n => named[m] # t
      BY <1>1, <2>2 DEF LookedUpInv
    <3> QED BY <1>1, <2>2, <3>1, <3>2 DEF EntryInv
  <2>6. \A u \in Trees : Named(u)' <=> Named(u) /\ u # t
    <3> TAKE u \in Trees
    <3>1. u # None
      BY <1>1
    <3> QED BY <2>2, <2>4, <2>5, <3>1 DEF Named
  <2>7. /\ main = "up" /\ Storages \in AllItems /\ hasRoot /\ act[Storages].pc = "none"
        /\ Storages \notin freed
    BY <1>1, <1>2, <2>2, StoragesSafe DEF StoragesInv, NotCalled
  <2>8. Entry(t) \notin freed
    BY <1>1, <2>2, <2>7, NamedUnfreed
  <2>9. /\ retired \in [Slots -> SUBSET Entries] /\ retired'[s] = retired[s] \cup {Entry(t)}
        /\ \A r \in Slots : r # s => retired'[r] = retired[r]
    BY <1>1, <2>1 DEF TypeInv
  <2>10. \A u : u # t => Entry(u) # Entry(t)
    BY DEF Entry
  <2>11. \A u : u # t => \A r \in Slots : Entry(u) \in retired'[r] <=> Entry(u) \in retired[r]
    BY <2>9, <2>10
  <2>12. \A d \in Clients : /\ Creating(d)' <=> Creating(d)
                            /\ Deleting(d)' <=> Deleting(d) \/ d = c
                            /\ pc'[d] = "destroy" <=> pc[d] = "destroy"
                            /\ pc'[d] = "remove" => pc[d] = "remove"
    BY <1>1, <1>2, <2>1 DEF Creating, Deleting
  <2>13. /\ ~Deleting(c) /\ mine' = mine
    BY <1>2 DEF Deleting
  <2>14. /\ \A u : Confused(u) => Confused(u)'
         /\ \A u : Forgotten(u) => Forgotten(u)'
         /\ t # w => Confused(w)' /\ Forgotten(t)'
    <3>1. \A u : (Confused(u) => Confused(u)') /\ (Forgotten(u) => Forgotten(u)')
      BY <2>1 DEF Confused, Forgotten
    <3>2. ASSUME t # w PROVE Confused(w)' /\ Forgotten(t)'
      <4>1. <<w, t>> \in mixed' /\ <<w, t>>[1] = w /\ <<w, t>>[2] = t
        BY <2>1, <3>2
      <4> QED BY <4>1 DEF Confused, Forgotten
    <3> QED BY <3>1, <3>2
  <2>15. SessionInv'
    BY <1>1, <1>2, <2>1 DEF SessionInv
  <2>16. CreateInv'
    BY <1>1, <1>2, <2>12 DEF CreateInv
  <2>17. LookedUpInv'
    <3>1. \A m \in Names : named'[m] # None => instance'[named'[m]] # "none"
      BY <1>1, <1>2, <2>4 DEF LookedUpInv
    <3>2. \A k, m \in Names : named'[k] = named'[m] /\ named'[k] # None => k = m
      BY <1>1, <2>4 DEF LookedUpInv
    <3>3. \A d \in Clients : pc'[d] = "remove" \/ Deleting(d)' => instance'[mine'[d]] # "none"
      BY <1>1, <1>2, <2>12 DEF LookedUpInv
    <3>4. ASSUME NEW d \in Clients, Deleting(d)', NEW v, v = mine[d]
          PROVE  /\ Named(v)' => Confused(v)'
                 /\ \A e \in Clients : Deleting(e)' /\ e # d /\ mine'[e] = v => Confused(v)'
      <4>1. v \in Trees
        <5>1. CallRight(d)
          BY Bases
        <5> QED BY <1>2, <2>12, <3>4, <5>1 DEF Deleting, CallRight
      <4>2. CASE d = c
        <5>1. v = w
          BY <2>2, <3>4, <4>2
        <5>2. CASE w # t
          BY <2>14, <5>1, <5>2
        <5>3. CASE w = t
          <6>1. ~Named(v)'
            BY <2>6, <4>1, <5>1, <5>3
          <6>2. ASSUME NEW e \in Clients, Deleting(e)', e # c, mine[e] = v PROVE Confused(v)
            <7>1. Deleting(e) /\ Named(mine[e])
              BY <2>5, <2>12, <5>1, <5>3, <6>2
            <7> QED BY <1>1, <6>2, <7>1 DEF LookedUpInv
          <6> QED BY <2>13, <2>14, <4>2, <6>1, <6>2
        <5> QED BY <5>2, <5>3
      <4>3. CASE d # c
        <5>1. Deleting(d)
          BY <2>12, <3>4, <4>3
        <5>2. Named(v) => Confused(v)
          BY <1>1, <3>4, <5>1 DEF LookedUpInv
        <5>3. Named(v)' => Confused(v)'
          BY <2>6, <2>14, <4>1, <5>2
        <5>4. ASSUME NEW e \in Clients, Deleting(e)', e # d, mine[e] = v PROVE Confused(v)'
          <6>1. CASE e = c
            <7>1. v = w
              BY <2>2, <5>4, <6>1
            <7>2. CASE w # t
              BY <2>14, <7>1, <7>2
            <7>3. CASE w = t
              BY <2>5, <2>14, <5>2, <7>1, <7>3
            <7> QED BY <7>2, <7>3
          <6>2. CASE e # c
            <7>1. Deleting(e)
              BY <2>12, <5>4, <6>2
            <7> QED BY <1>1, <2>14, <3>4, <5>1, <5>4, <7>1 DEF LookedUpInv
          <6> QED BY <6>1, <6>2
        <5> QED BY <2>13, <5>3, <5>4
      <4> QED BY <4>2, <4>3
    <3>5. \A d \in Clients : Deleting(d)' =>
             /\ Named(mine[d])' => Confused(mine[d])'
             /\ \A e \in Clients : Deleting(e)' /\ e # d /\ mine'[e] = mine'[d] => Confused(mine[d])'
      <4> TAKE d \in Clients
      <4> HAVE Deleting(d)'
      <4>1. PICK v : v = mine[d]
        OBVIOUS
      <4>2. v = mine'[d]
        BY <2>13, <4>1
      <4> QED BY <3>4, <4>1, <4>2
    <3> QED BY <3>1, <3>2, <3>3, <3>5 DEF LookedUpInv
  <2>18. EntryInv'
    <3> SUFFICES ASSUME NEW u \in Trees
                 PROVE  /\ Named(u)' => ~Waiting(u)'
                        /\ \A q, r \in Slots : Entry(u) \in retired'[q] /\ Entry(u) \in retired'[r] => q = r
                        /\ \A r \in Slots : Entry(u) \in retired'[r] /\ Entry(u) \in freed =>
                              act[Containers(r)].pc = "gone"
                        /\ Waiting(u)' \/ Entry(u) \in freed => instance[u] # "none"
                        /\ instance[u] # "none" => Entry(u) \in freed \/ Named(u)' \/ Waiting(u)'
      BY <1>2 DEF EntryInv
    <3>1. CASE u = t
      <4>1. ~Named(u)' /\ Waiting(u)'
        BY <2>1, <2>6, <2>9, <3>1 DEF Waiting
      <4>2. \A r \in Slots : Entry(u) \in retired'[r] => r = s
        BY <2>5, <2>9, <3>1 DEF Waiting
      <4> QED BY <2>5, <2>8, <3>1, <4>1, <4>2
    <3>2. CASE u # t
      <4>1. Waiting(u)' <=> Waiting(u)
        BY <2>11, <3>2 DEF Waiting
      <4>2. Named(u)' <=> Named(u)
        BY <2>6, <3>2
      <4> QED BY <1>1, <2>11, <3>2, <4>1, <4>2 DEF EntryInv
    <3> QED BY <3>1, <3>2
  <2>19. OnceInv'
    <3>1. \A m \in Names : named'[m] # None => Entry(named'[m]) \notin freed
      BY <2>4, <2>7, NamedUnfreed
    <3>2. freed' = freed \ {Storages}
      BY <1>2, <2>7
    <3> QED BY <1>2, <2>4, <2>7, <3>1, <3>2, OnceNames
  <2>20. CallerInv'
    BY <1>1, <1>2, <2>12 DEF CallerInv
  <2>21. WhereInv'
    <3>1. ASSUME NEW u \in Trees, u <= made
          PROVE  \/ Forgotten(u)' \/ Root(u) \in freed \/ Named(u)'
                 \/ \E d \in Clients : (Creating(d)' \/ Deleting(d)') /\ mine'[d] = u
      <4>1. CASE u = t
        BY <2>2, <2>12, <2>13, <2>14, <4>1
      <4>2. CASE u # t
        BY <1>1, <2>6, <2>12, <2>13, <2>14, <3>1, <4>2 DEF WhereInv
      <4> QED BY <4>1, <4>2
    <3> QED BY <1>2, <2>7, <3>1 DEF WhereInv
  <2>22. ContainersInv'
    <3>1. SessionTable \in AllItems /\ \A r \in Slots : Containers(r) \in AllItems
      BY DEF AllItems
    <3>2. act[SessionTable].pc = "none" /\ \A r \in Slots : act[Containers(r)].pc = "none"
      BY <2>7, <3>1, KidsOfOthers DEF IInv, TableInv, NotCalled
    <3> QED BY <1>2, <3>2 DEF ContainersInv
  <2> QED BY <2>15, <2>16, <2>17, <2>18, <2>19, <2>20, <2>21, <2>22 DEF JInv
<1> QED BY <1>3, <1>4

\* destroy() is called from outside, for the first time.
LEMMA NewCallOnce ==
    ASSUME IInv, JInv, UNCHANGED <<shape, named, retired, freed, instance>>,
           NEW x \in AllItems, ~IsContainer(x), x \notin freed, act[x].pc = "none",
           act' = [act EXCEPT ![x] = Called]
    PROVE  EntryInv' /\ OnceInv' /\ ContainersInv'
<1>1. EntryInv /\ OnceInv /\ ContainersInv /\ TypeInv
  BY Bases
<1>2. /\ act'[x].pc = "loop" /\ act'[x].i = 1 /\ \A y \in AllItems : y # x => act'[y] = act[y]
  BY <1>1 DEF TypeInv, Called, NotCalled
<1>3. \A s \in Slots : Containers(s) \in AllItems /\ act'[Containers(s)] = act[Containers(s)]
  <2>1. \A s \in Slots : Containers(s) \in AllItems /\ IsContainer(Containers(s))
    BY KidsOfOthers DEF AllItems
  <2> QED BY <1>2, <2>1
<1>4. EntryInv'
  BY <1>1, <1>3 DEF EntryInv, Named, Waiting
<1>5. OnceInv'
  <2>1. AllItems' = AllItems /\ \A y : IsValue(y)' = IsValue(y) /\ Kids(y)' = Kids(y)
    BY Static
  <2>2. \A y \in AllItems : \A k \in 1 .. Len(Kids(y)) :
           IsValue(Kids(y)[k]) /\ Kids(y)[k] \in freed => act'[y].pc # "none" /\ k < act'[y].i
    BY <1>1, <1>2 DEF OnceInv
  <2>3. \A y \in freed : ~IsValue(y) =>
          /\ y \in AllItems /\ y[1] # -1
          /\ act'[y].pc = "gone" \/ \E t \in Trees : y = Root(t) /\ instance[t] = "none"
    BY <1>1, <1>2 DEF OnceInv
  <2> QED BY <2>1, <2>2, <2>3 DEF OnceInv
<1>6. ContainersInv'
  <2>1. SessionTable \in AllItems
    BY DEF AllItems
  <2>2. CASE x = SessionTable
    <3>1. \A s \in Slots : ~(s < 1)
      BY DEF Slots
    <3> QED BY <1>1, <1>2, <1>3, <2>2, <3>1 DEF ContainersInv
  <2>3. CASE x # SessionTable
    BY <1>1, <1>2, <1>3, <2>1, <2>3 DEF ContainersInv
  <2> QED BY <2>2, <2>3
<1> QED BY <1>4, <1>5, <1>6

\* A tree that is destroyed for the first time is not released.
LEMMA RootUnfreed ==
    ASSUME IInv, JInv, NEW t \in Trees, instance[t] # "none", act[Root(t)].pc = "none"
    PROVE  /\ Root(t) \in AllItems /\ ~IsContainer(Root(t)) /\ Root(t) \notin freed
           /\ \A u \in Trees : u # t => Root(u) # Root(t) /\ Root(u) \in AllItems
<1>1. TypeInv /\ OnceInv
  BY Bases
<1>2. Root(t) \in AllItems /\ ~IsValue(Root(t)) /\ Root(t)[1] # -1
  BY <1>1, RootFacts
<1>3. \A u : u # t => Root(u) # Root(t)
  BY DEF Root
<1>4. Root(t) \notin freed
  BY <1>1, <1>2, <1>3 DEF OnceInv
<1> QED BY <1>1, <1>2, <1>3, <1>4, RootFacts DEF IsContainer

\* LoadRoot: a tree that is being destroyed already is one of a confused delete_storage.
LEMMA LoadRootOnce ==
    ASSUME IInv, JInv, NEW c \in Clients, LoadRoot(c)
    PROVE  /\ twice' = {} => JInv'
           /\ \A x \in twice' : x \in twice \/ \E m \in mixed : x = Root(m[1])
<1>1. /\ DOMAIN pc = Clients /\ DOMAIN answer = Clients /\ CallRight(c)
      /\ mine \in [Clients -> Trees \cup {None}]
      /\ instance \in [Trees -> {"root", "null", "none"}]
      /\ SessionInv /\ CreateInv /\ LookedUpInv /\ CallerInv
      /\ WhereInv /\ TypeInv
  BY Bases
<1>2. /\ pc[c] = "load" /\ mine[c] \in Trees /\ op[c].type # "create"
      /\ UNCHANGED <<named, shape, hasRoot, instance, made, retired, mixed, main, todo, op, mine, sess>>
  BY <1>1 DEF LoadRoot, life, table, CallRight
<1>3. Deleting(c) /\ instance[mine[c]] # "none"
  BY <1>1, <1>2 DEF LookedUpInv, Deleting
<1>4. CASE instance[mine[c]] # "root"
  <2>1. /\ pc' = [pc EXCEPT ![c] = "leave"] /\ answer' = [answer EXCEPT ![c] = "OK"]
        /\ UNCHANGED <<act, room, freed, twice>>
    BY <1>4 DEF LoadRoot, Goto, Answer, destroying
  <2>2. Root(mine[c]) \in freed
    BY <1>1, <1>2, <1>3, <1>4 DEF CallerInv
  <2>3. SessionInv'
    BY <1>1, <1>2, <2>1 DEF SessionInv
  <2>4. Within(c)
    BY <1>1, <1>2, <2>1 DEF Within
  <2>5. ~Deleting(c)' /\ ~Creating(c) /\ ~Creating(c)' /\ pc'[c] = "leave"
    BY <1>1, <1>2, <2>1 DEF Deleting, Creating
  <2>6. JInv'
    BY <1>2, <2>2, <2>3, <2>4, <2>5, WithinKeeps
  <2> QED BY <2>1, <2>6
<1>5. CASE instance[mine[c]] = "root" /\ act[Root(mine[c])] # NotCalled
  <2>1. twice' = twice \cup {Root(mine[c])}
    BY <1>5 DEF LoadRoot, StartDestroy
  <2>2. act[Root(mine[c])].pc # "none"
    BY <1>1, <1>2, <1>5, RootFacts DEF IInv, ActInv, ActRight
  <2>3. main = "up"
    BY <1>2, StoragesSafe
  <2>4. PICK d \in Clients : pc[d] = "destroy" /\ mine[d] = mine[c]
    BY <1>1, <1>2, <1>5, <2>2, <2>3 DEF CallerInv
  <2>5. Confused(mine[c])
    BY <1>1, <1>2, <1>3, <2>4 DEF LookedUpInv, Deleting
  <2>6. \E m \in mixed : Root(mine[c]) = Root(m[1])
    BY <2>5 DEF Confused
  <2> QED BY <2>1, <2>6
<1>6. CASE instance[mine[c]] = "root" /\ act[Root(mine[c])] = NotCalled
  <2>1. PICK t \in Trees : t = mine[c]
    BY <1>2
  <2>2. /\ pc' = [pc EXCEPT ![c] = "destroy"] /\ answer' = answer
        /\ act' = [act EXCEPT ![Root(t)] = Called] /\ twice' = twice /\ freed' = freed
        /\ act[Root(t)].pc = "none" /\ instance[t] = "root"
    BY <1>6, <2>1 DEF LoadRoot, Goto, StartDestroy, NotCalled
  <2>3. /\ Root(t) \in AllItems /\ ~IsContainer(Root(t)) /\ Root(t) \notin freed
        /\ \A u \in Trees : u # t => Root(u) # Root(t) /\ Root(u) \in AllItems
    BY <2>2, RootUnfreed
  <2>4. EntryInv' /\ OnceInv' /\ ContainersInv'
    BY <1>2, <2>2, <2>3, NewCallOnce
  <2>5. \A u \in Trees : u # t => act'[Root(u)] = act[Root(u)]
    BY <1>1, <2>2, <2>3 DEF TypeInv
  <2>6. \A d \in Clients : /\ Creating(d)' <=> Creating(d)
                           /\ Deleting(d)' <=> Deleting(d)
                           /\ pc[d] = "destroy" => pc'[d] = "destroy"
                           /\ pc'[d] = "remove" => pc[d] = "remove"
    BY <1>1, <1>2, <2>2 DEF Creating, Deleting
  <2>7. \A u : Named(u)' = Named(u) /\ Confused(u)' = Confused(u) /\ Forgotten(u)' = Forgotten(u)
    BY <1>2 DEF Named, Confused, Forgotten
  <2>8. SessionInv'
    BY <1>1, <1>2, <2>2 DEF SessionInv
  <2>9. CreateInv'
    BY <1>1, <1>2, <2>2, <2>6 DEF CreateInv
  <2>10. LookedUpInv'
    BY <1>1, <1>2, <2>6, <2>7 DEF LookedUpInv
  <2>11. CallerInv'
    <3> SUFFICES ASSUME NEW u \in Trees
                 PROVE  /\ instance[u] = "null" => Root(u) \in freed
                        /\ act'[Root(u)].pc # "none" =>
                              /\ instance[u] # "none"
                              /\ \/ instance[u] = "null"
                                 \/ \E d \in Clients : pc'[d] = "destroy" /\ mine[d] = u
                                 \/ main = "destroy" /\ Head(todo) = u
      BY <1>2, <2>2 DEF CallerInv
    <3>1. CASE u = t
      BY <1>1, <2>1, <2>2, <3>1
    <3>2. CASE u # t
      BY <1>1, <2>5, <2>6, <3>2 DEF CallerInv
    <3> QED BY <3>1, <3>2
  <2>12. WhereInv'
    BY <1>1, <1>2, <2>2, <2>6, <2>7 DEF WhereInv
  <2>13. JInv'
    BY <2>4, <2>8, <2>9, <2>10, <2>11, <2>12 DEF JInv
  <2> QED BY <2>2, <2>13
<1> QED BY <1>4, <1>5, <1>6

\* StoreRoot: the instance forgets a tree that is gone.
LEMMA StoreRootOnce ==
    ASSUME IInv, JInv, NEW c \in Clients, StoreRoot(c)
    PROVE  JInv'
<1>1. /\ DOMAIN pc = Clients /\ DOMAIN answer = Clients /\ CallRight(c)
      /\ mine \in [Clients -> Trees \cup {None}] /\ named \in [Names -> Trees \cup {None}]
      /\ instance \in [Trees -> {"root", "null", "none"}]
      /\ SessionInv /\ CreateInv /\ LookedUpInv /\ EntryInv /\ OnceInv /\ CallerInv
      /\ WhereInv /\ TypeInv /\ ContainersInv
      /\ \A d \in Clients : CallRight(d)
  BY Bases
<1>2. /\ pc[c] = "destroy" /\ mine[c] \in Trees /\ op[c].type # "create"
      /\ UNCHANGED <<named, shape, hasRoot, made, retired, act, freed, mixed, main, todo, op, mine, sess>>
      /\ pc' = [pc EXCEPT ![c] = "leave"] /\ answer' = [answer EXCEPT ![c] = "OK"]
      /\ instance' = [instance EXCEPT ![mine[c]] = "null"]
  BY <1>1 DEF StoreRoot, life, destroying, CallRight, Answer, Goto
<1>3. PICK t \in Trees : t = mine[c]
  BY <1>2
<1>4. Root(t) \in freed /\ instance[t] # "none"
  <2>1. act[Root(t)].pc = "gone"
    BY <1>3 DEF StoreRoot
  <2>2. Root(t) \in AllItems /\ Root(t) # SessionTable /\ ~IsContainer(Root(t))
    BY <1>1, RootFacts DEF IsContainer
  <2> QED BY <1>1, <2>1, <2>2 DEF IInv, FreedInv, CallerInv
<1>5. /\ instance'[t] = "null" /\ \A u \in Trees : u # t => instance'[u] = instance[u]
      /\ instance' \in [Trees -> {"root", "null", "none"}]
      /\ \A u \in Trees : instance'[u] = "none" <=> instance[u] = "none"
  BY <1>1, <1>2, <1>3, <1>4
<1>6. EntryInv' /\ OnceInv' /\ ContainersInv'
  BY <1>1, <1>2, <1>5, EntrySame, OnceSame, ContainersSame
<1>7. /\ ~Creating(c) /\ ~Creating(c)' /\ Deleting(c) /\ ~Deleting(c)'
      /\ \A d \in Clients : d # c => /\ Creating(d)' = Creating(d) /\ Deleting(d)' = Deleting(d)
                                     /\ pc'[d] = pc[d]
      /\ \A d \in Clients : pc'[d] = "remove" => pc[d] = "remove"
      /\ \A d \in Clients : (pc[d] = "remove" \/ Deleting(d)) => mine[d] \in Trees
  BY <1>1, <1>2 DEF Creating, Deleting, CallRight
<1>8. \A u : Named(u)' = Named(u) /\ Confused(u)' = Confused(u) /\ Forgotten(u)' = Forgotten(u)
  BY <1>2 DEF Named, Confused, Forgotten
<1>9. SessionInv'
  BY <1>1, <1>2 DEF SessionInv
<1>10. CreateInv'
  BY <1>1, <1>2, <1>5, <1>7 DEF CreateInv
<1>11. LookedUpInv'
  <2>1. \A n \in Names : named[n] # None => instance'[named[n]] # "none"
    BY <1>1, <1>5 DEF LookedUpInv
  <2>2. \A d \in Clients : pc'[d] = "remove" \/ Deleting(d)' => instance'[mine[d]] # "none"
    BY <1>1, <1>5, <1>7 DEF LookedUpInv
  <2> QED BY <1>1, <1>2, <1>7, <1>8, <2>1, <2>2 DEF LookedUpInv
<1>12. CallerInv'
  <2> SUFFICES ASSUME NEW u \in Trees
               PROVE  /\ instance'[u] = "null" => Root(u) \in freed
                      /\ act[Root(u)].pc # "none" =>
                            /\ instance'[u] # "none"
                            /\ \/ instance'[u] = "null"
                               \/ \E d \in Clients : pc'[d] = "destroy" /\ mine[d] = u
                               \/ main = "destroy" /\ Head(todo) = u
    BY <1>2 DEF CallerInv
  <2>1. CASE u = t
    BY <1>4, <1>5, <2>1
  <2>2. CASE u # t
    BY <1>1, <1>3, <1>5, <1>7, <2>2 DEF CallerInv
  <2> QED BY <2>1, <2>2
<1>13. WhereInv'
  <2>1. ASSUME NEW u \in Trees, u <= made
        PROVE  \/ Forgotten(u) \/ Root(u) \in freed \/ Named(u)
               \/ \E d \in Clients : (Creating(d)' \/ Deleting(d)') /\ mine[d] = u
    BY <1>1, <1>3, <1>4, <1>7, <2>1 DEF WhereInv
  <2> QED BY <1>1, <1>2, <1>8, <2>1 DEF WhereInv
<1> QED BY <1>6, <1>9, <1>10, <1>11, <1>12, <1>13 DEF JInv

\* Leave.
LEMMA LeaveOnce ==
    ASSUME IInv, JInv, NEW c \in Clients, Leave(c)
    PROVE  JInv'
<1>1. /\ DOMAIN pc = Clients /\ DOMAIN answer = Clients /\ DOMAIN op = Clients
      /\ mine \in [Clients -> Trees \cup {None}] /\ Trees \subseteq Nat /\ made \in Nat
      /\ SessionInv /\ CreateInv /\ LookedUpInv /\ EntryInv /\ OnceInv /\ CallerInv
      /\ WhereInv /\ TypeInv /\ ContainersInv
  BY Bases
<1>2. /\ pc[c] = "leave" /\ pc' = [pc EXCEPT ![c] = "idle"]
      /\ mine' = [mine EXCEPT ![c] = None] /\ op' = [op EXCEPT ![c] = None]
      /\ answer' = [answer EXCEPT ![c] = None]
      /\ freed' = (IF answer[c] = "WARN_UNIQUE_RESTRICTION" THEN freed \cup {Root(mine[c])} ELSE freed)
      /\ UNCHANGED <<named, shape, hasRoot, instance, made, retired, act, mixed, main, todo>>
  BY DEF Leave, Goto, life, table
<1>3. SessionInv'
  <2>1. PICK s \in Slots : sess[s] = c /\ sess' = [sess EXCEPT ![s] = None]
    <3> DEFINE r == CHOOSE r \in Slots : sess[r] = c
    <3>1. r \in Slots /\ sess[r] = c
      BY <1>1, <1>2 DEF SessionInv
    <3>2. sess' = [sess EXCEPT ![r] = None]
      BY DEF Leave
    <3> HIDE DEF r
    <3> QED BY <3>1, <3>2
  <2>2. \A r \in Slots : sess[r] # c => sess'[r] = sess[r]
    BY <1>1, <2>1 DEF SessionInv
  <2> QED BY <1>1, <1>2, <2>1, <2>2 DEF SessionInv
<1>4. /\ ~Creating(c)' /\ ~Deleting(c)' /\ ~Deleting(c) /\ pc'[c] = "idle"
      /\ \A d \in Clients : d # c => /\ Creating(d)' = Creating(d) /\ Deleting(d)' = Deleting(d)
                                     /\ mine'[d] = mine[d] /\ pc'[d] = pc[d]
  BY <1>1, <1>2 DEF Creating, Deleting
<1>5. CASE answer[c] # "WARN_UNIQUE_RESTRICTION"
  <2>1. Within(c)
    BY <1>1, <1>2, <1>5 DEF Within
  <2>2. ~Creating(c)
    BY <1>2, <1>5 DEF Creating
  <2> QED BY <1>2, <1>3, <1>4, <2>1, <2>2, WithinKeeps
<1>6. CASE answer[c] = "WARN_UNIQUE_RESTRICTION"
  <2>1. Creating(c)
    BY <1>2, <1>6 DEF Creating
  <2>2. PICK t \in Trees : /\ t = mine[c] /\ t <= made /\ instance[t] = "none"
                           /\ \A d \in Clients : Creating(d) /\ d # c => mine[d] # t
    BY <1>1, <2>1 DEF CreateInv
  <2>3. freed' = freed \cup {Root(t)}
    BY <1>2, <1>6, <2>2
  <2>4. /\ Root(t) \in AllItems /\ ~IsValue(Root(t)) /\ Root(t)[1] # -1
        /\ \A u : u # t => Root(u) # Root(t)
        /\ \A u : Entry(u) # Root(t)
    BY <1>1, RootFacts, KidsOfOthers DEF Root
  <2>5. \A u : Named(u)' = Named(u) /\ Confused(u)' = Confused(u) /\ Forgotten(u)' = Forgotten(u)
    BY <1>2 DEF Named, Confused, Forgotten
  <2>6. CreateInv'
    <3>1. \A u \in Trees : u > made => instance[u] = "none" /\ Root(u) \notin freed'
      <4> TAKE u \in Trees
      <4> HAVE u > made
      <4>1. u # t
        BY <1>1, <2>2
      <4> QED BY <1>1, <2>3, <2>4, <4>1 DEF CreateInv
    <3>2. ASSUME NEW d \in Clients, Creating(d)'
          PROVE  /\ mine'[d] \in Trees /\ mine'[d] <= made
                 /\ instance[mine'[d]] = "none" /\ Root(mine'[d]) \notin freed'
                 /\ \A e \in Clients : Creating(e)' /\ e # d => mine'[e] # mine'[d]
      <4>1. d # c /\ Creating(d) /\ mine'[d] = mine[d] /\ mine[d] # t
        BY <1>4, <2>2, <3>2
      <4>2. /\ mine[d] \in Trees /\ mine[d] <= made
            /\ instance[mine[d]] = "none" /\ Root(mine[d]) \notin freed
            /\ \A e \in Clients : Creating(e) /\ e # d => mine[e] # mine[d]
        BY <1>1, <4>1 DEF CreateInv
      <4>3. \A e \in Clients : Creating(e)' /\ e # d => mine'[e] # mine'[d]
        BY <1>4, <4>1, <4>2
      <4> QED BY <2>3, <2>4, <4>1, <4>2, <4>3
    <3> QED BY <1>1, <1>2, <3>1, <3>2 DEF CreateInv
  <2>7. LookedUpInv'
    BY <1>1, <1>2, <1>4, <2>5 DEF LookedUpInv
  <2>8. EntryInv'
    BY <1>1, <1>2, <2>3, <2>4 DEF EntryInv, Named, Waiting
  <2>9. OnceInv'
    <3>1. AllItems' = AllItems /\ \A y : IsValue(y)' = IsValue(y) /\ Kids(y)' = Kids(y)
      BY <1>2, Static
    <3>2. \A y \in AllItems : \A k \in 1 .. Len(Kids(y)) :
             IsValue(Kids(y)[k]) /\ Kids(y)[k] \in freed' => act[y].pc # "none" /\ k < act[y].i
      BY <1>1, <2>3, <2>4 DEF OnceInv
    <3>3. \A y \in freed' : ~IsValue(y) =>
            /\ y \in AllItems /\ y[1] # -1
            /\ act[y].pc = "gone" \/ \E u \in Trees : y = Root(u) /\ instance[u] = "none"
      BY <1>1, <2>2, <2>3, <2>4 DEF OnceInv
    <3> QED BY <1>2, <3>1, <3>2, <3>3 DEF OnceInv
  <2>10. CallerInv'
    BY <1>1, <1>2, <1>4, <2>3 DEF CallerInv
  <2>11. WhereInv'
    <3>1. ASSUME NEW u \in Trees, u <= made
          PROVE  \/ Forgotten(u) \/ Root(u) \in freed' \/ Named(u)
                 \/ \E d \in Clients : (Creating(d)' \/ Deleting(d)') /\ mine'[d] = u
      <4>1. CASE u = t
        BY <2>3, <4>1
      <4>2. CASE u # t
        <5>1. \/ Forgotten(u) \/ Root(u) \in freed \/ Named(u)
              \/ \E d \in Clients : (Creating(d) \/ Deleting(d)) /\ mine[d] = u
          BY <1>1, <3>1 DEF WhereInv
        <5>2. \A d \in Clients : mine[d] = u => d # c
          BY <2>2, <4>2
        <5> QED BY <1>4, <2>3, <5>1, <5>2
      <4> QED BY <4>1, <4>2
    <3>2. main = "up"
      BY <1>2, StoragesSafe
    <3> QED BY <1>1, <1>2, <2>5, <3>1, <3>2 DEF WhereInv
  <2>12. ContainersInv'
    BY <1>1, <1>2, <2>3 DEF ContainersInv
  <2> QED BY <1>3, <2>6, <2>7, <2>8, <2>9, <2>10, <2>11, <2>12 DEF JInv
<1> QED BY <1>5, <1>6

-----------------------------------------------------------------------------
(* The steps of destroy().                                                 *)

\* What a step of x is to the activations and to what is released.
LEMMA DestroyMoves ==
    ASSUME IInv, NEW x \in Active, DestroyStep(x)
    PROVE  /\ freed \subseteq freed'
           /\ \A y \in AllItems :
                 /\ y # x => \/ act'[y] = act[y]
                             \/ act[y].pc = "none" /\ act'[y] = Called /\ \E k \in 1 .. Len(Kids(x)) : y = Kids(x)[k]
                 /\ y = x => act'[y].pc # "none" /\ act'[y].i >= act[y].i
           /\ act'[x].pc = "gone" => \/ act[x].pc = "loop" /\ act[x].i > Len(Kids(x)) /\ act[x].threads = <<>> /\ ~IsContainer(x)
                                        /\ act'[x].i = act[x].i /\ act'[x].threads = act[x].threads
                                     \/ \E s \in Slots : x = Containers(s) /\ retired[s] \subseteq freed'
           /\ \A y \in freed' \ freed :
                 \/ act[x].i <= Len(Kids(x)) /\ y = Kids(x)[act[x].i] /\ IsValue(y) /\ act'[x].i = act[x].i + 1
                 \/ y = x /\ act'[x].pc = "gone" /\ ~IsContainer(x) /\ x # SessionTable
                 \/ \E s \in Slots : x = Containers(s) /\ y \in retired[s] /\ act'[x].pc = "gone"
<1>1. /\ TypeInv /\ ActInv /\ x \in AllItems /\ act[x].pc \notin {"none", "gone"} /\ DOMAIN act = AllItems
      /\ act[x] \in Activation /\ act[x].i \in Nat
  BY ActTypes DEF IInv, Active, TypeInv
<1>2. ASSUME act[x].i <= Len(Kids(x))
      PROVE  /\ Kid(x) \in AllItems /\ Kid(x) = Kids(x)[act[x].i] /\ Kid(x) # x
             /\ act[x].i \in 1 .. Len(Kids(x))
             /\ act[x].pc = "cas" => act[Kid(x)].pc = "none"
  <2>1. act[x].i \in 1 .. Len(Kids(x)) /\ Kid(x) = Kids(x)[act[x].i] /\ Kid(x) \in AllItems /\ Kid(x) # x
    BY <1>1, <1>2, AtKid
  <2>2. ActRight(x)
    BY <1>1 DEF ActInv
  <2> QED BY <1>1, <2>1, <2>2 DEF ActRight
<1>3. act[x].pc = "cas" => act[x].i <= Len(Kids(x))
  BY <1>1 DEF ActInv, ActRight
<1>4. act[x].i + 1 >= act[x].i /\ act[x].i >= act[x].i
  BY <1>1
<1>5. DOMAIN act[x] = {"pc", "i", "expected", "threads"}
  BY <1>1 DEF Activation
<1>6. CASE ReleaseValue(x)
  <2>1. /\ act[x].pc = "loop" /\ act[x].i <= Len(Kids(x)) /\ IsValue(Kid(x))
        /\ freed' = freed \cup {Kid(x)} /\ act' = [act EXCEPT ![x].i = @ + 1]
    BY <1>6 DEF ReleaseValue, InLoop
  <2>2. /\ act'[x].i = act[x].i + 1 /\ act'[x].pc = "loop" /\ \A y \in AllItems : y # x => act'[y] = act[y]
    BY <1>1, <1>5, <2>1
  <2> QED BY <1>2, <1>4, <2>1, <2>2
<1>7. CASE LoadRoom(x) \/ ReloadRoom(x)
  <2>1. /\ act'[x].i = act[x].i /\ act'[x].pc = "cas" /\ \A y \in AllItems : y # x => act'[y] = act[y]
        /\ freed' = freed
    BY <1>1, <1>5, <1>7 DEF LoadRoom, ReloadRoom
  <2> QED BY <1>4, <2>1
<1>8. CASE NoRoom(x)
  <2>1. /\ act[x].pc = "cas" /\ act' = [act EXCEPT ![x].pc = "inline", ![Kid(x)] = Called]
        /\ freed' = freed
    BY <1>8 DEF NoRoom
  <2>2. /\ act'[x].i = act[x].i /\ act'[x].pc = "inline" /\ act'[Kid(x)] = Called
        /\ \A y \in AllItems : y # x /\ y # Kid(x) => act'[y] = act[y]
    BY <1>1, <1>2, <1>3, <1>5, <2>1
  <2> QED BY <1>2, <1>3, <1>4, <2>1, <2>2
<1>9. CASE StartThread(x)
  <2>1. /\ act[x].pc = "cas"
        /\ act' = [act EXCEPT ![x].pc = "loop", ![x].i = @ + 1, ![x].threads = Append(@, Kid(x)),
                          ![Kid(x)] = Called]
        /\ freed' = freed
    BY <1>9 DEF StartThread
  <2>2. /\ act'[x].i = act[x].i + 1 /\ act'[x].pc = "loop" /\ act'[Kid(x)] = Called
        /\ \A y \in AllItems : y # x /\ y # Kid(x) => act'[y] = act[y]
    BY <1>1, <1>2, <1>3, <1>5, <2>1
  <2> QED BY <1>2, <1>3, <1>4, <2>1, <2>2
<1>10. CASE Return(x)
  <2>1. /\ act'[x].i = act[x].i + 1 /\ act'[x].pc = "loop" /\ \A y \in AllItems : y # x => act'[y] = act[y]
        /\ freed' = freed
    BY <1>1, <1>5, <1>10 DEF Return
  <2> QED BY <1>4, <2>1
<1>11. CASE Join(x)
  <2>1. /\ act'[x].i = act[x].i /\ act'[x].pc = "loop" /\ \A y \in AllItems : y # x => act'[y] = act[y]
        /\ freed' = freed
    BY <1>1, <1>5, <1>11 DEF Join
  <2> QED BY <1>4, <2>1
<1>12. CASE Delete(x)
  <2>1. /\ act[x].pc = "loop" /\ act[x].i > Len(Kids(x)) /\ act[x].threads = <<>> /\ ~IsContainer(x)
        /\ act' = [act EXCEPT ![x].pc = "gone"]
        /\ freed' = (IF x = SessionTable THEN freed ELSE freed \cup {x})
    BY <1>12 DEF Delete
  <2>2. /\ act'[x].i = act[x].i /\ act'[x].pc = "gone" /\ act'[x].threads = act[x].threads
        /\ \A y \in AllItems : y # x => act'[y] = act[y]
    BY <1>1, <1>5, <2>1
  <2> QED BY <1>4, <2>1, <2>2
<1>13. ASSUME NEW s \in Slots, x = Containers(s), ReleaseContainers(s)
       PROVE  /\ act'[x].i = act[x].i /\ act'[x].pc = "gone" /\ \A y \in AllItems : y # x => act'[y] = act[y]
              /\ freed' = freed \cup retired[s]
  <2>1. act' = [act EXCEPT ![x].pc = "gone"] /\ freed' = freed \cup retired[s]
    BY <1>13 DEF ReleaseContainers
  <2> QED BY <1>1, <1>5, <2>1
<1>14. CASE \E s \in Slots : x = Containers(s) /\ ReleaseContainers(s)
  <2>1. PICK s \in Slots : x = Containers(s) /\ ReleaseContainers(s)
    BY <1>14
  <2>2. /\ act'[x].i = act[x].i /\ act'[x].pc = "gone" /\ \A y \in AllItems : y # x => act'[y] = act[y]
        /\ freed' = freed \cup retired[s]
    BY <1>13, <2>1
  <2> QED BY <1>4, <2>1, <2>2
<1> QED BY <1>6, <1>7, <1>8, <1>9, <1>10, <1>11, <1>12, <1>14 DEF DestroyStep

\* Nothing is released again.
LEMMA DestroyTwice ==
    ASSUME IInv, JInv, twice = {}, NEW x \in Active, DestroyStep(x)
    PROVE  twice' = {}
<1>1. /\ TypeInv /\ ActInv /\ x \in AllItems /\ act[x].pc \notin {"none", "gone"}
      /\ EntryInv /\ OnceInv /\ CallerInv
  BY Bases DEF IInv, Active, TypeInv
<1>2. CASE ReleaseValue(x)
  <2>1. /\ act[x].i <= Len(Kids(x)) /\ IsValue(Kid(x)) /\ twice' = freed \cap {Kid(x)}
    BY <1>2 DEF ReleaseValue, InLoop
  <2>2. act[x].i \in 1 .. Len(Kids(x)) /\ Kid(x) = Kids(x)[act[x].i] /\ act[x].i \in Nat
    BY <1>1, <2>1, AtKid, ActTypes
  <2>3. ~(act[x].i < act[x].i)
    BY <2>2
  <2>4. Kid(x) \notin freed
    BY <1>1, <2>1, <2>2, <2>3 DEF OnceInv
  <2> QED BY <2>1, <2>4
<1>3. CASE LoadRoom(x) \/ ReloadRoom(x) \/ NoRoom(x) \/ StartThread(x) \/ Return(x) \/ Join(x)
  BY <1>3 DEF LoadRoom, ReloadRoom, NoRoom, StartThread, Return, Join
<1>4. CASE Delete(x)
  <2>1. twice' = freed \cap {x} /\ act[x].pc = "loop"
    BY <1>4 DEF Delete
  <2>2. ~IsValue(x)
    BY <1>1 DEF ActInv, ActRight, NotCalled
  <2>3. \A t \in Trees : x = Root(t) => instance[t] # "none"
    BY <1>1, <2>1 DEF CallerInv
  <2>4. x \notin freed
    BY <1>1, <2>1, <2>2, <2>3 DEF OnceInv
  <2> QED BY <2>1, <2>4
<1>5. ASSUME NEW s \in Slots, x = Containers(s), ReleaseContainers(s) PROVE twice' = {}
  <2>1. twice' = freed \cap retired[s] /\ act[Containers(s)].pc = "loop" /\ retired[s] \subseteq Entries
    BY <1>1, <1>5 DEF ReleaseContainers, TypeInv
  <2>2. ASSUME NEW e \in freed, e \in retired[s] PROVE FALSE
    <3>1. PICK t \in Trees : e = Entry(t)
      BY <2>1, <2>2 DEF Entries
    <3> QED BY <1>1, <2>1, <2>2, <3>1 DEF EntryInv
  <2> QED BY <2>1, <2>2
<1> QED BY <1>2, <1>3, <1>4, <1>5 DEF DestroyStep

\* A released item is no entry unless it is named or was retired.
LEMMA NewlyFreed ==
    ASSUME IInv, JInv, NEW x \in Active, DestroyStep(x), NEW y \in freed' \ freed
    PROVE  /\ ~IsValue(y) => y = x /\ act'[x].pc = "gone" /\ y \in AllItems /\ y[1] # -1
           /\ \A t \in Trees : y = Root(t) => instance[t] # "none"
           /\ \A t \in Trees : y = Entry(t) =>
                 \/ Named(t)
                 \/ \E s \in Slots : x = Containers(s) /\ y \in retired[s] /\ act'[x].pc = "gone"
           /\ \A z \in AllItems : \A k \in 1 .. Len(Kids(z)) :
                 y = Kids(z)[k] /\ IsValue(y) => z = x /\ k < act'[x].i
<1>1. /\ TypeInv /\ ActInv /\ x \in AllItems /\ act[x].pc \notin {"none", "gone"}
      /\ EntryInv /\ OnceInv /\ CallerInv /\ named \in [Names -> Trees \cup {None}]
  BY Bases DEF IInv, Active, TypeInv
<1>2. ~IsValue(x)
  BY <1>1 DEF ActInv, ActRight, NotCalled
<1>3. \/ act[x].i <= Len(Kids(x)) /\ y = Kids(x)[act[x].i] /\ IsValue(y) /\ act'[x].i = act[x].i + 1
      \/ y = x /\ act'[x].pc = "gone" /\ ~IsContainer(x) /\ x # SessionTable
      \/ \E s \in Slots : x = Containers(s) /\ y \in retired[s] /\ act'[x].pc = "gone"
  BY DestroyMoves
<1>4. CASE act[x].i <= Len(Kids(x)) /\ y = Kids(x)[act[x].i] /\ IsValue(y) /\ act'[x].i = act[x].i + 1
  <2>1. act[x].i \in 1 .. Len(Kids(x)) /\ act[x].i \in Nat
    BY <1>1, <1>4, AtKid, ActTypes
  <2>2. \A t \in Trees : y # Root(t)
    BY <1>1, <1>4, RootFacts
  <2>3. ASSUME NEW t \in Trees, y = Entry(t) PROVE Named(t)
    <3>1. x = Storages
      <4>1. \/ x = Storages /\ Kids(x)[act[x].i] \in Entries
            \/ x = SessionTable /\ act[x].i \in Slots /\ Kids(x)[act[x].i] = Containers(act[x].i)
            \/ \E u \in Trees, p \in Seq(Nat) :
                  x = <<u, p>> /\ Kids(x)[act[x].i] = <<u, Append(p, act[x].i)>> /\ act[x].i \in Nat
        BY <1>1, <2>1, KidsKind
      <4>2. y[1] = 0
        BY <2>3, KidsOfOthers
      <4>3. \A u \in Trees : \A p : <<u, p>>[1] # 0
        BY DestroyAssumption DEF Trees
      <4>4. \A s \in Slots : Containers(s)[1] # 0
        BY KidsOfOthers
      <4> QED BY <1>4, <4>1, <4>2, <4>3, <4>4
    <3>2. PICK n \in Names : named[n] \in Trees /\ y = Entry(named[n])
      BY <1>1, <1>4, <2>1, <3>1, StoragesKids
    <3>3. named[n] = t
      BY <2>3, <3>2 DEF Entry
    <3> QED BY <3>3 DEF Named
  <2>4. ASSUME NEW z \in AllItems, NEW k \in 1 .. Len(Kids(z)), y = Kids(z)[k]
        PROVE  z = x /\ k < act'[x].i
    <3>1. z = x /\ k = act[x].i
      <4>1. Kids(z)[k] = Kids(x)[act[x].i]
        BY <1>4, <2>4
      <4> QED BY <1>1, <2>1, <4>1, OneParent
    <3> QED BY <1>4, <2>1, <3>1
  <2> QED BY <1>4, <2>2, <2>3, <2>4
<1>5. CASE y = x /\ act'[x].pc = "gone" /\ ~IsContainer(x) /\ x # SessionTable
  <2>1. x[1] # -1
    BY <1>5 DEF IsContainer
  <2>2. \A t \in Trees : y = Root(t) => instance[t] # "none"
    BY <1>1, <1>5 DEF CallerInv
  <2>3. \A t \in Trees : y # Entry(t)
    BY <1>2, <1>5, KidsOfOthers
  <2> QED BY <1>1, <1>2, <1>5, <2>1, <2>2, <2>3
<1>6. ASSUME NEW s \in Slots, x = Containers(s), y \in retired[s], act'[x].pc = "gone"
      PROVE  /\ IsValue(y) /\ \A t \in Trees : y # Root(t)
             /\ \A z \in AllItems : \A k \in 1 .. Len(Kids(z)) : y # Kids(z)[k]
  <2>1. PICK t \in Trees : y = Entry(t)
    BY <1>1, <1>6 DEF TypeInv, Entries
  <2>2. IsValue(y) /\ \A u \in Trees : y # Root(u)
    BY <1>1, <2>1, KidsOfOthers, RootFacts
  <2>3. ~Named(t)
    BY <1>1, <1>6, <2>1 DEF EntryInv, Waiting
  <2>4. ASSUME NEW z \in AllItems, NEW k \in 1 .. Len(Kids(z)), y = Kids(z)[k] PROVE FALSE
    <3>1. z = Storages
      <4>1. \/ z = Storages /\ Kids(z)[k] \in Entries
            \/ z = SessionTable /\ k \in Slots /\ Kids(z)[k] = Containers(k)
            \/ \E u \in Trees, p \in Seq(Nat) : z = <<u, p>> /\ Kids(z)[k] = <<u, Append(p, k)>> /\ k \in Nat
        BY <1>1, KidsKind
      <4>2. y[1] = 0
        BY <2>1, KidsOfOthers
      <4>3. \A u \in Trees : \A p : <<u, p>>[1] # 0
        BY DestroyAssumption DEF Trees
      <4>4. \A r \in Slots : Containers(r)[1] # 0
        BY KidsOfOthers
      <4> QED BY <2>4, <4>1, <4>2, <4>3, <4>4
    <3>2. PICK n \in Names : named[n] \in Trees /\ y = Entry(named[n])
      BY <1>1, <2>4, <3>1, StoragesKids
    <3>3. named[n] = t
      BY <2>1, <3>2 DEF Entry
    <3> QED BY <2>3, <3>3 DEF Named
  <2> QED BY <2>2, <2>4
<1>7. CASE \E s \in Slots : x = Containers(s) /\ y \in retired[s] /\ act'[x].pc = "gone"
  BY <1>6, <1>7
<1> QED BY <1>3, <1>4, <1>5, <1>7

\* The containers are emptied one by one, and the table waits for their threads.
LEMMA DestroyContainers ==
    ASSUME IInv, JInv, NEW x \in Active, DestroyStep(x), UNCHANGED retired
    PROVE  ContainersInv'
<1>1. /\ TypeInv /\ ActInv /\ x \in AllItems /\ act[x].pc \notin {"none", "gone"} /\ DOMAIN act = AllItems
      /\ act[x] \in Activation /\ act[x].i \in Nat /\ ContainersInv
      /\ SessionTable \in AllItems /\ \A s \in Slots : Containers(s) \in AllItems
  BY Bases, ActTypes DEF IInv, Active, TypeInv, AllItems
<1>2. /\ freed \subseteq freed'
      /\ \A y \in AllItems :
            y # x => \/ act'[y] = act[y]
                     \/ act[y].pc = "none" /\ act'[y] = Called /\ \E k \in 1 .. Len(Kids(x)) : y = Kids(x)[k]
      /\ act'[x].pc = "gone" => \/ act[x].pc = "loop" /\ act[x].i > Len(Kids(x)) /\ act[x].threads = <<>> /\ ~IsContainer(x)
                                   /\ act'[x].i = act[x].i /\ act'[x].threads = act[x].threads
                                \/ \E s \in Slots : x = Containers(s) /\ retired[s] \subseteq freed'
  BY DestroyMoves
<1>3. \A y \in AllItems : act[y].pc = "gone" => act'[y] = act[y]
  BY <1>1, <1>2
<1>4. \A s, r \in Slots : Containers(s) = Containers(r) => s = r
  BY DEF Containers
<1>5. ASSUME NEW s \in Slots, act'[Containers(s)].pc = "gone" PROVE retired[s] \subseteq freed'
  <2>1. CASE x = Containers(s)
    BY <1>2, <1>4, <1>5, <2>1, KidsOfOthers
  <2>2. CASE x # Containers(s)
    <3>1. act[Containers(s)].pc = "gone"
      BY <1>1, <1>2, <1>5, <2>2 DEF Called, NotCalled
    <3> QED BY <1>1, <1>2, <3>1 DEF ContainersInv
  <2> QED BY <2>1, <2>2
<1>6. CASE x # SessionTable
  <2>1. act'[SessionTable] = act[SessionTable]
    <3>1. \A k \in 1 .. Len(Kids(x)) : Kids(x)[k] # SessionTable
      BY <1>1, KidsFacts DEF SessionTable
    <3> QED BY <1>1, <1>2, <1>6, <3>1
  <2>2. ASSUME NEW s \in Slots, act'[SessionTable].pc # "none", s < act'[SessionTable].i
        PROVE  \/ act'[Containers(s)].pc = "gone"
               \/ \E j \in 1 .. Len(act'[SessionTable].threads) : act'[SessionTable].threads[j] = Containers(s)
    BY <1>1, <1>3, <2>1, <2>2 DEF ContainersInv
  <2>3. \A s \in Slots : act'[SessionTable].pc = "gone" => act'[Containers(s)].pc = "gone"
    BY <1>1, <1>3, <2>1 DEF ContainersInv
  <2> QED BY <1>5, <2>2, <2>3 DEF ContainersInv
<1>7. CASE x = SessionTable
  <2>1. /\ Kids(x) = [s \in Slots |-> Containers(s)] /\ Len(Kids(x)) = NSlots /\ Slots = 1 .. NSlots /\ NSlots \in Nat
        /\ ~IsContainer(x) /\ x # Storages /\ \A s \in Slots : x # Containers(s)
    <3>1. Kids(x) = [s \in 1 .. NSlots |-> Containers(s)] /\ NSlots \in Nat /\ Slots = 1 .. NSlots
      BY <1>7, KidsOfOthers, DestroyAssumption DEF Slots
    <3> QED BY <1>7, <3>1, KidsOfOthers
  <2>2. \A s \in Slots : s < act[x].i =>
           \/ act[Containers(s)].pc = "gone"
           \/ \E j \in 1 .. Len(act[x].threads) : act[x].threads[j] = Containers(s)
    BY <1>1, <1>7 DEF ContainersInv
  <2>3. DOMAIN act[x] = {"pc", "i", "expected", "threads"} /\ act[x].threads \in Seq(AllItems)
    BY <1>1 DEF Activation
  <2>4. ASSUME act'[x].i = act[x].i, act'[x].threads = act[x].threads, NEW s \in Slots, s < act'[x].i
        PROVE  \/ act'[Containers(s)].pc = "gone"
               \/ \E j \in 1 .. Len(act'[x].threads) : act'[x].threads[j] = Containers(s)
    BY <1>1, <1>3, <2>2, <2>4
  <2>5. ASSUME act[x].i <= Len(Kids(x))
        PROVE  act[x].i \in Slots /\ Kid(x) = Containers(act[x].i) /\ ~IsValue(Kid(x))
    <3>1. act[x].i \in 1 .. Len(Kids(x)) /\ Kid(x) = Kids(x)[act[x].i]
      BY <1>1, <2>5, AtKid
    <3> QED BY <2>1, <3>1, KidsOfOthers
  <2>6. ASSUME NEW s \in Slots, s < act'[x].i
        PROVE  \/ act'[Containers(s)].pc = "gone"
               \/ \E j \in 1 .. Len(act'[x].threads) : act'[x].threads[j] = Containers(s)
    <3>1. CASE ReleaseValue(x)
      BY <2>5, <3>1 DEF ReleaseValue, InLoop
    <3>2. CASE LoadRoom(x) \/ ReloadRoom(x) \/ NoRoom(x) \/ Delete(x)
      <4>1. act[x].pc = "cas" => act[x].i <= Len(Kids(x)) /\ Kid(x) # x
        BY <1>1, AtKid DEF ActInv, ActRight
      <4>2. act'[x].i = act[x].i /\ act'[x].threads = act[x].threads
        BY <1>1, <2>3, <3>2, <4>1 DEF LoadRoom, ReloadRoom, NoRoom, Delete
      <4> QED BY <2>4, <2>6, <4>2
    <3>3. CASE StartThread(x)
      <4>1. /\ act[x].pc = "cas" /\ act[x].i <= Len(Kids(x)) /\ Kid(x) # x
        BY <1>1, <3>3, AtKid DEF ActInv, ActRight, StartThread
      <4>2. /\ act'[x].i = act[x].i + 1 /\ act'[x].threads = Append(act[x].threads, Kid(x))
        BY <1>1, <2>3, <3>3, <4>1 DEF StartThread
      <4>3. CASE s = act[x].i
        <5>1. /\ Len(act'[x].threads) = Len(act[x].threads) + 1 /\ Len(act[x].threads) \in Nat
              /\ act'[x].threads[Len(act[x].threads) + 1] = Kid(x)
          BY <2>3, <4>2
        <5>2. Len(act[x].threads) + 1 \in 1 .. Len(act'[x].threads) /\ Kid(x) = Containers(s)
          BY <2>5, <4>1, <4>3, <5>1
        <5> QED BY <5>1, <5>2
      <4>4. CASE s # act[x].i
        <5>1. s < act[x].i
          <6>1. s \in Nat
            BY <2>1
          <6> QED BY <1>1, <2>6, <4>2, <4>4, <6>1
        <5>2. CASE act[Containers(s)].pc = "gone"
          BY <1>1, <1>3, <5>2
        <5>3. CASE \E j \in 1 .. Len(act[x].threads) : act[x].threads[j] = Containers(s)
          <6>1. PICK j \in 1 .. Len(act[x].threads) : act[x].threads[j] = Containers(s)
            BY <5>3
          <6>2. j \in 1 .. Len(act'[x].threads) /\ act'[x].threads[j] = Containers(s)
            BY <2>3, <4>2, <6>1
          <6> QED BY <6>2
        <5> QED BY <2>2, <5>1, <5>2, <5>3
      <4> QED BY <4>3, <4>4
    <3>4. CASE Return(x)
      <4>1. /\ act[x].pc = "inline" /\ act[x].i <= Len(Kids(x)) /\ act[Kid(x)].pc = "gone"
        BY <1>1, <3>4, AtKid DEF ActInv, ActRight, Return
      <4>2. act'[x].i = act[x].i + 1 /\ act'[x].threads = act[x].threads
        BY <1>1, <2>3, <3>4 DEF Return
      <4>3. CASE s = act[x].i
        BY <1>1, <1>3, <2>5, <4>1, <4>3
      <4>4. CASE s # act[x].i
        <5>1. s < act[x].i
          <6>1. s \in Nat
            BY <2>1
          <6> QED BY <1>1, <2>6, <4>2, <4>4, <6>1
        <5> QED BY <1>1, <1>3, <2>2, <4>2, <5>1
      <4> QED BY <4>3, <4>4
    <3>5. CASE Join(x)
      <4>1. /\ act[x].threads # <<>> /\ act[Head(act[x].threads)].pc = "gone"
            /\ act'[x].i = act[x].i /\ act'[x].threads = Tail(act[x].threads)
        BY <1>1, <2>3, <3>5 DEF Join
      <4>2. CASE act[Containers(s)].pc = "gone"
        BY <1>1, <1>3, <4>2
      <4>3. ASSUME NEW j \in 1 .. Len(act[x].threads), act[x].threads[j] = Containers(s)
            PROVE  \/ act'[Containers(s)].pc = "gone"
                   \/ \E k \in 1 .. Len(act'[x].threads) : act'[x].threads[k] = Containers(s)
        <5>1. CASE j = 1
          BY <1>1, <1>3, <2>3, <4>1, <4>3, <5>1
        <5>2. CASE j # 1
          <6>1. j - 1 \in 1 .. Len(act'[x].threads) /\ act'[x].threads[j - 1] = act[x].threads[j]
            BY <2>3, <4>1, <5>2
          <6> QED BY <4>3, <6>1
        <5> QED BY <5>1, <5>2
      <4> QED BY <2>2, <2>6, <4>1, <4>2, <4>3
    <3> QED BY <2>1, <3>1, <3>2, <3>3, <3>4, <3>5 DEF DestroyStep
  <2>7. ASSUME act'[x].pc = "gone", NEW s \in Slots PROVE act'[Containers(s)].pc = "gone"
    <3>1. act[x].i > Len(Kids(x)) /\ act'[x].i = act[x].i /\ act'[x].threads = <<>>
      BY <1>2, <2>1, <2>7
    <3>2. s < act'[x].i
      BY <1>1, <2>1, <3>1
    <3>3. Len(act'[x].threads) = 0
      BY <3>1
    <3> QED BY <2>6, <3>2, <3>3
  <2> QED BY <1>5, <1>7, <2>6, <2>7 DEF ContainersInv
<1> QED BY <1>6, <1>7

\* Every step of a destroyer keeps the invariant, and releases nothing again.
LEMMA DestroyerOnce ==
    ASSUME IInv, JInv, twice = {}, NEW x \in Active, Destroyer(x)
    PROVE  JInv' /\ twice' = {} /\ freed \subseteq freed'
<1>1. /\ DestroyStep(x) /\ x \in AllItems /\ TypeInv /\ act[x].pc # "none"
      /\ UNCHANGED <<named, shape, hasRoot, instance, made, retired, mixed, main, todo, sess,
                     pc, op, mine, answer>>
      /\ SessionInv /\ CreateInv /\ LookedUpInv /\ EntryInv /\ OnceInv /\ CallerInv
      /\ WhereInv
  BY Bases DEF Destroyer, DestroyStep, life, client, Active, TypeInv
<1>2. /\ freed \subseteq freed'
      /\ \A y \in AllItems :
            /\ y # x => \/ act'[y] = act[y]
                        \/ act[y].pc = "none" /\ act'[y] = Called /\ \E k \in 1 .. Len(Kids(x)) : y = Kids(x)[k]
            /\ y = x => act'[y].pc # "none" /\ act'[y].i >= act[y].i
  BY <1>1, DestroyMoves
<1>3. \A y \in freed' \ freed :
         /\ ~IsValue(y) => y = x /\ act'[x].pc = "gone" /\ y \in AllItems /\ y[1] # -1
         /\ \A t \in Trees : y = Root(t) => instance[t] # "none"
         /\ \A t \in Trees : y = Entry(t) =>
               \/ Named(t)
               \/ \E s \in Slots : x = Containers(s) /\ y \in retired[s] /\ act'[x].pc = "gone"
         /\ \A z \in AllItems : \A k \in 1 .. Len(Kids(z)) :
               y = Kids(z)[k] /\ IsValue(y) => z = x /\ k < act'[x].i
  BY <1>1, NewlyFreed
<1>4. \A y \in AllItems : act[y].pc = "gone" => act'[y].pc = "gone"
  <2>1. act[x].pc # "gone"
    BY DEF Active
  <2> QED BY <1>2, <2>1
<1>5. \A d \in Clients : Creating(d)' = Creating(d) /\ Deleting(d)' = Deleting(d)
  BY <1>1 DEF Creating, Deleting
<1>6. \A u : /\ Named(u)' = Named(u) /\ Confused(u)' = Confused(u) /\ Forgotten(u)' = Forgotten(u)
             /\ Waiting(u)' = Waiting(u)
  BY <1>1 DEF Named, Confused, Forgotten, Waiting
<1>7. SessionInv'
  BY <1>1 DEF SessionInv
<1>8. CreateInv'
  <2>1. \A t \in Trees : instance[t] = "none" /\ Root(t) \notin freed => Root(t) \notin freed'
    BY <1>3
  <2> QED BY <1>1, <1>5, <2>1 DEF CreateInv
<1>9. LookedUpInv'
  BY <1>1, <1>5, <1>6 DEF LookedUpInv
<1>10. EntryInv'
  <2> SUFFICES ASSUME NEW t \in Trees
               PROVE  /\ \A s \in Slots : Entry(t) \in retired[s] /\ Entry(t) \in freed' =>
                            act'[Containers(s)].pc = "gone"
                      /\ Waiting(t) \/ Entry(t) \in freed' => instance[t] # "none"
    BY <1>1, <1>2, <1>6 DEF EntryInv
  <2>1. \A s \in Slots : Containers(s) \in AllItems
    BY DEF AllItems
  <2>2. Named(t) => instance[t] # "none"
    BY <1>1, Bases DEF LookedUpInv, Named
  <2>3. ASSUME NEW s \in Slots, Entry(t) \in retired[s], Entry(t) \in freed'
        PROVE  act'[Containers(s)].pc = "gone"
    <3>1. CASE Entry(t) \in freed
      BY <1>1, <1>4, <2>1, <2>3, <3>1 DEF EntryInv
    <3>2. CASE Entry(t) \notin freed
      <4>1. ~Named(t)
        BY <1>1, <2>3 DEF EntryInv, Waiting
      <4>2. PICK r \in Slots : x = Containers(r) /\ Entry(t) \in retired[r] /\ act'[x].pc = "gone"
        BY <1>3, <2>3, <3>2, <4>1
      <4>3. r = s
        BY <1>1, <2>3, <4>2 DEF EntryInv
      <4> QED BY <4>2, <4>3
    <3> QED BY <3>1, <3>2
  <2>4. ASSUME Entry(t) \in freed', Entry(t) \notin freed PROVE instance[t] # "none"
    <3>1. Named(t) \/ Waiting(t)
      BY <1>3, <2>4 DEF Waiting
    <3> QED BY <1>1, <2>2, <3>1 DEF EntryInv
  <2> QED BY <1>1, <2>3, <2>4 DEF EntryInv
<1>11. OnceInv'
  <2>1. AllItems' = AllItems /\ \A y : IsValue(y)' = IsValue(y) /\ Kids(y)' = Kids(y)
    BY <1>1, Static
  <2>2. ASSUME NEW y \in AllItems, NEW k \in 1 .. Len(Kids(y)), IsValue(Kids(y)[k]), Kids(y)[k] \in freed'
        PROVE  act'[y].pc # "none" /\ k < act'[y].i
    <3>1. CASE Kids(y)[k] \in freed
      <4>1. act[y].pc # "none" /\ k < act[y].i
        BY <1>1, <2>2, <3>1 DEF OnceInv
      <4>2. CASE y = x
        <5>1. act'[y].pc # "none" /\ act'[y].i >= act[y].i
          BY <1>2, <4>2
        <5>2. act[y].i \in Nat /\ act'[y].i \in Nat /\ k \in Nat
          <6>1. act[y].i \in Nat
            BY <1>1, ActTypes
          <6>2. act' \in [AllItems -> Activation]
            BY <1>1, DestroyFrame DEF IInv, DInv, Running, Active
          <6>3. act'[y].i \in Nat
            BY <6>2 DEF Activation
          <6>4. k \in Nat
            BY <1>1, KidsFacts
          <6> QED BY <6>1, <6>3, <6>4
        <5> QED BY <4>1, <5>1, <5>2
      <4>3. CASE y # x
        BY <1>2, <4>1, <4>3
      <4> QED BY <4>2, <4>3
    <3>2. CASE Kids(y)[k] \notin freed
      BY <1>2, <1>3, <2>2, <3>2
    <3> QED BY <3>1, <3>2
  <2>3. ASSUME NEW y \in freed', ~IsValue(y)
        PROVE  /\ y \in AllItems /\ y[1] # -1
               /\ act'[y].pc = "gone" \/ \E t \in Trees : y = Root(t) /\ instance[t] = "none"
    <3>1. CASE y \in freed
      BY <1>1, <1>4, <2>3, <3>1 DEF OnceInv
    <3>2. CASE y \notin freed
      BY <1>3, <2>3, <3>2
    <3> QED BY <3>1, <3>2
  <2> QED BY <1>1, <2>1, <2>2, <2>3 DEF OnceInv
<1>12. CallerInv'
  <2>1. ASSUME NEW t \in Trees, act'[Root(t)].pc # "none" PROVE act[Root(t)].pc # "none"
    <3>1. Root(t) \in AllItems /\ \A k \in 1 .. Len(Kids(x)) : Root(t) # Kids(x)[k]
      BY <1>1, RootFacts
    <3> QED BY <1>1, <1>2, <2>1, <3>1
  <2> QED BY <1>1, <1>2, <2>1 DEF CallerInv
<1>13. WhereInv'
  <2>1. \A t \in Trees : t <= made =>
           \/ Forgotten(t) \/ Root(t) \in freed' \/ Named(t)
           \/ \E c \in Clients : (Creating(c) \/ Deleting(c)) /\ mine[c] = t
    BY <1>1, <1>2 DEF WhereInv
  <2>2. main \in {"each", "destroy", "storages"} =>
           \A n \in Names : named[n] # None =>
              Root(named[n]) \in freed' \/ \E i \in 1 .. Len(todo) : todo[i] = named[n]
    BY <1>1, <1>2 DEF WhereInv
  <2> QED BY <1>1, <1>5, <1>6, <2>1, <2>2 DEF WhereInv
<1>14. ContainersInv'
  BY <1>1, DestroyContainers
<1>15. twice' = {}
  BY <1>1, DestroyTwice
<1> QED BY <1>2, <1>7, <1>8, <1>9, <1>10, <1>11, <1>12, <1>13, <1>14, <1>15 DEF JInv

-----------------------------------------------------------------------------
(* The steps of init, fin and the threads of the manager.                  *)

\* A step on which no tree, name or call depends.
Aside ==
    /\ UNCHANGED <<named, shape, hasRoot, made, mixed, pc, op, mine, answer>>
    /\ SessionInv'

\* It keeps what the invariant says of names and calls.
LEMMA AsideKeeps ==
    ASSUME IInv, JInv, Aside, UNCHANGED freed,
           instance' \in [Trees -> {"root", "null", "none"}],
           \A t \in Trees : instance'[t] = "none" <=> instance[t] = "none"
    PROVE  CreateInv' /\ LookedUpInv'
<1>1. /\ CreateInv /\ LookedUpInv /\ named \in [Names -> Trees \cup {None}]
      /\ \A d \in Clients : CallRight(d)
  BY Bases
<1>2. /\ \A d \in Clients : Creating(d)' = Creating(d) /\ Deleting(d)' = Deleting(d)
      /\ \A u : Named(u)' = Named(u) /\ Confused(u)' = Confused(u)
      /\ UNCHANGED <<named, made, mine, pc>>
  BY DEF Aside, Creating, Deleting, Named, Confused
<1>3. CreateInv'
  BY <1>1, <1>2 DEF CreateInv
<1>4. \A n \in Names : named[n] # None => instance'[named[n]] # "none"
  BY <1>1 DEF LookedUpInv
<1>5. \A d \in Clients : pc[d] = "remove" \/ Deleting(d) => instance'[mine[d]] # "none"
  <2>1. \A d \in Clients : pc[d] = "remove" \/ Deleting(d) => mine[d] \in Trees
    BY <1>1 DEF CallRight, Deleting
  <2> QED BY <1>1, <2>1 DEF LookedUpInv
<1>6. LookedUpInv'
  BY <1>1, <1>2, <1>4, <1>5 DEF LookedUpInv
<1> QED BY <1>3, <1>6

\* The steps that only go on: neither a tree nor a container is touched.
LEMMA QuietOnce ==
    ASSUME IInv, JInv,
           FinCall \/ SetThreadEnds \/ InitAgain \/ EpochRound \/ GcRound \/ UNCHANGED vars
    PROVE  JInv' /\ freed' = freed
<1>1. UNCHANGED <<named, shape, hasRoot, instance, made, retired, act, freed, mixed, pc, op, mine, answer>>
  BY DEF FinCall, SetThreadEnds, InitAgain, EpochRound, GcRound, vars, table, destroying, client
<1>2. /\ SessionInv /\ EntryInv /\ OnceInv /\ ContainersInv /\ CallerInv /\ WhereInv
      /\ instance \in [Trees -> {"root", "null", "none"}] /\ named \in [Names -> Trees \cup {None}]
      /\ StoragesInv
  BY Bases
<1>3. SessionInv'
  <2>1. CASE InitAgain
    <3>1. \A c \in Clients : pc[c] = "idle"
      BY <2>1, AllIdle DEF InitAgain, Main
    <3>2. DOMAIN sess' = Slots
      BY <2>1 DEF InitAgain
    <3> QED BY <1>1, <3>1, <3>2 DEF SessionInv
  <2>2. CASE sess' = sess
    BY <1>1, <1>2, <2>2 DEF SessionInv
  <2> QED BY <2>1, <2>2 DEF FinCall, SetThreadEnds, EpochRound, GcRound, vars
<1>4. CreateInv' /\ LookedUpInv'
  BY <1>1, <1>2, <1>3, AsideKeeps DEF Aside
<1>5. EntryInv' /\ OnceInv' /\ ContainersInv'
  BY <1>1, <1>2, EntrySame, OnceSame, ContainersSame
<1>6. /\ \A d \in Clients : Creating(d)' = Creating(d) /\ Deleting(d)' = Deleting(d)
      /\ \A u : Named(u)' = Named(u) /\ Forgotten(u)' = Forgotten(u)
  BY <1>1 DEF Creating, Deleting, Named, Forgotten
<1>7. CASE FinCall
  <2>1. /\ main = "up" /\ main' \in {"each", "flags"} /\ (main' = "flags" => ~hasRoot)
        /\ todo' = SetToSeq({named[n] : n \in Names} \ {None})
    BY <1>7 DEF FinCall, Main
  <2>2. \A n \in Names : named[n] # None => \E i \in 1 .. Len(todo') : todo'[i] = named[n]
    <3> DEFINE S == {named[n] : n \in Names} \ {None}
    <3>1. S \subseteq Trees
      BY <1>2
    <3>2. IsFiniteSet(S)
      BY <3>1, TreesFinite, FS_Subset
    <3>3. \A n \in Names : named[n] # None => named[n] \in S
      OBVIOUS
    <3> HIDE DEF S
    <3>4. \A e \in S : \E i \in 1 .. Len(SetToSeq(S)) : SetToSeq(S)[i] = e
      BY <3>2, SetToSeqOnto
    <3>5. todo' = SetToSeq(S)
      BY <2>1 DEF S
    <3> QED BY <3>3, <3>4, <3>5
  <2>3. CallerInv'
    BY <1>1, <1>2, <2>1 DEF CallerInv
  <2>4. WhereInv'
    BY <1>1, <1>2, <1>6, <2>1, <2>2 DEF WhereInv
  <2> QED BY <1>1, <1>3, <1>4, <1>5, <2>3, <2>4 DEF JInv
<1>8. CASE SetThreadEnds \/ InitAgain
  <2>1. /\ main \in {"flags", "down"} /\ main' \in {"join", "up"} /\ todo' = todo
    BY <1>8 DEF SetThreadEnds, InitAgain, Main
  <2>2. CallerInv'
    BY <1>1, <1>2, <2>1 DEF CallerInv
  <2>3. WhereInv'
    BY <1>1, <1>2, <1>6, <2>1 DEF WhereInv
  <2> QED BY <1>1, <1>3, <1>4, <1>5, <2>2, <2>3 DEF JInv
<1>9. CASE EpochRound \/ GcRound \/ UNCHANGED vars
  <2>1. main' = main /\ todo' = todo
    BY <1>9 DEF EpochRound, GcRound, vars, life
  <2>2. CallerInv' /\ WhereInv'
    BY <1>1, <1>2, <1>6, <2>1 DEF CallerInv, WhereInv
  <2> QED BY <1>1, <1>3, <1>4, <1>5, <2>2 DEF JInv
<1> QED BY <1>7, <1>8, <1>9

\* FinEach: nobody has destroyed the next tree.
LEMMA FinEachOnce ==
    ASSUME IInv, JInv, FinEach
    PROVE  JInv' /\ twice' = twice
<1>1. /\ main = "each" /\ main' = "destroy" /\ todo # <<>> /\ StartDestroy(Head(todo))
      /\ instance[Head(todo)] = "root"
      /\ UNCHANGED <<named, shape, hasRoot, instance, made, retired, mixed, sess, pc, op, mine, answer, todo>>
  BY DEF FinEach, Main, table, client
<1>2. /\ SessionInv /\ CallerInv /\ WhereInv /\ TypeInv
      /\ instance \in [Trees -> {"root", "null", "none"}] /\ \A c \in Clients : pc[c] = "idle"
  BY <1>1, Bases, AllIdle
<1>3. PICK t \in Trees : t = Head(todo)
  BY <1>1, <1>2 DEF TypeInv
<1>4. act[Root(t)] = NotCalled /\ act[Root(t)].pc = "none"
  <2>1. act[Root(t)].pc = "none"
    BY <1>1, <1>2, <1>3 DEF CallerInv
  <2>2. Root(t) \in AllItems
    BY <1>2, RootFacts
  <2> QED BY <2>1, <2>2 DEF IInv, ActInv, ActRight
<1>5. act' = [act EXCEPT ![Root(t)] = Called] /\ twice' = twice /\ freed' = freed
  BY <1>1, <1>3, <1>4 DEF StartDestroy
<1>6. /\ Root(t) \in AllItems /\ ~IsContainer(Root(t)) /\ Root(t) \notin freed
      /\ \A u \in Trees : u # t => Root(u) # Root(t) /\ Root(u) \in AllItems
  BY <1>1, <1>3, <1>4, RootUnfreed
<1>7. EntryInv' /\ OnceInv' /\ ContainersInv'
  BY <1>1, <1>4, <1>5, <1>6, NewCallOnce
<1>8. SessionInv'
  BY <1>1, <1>2 DEF SessionInv
<1>9. CreateInv' /\ LookedUpInv'
  BY <1>1, <1>2, <1>5, <1>8, AsideKeeps DEF Aside
<1>10. CallerInv'
  <2>1. \A u \in Trees : u # t => act'[Root(u)] = act[Root(u)]
    BY <1>2, <1>5, <1>6 DEF TypeInv
  <2> SUFFICES ASSUME NEW u \in Trees
               PROVE  /\ instance[u] = "null" => Root(u) \in freed
                      /\ act'[Root(u)].pc # "none" =>
                            /\ instance[u] # "none"
                            /\ \/ instance[u] = "null"
                               \/ \E d \in Clients : pc[d] = "destroy" /\ mine[d] = u
                               \/ Head(todo) = u
    BY <1>1, <1>5 DEF CallerInv
  <2>2. CASE u = t
    BY <1>1, <1>3, <2>2
  <2>3. CASE u # t
    BY <1>2, <2>1, <2>3 DEF CallerInv
  <2> QED BY <2>2, <2>3
<1>11. WhereInv'
  <2>1. /\ \A d \in Clients : Creating(d)' = Creating(d) /\ Deleting(d)' = Deleting(d)
        /\ \A u : Named(u)' = Named(u) /\ Forgotten(u)' = Forgotten(u)
    BY <1>1 DEF Creating, Deleting, Named, Forgotten
  <2> QED BY <1>1, <1>2, <1>5, <2>1 DEF WhereInv
<1> QED BY <1>5, <1>7, <1>8, <1>9, <1>10, <1>11 DEF JInv

\* FinStored: the tree is gone, and struck off.
LEMMA FinStoredOnce ==
    ASSUME IInv, JInv, FinStored
    PROVE  JInv'
<1>1. /\ main = "destroy" /\ main' = "each" /\ act[Root(Head(todo))].pc = "gone"
      /\ instance' = [instance EXCEPT ![Head(todo)] = "null"] /\ todo' = Tail(todo)
      /\ UNCHANGED <<named, shape, hasRoot, made, retired, act, freed, mixed, sess, pc, op, mine, answer>>
  BY DEF FinStored, Main, client, destroying
<1>2. /\ SessionInv /\ CallerInv /\ WhereInv /\ TypeInv /\ EntryInv /\ OnceInv /\ ContainersInv
      /\ instance \in [Trees -> {"root", "null", "none"}] /\ \A c \in Clients : pc[c] = "idle"
      /\ todo # <<>> /\ todo \in Seq(Trees)
  BY <1>1, Bases, AllIdle DEF StoragesInv, TypeInv
<1>3. PICK t \in Trees : t = Head(todo)
  BY <1>2
<1>4. Root(t) \in freed /\ instance[t] # "none"
  <2>1. Root(t) \in AllItems /\ Root(t) # SessionTable /\ ~IsContainer(Root(t))
    BY <1>2, RootFacts DEF IsContainer
  <2> QED BY <1>1, <1>2, <1>3, <2>1 DEF IInv, FreedInv, CallerInv
<1>5. /\ instance'[t] = "null" /\ \A u \in Trees : u # t => instance'[u] = instance[u]
      /\ instance' \in [Trees -> {"root", "null", "none"}]
      /\ \A u \in Trees : instance'[u] = "none" <=> instance[u] = "none"
  BY <1>1, <1>2, <1>3, <1>4
<1>6. EntryInv' /\ OnceInv' /\ ContainersInv'
  BY <1>1, <1>2, <1>5, EntrySame, OnceSame, ContainersSame
<1>7. SessionInv'
  BY <1>1, <1>2 DEF SessionInv
<1>8. CreateInv' /\ LookedUpInv'
  BY <1>1, <1>5, <1>7, AsideKeeps DEF Aside
<1>9. CallerInv'
  <2> SUFFICES ASSUME NEW u \in Trees
               PROVE  /\ instance'[u] = "null" => Root(u) \in freed
                      /\ act[Root(u)].pc # "none" =>
                            /\ instance'[u] # "none"
                            /\ \/ instance'[u] = "null"
                               \/ \E d \in Clients : pc[d] = "destroy" /\ mine[d] = u
    BY <1>1 DEF CallerInv
  <2>1. CASE u = t
    BY <1>4, <1>5, <2>1
  <2>2. CASE u # t
    BY <1>2, <1>3, <1>5, <2>2 DEF CallerInv
  <2> QED BY <2>1, <2>2
<1>10. WhereInv'
  <2>1. /\ \A d \in Clients : Creating(d)' = Creating(d) /\ Deleting(d)' = Deleting(d)
        /\ \A u : Named(u)' = Named(u) /\ Forgotten(u)' = Forgotten(u)
    BY <1>1 DEF Creating, Deleting, Named, Forgotten
  <2>2. ASSUME NEW n \in Names, named[n] # None
        PROVE  Root(named[n]) \in freed \/ \E i \in 1 .. Len(todo') : todo'[i] = named[n]
    <3>1. CASE Root(named[n]) \in freed
      BY <3>1
    <3>2. ASSUME NEW i \in 1 .. Len(todo), todo[i] = named[n]
          PROVE  Root(named[n]) \in freed \/ \E k \in 1 .. Len(todo') : todo'[k] = named[n]
      <4>1. CASE i = 1
        BY <1>2, <1>3, <1>4, <3>2, <4>1
      <4>2. CASE i # 1
        <5>1. i - 1 \in 1 .. Len(todo') /\ todo'[i - 1] = todo[i]
          BY <1>1, <1>2, <4>2
        <5> QED BY <3>2, <5>1
      <4> QED BY <4>1, <4>2
    <3> QED BY <1>1, <1>2, <2>2, <3>1, <3>2 DEF WhereInv
  <2> QED BY <1>1, <1>2, <2>1, <2>2 DEF WhereInv
<1> QED BY <1>6, <1>7, <1>8, <1>9, <1>10 DEF JInv

\* FinStorages and FinJoin.
LEMMA FinTablesOnce ==
    ASSUME IInv, JInv, FinStorages \/ FinJoin
    PROVE  JInv' /\ twice' = twice /\ freed' = freed
<1> DEFINE x == IF main = "each" THEN Storages ELSE SessionTable
<1>1. /\ (main = "each" /\ main' = "storages" /\ todo = <<>>) \/ (main = "join" /\ main' = "table")
      /\ act' = [act EXCEPT ![x] = Called]
      /\ UNCHANGED <<named, shape, hasRoot, instance, made, retired, freed, twice, mixed, sess, todo,
                     pc, op, mine, answer>>
  BY DEF FinStorages, FinJoin, Main, table, client
<1>2. /\ SessionInv /\ CallerInv /\ WhereInv /\ TypeInv /\ StoragesInv /\ OnceInv
      /\ instance \in [Trees -> {"root", "null", "none"}] /\ Storages \in AllItems
      /\ SessionTable \in AllItems
  BY Bases DEF AllItems
<1>3. x \in AllItems /\ ~IsContainer(x) /\ x \notin freed /\ act[x].pc = "none"
  <2>1. CASE main = "each"
    BY <1>2, <2>1, KidsOfOthers DEF StoragesInv
  <2>2. CASE main = "join"
    <3>1. SessionTable \notin freed
      BY <1>2, KidsOfOthers DEF OnceInv
    <3>2. act[SessionTable].pc = "none"
      BY <1>2, <2>2, KidsOfOthers DEF IInv, TableInv, NotCalled
    <3> QED BY <1>2, <2>2, <3>1, <3>2, KidsOfOthers
  <2> QED BY <1>1, <2>1, <2>2
<1>4. \A u \in Trees : Root(u) # x /\ Root(u) \in AllItems
  BY <1>2, RootFacts
<1> HIDE DEF x
<1>5. EntryInv' /\ OnceInv' /\ ContainersInv'
  BY <1>1, <1>3, NewCallOnce
<1>6. SessionInv'
  BY <1>1, <1>2 DEF SessionInv
<1>7. CreateInv' /\ LookedUpInv'
  BY <1>1, <1>2, <1>6, AsideKeeps DEF Aside
<1>8. CallerInv'
  <2>1. \A u \in Trees : act'[Root(u)] = act[Root(u)]
    BY <1>1, <1>2, <1>3, <1>4 DEF TypeInv
  <2> QED BY <1>1, <1>2, <2>1 DEF CallerInv
<1>9. WhereInv'
  <2>1. /\ \A d \in Clients : Creating(d)' = Creating(d) /\ Deleting(d)' = Deleting(d)
        /\ \A u : Named(u)' = Named(u) /\ Forgotten(u)' = Forgotten(u)
    BY <1>1 DEF Creating, Deleting, Named, Forgotten
  <2> QED BY <1>1, <1>2, <2>1 DEF WhereInv
<1> QED BY <1>1, <1>5, <1>6, <1>7, <1>8, <1>9 DEF JInv

\* FinNull: the trees and the entries of the storages are gone before their names.
LEMMA FinNullOnce ==
    ASSUME IInv, JInv, FinNull
    PROVE  JInv'
<1>1. /\ main = "storages" /\ main' = "flags" /\ act[Storages].pc = "gone"
      /\ hasRoot' = FALSE /\ named' = [n \in Names |-> None]
      /\ UNCHANGED <<shape, instance, made, retired, act, freed, mixed, sess, todo, pc, op, mine, answer>>
  BY DEF FinNull, Main, destroying, client
<1>2. /\ SessionInv /\ CreateInv /\ LookedUpInv /\ CallerInv /\ WhereInv /\ TypeInv /\ EntryInv /\ OnceInv
      /\ ContainersInv /\ Storages \in AllItems /\ named \in [Names -> Trees \cup {None}]
      /\ None \notin Trees
  BY Bases DEF AllItems
<1>3. Storages \in freed /\ BottomUp
  BY <1>1, <1>2, KidsOfOthers DEF IInv, FreedInv
<1>4. named' \in [Names -> Trees \cup {None}] /\ \A n \in Names : named'[n] = None
  BY <1>1
<1>5. \A t \in Trees : ~Named(t)'
  BY <1>2, <1>4 DEF Named
<1>6. \A t \in Trees : Named(t) => Entry(t) \in freed /\ Root(t) \in freed
  <2> TAKE t \in Trees
  <2> HAVE Named(t)
  <2>1. PICK n \in Names : named[n] = t
    BY DEF Named
  <2>2. named[n] # None
    BY <1>2, <2>1
  <2>3. PICK i \in 1 .. Len(Kids(Storages)) : Kids(Storages)[i] = Entry(t)
    BY <1>2, <2>1, <2>2, StoragesKids
  <2>4. i \in DOMAIN Kids(Storages)
    BY <1>2, <2>3, KidsFacts
  <2>5. Entry(t) \in freed
    BY <1>3, <2>3, <2>4 DEF BottomUp
  <2>6. Root(t) \in freed
    <3>1. Len(todo) = 0
      BY <1>1, <1>2 DEF WhereInv
    <3> QED BY <1>1, <1>2, <2>1, <2>2, <3>1 DEF WhereInv
  <2> QED BY <2>5, <2>6
<1>7. SessionInv'
  BY <1>1, <1>2 DEF SessionInv
<1>8. /\ \A d \in Clients : Creating(d)' = Creating(d) /\ Deleting(d)' = Deleting(d)
      /\ \A u : Confused(u)' = Confused(u) /\ Forgotten(u)' = Forgotten(u) /\ Waiting(u)' = Waiting(u)
  BY <1>1 DEF Creating, Deleting, Confused, Forgotten, Waiting
<1>9. CreateInv'
  BY <1>1, <1>2, <1>8 DEF CreateInv
<1>10. LookedUpInv'
  <2>1. \A d \in Clients : ~Deleting(d) /\ pc[d] = "idle"
    BY <1>1, AllIdle DEF Deleting
  <2> QED BY <1>1, <1>4, <1>8, <2>1 DEF LookedUpInv
<1>11. EntryInv'
  <2>1. \A t \in Trees : instance[t] # "none" => Entry(t) \in freed \/ Waiting(t)
    BY <1>2, <1>6 DEF EntryInv
  <2> QED BY <1>1, <1>2, <1>5, <1>8, <2>1 DEF EntryInv
<1>12. OnceInv'
  <2>1. /\ AllItems' = AllItems /\ \A y : IsValue(y)' = IsValue(y)
        /\ \A y : y # Storages => Kids(y)' = Kids(y)
    BY <1>1, Static
  <2>2. Kids(Storages)' = <<>>
    BY <1>4, KidsOfStoragesNext
  <2>3. ASSUME NEW y \in AllItems, NEW k \in 1 .. Len(Kids(y)'), IsValue(Kids(y)'[k]), Kids(y)'[k] \in freed
        PROVE  act[y].pc # "none" /\ k < act[y].i
    <3>1. y # Storages
      <4>1. ASSUME y = Storages PROVE FALSE
        <5>1. Len(Kids(y)') = 0
          BY <2>2, <4>1
        <5> QED BY <2>3, <5>1
      <4> QED BY <4>1
    <3> QED BY <1>2, <2>1, <2>3, <3>1 DEF OnceInv
  <2> QED BY <1>1, <1>2, <2>1, <2>3 DEF OnceInv
<1>13. CallerInv'
  BY <1>1, <1>2 DEF CallerInv
<1>14. WhereInv'
  <2>1. \A t \in Trees : t <= made =>
           \/ Forgotten(t) \/ Root(t) \in freed
           \/ \E c \in Clients : (Creating(c) \/ Deleting(c)) /\ mine[c] = t
    BY <1>2, <1>6 DEF WhereInv
  <2> QED BY <1>1, <1>8, <2>1 DEF WhereInv
<1>15. ContainersInv'
  BY <1>1, <1>2, ContainersSame
<1> QED BY <1>7, <1>9, <1>10, <1>11, <1>12, <1>13, <1>14, <1>15 DEF JInv

\* FinEnd: everything that was made is released.
LEMMA FinEndOnce ==
    ASSUME IInv, JInv, FinEnd
    PROVE  /\ JInv'
           /\ \A t \in 1 .. made :
                 /\ Below(t) \subseteq freed \/ \E m \in mixed : m[2] = t
                 /\ instance[t] # "none" => Entry(t) \in freed
<1>1. /\ main = "table" /\ main' = "down" /\ act[SessionTable].pc = "gone"
      /\ act' = [x \in AllItems |-> IF x[1] = -1 THEN NotCalled ELSE act[x]]
      /\ retired' = [s \in Slots |-> {}]
      /\ UNCHANGED <<named, shape, hasRoot, instance, made, freed, mixed, sess, todo, pc, op, mine, answer>>
  BY DEF FinEnd, Main, table, client
<1>2. /\ SessionInv /\ CreateInv /\ LookedUpInv /\ CallerInv /\ WhereInv /\ TypeInv /\ EntryInv /\ OnceInv
      /\ ContainersInv /\ StoragesInv /\ named \in [Names -> Trees \cup {None}]
      /\ instance \in [Trees -> {"root", "null", "none"}]
      /\ None \notin Trees /\ BottomUp /\ \A c \in Clients : pc[c] = "idle"
  BY <1>1, Bases, AllIdle DEF IInv, FreedInv
<1>3. /\ \A y \in AllItems : /\ y[1] = -1 => act'[y] = NotCalled
                             /\ y[1] # -1 => act'[y] = act[y]
      /\ \A s \in Slots : retired'[s] = {} /\ retired[s] \subseteq freed
  BY <1>1, <1>2 DEF ContainersInv
<1>4. /\ \A t \in Trees : Waiting(t) => Entry(t) \in freed
      /\ \A t \in Trees : ~Waiting(t)'
  BY <1>3 DEF Waiting
<1>5. /\ \A t \in Trees : ~Named(t)
      /\ \A c \in Clients : ~Creating(c) /\ ~Deleting(c)
  <2>1. \A n \in Names : named[n] = None
    BY <1>1, <1>2 DEF WhereInv, StoragesInv
  <2> QED BY <1>2, <2>1 DEF Named, Creating, Deleting
<1>6. \A t \in Trees : instance[t] # "none" => Entry(t) \in freed
  BY <1>2, <1>4, <1>5 DEF EntryInv
<1>7. \A t \in 1 .. made : /\ Below(t) \subseteq freed \/ \E m \in mixed : m[2] = t
                           /\ instance[t] # "none" => Entry(t) \in freed
  <2> TAKE t \in 1 .. made
  <2>1. t \in Trees /\ t <= made
    BY <1>2, DestroyAssumption DEF TypeInv, Trees
  <2>2. Forgotten(t) \/ Root(t) \in freed
    BY <1>2, <1>5, <2>1 DEF WhereInv
  <2>3. Root(t) \in freed => Below(t) \subseteq freed
    BY <1>2, <2>1, RootBelow
  <2> QED BY <1>6, <2>1, <2>2, <2>3 DEF Forgotten
<1>8. SessionInv'
  BY <1>1, <1>2 DEF SessionInv
<1>9. CreateInv' /\ LookedUpInv'
  BY <1>1, <1>2, <1>8, AsideKeeps DEF Aside
<1>10. EntryInv'
  <2>1. \A t \in Trees : Named(t)' = Named(t)
    BY <1>1 DEF Named
  <2> QED BY <1>1, <1>2, <1>3, <1>4, <1>5, <1>6, <2>1 DEF EntryInv
<1>11. OnceInv'
  <2>1. AllItems' = AllItems /\ \A y : IsValue(y)' = IsValue(y) /\ Kids(y)' = Kids(y)
    BY <1>1, Static
  <2>2. ASSUME NEW y \in AllItems, NEW k \in 1 .. Len(Kids(y)), IsValue(Kids(y)[k]), Kids(y)[k] \in freed
        PROVE  act'[y].pc # "none" /\ k < act'[y].i
    <3>1. y[1] # -1
      <4>1. ASSUME y[1] = -1 PROVE FALSE
        <5>1. y = SessionTable \/ IsContainer(y)
          BY <4>1 DEF IsContainer
        <5>2. Kids(y) # <<>>
          <6>1. ASSUME Kids(y) = <<>> PROVE FALSE
            <7>1. Len(Kids(y)) = 0
              BY <6>1
            <7> QED BY <2>2, <7>1
          <6> QED BY <6>1
        <5>3. y = SessionTable
          BY <1>2, <5>1, <5>2, KidsFacts
        <5>4. k \in Slots /\ Kids(y)[k] = Containers(k)
          BY <1>2, <5>3, KidsFacts
        <5> QED BY <2>2, <5>4, KidsOfOthers
      <4> QED BY <4>1
    <3> QED BY <1>2, <1>3, <2>2, <3>1 DEF OnceInv
  <2>3. \A y \in freed : ~IsValue(y) =>
          /\ y \in AllItems /\ y[1] # -1
          /\ act'[y].pc = "gone" \/ \E t \in Trees : y = Root(t) /\ instance[t] = "none"
    BY <1>2, <1>3 DEF OnceInv
  <2> QED BY <1>1, <2>1, <2>2, <2>3 DEF OnceInv
<1>12. CallerInv'
  <2>1. \A u \in Trees : act'[Root(u)] = act[Root(u)]
    BY <1>2, <1>3, RootFacts
  <2> QED BY <1>1, <1>2, <2>1 DEF CallerInv
<1>13. WhereInv'
  <2>1. /\ \A d \in Clients : Creating(d)' = Creating(d) /\ Deleting(d)' = Deleting(d)
        /\ \A u : Named(u)' = Named(u) /\ Forgotten(u)' = Forgotten(u)
    BY <1>1 DEF Creating, Deleting, Named, Forgotten
  <2> QED BY <1>1, <1>2, <2>1 DEF WhereInv
<1>14. ContainersInv'
  <2>1. SessionTable \in AllItems /\ SessionTable[1] = -1
        /\ \A s \in Slots : Containers(s) \in AllItems /\ Containers(s)[1] = -1
    BY KidsOfOthers DEF AllItems
  <2>2. act'[SessionTable].pc = "none" /\ \A s \in Slots : act'[Containers(s)].pc = "none"
    BY <1>3, <2>1 DEF NotCalled
  <2> QED BY <2>2 DEF ContainersInv
<1> QED BY <1>7, <1>8, <1>9, <1>10, <1>11, <1>12, <1>13, <1>14 DEF JInv

-----------------------------------------------------------------------------
(* The theorem.                                                            *)

\* At first every tree of the stock has one name and an entry, and nothing is released.
LEMMA InitOnce == Init => OnceAndAll
<1> SUFFICES ASSUME Init PROVE OnceAndAll
  OBVIOUS
<1>1. PICK scene \in Scenes :
         /\ made = Len(scene.stock)
         /\ named = [n \in Names |-> IF \E t \in 1 .. made : scene.stock[t].name = n
                                     THEN CHOOSE t \in 1 .. made : scene.stock[t].name = n ELSE None]
         /\ sess = [s \in Slots |-> IF scene.lost /\ s = 1 THEN "lost" ELSE None]
  BY DEF Init
<1>2. /\ hasRoot = (made > 0) /\ act = [x \in AllItems |-> NotCalled] /\ freed = {} /\ twice = {}
      /\ retired = [s \in Slots |-> {}] /\ pc = [c \in Clients |-> "idle"]
      /\ main = "up" /\ mixed = {}
      /\ instance = [t \in Trees |-> IF t <= made THEN "root" ELSE "none"]
  BY DEF Init, InitDestroy
<1>3. IInv /\ TypeInv
  BY InitInv DEF IInv
<1>4. /\ made \in Nat /\ made <= MaxTrees /\ MaxTrees \in Nat
      /\ \A i \in 1 .. made : scene.stock[i].name \in Names
      /\ \A i, j \in 1 .. made : scene.stock[i].name = scene.stock[j].name => i = j
  <2>1. scene.stock \in Seq([name : Names, shape : {st.shape : st \in ToSet(scene.stock)}])
    BY StorageAssumption
  <2>2. Len(scene.stock) \in Nat /\ \A i \in 1 .. Len(scene.stock) : scene.stock[i].name \in Names
    <3> DEFINE S == [name : Names, shape : {st.shape : st \in ToSet(scene.stock)}]
    <3>1. \A r \in S : r.name \in Names
      OBVIOUS
    <3>2. scene.stock \in Seq(S)
      BY <2>1
    <3> HIDE DEF S
    <3> QED BY <3>1, <3>2
  <2> QED BY <1>1, <2>2, StorageAssumption, DestroyAssumption
<1>5. \A n \in Names : named[n] # None => named[n] \in 1 .. made /\ scene.stock[named[n]].name = n
  BY <1>1
<1>6. \A t \in 1 .. made : named[scene.stock[t].name] = t
  <2> TAKE t \in 1 .. made
  <2>1. scene.stock[t].name \in Names
    BY <1>4
  <2>2. named[scene.stock[t].name] \in 1 .. made
        /\ scene.stock[named[scene.stock[t].name]].name = scene.stock[t].name
    BY <1>1, <2>1
  <2> QED BY <1>4, <2>2
<1>7. 1 .. made \subseteq Trees /\ \A t \in Trees : t <= made => t \in 1 .. made
  BY <1>4 DEF Trees
<1>8. SessionInv
  BY <1>1, <1>2 DEF SessionInv
<1>9. CreateInv
  <2>1. \A t \in Trees : t > made => ~(t <= made)
    BY <1>4 DEF Trees
  <2> QED BY <1>2, <2>1 DEF CreateInv, Creating
<1>10. LookedUpInv
  <2>1. \A n \in Names : named[n] # None => instance[named[n]] # "none"
    BY <1>2, <1>4, <1>5, <1>7
  <2>2. \A n, m \in Names : named[n] = named[m] /\ named[n] # None => n = m
    BY <1>5
  <2> QED BY <1>2, <2>1, <2>2 DEF LookedUpInv, Deleting
<1>11. \A t \in Trees : t <= made => Named(t)
  BY <1>4, <1>6, <1>7 DEF Named
<1>12. EntryInv
  BY <1>2, <1>11 DEF EntryInv, Waiting
<1>13. \A x \in AllItems : act[x].pc = "none"
  BY <1>2 DEF NotCalled
<1>14. OnceInv
  BY <1>2 DEF OnceInv
<1>15. CallerInv
  BY <1>2, <1>3, <1>13, RootFacts DEF CallerInv
<1>16. WhereInv
  BY <1>2, <1>11 DEF WhereInv
<1>17. ContainersInv
  <2>1. SessionTable \in AllItems /\ \A s \in Slots : Containers(s) \in AllItems
    BY DEF AllItems
  <2> QED BY <1>13, <2>1 DEF ContainersInv
<1>18. TreesReleasedOnce
  BY <1>2 DEF TreesReleasedOnce
<1> QED BY <1>8, <1>9, <1>10, <1>12, <1>14, <1>15, <1>16, <1>17, <1>18 DEF OnceAndAll, JInv

\* A step that releases no tree again keeps the property while init and fin are not between.
LEMMA OnceKept ==
    ASSUME TreesReleasedOnce, twice = {}, JInv', twice' = {},
           main' = "down" => main = "down" /\ freed \subseteq freed' /\ UNCHANGED <<shape, made, mixed, instance>>
    PROVE  OnceAndAll'
<1>1. ASSUME main' = "down"
      PROVE  \A t \in 1 .. made' : /\ Below(t)' \subseteq freed' \/ \E m \in mixed' : m[2] = t
                                   /\ instance'[t] # "none" => Entry(t) \in freed'
  <2>1. \A t : Below(t)' = Below(t)
    BY <1>1 DEF Below
  <2> QED BY <1>1, <2>1 DEF TreesReleasedOnce
<1> QED BY <1>1 DEF OnceAndAll, TreesReleasedOnce

\* Every step keeps it.
LEMMA NextOnce == IInv /\ OnceAndAll /\ [Next]_vars => OnceAndAll'
<1> SUFFICES ASSUME IInv, OnceAndAll, [Next]_vars PROVE OnceAndAll'
  OBVIOUS
<1>1. CASE UNCHANGED vars \/ Finished
  <2>1. UNCHANGED vars
    BY <1>1 DEF Finished
  <2>2. UNCHANGED <<named, shape, hasRoot, instance, made, retired, act, freed, twice, mixed, main>>
    BY <2>1 DEF vars, table, destroying, life
  <2>3. \A t : Below(t)' = Below(t)
    BY <2>2 DEF Below
  <2>4. TreesReleasedOnce'
    BY <2>2, <2>3 DEF OnceAndAll, TreesReleasedOnce
  <2>5. twice = {} => JInv'
    BY <2>1, QuietOnce DEF OnceAndAll
  <2> QED BY <2>2, <2>4, <2>5 DEF OnceAndAll
<1>2. CASE twice = {} /\ ~(UNCHANGED vars \/ Finished)
  <2>1. JInv /\ twice = {} /\ TreesReleasedOnce
    BY <1>2 DEF OnceAndAll
  <2>2. ASSUME NEW c \in Clients, NEW o \in may[c], Call(c, o) PROVE OnceAndAll'
    <3>1. twice' = twice /\ main' = main /\ main = "up"
      BY <2>2 DEF Call, destroying, life
    <3>2. JInv'
      BY <2>1, <2>2, CallOnce
    <3> QED BY <2>1, <3>1, <3>2, OnceKept
  <2>3. ASSUME NEW c \in Clients, ClientStep(c) PROVE OnceAndAll'
    <3>1. pc[c] # "idle"
      BY <2>3 DEF ClientStep, Enter, PutEntry, GetEntry, RemoveEntry, LoadRoot, StoreRoot, Leave
    <3>2. main = "up" /\ main' = main
      BY <2>3, <3>1, StoragesSafe
         DEF ClientStep, Enter, PutEntry, GetEntry, RemoveEntry, LoadRoot, StoreRoot, Leave, life
    <3>3. CASE LoadRoot(c)
      <4>1. /\ twice' = {} => JInv'
            /\ \A x \in twice' : x \in twice \/ \E m \in mixed : x = Root(m[1])
            /\ mixed' = mixed
        BY <2>1, <3>3, LoadRootOnce DEF LoadRoot
      <4> QED BY <2>1, <3>2, <4>1 DEF OnceAndAll, TreesReleasedOnce
    <3>4. CASE Enter(c) \/ PutEntry(c) \/ GetEntry(c) \/ RemoveEntry(c) \/ StoreRoot(c) \/ Leave(c)
      <4>1. twice' = twice
        BY <3>4 DEF Enter, PutEntry, GetEntry, RemoveEntry, StoreRoot, Leave, destroying
      <4>2. JInv'
        BY <2>1, <3>4, EnterOnce, PutEntryOnce, GetEntryOnce, RemoveEntryOnce, StoreRootOnce, LeaveOnce
      <4> QED BY <2>1, <3>2, <4>1, <4>2, OnceKept
    <3> QED BY <2>3, <3>3, <3>4 DEF ClientStep
  <2>4. ASSUME NEW x \in Active, Destroyer(x) PROVE OnceAndAll'
    <3>1. JInv' /\ twice' = {} /\ freed \subseteq freed'
      BY <2>1, <2>4, DestroyerOnce
    <3>2. main' = main /\ UNCHANGED <<shape, made, mixed, instance>>
      BY <2>4 DEF Destroyer, DestroyStep, life
    <3> QED BY <2>1, <3>1, <3>2, OnceKept
  <2>5. CASE FinCall \/ SetThreadEnds \/ InitAgain \/ EpochRound \/ GcRound
    <3>1. JInv' /\ freed' = freed
      BY <2>1, <2>5, QuietOnce
    <3>2. twice' = twice /\ UNCHANGED <<shape, made, mixed, instance>>
      BY <2>5 DEF FinCall, SetThreadEnds, InitAgain, EpochRound, GcRound, destroying, table
    <3>3. main' = "down" => main = "down"
      BY <2>5 DEF FinCall, SetThreadEnds, InitAgain, EpochRound, GcRound, Main, life
    <3> QED BY <2>1, <3>1, <3>2, <3>3, OnceKept
  <2>6. CASE FinEach \/ FinStored \/ FinStorages \/ FinNull \/ FinJoin
    <3>1. JInv' /\ twice' = twice
      BY <2>1, <2>6, FinEachOnce, FinStoredOnce, FinTablesOnce, FinNullOnce DEF FinStored, FinNull, destroying
    <3>2. main' # "down"
      BY <2>6 DEF FinEach, FinStored, FinStorages, FinNull, FinJoin, Main
    <3> QED BY <2>1, <3>1, <3>2, OnceKept
  <2>7. CASE FinEnd
    <3>1. /\ JInv'
          /\ \A t \in 1 .. made : /\ Below(t) \subseteq freed \/ \E m \in mixed : m[2] = t
                                  /\ instance[t] # "none" => Entry(t) \in freed
      BY <2>1, <2>7, FinEndOnce
    <3>2. twice' = twice /\ UNCHANGED <<shape, made, mixed, instance, freed>>
      BY <2>7 DEF FinEnd, table
    <3>3. \A t : Below(t)' = Below(t)
      BY <3>2 DEF Below
    <3> QED BY <2>1, <3>1, <3>2, <3>3 DEF OnceAndAll, TreesReleasedOnce
  <2> QED BY <1>2, <2>2, <2>3, <2>4, <2>5, <2>6, <2>7 DEF Next, MainStep
<1> QED BY <1>1, <1>2 DEF Next

\* However create_storage, delete_storage and fin interleave, for any stock of trees of
\* any shape, any clients and names: no tree is destroyed twice and none is left when fin
\* returns, except the two trees of one name that a delete_storage took for each other
\* (the tree of the entry it had looked up, and the one that remove took away).
THEOREM EachTreeReleasedOnce == Spec => []TreesReleasedOnce
<1>1. Init => OnceAndAll
  BY InitOnce
<1>2. IInv /\ OnceAndAll /\ [Next]_vars => OnceAndAll'
  BY NextOnce
<1>3. OnceAndAll => TreesReleasedOnce
  BY DEF OnceAndAll
<1> QED BY <1>1, <1>2, <1>3, Invariant, PTL DEF Spec
====
