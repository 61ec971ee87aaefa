---- MODULE StorageProofs ----
(***************************************************************************)
(* Proofs about Destroy and Storage, for any trees, names, clients, number *)
(* of sessions and concurrency.                                            *)
(***************************************************************************)
EXTENDS Storage, SequenceTheorems, FiniteSetTheorems, TLAPS

-----------------------------------------------------------------------------
(* The inductive invariant.                                                *)

Labels == {"none", "loop", "cas", "inline", "gone"}
Activation ==
    [pc : Labels, i : Nat \ {0}, expected : Nat, threads : Seq(AllItems)]
Entries == {Entry(t) : t \in Trees}

\* Every variable the release of trees depends on has its type.
TypeInv ==
    /\ shape = [t \in Trees |-> shape[t]] /\ \A t \in Trees : IsShape(shape[t])
    /\ named \in [Names -> Trees \cup {None}]
    /\ retired \in [Slots -> SUBSET Entries]
    /\ act \in [AllItems -> Activation]
    /\ room \in Nat
    /\ hasRoot \in BOOLEAN
    /\ made \in 0 .. MaxTrees
    /\ mine \in [Clients -> Trees \cup {None}]
    /\ DOMAIN pc = Clients /\ DOMAIN op = Clients /\ DOMAIN answer = Clients
    /\ DOMAIN may = Clients
    /\ todo \in Seq(Trees)

\* A destroy() has called the children before its index, and at it if it waits there;
\* the threads it has yet to join are some of those.
ActRight(x) ==
    /\ act[x].pc = "none" => act[x] = NotCalled
    /\ act[x].pc = "gone" => act[x].threads = <<>>
    /\ IsValue(x) => act[x] = NotCalled
    /\ IsInjective(act[x].threads)
    /\ \A j \in 1 .. Len(act[x].threads) :
          /\ ~IsValue(act[x].threads[j])
          /\ \E k \in 1 .. Len(Kids(x)) : k < act[x].i /\ act[x].threads[j] = Kids(x)[k]
    /\ act[x].pc \in {"cas", "inline"} => act[x].i <= Len(Kids(x)) /\ ~IsValue(Kid(x))
    /\ \A k \in 1 .. Len(Kids(x)) :
          act[Kids(x)[k]].pc # "none" =>
              k < act[x].i \/ (k = act[x].i /\ act[x].pc = "inline")
ActInv == \A x \in AllItems : ActRight(x)

\* The count is that of the threads.
RoomInv == IsFiniteSet(Counted) /\ RoomExact

\* What a destroy() has behind it is released, or a thread does it.
Behind(x) ==
    act[x].pc # "none" =>
        \A k \in 1 .. Len(Kids(x)) :
            k < act[x].i => \/ Kids(x)[k] \in freed \/ IsContainer(Kids(x)[k])
                            \/ \E j \in 1 .. Len(act[x].threads) : act[x].threads[j] = Kids(x)[k]
FreedInv ==
    /\ BottomUp
    /\ \A x \in AllItems :
          /\ Behind(x)
          /\ act[x].pc = "gone" /\ x # SessionTable /\ ~IsContainer(x) => x \in freed

\* The tree of storages is destroyed by fin alone, and empty without a root.
StoragesInv ==
    /\ hasRoot /\ main # "storages" => act[Storages].pc = "none" /\ Storages \notin freed
    /\ act[Storages].pc \notin {"none", "gone"} => main = "storages"
    /\ ~hasRoot => \A n \in Names : named[n] = None
    /\ main \in {"each", "destroy", "storages"} => hasRoot
    /\ main = "destroy" => todo # <<>>

\* The table of sessions is released by fin alone.
TableInv == main # "table" => \A x \in AllItems : x[1] = -1 => act[x] = NotCalled

\* Where a call can be.
CallRight(c) ==
    /\ main # "up" \/ may[c] # {} => pc[c] = "idle"
    /\ pc[c] \in {"idle", "enter", "put", "get", "remove", "load", "destroy", "leave"}
    /\ pc[c] # "idle" => op[c].name \in Names
    /\ pc[c] = "put" => op[c].type = "create"
    /\ pc[c] # "idle" /\ op[c].type = "create" => mine[c] \in Trees /\ shape[mine[c]] = Empty
    /\ pc[c] \in {"get", "remove", "load", "destroy"} => op[c].type # "create"
    /\ pc[c] \in {"remove", "load", "destroy"} => mine[c] \in Trees
    /\ pc[c] = "leave" /\ answer[c] = "WARN_UNIQUE_RESTRICTION" => op[c].type = "create"
CallInv ==
    /\ \A c \in Clients : CallRight(c) /\ may[c] \subseteq [type : {"create", "delete"}, name : Names]
    /\ \A t \in Trees : t > made => shape[t] = Empty

IInv ==
    /\ TypeInv /\ ActInv /\ RoomInv /\ FreedInv /\ StoragesInv /\ TableInv /\ CallInv

-----------------------------------------------------------------------------
(* Items, their children and entries.                                      *)

\* A function on the first numbers is a sequence.
LEMMA SeqIs ==
    ASSUME NEW n \in Nat, NEW S, NEW s, s = [i \in 1 .. n |-> s[i]], \A i \in 1 .. n : s[i] \in S
    PROVE  s \in Seq(S) /\ Len(s) = n /\ DOMAIN s = 1 .. n
<1>1. s \in [1 .. n -> S]
  OBVIOUS
<1>2. s \in Seq(S)
  BY <1>1
<1> QED BY <1>1, <1>2

\* A finite set written as a sequence has each element once.
LEMMA SetToSeqIs ==
    ASSUME NEW S, IsFiniteSet(S)
    PROVE  /\ SetToSeq(S) \in Seq(S) /\ IsInjective(SetToSeq(S))
           /\ S = {} => SetToSeq(S) = <<>>
<1> DEFINE n == Cardinality(S)
           fs == {f \in [1 .. n -> S] : IsInjective(f)}
<1>1. n \in Nat /\ ExistsBijection(1 .. n, S)
  BY FS_CardinalityType
<1> HIDE DEF n
<1>2. PICK b : b \in Bijection(1 .. n, S)
  BY <1>1 DEF ExistsBijection
<1>3. b \in [1 .. n -> S] /\ IsInjective(b)
  BY <1>2 DEF Bijection, Injection, IsInjective
<1>4. SetToSeq(S) \in [1 .. n -> S] /\ IsInjective(SetToSeq(S))
  BY <1>3 DEF SetToSeq, n
<1>5. SetToSeq(S) \in Seq(S)
  BY <1>1, <1>4
<1>6. ASSUME S = {} PROVE SetToSeq(S) = <<>>
  <2>1. n = 0
    BY <1>6, FS_EmptySet DEF n
  <2>2. Len(SetToSeq(S)) = 0
    BY <1>1, <1>4, <2>1
  <2> QED BY <1>5, <2>2
<1> QED BY <1>4, <1>5, <1>6

\* The paths of a tree's nodes and values.
LEMMA ShapeFacts ==
    ASSUME TypeInv, NEW t \in Trees
    PROVE  /\ t \in Nat /\ t >= 1 /\ <<>> \in DOMAIN shape[t]
           /\ \A p \in DOMAIN shape[t] : p \in Seq(Nat) /\ shape[t][p] \in Nat
           /\ \A x \in Below(t) : \E p \in Seq(Nat) : x = <<t, p>>
           /\ Root(t) \in Below(t)
           /\ \A p \in DOMAIN shape[t] : \A i \in 1 .. shape[t][p] :
                 <<t, Append(p, i)>> \in Below(t) /\ Append(p, i) \in Seq(Nat)
<1>1. t \in Nat /\ t >= 1
  BY DestroyAssumption DEF Trees
<1>2. IsShape(shape[t])
  BY DEF TypeInv
<1>3. <<>> \in DOMAIN shape[t] /\ \A p \in DOMAIN shape[t] : p \in Seq(Nat) /\ shape[t][p] \in Nat
  BY <1>2 DEF IsShape
<1>4. \A p \in DOMAIN shape[t] : \A i \in 1 .. shape[t][p] :
         <<t, Append(p, i)>> \in Below(t) /\ Append(p, i) \in Seq(Nat)
  BY <1>3, SMTT(40) DEF Below
<1>5. \A x \in Below(t) : \E p \in Seq(Nat) : x = <<t, p>>
  BY <1>3, <1>4 DEF Below
<1>6. Root(t) \in Below(t)
  BY <1>3 DEF Below, Root
<1> QED BY <1>1, <1>3, <1>4, <1>5, <1>6

\* The kinds of items.
LEMMA ItemKinds ==
    ASSUME TypeInv, NEW x \in AllItems
    PROVE  \/ x = Storages
           \/ x = SessionTable
           \/ \E s \in Slots : x = Containers(s)
           \/ \E t \in Trees : x = Entry(t)
           \/ \E t \in Trees, p \in Seq(Nat) : x = <<t, p>> /\ x \in Below(t)
BY ShapeFacts DEF AllItems

\* What the children of an item are, kind by kind.
LEMMA KidsOfTree ==
    ASSUME NEW t \in Trees, NEW p
    PROVE  /\ p \in DOMAIN shape[t] =>
                 Kids(<<t, p>>) = [i \in 1 .. shape[t][p] |-> <<t, Append(p, i)>>]
           /\ p \notin DOMAIN shape[t] => Kids(<<t, p>>) = <<>>
           /\ IsValue(<<t, p>>) <=> p \notin DOMAIN shape[t]
           /\ ~IsContainer(<<t, p>>) /\ <<t, p>> # Storages /\ <<t, p>> # SessionTable
<1>1. t \in Nat /\ t >= 1
  BY DestroyAssumption DEF Trees
<1>2. <<t, p>>[1] = t /\ <<t, p>>[2] = p /\ t # -1 /\ t # 0
  BY <1>1
<1>3. <<t, p>> # Storages /\ <<t, p>> # SessionTable
  BY <1>2 DEF Storages, SessionTable, Root
<1> QED BY <1>2, <1>3 DEF Kids, IsValue, IsContainer

\* The tables, the containers and the entries.
LEMMA KidsOfOthers ==
    /\ Kids(SessionTable) = [s \in Slots |-> Containers(s)]
    /\ SessionTable # Storages /\ ~IsValue(SessionTable) /\ ~IsValue(Storages)
    /\ ~IsContainer(SessionTable) /\ ~IsContainer(Storages)
    /\ \A s \in Slots : /\ Kids(Containers(s)) = <<>> /\ ~IsValue(Containers(s))
                        /\ IsContainer(Containers(s)) /\ Containers(s)[1] = -1
                        /\ Containers(s) # Storages /\ Containers(s) # SessionTable
    /\ \A t : /\ Kids(Entry(t)) = <<>> /\ IsValue(Entry(t))
              /\ ~IsContainer(Entry(t)) /\ Entry(t)[1] = 0
              /\ Entry(t) # Storages /\ Entry(t) # SessionTable
    /\ SessionTable[1] = -1 /\ Storages[1] = 0
<1>1. 0 \notin Trees /\ -1 \notin Trees
  BY DestroyAssumption DEF Trees
<1>2. SessionTable = <<-1, <<>>>> /\ Storages = <<0, <<>>>> /\ SessionTable # Storages
  BY DEF SessionTable, Storages, Root
<1>3. ASSUME NEW s PROVE Containers(s) = <<-1, <<s>>>> /\ Containers(s) # SessionTable
                         /\ Containers(s) # Storages
  BY <1>2 DEF Containers
<1>4. ASSUME NEW t PROVE Entry(t) = <<0, <<t>>>> /\ Entry(t) # SessionTable /\ Entry(t) # Storages
  BY <1>2 DEF Entry
<1> QED BY <1>1, <1>2, <1>3, <1>4 DEF Kids, IsValue, IsContainer

\* The entries of named trees, as a sequence.
LEMMA EntriesOf ==
    ASSUME NEW f \in [Names -> Trees \cup {None}]
    PROVE  LET s == SetToSeq({Entry(f[n]) : n \in {m \in Names : f[m] # None}})
           IN  /\ s \in Seq(Entries) /\ IsInjective(s)
               /\ (\A n \in Names : f[n] = None) => s = <<>>
<1> DEFINE S == {Entry(f[n]) : n \in {m \in Names : f[m] # None}}
<1>1. S \subseteq Entries
  BY DEF Entries
<1>2. IsFiniteSet(Entries)
  <2>1. MaxTrees \in Nat /\ Trees = 1 .. MaxTrees
    BY DestroyAssumption DEF Trees
  <2>2. IsFiniteSet(Trees)
    BY <2>1, FS_Interval
  <2>3. ExistsBijection(Trees, Entries)
    <3> DEFINE g == [t \in Trees |-> Entry(t)]
    <3>1. g \in Bijection(Trees, Entries)
      BY DEF Bijection, Injection, Surjection, IsInjective, Entries, Entry
    <3> QED BY <3>1 DEF ExistsBijection
  <2> QED BY <2>2, <2>3, FS_Bijection
<1>3. IsFiniteSet(S)
  BY <1>1, <1>2, FS_Subset
<1>4. (\A n \in Names : f[n] = None) => S = {}
  OBVIOUS
<1> HIDE DEF S
<1>5. SetToSeq(S) \in Seq(S) /\ IsInjective(SetToSeq(S)) /\ (S = {} => SetToSeq(S) = <<>>)
  BY <1>3, SetToSeqIs
<1>6. SetToSeq(S) \in Seq(Entries)
  <2>1. /\ Len(SetToSeq(S)) \in Nat /\ SetToSeq(S) = [i \in 1 .. Len(SetToSeq(S)) |-> SetToSeq(S)[i]]
        /\ \A i \in 1 .. Len(SetToSeq(S)) : SetToSeq(S)[i] \in Entries
    BY <1>1, <1>5
  <2> QED BY <2>1
<1> QED BY <1>4, <1>5, <1>6 DEF S

\* The entries of the tree of storages are those of the named trees, before a step
\* and after it.
LEMMA KidsOfStorages ==
    ASSUME named \in [Names -> Trees \cup {None}]
    PROVE  /\ Kids(Storages) \in Seq(Entries) /\ IsInjective(Kids(Storages))
           /\ (\A n \in Names : named[n] = None) => Kids(Storages) = <<>>
BY EntriesOf DEF Kids

\* The same after a step.
LEMMA KidsOfStoragesNext ==
    ASSUME named' \in [Names -> Trees \cup {None}]
    PROVE  /\ Kids(Storages)' \in Seq(Entries)
           /\ (\A n \in Names : named'[n] = None) => Kids(Storages)' = <<>>
BY EntriesOf DEF Kids

\* What holds of all children.
LEMMA KidsFacts ==
    ASSUME TypeInv, NEW x \in AllItems
    PROVE  /\ Kids(x) \in Seq(AllItems) /\ Len(Kids(x)) \in Nat
           /\ DOMAIN Kids(x) = 1 .. Len(Kids(x))
           /\ IsValue(x) \/ IsContainer(x) => Kids(x) = <<>>
           /\ \A k \in 1 .. Len(Kids(x)) :
                 /\ Kids(x)[k] \in AllItems /\ \A t : Kids(x)[k] # Root(t)
                 /\ x = Storages => IsValue(Kids(x)[k])
                 /\ IsContainer(Kids(x)[k]) <=> x = SessionTable
                 /\ x = SessionTable => Kids(x)[k] = Containers(k) /\ k \in Slots
<1>1. CASE x = Storages
  <2>1. Kids(x) \in Seq(Entries) /\ Entries \subseteq AllItems
    BY <1>1, KidsOfStorages DEF AllItems, Entries, TypeInv
  <2>2. /\ Len(Kids(x)) \in Nat /\ DOMAIN Kids(x) = 1 .. Len(Kids(x))
        /\ Kids(x) = [i \in 1 .. Len(Kids(x)) |-> Kids(x)[i]]
        /\ \A k \in 1 .. Len(Kids(x)) : Kids(x)[k] \in Entries
    BY <2>1
  <2>3. Kids(x) \in Seq(AllItems)
    BY <2>1, <2>2
  <2>4. \A e \in Entries : IsValue(e) /\ ~IsContainer(e) /\ \A t : e # Root(t)
    BY KidsOfOthers, SMTT(40) DEF Entries, Entry, Root
  <2> QED BY <1>1, <2>1, <2>2, <2>3, <2>4, KidsOfOthers
<1>2. CASE x = SessionTable
  <2>1. Kids(x) = [s \in 1 .. NSlots |-> Containers(s)] /\ NSlots \in Nat /\ Slots = 1 .. NSlots
    BY <1>2, KidsOfOthers, DestroyAssumption DEF Slots
  <2>2. \A s \in Slots : Containers(s) \in AllItems /\ \A t : Containers(s) # Root(t)
    BY DEF AllItems, Containers, Root
  <2>3. Len(Kids(x)) = NSlots /\ DOMAIN Kids(x) = 1 .. NSlots /\ Kids(x) \in Seq(AllItems)
    BY <2>1, <2>2
  <2> QED BY <1>2, <2>1, <2>2, <2>3, KidsOfOthers
<1>3. CASE (\E s \in Slots : x = Containers(s)) \/ (\E t \in Trees : x = Entry(t))
  <2>1. Kids(x) = <<>>
    BY <1>3, KidsOfOthers
  <2> QED BY <2>1
<1>4. ASSUME NEW t \in Trees, NEW p \in Seq(Nat), x = <<t, p>> 
      PROVE  /\ Kids(x) \in Seq(AllItems) /\ Len(Kids(x)) \in Nat
             /\ DOMAIN Kids(x) = 1 .. Len(Kids(x))
             /\ IsValue(x) \/ IsContainer(x) => Kids(x) = <<>>
             /\ x # Storages /\ x # SessionTable
             /\ \A k \in 1 .. Len(Kids(x)) :
                   /\ Kids(x)[k] \in AllItems /\ \A u : Kids(x)[k] # Root(u)
                   /\ ~IsContainer(Kids(x)[k])
  <2>1. CASE p \in DOMAIN shape[t]
    <3>1. /\ Kids(x) = [i \in 1 .. shape[t][p] |-> <<t, Append(p, i)>>] /\ shape[t][p] \in Nat
          /\ ~IsValue(x) /\ ~IsContainer(x) /\ x # Storages /\ x # SessionTable
      BY <1>4, <2>1, KidsOfTree, ShapeFacts
    <3>2. ASSUME NEW i \in 1 .. shape[t][p]
          PROVE  /\ <<t, Append(p, i)>> \in AllItems /\ ~IsContainer(<<t, Append(p, i)>>)
                 /\ \A u : <<t, Append(p, i)>> # Root(u)
      <4>1. <<t, Append(p, i)>> \in AllItems
        BY <2>1, ShapeFacts DEF AllItems
      <4>2. Append(p, i) # <<>>
        OBVIOUS
      <4> QED BY <4>1, <4>2, KidsOfTree DEF Root
    <3>3. Len(Kids(x)) = shape[t][p] /\ DOMAIN Kids(x) = 1 .. shape[t][p] /\ Kids(x) \in Seq(AllItems)
      <4> HIDE DEF AllItems
      <4>1. \A i \in 1 .. shape[t][p] : Kids(x)[i] \in AllItems
        BY <3>1, <3>2
      <4>2. Kids(x) = [i \in 1 .. shape[t][p] |-> Kids(x)[i]]
        BY <3>1
      <4> QED BY <3>1, <4>1, <4>2, SeqIs
    <3> QED BY <3>1, <3>2, <3>3
  <2>2. CASE p \notin DOMAIN shape[t]
    <3>1. Kids(x) = <<>> /\ x # Storages /\ x # SessionTable
      BY <1>4, <2>2, KidsOfTree
    <3> QED BY <3>1
  <2> QED BY <2>1, <2>2
<1> QED BY <1>1, <1>2, <1>3, <1>4, ItemKinds

\* Whose child an item is can be told from it.
LEMMA KidsKind ==
    ASSUME TypeInv, NEW x \in AllItems, NEW i \in 1 .. Len(Kids(x))
    PROVE  \/ x = Storages /\ Kids(x)[i] \in Entries
           \/ x = SessionTable /\ i \in Slots /\ Kids(x)[i] = Containers(i)
           \/ \E t \in Trees, p \in Seq(Nat) :
                 x = <<t, p>> /\ Kids(x)[i] = <<t, Append(p, i)>> /\ i \in Nat
<1>1. CASE x = Storages
  BY <1>1, KidsOfStorages DEF TypeInv
<1>2. CASE x = SessionTable
  BY <1>2, KidsFacts
<1>3. CASE (\E s \in Slots : x = Containers(s)) \/ (\E t \in Trees : x = Entry(t))
  <2>1. Kids(x) = <<>>
    BY <1>3, KidsOfOthers
  <2> QED BY <2>1
<1>4. ASSUME NEW t \in Trees, NEW p \in Seq(Nat), x = <<t, p>>
      PROVE  Kids(x)[i] = <<t, Append(p, i)>> /\ i \in Nat
  <2>1. p \in DOMAIN shape[t]
    <3>1. ASSUME p \notin DOMAIN shape[t] PROVE FALSE
      <4>1. Kids(x) = <<>>
        BY <1>4, <3>1, KidsOfTree
      <4> QED BY <4>1
    <3> QED BY <3>1
  <2>2. Kids(x) = [k \in 1 .. shape[t][p] |-> <<t, Append(p, k)>>] /\ shape[t][p] \in Nat
    BY <1>4, <2>1, KidsOfTree, ShapeFacts
  <2>3. i \in 1 .. shape[t][p]
    BY <2>2
  <2> QED BY <2>2, <2>3
<1> QED BY <1>1, <1>2, <1>3, <1>4, ItemKinds

\* An item is the child of one other, at one place.
LEMMA OneParent ==
    ASSUME TypeInv, NEW x \in AllItems, NEW y \in AllItems,
           NEW i \in 1 .. Len(Kids(x)), NEW j \in 1 .. Len(Kids(y)), Kids(x)[i] = Kids(y)[j]
    PROVE  x = y /\ i = j
<1>1. \/ x = Storages /\ Kids(x)[i] \in Entries
      \/ x = SessionTable /\ i \in Slots /\ Kids(x)[i] = Containers(i)
      \/ \E t \in Trees, p \in Seq(Nat) : x = <<t, p>> /\ Kids(x)[i] = <<t, Append(p, i)>> /\ i \in Nat
  BY KidsKind
<1>2. \/ y = Storages /\ Kids(y)[j] \in Entries
      \/ y = SessionTable /\ j \in Slots /\ Kids(y)[j] = Containers(j)
      \/ \E t \in Trees, p \in Seq(Nat) : y = <<t, p>> /\ Kids(y)[j] = <<t, Append(p, j)>> /\ j \in Nat
  BY KidsKind
<1>3. \A e \in Entries : e[1] = 0
  BY KidsOfOthers DEF Entries
<1>4. \A s \in Slots : Containers(s)[1] = -1
  BY KidsOfOthers
<1>5. ASSUME NEW t \in Trees, NEW q PROVE <<t, q>>[1] # 0 /\ <<t, q>>[1] # -1
  BY DestroyAssumption DEF Trees
<1>6. CASE x = Storages /\ Kids(x)[i] \in Entries
  <2>1. y = Storages
    BY <1>2, <1>3, <1>4, <1>5, <1>6
  <2>2. DOMAIN Kids(x) = 1 .. Len(Kids(x)) /\ IsInjective(Kids(x))
    BY <1>6, KidsOfStorages, KidsFacts DEF TypeInv
  <2> QED BY <1>6, <2>1, <2>2 DEF IsInjective
<1>7. CASE x = SessionTable /\ i \in Slots /\ Kids(x)[i] = Containers(i)
  <2>1. y = SessionTable /\ j \in Slots /\ Kids(y)[j] = Containers(j)
    BY <1>2, <1>3, <1>4, <1>5, <1>7
  <2> QED BY <1>7, <2>1 DEF Containers
<1>8. ASSUME NEW t \in Trees, NEW p \in Seq(Nat), x = <<t, p>>, Kids(x)[i] = <<t, Append(p, i)>>, i \in Nat
      PROVE  x = y /\ i = j
  <2>1. PICK u \in Trees, q \in Seq(Nat) : y = <<u, q>> /\ Kids(y)[j] = <<u, Append(q, j)>> /\ j \in Nat
    BY <1>2, <1>3, <1>4, <1>5, <1>8
  <2>2. t = u /\ Append(p, i) = Append(q, j)
    <3>1. <<t, Append(p, i)>> = <<u, Append(q, j)>>
      BY <1>8, <2>1
    <3> QED BY <3>1
  <2>3. p = q /\ i = j
    BY <1>8, <2>1, <2>2, AppendInjective, SMTT(40)
  <2> QED BY <1>8, <2>1, <2>2, <2>3
<1> QED BY <1>1, <1>6, <1>7, <1>8

\* No item is its own child, and roots are nobody's.
LEMMA NoSelf ==
    ASSUME TypeInv, NEW x \in AllItems, NEW i \in 1 .. Len(Kids(x))
    PROVE  Kids(x)[i] # x
<1>1. CASE x = Storages /\ Kids(x)[i] \in Entries
  BY <1>1, KidsOfOthers DEF Entries
<1>2. CASE x = SessionTable /\ i \in Slots /\ Kids(x)[i] = Containers(i)
  BY <1>2, KidsOfOthers
<1>3. ASSUME NEW t \in Trees, NEW p \in Seq(Nat), x = <<t, p>>, Kids(x)[i] = <<t, Append(p, i)>>, i \in Nat
      PROVE  Kids(x)[i] # x
  <2>1. Append(p, i) # p
    <3>1. Len(Append(p, i)) = Len(p) + 1 /\ Len(p) \in Nat
      BY <1>3
    <3> QED BY <3>1
  <2>2. <<t, p>>[2] = p /\ <<t, Append(p, i)>>[2] = Append(p, i)
    OBVIOUS
  <2> QED BY <1>3, <2>1, <2>2
<1> QED BY <1>1, <1>2, <1>3, KidsKind

\* The children are the same as long as the trees and the names are.
LEMMA Static ==
    ASSUME shape' = shape
    PROVE  /\ AllItems' = AllItems
           /\ \A y : IsValue(y)' = IsValue(y)
           /\ \A y : y # Storages \/ named' = named => Kids(y)' = Kids(y)
<1>1. \A t : Below(t)' = Below(t)
  BY DEF Below
<1>2. AllItems' = AllItems
  BY <1>1 DEF AllItems
<1>3. \A y : IsValue(y)' = IsValue(y)
  BY DEF IsValue
<1>4. \A y : y # Storages \/ named' = named => Kids(y)' = Kids(y)
  BY DEF Kids
<1> QED BY <1>2, <1>3, <1>4

-----------------------------------------------------------------------------
(* Steps of destroy().                                                     *)

\* The members of an activation have their types.
LEMMA ActTypes ==
    ASSUME TypeInv, NEW x \in AllItems
    PROVE  /\ act[x] \in Activation /\ act[x].pc \in Labels
           /\ act[x].i \in Nat /\ act[x].i >= 1 /\ act[x].expected \in Nat
           /\ act[x].threads \in Seq(AllItems) /\ Len(act[x].threads) \in Nat
           /\ DOMAIN act = AllItems
           /\ DOMAIN act[x].threads = 1 .. Len(act[x].threads)
           /\ \A j \in 1 .. Len(act[x].threads) : act[x].threads[j] \in AllItems
<1>1. act[x] \in Activation /\ DOMAIN act = AllItems
  BY DEF TypeInv
<1>2. /\ act[x].pc \in Labels /\ act[x].i \in Nat \ {0} /\ act[x].expected \in Nat
      /\ act[x].threads \in Seq(AllItems)
  BY <1>1 DEF Activation
<1> QED BY <1>1, <1>2

\* What other calls of destroy() know survives a step of x, which may call destroy()
\* for the first time on x, if it is nobody's child, or on a child of x.
LEMMA ActStep ==
    ASSUME TypeInv, ActInv, UNCHANGED <<shape, named>>, NEW x \in AllItems, ActRight(x)',
           act[x].pc = "none" => \A w \in AllItems : \A k \in 1 .. Len(Kids(w)) : Kids(w)[k] # x,
           \A y \in AllItems : y # x =>
              \/ act'[y] = act[y]
              \/ /\ act[y].pc = "none" /\ act'[y] = Called /\ ~IsValue(y)
                 /\ \E k \in 1 .. Len(Kids(x)) : y = Kids(x)[k]
    PROVE  ActInv'
<1>1. AllItems' = AllItems /\ \A y : Kids(y)' = Kids(y) /\ IsValue(y)' = IsValue(y)
  BY Static
<1> SUFFICES ASSUME NEW y \in AllItems, y # x PROVE ActRight(y)'
  BY <1>1 DEF ActInv
<1>2. ActRight(y) /\ Len(Kids(y)) \in Nat
      /\ \A k \in 1 .. Len(Kids(y)) : Kids(y)[k] \in AllItems
  BY KidsFacts DEF ActInv
<1>3. ASSUME NEW k \in 1 .. Len(Kids(y)), act'[Kids(y)[k]].pc # "none"
      PROVE  act[Kids(y)[k]].pc # "none"
  <2>1. CASE Kids(y)[k] = x
    BY <2>1
  <2>2. CASE Kids(y)[k] # x
    BY <1>2, <1>3, <2>2, OneParent
  <2> QED BY <2>1, <2>2
<1>4. CASE act'[y] = act[y]
  BY <1>1, <1>2, <1>3, <1>4 DEF ActRight, Kid
<1>5. CASE act[y].pc = "none" /\ act'[y] = Called /\ ~IsValue(y)
  <2>1. act[y] = NotCalled
    BY <1>2, <1>5 DEF ActRight
  <2>2. act[y].i = 1 /\ act'[y].pc = "loop" /\ act'[y].i = 1 /\ act'[y].threads = <<>>
    BY <1>5, <2>1 DEF NotCalled, Called
  <2>3. \A k \in 1 .. Len(Kids(y)) : act'[Kids(y)[k]].pc = "none"
    BY <1>2, <1>3, <1>5, <2>2 DEF ActRight
  <2> QED BY <1>1, <1>5, <2>2, <2>3 DEF ActRight, IsInjective
<1> QED BY <1>4, <1>5

\* A call begins with the first child and no threads.
LEMMA CalledType == Called \in Activation /\ NotCalled \in Activation
<1>1. <<>> \in Seq(AllItems) /\ 1 \in Nat \ {0} /\ 0 \in Nat /\ "loop" \in Labels /\ "none" \in Labels
  BY DEF Labels
<1>2. Called = [pc |-> "loop", i |-> 1, expected |-> 0, threads |-> <<>>]
  BY DEF Called, NotCalled
<1> QED BY <1>1, <1>2 DEF NotCalled, Activation

\* destroy() is called from outside on x.
LEMMA CallStep ==
    ASSUME TypeInv, ActInv, UNCHANGED <<shape, named>>, NEW x \in AllItems, act[x].pc = "none",
           \A w \in AllItems : \A k \in 1 .. Len(Kids(w)) : Kids(w)[k] # x,
           ~IsValue(x), act' = [act EXCEPT ![x] = Called]
    PROVE  ActInv' /\ act' \in [AllItems -> Activation]
<1>1. /\ AllItems' = AllItems /\ \A y : Kids(y)' = Kids(y) /\ IsValue(y)' = IsValue(y)
      /\ DOMAIN act = AllItems
  BY Static, ActTypes
<1>2. ActRight(x) /\ Len(Kids(x)) \in Nat
      /\ \A k \in 1 .. Len(Kids(x)) : Kids(x)[k] \in AllItems /\ Kids(x)[k] # x
  BY KidsFacts, NoSelf DEF ActInv
<1>3. act[x].i = 1 /\ act'[x].pc = "loop" /\ act'[x].i = 1 /\ act'[x].threads = <<>>
  BY <1>1, <1>2 DEF ActRight, NotCalled, Called
<1>4. \A y \in AllItems : y # x => act'[y] = act[y]
  BY <1>1
<1>5. \A k \in 1 .. Len(Kids(x)) : act'[Kids(x)[k]].pc = "none"
  BY <1>2, <1>3, <1>4 DEF ActRight
<1>6. ActRight(x)'
  BY <1>1, <1>3, <1>5 DEF ActRight, IsInjective
<1>7. Called \in Activation
  BY CalledType
<1>8. act' \in [AllItems -> Activation]
  BY <1>7 DEF TypeInv
<1> QED BY <1>4, <1>6, <1>8, ActStep

\* The threads that are counted, of activations a.
ThreadsOf(a) ==
    UNION {{x \in ToSet(a[y].threads) : y = SessionTable => a[x].pc # "gone"}
              : y \in {z \in DOMAIN a : a[z].pc \notin {"none", "gone"}}}
IsThread(a, y, z) ==
    /\ \E j \in 1 .. Len(a[y].threads) : a[y].threads[j] = z
    /\ y = SessionTable => a[z].pc # "gone"

\* A thread is one of an item's.
LEMMA ThreadsOfIs ==
    ASSUME NEW a,
           \A y \in DOMAIN a :
              /\ DOMAIN a[y].threads = 1 .. Len(a[y].threads)
              /\ a[y].pc \in {"none", "gone"} => a[y].threads = <<>>
    PROVE  \A z : z \in ThreadsOf(a) <=> \E y \in DOMAIN a : IsThread(a, y, z)
<1>1. ASSUME NEW z, z \in ThreadsOf(a) PROVE \E y \in DOMAIN a : IsThread(a, y, z)
  BY <1>1 DEF ThreadsOf, ToSet, IsThread
<1>2. ASSUME NEW y \in DOMAIN a, NEW z, IsThread(a, y, z) PROVE z \in ThreadsOf(a)
  <2>1. a[y].pc \notin {"none", "gone"}
    <3>1. ASSUME a[y].threads = <<>> PROVE FALSE
      BY <1>2, <3>1 DEF IsThread
    <3> QED BY <3>1
  <2>2. z \in ToSet(a[y].threads)
    BY <1>2 DEF ToSet, IsThread
  <2> QED BY <1>2, <2>1, <2>2 DEF ThreadsOf, IsThread
<1> QED BY <1>1, <1>2

\* So are the counted ones, before a step ...
LEMMA CountedIs ==
    ASSUME TypeInv, ActInv
    PROVE  \A z : z \in Counted <=> \E y \in AllItems : IsThread(act, y, z)
<1>1. \A y \in AllItems : act[y].pc \in {"none", "gone"} => act[y].threads = <<>>
  BY DEF ActInv, ActRight, NotCalled
<1>2. DOMAIN act = AllItems
  BY DEF TypeInv
<1>3. Counted = ThreadsOf(act)
  BY DEF Counted, ThreadsOf, Active
<1> QED BY <1>1, <1>2, <1>3, ActTypes, ThreadsOfIs

\* ... and after it.
LEMMA CountedNext ==
    ASSUME TypeInv', ActInv', AllItems' = AllItems
    PROVE  \A z : z \in Counted' <=> \E y \in AllItems : IsThread(act', y, z)
<1>1. \A y \in AllItems : act'[y].pc \in {"none", "gone"} => act'[y].threads = <<>>
  BY DEF ActInv, ActRight, NotCalled
<1>2. DOMAIN act' = AllItems
  BY DEF TypeInv
<1>3. Counted' = ThreadsOf(act')
  BY DEF Counted, ThreadsOf, Active
<1>4. \A y \in AllItems : DOMAIN act'[y].threads = 1 .. Len(act'[y].threads)
  <2>1. \A y \in AllItems : act'[y].threads \in Seq(AllItems)
    BY DEF TypeInv, Activation
  <2> QED BY <2>1
<1> QED BY <1>1, <1>2, <1>3, <1>4, ThreadsOfIs

\* The threads of an item are children of it.
LEMMA ThreadKids ==
    ASSUME TypeInv, ActInv, NEW y \in AllItems, NEW j \in 1 .. Len(act[y].threads), NEW z,
           z = act[y].threads[j]
    PROVE  /\ z \in AllItems /\ ~IsValue(z) /\ z # y
           /\ \E k \in 1 .. Len(Kids(y)) : k < act[y].i /\ z = Kids(y)[k]
           /\ IsContainer(z) <=> y = SessionTable
<1>1. ~IsValue(z) /\ \E k \in 1 .. Len(Kids(y)) : k < act[y].i /\ z = Kids(y)[k]
  BY DEF ActInv, ActRight
<1>2. PICK k \in 1 .. Len(Kids(y)) : k < act[y].i /\ z = Kids(y)[k]
  BY <1>1
<1>3. z \in AllItems /\ (IsContainer(z) <=> y = SessionTable)
  BY <1>2, KidsFacts
<1>4. z # y
  BY <1>2, NoSelf
<1> QED BY <1>1, <1>3, <1>4

\* As long as the counted threads are the same the count is right.
LEMMA RoomKeep ==
    ASSUME TypeInv, ActInv, RoomInv, TypeInv', ActInv', AllItems' = AllItems, room' = room,
           \A y \in AllItems : \A z : IsThread(act', y, z) <=> IsThread(act, y, z)
    PROVE  RoomInv'
<1>1. \A z : z \in Counted <=> \E y \in AllItems : IsThread(act, y, z)
  BY CountedIs
<1>2. \A z : z \in Counted' <=> \E y \in AllItems : IsThread(act', y, z)
  BY CountedNext
<1>3. Counted' = Counted
  BY <1>1, <1>2
<1> QED BY <1>3 DEF RoomInv, RoomExact

\* A step that neither starts nor joins nor ends a thread leaves the count.
LEMMA RoomSame ==
    ASSUME TypeInv, ActInv, RoomInv, TypeInv', ActInv', AllItems' = AllItems, room' = room,
           \A y \in AllItems : act'[y].threads = act[y].threads,
           \A z \in AllItems : IsContainer(z) => (act'[z].pc = "gone" <=> act[z].pc = "gone")
    PROVE  RoomInv'
<1>1. ASSUME NEW y \in AllItems, NEW z PROVE IsThread(act', y, z) <=> IsThread(act, y, z)
  <2>1. ASSUME y = SessionTable, NEW j \in 1 .. Len(act[y].threads), act[y].threads[j] = z
        PROVE  IsContainer(z) /\ z \in AllItems
    BY <2>1, ThreadKids
  <2> QED BY <2>1 DEF IsThread
<1> QED BY <1>1, RoomKeep

\* What is behind another call of destroy() stays behind it.
LEMMA FreedOthers ==
    ASSUME FreedInv, UNCHANGED <<shape, named>>, freed \subseteq freed', NEW y \in AllItems,
           act'[y] = act[y] \/ act'[y] = Called
    PROVE  /\ Behind(y)'
           /\ act'[y].pc = "gone" /\ y # SessionTable /\ ~IsContainer(y) => y \in freed'
<1>1. Kids(y)' = Kids(y)
  BY Static
<1>2. CASE act'[y] = act[y]
  BY <1>1, <1>2 DEF FreedInv, Behind
<1>3. CASE act'[y] = Called
  <2>1. act'[y].pc = "loop" /\ act'[y].i = 1
    BY <1>3 DEF Called, NotCalled
  <2> QED BY <1>1, <2>1 DEF Behind
<1> QED BY <1>2, <1>3

\* Nothing is released before what is below it.
LEMMA FreedBottomUp ==
    ASSUME FreedInv, UNCHANGED <<shape, named>>, freed \subseteq freed',
           \A y \in freed' : y \in freed \/ \A i \in DOMAIN Kids(y) : Kids(y)[i] \in freed'
    PROVE  BottomUp'
<1>1. \A y : Kids(y)' = Kids(y)
  BY Static
<1> QED BY <1>1 DEF FreedInv, BottomUp

\* The child a call of destroy() is at.
LEMMA AtKid ==
    ASSUME TypeInv, NEW x \in AllItems, act[x].i <= Len(Kids(x))
    PROVE  /\ act[x].i \in 1 .. Len(Kids(x)) /\ Kid(x) = Kids(x)[act[x].i]
           /\ Kid(x) \in AllItems /\ Kid(x) # x
<1>1. act[x].i \in 1 .. Len(Kids(x))
  BY ActTypes, KidsFacts
<1> QED BY <1>1, KidsFacts, NoSelf DEF Kid

\* What the steps of x have in common.
Running(x) == x \in AllItems /\ act[x].pc \notin {"none", "gone"} /\ UNCHANGED <<shape, named, retired>>
DInv == TypeInv /\ ActInv /\ RoomInv /\ FreedInv

\* TypeInv after a step that changes no trees and no names.
LEMMA TypeStep ==
    ASSUME TypeInv, UNCHANGED <<shape, named, retired>>, hasRoot' \in BOOLEAN,
           made' \in 0 .. MaxTrees, mine' \in [Clients -> Trees \cup {None}], todo' \in Seq(Trees),
           DOMAIN pc' = Clients, DOMAIN op' = Clients, DOMAIN answer' = Clients,
           DOMAIN may' = Clients, act' \in [AllItems -> Activation], room' \in Nat
    PROVE  TypeInv'
<1>1. AllItems' = AllItems
  BY Static
<1>2. Activation' = Activation
  BY <1>1 DEF Activation
<1> QED BY <1>1, <1>2 DEF TypeInv

\* What x itself knows after a step that goes on to the next child, or not.
LEMMA ActSelf ==
    ASSUME TypeInv, ActInv, UNCHANGED <<shape, named>>, NEW x \in AllItems,
           act[x].pc \notin {"none", "gone"}, act'[x].pc # "none", 
           act'[x].pc = "gone" => act'[x].threads = <<>>,
           act'[x].i \in {act[x].i, act[x].i + 1},
           IsInjective(act'[x].threads),
           \A j \in 1 .. Len(act'[x].threads) :
              \/ \E k \in 1 .. Len(act[x].threads) : act'[x].threads[j] = act[x].threads[k]
              \/ /\ act'[x].i = act[x].i + 1 /\ act[x].i <= Len(Kids(x))
                 /\ ~IsValue(Kid(x)) /\ act'[x].threads[j] = Kid(x),
           act'[x].pc \in {"cas", "inline"} =>
              act'[x].i = act[x].i /\ act[x].i <= Len(Kids(x)) /\ ~IsValue(Kid(x)),
           act[x].pc = "inline" => act'[x].i = act[x].i + 1 \/ act'[x].pc = "inline",
           \A y \in AllItems : y # x =>
              \/ act'[y] = act[y]
              \/ y = Kid(x) /\ (act'[x].i = act[x].i + 1 \/ act'[x].pc = "inline")
    PROVE  ActRight(x)'
<1>1. /\ AllItems' = AllItems /\ \A y : Kids(y)' = Kids(y) /\ IsValue(y)' = IsValue(y)
      /\ act[x].i \in Nat /\ Len(Kids(x)) \in Nat
      /\ \A k \in 1 .. Len(Kids(x)) : Kids(x)[k] \in AllItems /\ Kids(x)[k] # x
      /\ act[x].i >= 1
  BY Static, ActTypes, KidsFacts, NoSelf
<1>2. ~IsValue(x)'
  BY <1>1 DEF ActInv, ActRight, NotCalled
<1>3. ASSUME NEW j \in 1 .. Len(act'[x].threads)
      PROVE  /\ ~IsValue(act'[x].threads[j])
             /\ \E k \in 1 .. Len(Kids(x)) : k < act'[x].i /\ act'[x].threads[j] = Kids(x)[k]
  <2>1. CASE \E m \in 1 .. Len(act[x].threads) : act'[x].threads[j] = act[x].threads[m]
    <3>1. PICK m \in 1 .. Len(act[x].threads) : act'[x].threads[j] = act[x].threads[m]
      BY <2>1
    <3>2. PICK k \in 1 .. Len(Kids(x)) : k < act[x].i /\ act[x].threads[m] = Kids(x)[k]
      BY DEF ActInv, ActRight
    <3>3. ~IsValue(act[x].threads[m])
      BY DEF ActInv, ActRight
    <3>4. k < act'[x].i
      BY <1>1, <3>2
    <3> QED BY <3>1, <3>2, <3>3, <3>4
  <2>2. CASE /\ act'[x].i = act[x].i + 1 /\ act[x].i <= Len(Kids(x))
             /\ ~IsValue(Kid(x)) /\ act'[x].threads[j] = Kid(x)
    <3>1. act[x].i \in 1 .. Len(Kids(x)) /\ act[x].i < act'[x].i
      BY <1>1, <2>2
    <3>2. act'[x].threads[j] = Kids(x)[act[x].i]
      BY <2>2 DEF Kid
    <3> QED BY <2>2, <3>1, <3>2
  <2> QED BY <2>1, <2>2
<1>4. ASSUME NEW k \in 1 .. Len(Kids(x)), act'[Kids(x)[k]].pc # "none"
      PROVE  k < act'[x].i \/ (k = act'[x].i /\ act'[x].pc = "inline")
  <2>1. CASE act'[Kids(x)[k]] = act[Kids(x)[k]]
    <3>1. k < act[x].i \/ (k = act[x].i /\ act[x].pc = "inline")
      BY <1>4, <2>1 DEF ActInv, ActRight
    <3> QED BY <1>1, <3>1
  <2>2. CASE Kids(x)[k] = Kid(x) /\ (act'[x].i = act[x].i + 1 \/ act'[x].pc = "inline")
    <3>1. CASE act[x].i <= Len(Kids(x))
      <4>1. k = act[x].i
        BY <1>1, <2>2, <3>1, OneParent DEF Kid
      <4> QED BY <1>1, <2>2, <4>1
    <3>2. CASE act[x].i > Len(Kids(x))
      BY <1>1, <3>2
    <3> QED BY <1>1, <3>1, <3>2
  <2> QED BY <1>1, <2>1, <2>2
<1>5. act'[x].pc \in {"cas", "inline"} => act'[x].i <= Len(Kids(x)) /\ ~IsValue(Kids(x)[act'[x].i])
  BY DEF Kid
<1> QED BY <1>1, <1>2, <1>3, <1>4, <1>5 DEF ActRight, Kid

\* ReleaseValue: the value is released, and nothing is below it.
LEMMA ReleaseValueStep ==
    ASSUME DInv, NEW x, Running(x), ReleaseValue(x), TypeInv'
    PROVE  ActInv' /\ RoomInv' /\ FreedInv'
<1> DEFINE z == Kid(x)
<1>1. /\ x \in AllItems /\ act[x].pc = "loop" /\ act[x].i <= Len(Kids(x)) /\ IsValue(z)
      /\ freed' = freed \cup {z} /\ room' = room /\ act' = [act EXCEPT ![x].i = @ + 1]
      /\ UNCHANGED <<shape, named>>
  BY DEF Running, ReleaseValue, InLoop
<1>2. /\ act[x].i \in 1 .. Len(Kids(x)) /\ z = Kids(x)[act[x].i] /\ z \in AllItems /\ z # x
      /\ Len(Kids(x)) \in Nat
  BY <1>1, AtKid, KidsFacts DEF DInv
<1> HIDE DEF z
<1>3. /\ act'[x].pc = "loop" /\ act'[x].i = act[x].i + 1 /\ act'[x].threads = act[x].threads
      /\ \A y \in AllItems : y # x => act'[y] = act[y]
      /\ AllItems' = AllItems /\ \A y : Kids(y)' = Kids(y) /\ IsValue(y)' = IsValue(y)
      /\ act[x].i \in Nat /\ act[x] \in Activation
  BY <1>1, ActTypes, Static DEF DInv, Activation
<1>4. ActInv'
  <2>1. ActRight(x)'
    <3>1. IsInjective(act[x].threads)
      BY <1>1 DEF DInv, ActInv, ActRight
    <3> QED BY <1>1, <1>3, <3>1, ActSelf DEF DInv
  <2> QED BY <1>1, <1>3, <2>1, ActStep DEF DInv
<1>5. RoomInv'
  BY <1>1, <1>3, <1>4, RoomSame DEF DInv
<1>6. FreedInv'
  <2>1. Kids(z) = <<>>
    BY <1>1, <1>2, KidsFacts DEF DInv
  <2>2. BottomUp'
    BY <1>1, <2>1, FreedBottomUp DEF DInv
  <2>3. Behind(x)'
    BY <1>1, <1>2, <1>3 DEF DInv, FreedInv, Behind
  <2> QED BY <1>1, <1>3, <2>2, <2>3, FreedOthers DEF DInv, FreedInv
<1> QED BY <1>4, <1>5, <1>6

\* LoadRoom and ReloadRoom: only the count is read.
LEMMA LoadRoomStep ==
    ASSUME DInv, NEW x, Running(x), LoadRoom(x) \/ ReloadRoom(x), TypeInv'
    PROVE  ActInv' /\ RoomInv' /\ FreedInv'
<1>1. /\ x \in AllItems /\ act[x].pc \in {"loop", "cas"} /\ UNCHANGED <<shape, named>>
      /\ act[x].pc = "loop" => act[x].i <= Len(Kids(x)) /\ ~IsValue(Kid(x))
      /\ freed' = freed /\ room' = room
      /\ \/ act' = [act EXCEPT ![x].pc = "cas", ![x].expected = room]
         \/ act[x].pc = "cas" /\ act' = [act EXCEPT ![x].expected = room]
  BY DEF Running, LoadRoom, ReloadRoom, InLoop
<1>2. act[x].i <= Len(Kids(x)) /\ ~IsValue(Kid(x))
  BY <1>1 DEF DInv, ActInv, ActRight
<1>3. /\ act'[x].pc = "cas" /\ act'[x].i = act[x].i /\ act'[x].threads = act[x].threads
      /\ \A y \in AllItems : y # x => act'[y] = act[y]
      /\ AllItems' = AllItems /\ \A y : Kids(y)' = Kids(y)
  <2>1. act[x] \in Activation /\ DOMAIN act = AllItems
    BY <1>1, ActTypes DEF DInv
  <2>2. CASE act' = [act EXCEPT ![x].pc = "cas", ![x].expected = room]
    BY <1>1, <2>1, <2>2, Static DEF Activation
  <2>3. CASE act[x].pc = "cas" /\ act' = [act EXCEPT ![x].expected = room]
    BY <1>1, <2>1, <2>3, Static DEF Activation
  <2> QED BY <1>1, <2>2, <2>3
<1>4. ActInv'
  <2>1. IsInjective(act[x].threads)
    BY <1>1 DEF DInv, ActInv, ActRight
  <2>2. ActRight(x)'
    BY <1>1, <1>2, <1>3, <2>1, ActSelf DEF DInv
  <2> QED BY <1>1, <1>3, <2>2, ActStep DEF DInv
<1>5. RoomInv'
  BY <1>1, <1>3, <1>4, RoomSame DEF DInv
<1>6. FreedInv'
  <2>1. BottomUp'
    BY <1>1, FreedBottomUp DEF DInv
  <2>2. Behind(x)'
    BY <1>1, <1>3 DEF DInv, FreedInv, Behind
  <2> QED BY <1>1, <1>3, <2>1, <2>2, FreedOthers DEF DInv, FreedInv
<1> QED BY <1>4, <1>5, <1>6

\* NoRoom: the child is called for the first time.
LEMMA NoRoomStep ==
    ASSUME DInv, NEW x, Running(x), NoRoom(x), TypeInv'
    PROVE  ActInv' /\ RoomInv' /\ FreedInv'
<1> DEFINE z == Kid(x)
<1>1. /\ x \in AllItems /\ act[x].pc = "cas" /\ UNCHANGED <<shape, named>>
      /\ freed' = freed /\ room' = room
      /\ act' = [act EXCEPT ![x].pc = "inline", ![z] = Called]
  BY DEF Running, NoRoom
<1>2. act[x].i <= Len(Kids(x)) /\ ~IsValue(z)
  BY <1>1 DEF DInv, ActInv, ActRight
<1>3. act[x].i \in 1 .. Len(Kids(x)) /\ z = Kids(x)[act[x].i] /\ z \in AllItems /\ z # x
  BY <1>1, <1>2, AtKid DEF DInv
<1> HIDE DEF z
<1>4. act[z].pc = "none" /\ act[z].threads = <<>>
  <2>1. ~(act[x].i < act[x].i)
    BY <1>1, ActTypes DEF DInv
  <2>2. act[z].pc = "none"
    BY <1>1, <1>3, <2>1 DEF DInv, ActInv, ActRight
  <2> QED BY <1>3, <2>2 DEF DInv, ActInv, ActRight, NotCalled
<1>5. /\ act'[x].pc = "inline" /\ act'[x].i = act[x].i /\ act'[x].threads = act[x].threads
      /\ act'[z] = Called /\ \A y \in AllItems : y # x /\ y # z => act'[y] = act[y]
      /\ AllItems' = AllItems /\ \A y : Kids(y)' = Kids(y)
  BY <1>1, <1>3, ActTypes, Static DEF DInv, Activation
<1>6. act'[z].threads = <<>> /\ act'[z].pc = "loop"
  BY <1>5 DEF Called, NotCalled
<1>7. ActInv'
  <2>1. IsInjective(act[x].threads)
    BY <1>1 DEF DInv, ActInv, ActRight
  <2>2. ActRight(x)'
    BY <1>1, <1>2, <1>5, <2>1, ActSelf DEF DInv, z
  <2> QED BY <1>1, <1>2, <1>3, <1>4, <1>5, <2>2, ActStep DEF DInv
<1>8. RoomInv'
  BY <1>1, <1>4, <1>5, <1>6, <1>7, RoomSame DEF DInv
<1>9. FreedInv'
  <2>1. BottomUp'
    BY <1>1, FreedBottomUp DEF DInv
  <2>2. Behind(x)'
    BY <1>1, <1>5 DEF DInv, FreedInv, Behind
  <2> QED BY <1>1, <1>5, <2>1, <2>2, FreedOthers DEF DInv, FreedInv
<1> QED BY <1>7, <1>8, <1>9

\* StartThread: the child's thread is a new one, and counted.
LEMMA StartThreadStep ==
    ASSUME DInv, NEW x, Running(x), StartThread(x), TypeInv'
    PROVE  ActInv' /\ RoomInv' /\ FreedInv'
<1> DEFINE z == Kid(x)
<1>1. /\ x \in AllItems /\ act[x].pc = "cas" /\ UNCHANGED <<shape, named>>
      /\ freed' = freed /\ room' = room + 1 /\ room < Concurrency
      /\ act' = [act EXCEPT ![x].pc = "loop", ![x].i = @ + 1, ![x].threads = Append(@, z),
                            ![z] = Called]
  BY DEF Running, StartThread, HasRoom
<1>2. act[x].i <= Len(Kids(x)) /\ ~IsValue(z)
  BY <1>1 DEF DInv, ActInv, ActRight
<1>3. /\ act[x].i \in 1 .. Len(Kids(x)) /\ z = Kids(x)[act[x].i] /\ z \in AllItems /\ z # x
      /\ act[x].i \in Nat /\ act[x].threads \in Seq(AllItems)
  BY <1>1, <1>2, AtKid, ActTypes DEF DInv
<1> HIDE DEF z
<1>4. act[z].pc = "none" /\ act[z].threads = <<>>
  <2>1. ~(act[x].i < act[x].i)
    BY <1>3
  <2>2. act[z].pc = "none"
    BY <1>1, <1>3, <2>1 DEF DInv, ActInv, ActRight
  <2> QED BY <1>3, <2>2 DEF DInv, ActInv, ActRight, NotCalled
<1>5. /\ act'[x].pc = "loop" /\ act'[x].i = act[x].i + 1
      /\ act'[x].threads = Append(act[x].threads, z)
      /\ act'[z] = Called /\ \A y \in AllItems : y # x /\ y # z => act'[y] = act[y]
      /\ AllItems' = AllItems /\ \A y : Kids(y)' = Kids(y)
  <2>1. act[x] \in Activation /\ DOMAIN act = AllItems
    BY <1>1, ActTypes DEF DInv
  <2> QED BY <1>1, <1>3, <2>1, Static DEF Activation
<1>6. act'[z].threads = <<>> /\ act'[z].pc = "loop"
  BY <1>5 DEF Called, NotCalled
\* No thread of anybody is the child's.
<1>7. ASSUME NEW y \in AllItems, NEW j \in 1 .. Len(act[y].threads) PROVE act[y].threads[j] # z
  <2> SUFFICES ASSUME act[y].threads[j] = z PROVE FALSE
    OBVIOUS
  <2>1. PICK k \in 1 .. Len(Kids(y)) : k < act[y].i /\ z = Kids(y)[k]
    BY ThreadKids DEF DInv
  <2>2. Kids(y)[k] = Kids(x)[act[x].i] /\ TypeInv
    BY <1>3, <2>1 DEF DInv
  <2>3. y = x /\ k = act[x].i
    BY <1>1, <1>3, <2>2, OneParent
  <2> QED BY <1>3, <2>1, <2>3
<1>8. /\ Len(act'[x].threads) = Len(act[x].threads) + 1 /\ Len(act[x].threads) \in Nat
      /\ DOMAIN act'[x].threads = 1 .. Len(act'[x].threads)
      /\ DOMAIN act[x].threads = 1 .. Len(act[x].threads)
      /\ \A j \in 1 .. Len(act[x].threads) : act'[x].threads[j] = act[x].threads[j]
      /\ act'[x].threads[Len(act[x].threads) + 1] = z
  BY <1>3, <1>5
<1>9. ActInv'
  <2>1. IsInjective(act'[x].threads)
    <3>1. IsInjective(act[x].threads)
      BY <1>1 DEF DInv, ActInv, ActRight
    <3> SUFFICES ASSUME NEW a \in 1 .. Len(act'[x].threads), NEW b \in 1 .. Len(act'[x].threads),
                        act'[x].threads[a] = act'[x].threads[b]
                 PROVE  a = b
      BY <1>8 DEF IsInjective
    <3>2. CASE a \in 1 .. Len(act[x].threads) /\ b \in 1 .. Len(act[x].threads)
      BY <1>8, <3>1, <3>2 DEF IsInjective
    <3>3. \A c \in 1 .. Len(act'[x].threads) :
             c = Len(act[x].threads) + 1 \/ (c \in 1 .. Len(act[x].threads) /\ act'[x].threads[c] # z)
      <4> TAKE c \in 1 .. Len(act'[x].threads)
      <4>1. CASE c \in 1 .. Len(act[x].threads)
        BY <1>1, <1>7, <1>8, <4>1
      <4> QED BY <1>8, <4>1, SMTT(40)
    <3> QED BY <1>8, <3>2, <3>3
  <2>2. \A j \in 1 .. Len(act'[x].threads) :
           \/ \E k \in 1 .. Len(act[x].threads) : act'[x].threads[j] = act[x].threads[k]
           \/ act'[x].threads[j] = z
    <3> TAKE j \in 1 .. Len(act'[x].threads)
    <3>1. j \in 1 .. Len(act[x].threads) \/ j = Len(act[x].threads) + 1
      BY <1>8
    <3> QED BY <1>8, <3>1
  <2>3. ActRight(x)'
    BY <1>1, <1>2, <1>5, <2>1, <2>2, ActSelf DEF DInv, z
  <2> QED BY <1>1, <1>2, <1>3, <1>4, <1>5, <2>3, ActStep DEF DInv
<1>10. RoomInv'
  <2>1. \A w : w \in Counted <=> \E y \in AllItems : IsThread(act, y, w)
    BY CountedIs DEF DInv
  <2>2. \A w : w \in Counted' <=> \E y \in AllItems : IsThread(act', y, w)
    BY <1>5, <1>9, CountedNext
  <2>3. ASSUME NEW w \in AllItems PROVE act'[w].pc = "gone" <=> act[w].pc = "gone"
    BY <1>1, <1>4, <1>5, <1>6
  <2>4. ASSUME NEW y \in AllItems, NEW w, IsThread(act, y, w) PROVE IsThread(act', y, w)
    <3>1. PICK j \in 1 .. Len(act[y].threads) : act[y].threads[j] = w
      BY <2>4 DEF IsThread
    <3>2. w \in AllItems /\ y # z
      BY <1>4, <3>1, ThreadKids DEF DInv
    <3>3. j \in 1 .. Len(act'[y].threads) /\ act'[y].threads[j] = w
      BY <1>5, <1>8, <3>1, <3>2, SMTT(40)
    <3> QED BY <2>3, <2>4, <3>2, <3>3 DEF IsThread
  <2>5. IsThread(act', x, z)
    <3>1. Len(act[x].threads) + 1 \in 1 .. Len(act'[x].threads)
      BY <1>8
    <3> QED BY <1>6, <1>8, <3>1 DEF IsThread
  <2>6. ASSUME NEW y \in AllItems, NEW w, IsThread(act', y, w) PROVE w = z \/ IsThread(act, y, w)
    <3>1. PICK j \in 1 .. Len(act'[y].threads) : act'[y].threads[j] = w
      BY <2>6 DEF IsThread
    <3>2. y # z
      BY <1>6, <3>1
    <3>3. w = z \/ (j \in 1 .. Len(act[y].threads) /\ act[y].threads[j] = w)
      <4>1. CASE y = x
        <5>1. j \in 1 .. Len(act[x].threads) \/ j = Len(act[x].threads) + 1
          BY <1>8, <3>1, <4>1
        <5> QED BY <1>8, <3>1, <4>1, <5>1
      <4>2. CASE y # x
        BY <1>5, <3>1, <3>2, <4>2
      <4> QED BY <4>1, <4>2
    <3>4. CASE j \in 1 .. Len(act[y].threads) /\ act[y].threads[j] = w
      <4>1. w \in AllItems
        BY <3>4, ThreadKids DEF DInv
      <4> QED BY <2>3, <2>6, <3>4, <4>1 DEF IsThread
    <3> QED BY <3>3, <3>4
  <2>7. Counted' = Counted \cup {z}
    BY <1>1, <2>1, <2>2, <2>4, <2>5, <2>6
  <2>8. z \notin Counted
    BY <1>7, <2>1 DEF IsThread
  <2>9. IsFiniteSet(Counted) /\ room = Cardinality(Counted) /\ room \in Nat
    BY DEF DInv, RoomInv, RoomExact, TypeInv
  <2>10. IsFiniteSet(Counted') /\ Cardinality(Counted') = Cardinality(Counted) + 1
    BY <2>7, <2>8, <2>9, FS_AddElement
  <2>11. room' <= Concurrency
    BY <1>1, <2>9, DestroyAssumption
  <2> QED BY <1>1, <2>9, <2>10, <2>11 DEF RoomInv, RoomExact
<1>11. FreedInv'
  <2>1. BottomUp'
    BY <1>1, FreedBottomUp DEF DInv
  <2>2. Behind(x)'
    <3>1. ASSUME NEW k \in 1 .. Len(Kids(x)), k < act[x].i + 1
          PROVE  \/ Kids(x)[k] \in freed \/ IsContainer(Kids(x)[k])
                 \/ \E j \in 1 .. Len(act'[x].threads) : act'[x].threads[j] = Kids(x)[k]
      <4>1. CASE k < act[x].i
        <5>1. \/ Kids(x)[k] \in freed \/ IsContainer(Kids(x)[k])
              \/ \E j \in 1 .. Len(act[x].threads) : act[x].threads[j] = Kids(x)[k]
          BY <1>1, <4>1 DEF DInv, FreedInv, Behind
        <5>2. ASSUME NEW j \in 1 .. Len(act[x].threads), act[x].threads[j] = Kids(x)[k]
              PROVE  \E m \in 1 .. Len(act'[x].threads) : act'[x].threads[m] = Kids(x)[k]
          <6>1. j \in 1 .. Len(act'[x].threads)
            BY <1>8
          <6> QED BY <1>8, <5>2, <6>1
        <5> QED BY <5>1, <5>2
      <4>2. CASE k = act[x].i
        <5>1. Len(act[x].threads) + 1 \in 1 .. Len(act'[x].threads)
          BY <1>8
        <5> QED BY <1>3, <1>8, <4>2, <5>1
      <4> QED BY <1>3, <3>1, <4>1, <4>2
    <3>2. Kids(x)' = Kids(x) /\ freed' = freed /\ act'[x].i = act[x].i + 1
      BY <1>1, <1>5
    <3> SUFFICES ASSUME NEW k \in 1 .. Len(Kids(x)'), k < act'[x].i
                 PROVE  \/ Kids(x)'[k] \in freed' \/ IsContainer(Kids(x)'[k])
                        \/ \E j \in 1 .. Len(act'[x].threads) : act'[x].threads[j] = Kids(x)'[k]
      BY DEF Behind
    <3> QED BY <3>1, <3>2
  <2> QED BY <1>1, <1>5, <2>1, <2>2, FreedOthers DEF DInv, FreedInv
<1> QED BY <1>9, <1>10, <1>11

\* A call of destroy() that is over has released its item.
LEMMA GoneIsFreed ==
    ASSUME DInv, NEW x \in AllItems, NEW k \in 1 .. Len(Kids(x)), act[Kids(x)[k]].pc = "gone"
    PROVE  Kids(x)[k] \in freed \/ IsContainer(Kids(x)[k])
<1>1. Kids(x)[k] \in AllItems /\ Kids(x)[k] # SessionTable
  BY KidsFacts DEF DInv, SessionTable
<1> QED BY <1>1 DEF DInv, FreedInv

\* Return: the child is released, the next one follows.
LEMMA ReturnStep ==
    ASSUME DInv, NEW x, Running(x), Return(x), TypeInv'
    PROVE  ActInv' /\ RoomInv' /\ FreedInv'
<1>1. /\ x \in AllItems /\ act[x].pc = "inline" /\ UNCHANGED <<shape, named>>
      /\ freed' = freed /\ room' = room /\ act[Kid(x)].pc = "gone"
      /\ act' = [act EXCEPT ![x].pc = "loop", ![x].i = @ + 1]
  BY DEF Running, Return
<1>2. act[x].i <= Len(Kids(x)) /\ TypeInv
  BY <1>1 DEF DInv, ActInv, ActRight
<1>3. act[x].i \in 1 .. Len(Kids(x)) /\ Kid(x) = Kids(x)[act[x].i] /\ act[x].i \in Nat
  BY <1>1, <1>2, AtKid, ActTypes
<1>4. /\ act'[x].pc = "loop" /\ act'[x].i = act[x].i + 1 /\ act'[x].threads = act[x].threads
      /\ \A y \in AllItems : y # x => act'[y] = act[y]
      /\ AllItems' = AllItems /\ \A y : Kids(y)' = Kids(y)
  <2>1. act[x] \in Activation /\ DOMAIN act = AllItems
    BY <1>1, <1>2, ActTypes
  <2> QED BY <1>1, <2>1, Static DEF Activation
<1>5. ActInv'
  <2>1. IsInjective(act[x].threads)
    BY <1>1 DEF DInv, ActInv, ActRight
  <2>2. ActRight(x)'
    BY <1>1, <1>2, <1>4, <2>1, ActSelf DEF DInv
  <2> QED BY <1>1, <1>4, <2>2, ActStep DEF DInv
<1>6. RoomInv'
  BY <1>1, <1>4, <1>5, RoomSame DEF DInv
<1>7. FreedInv'
  <2>1. BottomUp'
    BY <1>1, FreedBottomUp DEF DInv
  <2>2. Behind(x)'
    <3>1. Kid(x) \in freed \/ IsContainer(Kid(x))
      BY <1>1, <1>3, GoneIsFreed
    <3>2. ASSUME NEW k \in 1 .. Len(Kids(x)), k < act[x].i + 1
          PROVE  \/ Kids(x)[k] \in freed \/ IsContainer(Kids(x)[k])
                 \/ \E j \in 1 .. Len(act[x].threads) : act[x].threads[j] = Kids(x)[k]
      <4>1. CASE k < act[x].i
        BY <1>1, <4>1 DEF DInv, FreedInv, Behind
      <4>2. CASE k = act[x].i
        BY <1>3, <3>1, <4>2
      <4> QED BY <1>3, <3>2, <4>1, <4>2
    <3> QED BY <1>1, <1>4, <3>2 DEF Behind
  <2> QED BY <1>1, <1>4, <2>1, <2>2, FreedOthers DEF DInv, FreedInv
<1> QED BY <1>5, <1>6, <1>7

\* Delete: nothing is left below x.
LEMMA DeleteStep ==
    ASSUME DInv, NEW x, Running(x), Delete(x), TypeInv'
    PROVE  ActInv' /\ RoomInv' /\ FreedInv'
<1>1. /\ x \in AllItems /\ act[x].pc = "loop" /\ UNCHANGED <<shape, named>> /\ TypeInv
      /\ act[x].i > Len(Kids(x)) /\ act[x].threads = <<>> /\ ~IsContainer(x)
      /\ freed' = (IF x = SessionTable THEN freed ELSE freed \cup {x}) /\ room' = room
      /\ act' = [act EXCEPT ![x].pc = "gone"]
  BY DEF Running, Delete, DInv
<1>2. /\ act'[x].pc = "gone" /\ act'[x].i = act[x].i /\ act'[x].threads = act[x].threads
      /\ \A y \in AllItems : y # x => act'[y] = act[y]
      /\ AllItems' = AllItems /\ \A y : Kids(y)' = Kids(y)
  <2>1. act[x] \in Activation /\ DOMAIN act = AllItems
    BY <1>1, ActTypes
  <2> QED BY <1>1, <2>1, Static DEF Activation
<1>3. ActInv'
  <2>1. IsInjective(act[x].threads)
    BY <1>1 DEF DInv, ActInv, ActRight
  <2>2. ActRight(x)'
    BY <1>1, <1>2, <2>1, ActSelf DEF DInv
  <2> QED BY <1>1, <1>2, <2>2, ActStep DEF DInv
<1>4. RoomInv'
  BY <1>1, <1>2, <1>3, RoomSame DEF DInv
<1>5. FreedInv'
  <2>1. Len(Kids(x)) \in Nat /\ DOMAIN Kids(x) = 1 .. Len(Kids(x)) /\ act[x].i \in Nat
    BY <1>1, KidsFacts, ActTypes
  <2>2. ASSUME NEW k \in 1 .. Len(Kids(x)), x # SessionTable PROVE Kids(x)[k] \in freed
    <3>1. k < act[x].i /\ ~IsContainer(Kids(x)[k])
      BY <1>1, <2>1, <2>2, KidsFacts, SMTT(40)
    <3>2. \/ Kids(x)[k] \in freed
          \/ \E j \in 1 .. Len(act[x].threads) : act[x].threads[j] = Kids(x)[k]
      BY <1>1, <3>1 DEF DInv, FreedInv, Behind
    <3> QED BY <1>1, <3>2
  <2>3. BottomUp'
    BY <1>1, <2>1, <2>2, FreedBottomUp DEF DInv
  <2>4. Behind(x)'
    BY <1>1, <1>2 DEF DInv, FreedInv, Behind
  <2> QED BY <1>1, <1>2, <2>3, <2>4, FreedOthers DEF DInv, FreedInv
<1> QED BY <1>3, <1>4, <1>5

\* A thread that is no more counted.
LEMMA RoomLess ==
    ASSUME DInv, TypeInv', ActInv', AllItems' = AllItems, room' = room - 1, NEW h,
           \E y \in AllItems : IsThread(act, y, h),
           \A y \in AllItems : ~IsThread(act', y, h),
           \A y \in AllItems : \A w : w # h => (IsThread(act', y, w) <=> IsThread(act, y, w))
    PROVE  RoomInv'
<1>1. \A w : w \in Counted <=> \E y \in AllItems : IsThread(act, y, w)
  BY CountedIs DEF DInv
<1>2. \A w : w \in Counted' <=> \E y \in AllItems : IsThread(act', y, w)
  BY CountedNext
<1>3. h \in Counted /\ Counted' = Counted \ {h}
  BY <1>1, <1>2
<1>4. /\ IsFiniteSet(Counted) /\ room = Cardinality(Counted) /\ room <= Concurrency
      /\ room \in Nat /\ Concurrency \in Nat
  BY DestroyAssumption DEF DInv, RoomInv, RoomExact, TypeInv
<1>5. IsFiniteSet(Counted') /\ Cardinality(Counted') = Cardinality(Counted) - 1
  BY <1>3, <1>4, FS_RemoveElement
<1>6. room' <= Concurrency
  BY <1>4
<1> QED BY <1>4, <1>5, <1>6 DEF RoomInv, RoomExact

\* Join: the first thread is over, and its room is returned here unless it did so itself.
LEMMA JoinStep ==
    ASSUME DInv, NEW x, Running(x), Join(x), TypeInv'
    PROVE  ActInv' /\ RoomInv' /\ FreedInv'
<1> DEFINE s == act[x].threads
           h == Head(s)
<1>1. /\ x \in AllItems /\ act[x].pc = "loop" /\ UNCHANGED <<shape, named>> /\ TypeInv
      /\ s # <<>> /\ act[h].pc = "gone" /\ freed' = freed
      /\ room' = (IF x = SessionTable THEN room ELSE room - 1)
      /\ act' = [act EXCEPT ![x].threads = Tail(@)]
  BY DEF Running, Join, DInv
<1>2. /\ act'[x].pc = "loop" /\ act'[x].i = act[x].i /\ act'[x].threads = Tail(s)
      /\ \A y \in AllItems : y # x => act'[y] = act[y]
      /\ AllItems' = AllItems /\ \A y : Kids(y)' = Kids(y)
  <2>1. act[x] \in Activation /\ DOMAIN act = AllItems
    BY <1>1, ActTypes
  <2> QED BY <1>1, <2>1, Static DEF Activation
<1>3. s \in Seq(AllItems) /\ IsInjective(s)
  BY <1>1, ActTypes DEF DInv, ActInv, ActRight
<1> HIDE DEF s
<1>4. /\ Len(s) \in Nat /\ Len(s) >= 1 /\ DOMAIN s = 1 .. Len(s) /\ h = s[1] /\ 1 \in 1 .. Len(s)
      /\ Len(Tail(s)) = Len(s) - 1 /\ DOMAIN Tail(s) = 1 .. Len(s) - 1
      /\ \A j \in 1 .. Len(s) - 1 : Tail(s)[j] = s[j + 1]
  BY <1>1, <1>3
<1>5. \A j \in 1 .. Len(s) - 1 : j + 1 \in 1 .. Len(s) /\ Tail(s)[j] # h
  <2> TAKE j \in 1 .. Len(s) - 1
  <2>1. j + 1 \in 1 .. Len(s) /\ j + 1 # 1
    BY <1>4
  <2> QED BY <1>3, <1>4, <2>1 DEF IsInjective
<1>6. ASSUME NEW j \in 1 .. Len(s), s[j] # h
      PROVE  \E m \in 1 .. Len(Tail(s)) : Tail(s)[m] = s[j]
  <2>1. j - 1 \in 1 .. Len(s) - 1 /\ (j - 1) + 1 = j
    BY <1>4, <1>6
  <2> QED BY <1>4, <2>1
<1>7. /\ \E k \in 1 .. Len(Kids(x)) : k < act[x].i /\ h = Kids(x)[k]
      /\ h \in AllItems /\ h # x
      /\ IsContainer(h) <=> x = SessionTable
  BY <1>1, <1>4, ThreadKids DEF DInv, s
<1> HIDE DEF h
<1>8. ActInv'
  <2>1. IsInjective(Tail(s))
    <3> SUFFICES ASSUME NEW a \in 1 .. Len(s) - 1, NEW b \in 1 .. Len(s) - 1, Tail(s)[a] = Tail(s)[b]
                 PROVE  a = b
      BY <1>4 DEF IsInjective
    <3>1. s[a + 1] = s[b + 1] /\ a + 1 \in 1 .. Len(s) /\ b + 1 \in 1 .. Len(s)
      BY <1>4, <1>5
    <3>2. a + 1 = b + 1
      BY <1>3, <1>4, <3>1 DEF IsInjective
    <3> QED BY <1>4, <3>2
  <2>2. \A j \in 1 .. Len(Tail(s)) : \E k \in 1 .. Len(s) : Tail(s)[j] = s[k]
    BY <1>4, <1>5
  <2>3. ActRight(x)'
    BY <1>1, <1>2, <2>1, <2>2, ActSelf DEF DInv, s
  <2> QED BY <1>1, <1>2, <2>3, ActStep DEF DInv
<1>9. RoomInv'
  <2>1. ASSUME NEW y \in AllItems, NEW j \in 1 .. Len(act[y].threads), act[y].threads[j] = h
        PROVE  y = x
    BY <1>1, <1>7, <2>1, ThreadKids, OneParent DEF DInv
  <2>2. ASSUME NEW y \in AllItems, NEW w, w # h PROVE IsThread(act', y, w) <=> IsThread(act, y, w)
    <3>1. \A j \in 1 .. Len(act[y].threads) : act[y].threads[j] \in AllItems
      BY <1>1, ActTypes
    <3>2. \A z \in AllItems : act'[z].pc = act[z].pc
      BY <1>1, <1>2
    <3>3. CASE y # x
      BY <1>2, <3>1, <3>2, <3>3 DEF IsThread
    <3>4. CASE y = x
      <4>1. (\E j \in 1 .. Len(s) : s[j] = w) <=> (\E j \in 1 .. Len(Tail(s)) : Tail(s)[j] = w)
        BY <1>4, <1>5, <1>6, <2>2
      <4> QED BY <1>2, <3>1, <3>2, <3>4, <4>1 DEF IsThread, s
    <3> QED BY <3>3, <3>4
  <2>3. ASSUME NEW y \in AllItems PROVE ~IsThread(act', y, h)
    BY <1>2, <1>4, <1>5, <2>1, SMTT(40) DEF IsThread
  <2>4. CASE x = SessionTable
    <3>1. ASSUME NEW y \in AllItems PROVE ~IsThread(act, y, h)
      BY <1>1, <2>1, <2>4 DEF IsThread
    <3>2. \A y \in AllItems : \A w : IsThread(act', y, w) <=> IsThread(act, y, w)
      BY <2>2, <2>3, <3>1
    <3> QED BY <1>1, <1>2, <1>8, <2>4, <3>2, RoomKeep DEF DInv
  <2>5. CASE x # SessionTable
    <3>1. IsThread(act, x, h)
      BY <1>4, <2>5 DEF IsThread, s
    <3> QED BY <1>1, <1>2, <1>8, <2>2, <2>3, <2>5, <3>1, RoomLess
  <2> QED BY <2>4, <2>5
<1>10. FreedInv'
  <2>1. BottomUp'
    BY <1>1, FreedBottomUp DEF DInv
  <2>2. Behind(x)'
    <3>1. h \in freed \/ IsContainer(h)
      BY <1>1, <1>7, GoneIsFreed
    <3>2. ASSUME NEW k \in 1 .. Len(Kids(x)), k < act[x].i
          PROVE  \/ Kids(x)[k] \in freed \/ IsContainer(Kids(x)[k])
                 \/ \E j \in 1 .. Len(Tail(s)) : Tail(s)[j] = Kids(x)[k]
      <4>1. \/ Kids(x)[k] \in freed \/ IsContainer(Kids(x)[k])
            \/ \E j \in 1 .. Len(s) : s[j] = Kids(x)[k]
        BY <1>1, <3>2 DEF DInv, FreedInv, Behind, s
      <4> QED BY <1>6, <3>1, <4>1
    <3> QED BY <1>1, <1>2, <3>2 DEF Behind
  <2> QED BY <1>1, <1>2, <2>1, <2>2, FreedOthers DEF DInv, FreedInv
<1> QED BY <1>8, <1>9, <1>10

\* ReleaseContainers: a thread of the table of sessions ends and returns its room.
LEMMA ReleaseContainersStep ==
    ASSUME DInv, NEW x, Running(x), NEW n \in Slots, x = Containers(n), ReleaseContainers(n), TypeInv'
    PROVE  ActInv' /\ RoomInv' /\ FreedInv'
<1> DEFINE counts == \E j \in 1 .. Len(act[SessionTable].threads) : act[SessionTable].threads[j] = x
<1>1. /\ x \in AllItems /\ act[x].pc = "loop" /\ UNCHANGED <<shape, named>> /\ TypeInv
      /\ freed' = freed \cup retired[n] /\ act' = [act EXCEPT ![x].pc = "gone"]
      /\ room' = (IF counts THEN room - 1 ELSE room)
  BY DEF Running, ReleaseContainers, DInv, Contains
<1>2. /\ act'[x].pc = "gone" /\ act'[x].i = act[x].i /\ act'[x].threads = act[x].threads
      /\ \A y \in AllItems : y # x => act'[y] = act[y]
      /\ AllItems' = AllItems /\ \A y : Kids(y)' = Kids(y)
  <2>1. act[x] \in Activation /\ DOMAIN act = AllItems
    BY <1>1, ActTypes
  <2> QED BY <1>1, <2>1, Static DEF Activation
<1>3. Kids(x) = <<>> /\ IsContainer(x) /\ x # SessionTable
  BY KidsOfOthers
<1>4. act[x].threads = <<>>
  <2>1. act[x].threads \in Seq(AllItems)
    BY <1>1, ActTypes
  <2>2. ASSUME NEW j \in 1 .. Len(act[x].threads) PROVE FALSE
    <3>1. PICK k \in 1 .. Len(Kids(x)) : act[x].threads[j] = Kids(x)[k]
      BY <1>1, ThreadKids DEF DInv
    <3> QED BY <1>3
  <2>3. Len(act[x].threads) = 0
    BY <2>1, <2>2
  <2> QED BY <2>1, <2>3
<1>5. ActInv'
  <2>1. IsInjective(act[x].threads)
    BY <1>1 DEF DInv, ActInv, ActRight
  <2>2. ActRight(x)'
    BY <1>1, <1>2, <1>4, <2>1, ActSelf DEF DInv
  <2> QED BY <1>1, <1>2, <2>2, ActStep DEF DInv
<1>6. RoomInv'
  <2>1. \A y \in AllItems : act'[y].threads = act[y].threads
    BY <1>2
  <2>2. ASSUME NEW y \in AllItems, NEW j \in 1 .. Len(act[y].threads), act[y].threads[j] = x
        PROVE  y = SessionTable
    BY <1>1, <1>3, <2>2, ThreadKids DEF DInv
  <2>3. ASSUME NEW y \in AllItems, NEW w, w # x PROVE IsThread(act', y, w) <=> IsThread(act, y, w)
    <3>1. \A j \in 1 .. Len(act[y].threads) : act[y].threads[j] \in AllItems
      BY <1>1, ActTypes
    <3> QED BY <1>2, <2>1, <2>3, <3>1 DEF IsThread
  <2>4. ASSUME NEW y \in AllItems PROVE ~IsThread(act', y, x)
    BY <1>2, <2>1, <2>2 DEF IsThread
  <2>5. SessionTable \in AllItems
    BY DEF AllItems
  <2>6. CASE counts
    <3>1. IsThread(act, SessionTable, x)
      BY <1>1, <2>6 DEF IsThread
    <3> QED BY <1>1, <1>2, <1>5, <2>3, <2>4, <2>5, <2>6, <3>1, RoomLess
  <2>7. CASE ~counts
    <3>1. \A y \in AllItems : ~IsThread(act, y, x)
      BY <2>2, <2>7 DEF IsThread
    <3>2. \A y \in AllItems : \A w : IsThread(act', y, w) <=> IsThread(act, y, w)
      BY <2>3, <2>4, <3>1
    <3> QED BY <1>1, <1>2, <1>5, <2>7, <3>2, RoomKeep DEF DInv
  <2> QED BY <2>6, <2>7
<1>7. FreedInv'
  <2>1. \A y \in retired[n] : Kids(y) = <<>>
    BY KidsOfOthers DEF DInv, TypeInv, Entries
  <2>2. BottomUp'
    BY <1>1, <2>1, FreedBottomUp DEF DInv
  <2>3. Behind(x)'
    BY <1>2, <1>3 DEF Behind
  <2> QED BY <1>1, <1>2, <1>3, <2>2, <2>3, FreedOthers DEF DInv, FreedInv
<1> QED BY <1>5, <1>6, <1>7

\* A room is returned only where one is taken.
LEMMA RoomTaken ==
    ASSUME DInv, NEW y \in AllItems, NEW h, IsThread(act, y, h)
    PROVE  room - 1 \in Nat
<1>1. h \in Counted
  BY CountedIs DEF DInv
<1>2. IsFiniteSet(Counted) /\ room = Cardinality(Counted) /\ room \in Nat
  BY DEF DInv, RoomInv, RoomExact, TypeInv
<1>3. room # 0
  BY <1>1, <1>2, FS_EmptySet
<1> QED BY <1>2, <1>3

\* Which room a step takes or returns.
LEMMA RoomType ==
    ASSUME DInv, NEW x, Running(x), DestroyStep(x)
    PROVE  room' \in Nat
<1>1. room \in Nat /\ x \in AllItems /\ TypeInv
  BY DEF DInv, TypeInv, Running
<1>2. CASE Join(x)
  <2>1. act[x].threads \in Seq(AllItems) /\ act[x].threads # <<>>
    BY <1>1, <1>2, ActTypes DEF Join
  <2>2. Head(act[x].threads) = act[x].threads[1] /\ 1 \in 1 .. Len(act[x].threads)
    BY <2>1
  <2>3. x # SessionTable => room - 1 \in Nat
    BY <1>1, <2>2, RoomTaken DEF IsThread
  <2> QED BY <1>1, <1>2, <2>3 DEF Join
<1>3. ASSUME NEW s \in Slots, x = Containers(s), ReleaseContainers(s) PROVE room' \in Nat
  <2>1. SessionTable \in AllItems
    BY DEF AllItems
  <2>2. Contains(act[SessionTable].threads, x) => room - 1 \in Nat
    BY <1>1, <1>3, <2>1, RoomTaken DEF IsThread, Contains, ReleaseContainers
  <2> QED BY <1>1, <1>3, <2>2 DEF ReleaseContainers
<1>4. CASE ReleaseValue(x) \/ LoadRoom(x) \/ NoRoom(x) \/ StartThread(x) \/ ReloadRoom(x)
           \/ Return(x) \/ Delete(x)
  BY <1>1, <1>4 DEF ReleaseValue, LoadRoom, NoRoom, StartThread, ReloadRoom, Return, Delete
<1> QED BY <1>2, <1>3, <1>4 DEF DestroyStep

\* A step changes the call of x and at most one of a child of x, and releases
\* x, children of x or entries.
LEMMA DestroyFrame ==
    ASSUME DInv, NEW x, Running(x), DestroyStep(x)
    PROVE  /\ act' \in [AllItems -> Activation]
           /\ \A y \in AllItems : 
                 y # x => act'[y] = act[y] \/ \E k \in 1 .. Len(Kids(x)) : y = Kids(x)[k]
           /\ \A y \in freed' :
                 y \in freed \cup {x} \cup Entries \/ \E k \in 1 .. Len(Kids(x)) : y = Kids(x)[k]
<1>1. /\ x \in AllItems /\ TypeInv /\ act \in [AllItems -> Activation]
      /\ act[x] \in Activation /\ act[x].i \in Nat /\ room \in Nat
      /\ act[x].threads \in Seq(AllItems) /\ act[x].i >= 1
  BY ActTypes DEF DInv, TypeInv, Running
<1>2. act[x].i + 1 \in Nat \ {0}
  BY <1>1
<1>3. ASSUME act[x].i <= Len(Kids(x))
      PROVE  Kid(x) \in AllItems /\ \E k \in 1 .. Len(Kids(x)) : Kid(x) = Kids(x)[k]
  BY <1>1, <1>3, AtKid
<1>4. act[x].pc \in {"cas", "inline"} => act[x].i <= Len(Kids(x))
  BY <1>1 DEF DInv, ActInv, ActRight
<1>5. {"loop", "cas", "inline", "gone"} \subseteq Labels
  BY DEF Labels
<1>6. CASE ReleaseValue(x)
  <2>1. [act[x] EXCEPT !.i = @ + 1] \in Activation
    BY <1>1, <1>2 DEF Activation
  <2> QED BY <1>1, <1>3, <1>6, <2>1 DEF ReleaseValue, InLoop
<1>7. CASE LoadRoom(x) \/ ReloadRoom(x)
  <2>1. [act[x] EXCEPT !.pc = "cas", !.expected = room] \in Activation
        /\ [act[x] EXCEPT !.expected = room] \in Activation
    BY <1>1, <1>5 DEF Activation
  <2> QED BY <1>1, <1>7, <2>1 DEF LoadRoom, ReloadRoom
<1>8. CASE NoRoom(x)
  <2>1. [act[x] EXCEPT !.pc = "inline"] \in Activation /\ Called \in Activation
    BY <1>1, <1>5, CalledType DEF Activation
  <2>2. /\ act' = [act EXCEPT ![x] = [act[x] EXCEPT !.pc = "inline"], ![Kid(x)] = Called]
        /\ freed' = freed /\ Kid(x) \in AllItems
        /\ \E k \in 1 .. Len(Kids(x)) : Kid(x) = Kids(x)[k]
    BY <1>3, <1>4, <1>8 DEF NoRoom
  <2> QED BY <1>1, <2>1, <2>2
<1>9. CASE StartThread(x)
  <2>1. Kid(x) \in AllItems /\ \E k \in 1 .. Len(Kids(x)) : Kid(x) = Kids(x)[k]
    BY <1>3, <1>4, <1>9 DEF StartThread
  <2>2. Append(act[x].threads, Kid(x)) \in Seq(AllItems)
    BY <1>1, <2>1
  <2> DEFINE b == [act[x] EXCEPT !.pc = "loop", !.i = @ + 1, !.threads = Append(@, Kid(x))]
  <2>3. b \in Activation /\ Called \in Activation
    BY <1>1, <1>2, <1>5, <2>2, CalledType DEF Activation
  <2>4. act' = [act EXCEPT ![x] = b, ![Kid(x)] = Called] /\ freed' = freed
    BY <1>1, <1>9 DEF StartThread
  <2> QED BY <1>1, <2>1, <2>3, <2>4
<1>10. CASE Return(x)
  <2>1. [act[x] EXCEPT !.pc = "loop", !.i = @ + 1] \in Activation
    BY <1>1, <1>2, <1>5 DEF Activation
  <2> QED BY <1>1, <1>10, <2>1 DEF Return
<1>11. CASE Join(x)
  <2>1. Tail(act[x].threads) \in Seq(AllItems)
    BY <1>1, <1>11 DEF Join
  <2>2. [act[x] EXCEPT !.threads = Tail(@)] \in Activation
    BY <1>1, <2>1 DEF Activation
  <2> QED BY <1>1, <1>11, <2>2 DEF Join
<1>12. CASE Delete(x)
  <2>1. [act[x] EXCEPT !.pc = "gone"] \in Activation
    BY <1>1, <1>5 DEF Activation
  <2> QED BY <1>1, <1>12, <2>1 DEF Delete
<1>13. ASSUME NEW s \in Slots, x = Containers(s), ReleaseContainers(s)
       PROVE  /\ act' \in [AllItems -> Activation]
              /\ \A y \in AllItems : y # x => act'[y] = act[y]
              /\ freed' \subseteq freed \cup Entries
  <2>1. [act[x] EXCEPT !.pc = "gone"] \in Activation /\ retired[s] \subseteq Entries
    BY <1>1, <1>5 DEF Activation, TypeInv
  <2> QED BY <1>1, <1>13, <2>1 DEF ReleaseContainers
<1> QED BY <1>6, <1>7, <1>8, <1>9, <1>10, <1>11, <1>12, <1>13 DEF DestroyStep

\* A step of a thread that destroys keeps the invariant.
LEMMA DestroyerStep ==
    ASSUME IInv, NEW x \in Active, Destroyer(x)
    PROVE  IInv'
<1>1. /\ DInv /\ TypeInv /\ Running(x) /\ DestroyStep(x) /\ x \in AllItems
      /\ UNCHANGED <<shape, named, retired, hasRoot, made, sess, behind, client, life, ends, mixed>>
  BY DEF IInv, DInv, Active, TypeInv, Destroyer, DestroyStep, Running
<1>2. /\ act' \in [AllItems -> Activation] /\ AllItems' = AllItems
      /\ \A y \in AllItems : 
            y # x => act'[y] = act[y] \/ \E k \in 1 .. Len(Kids(x)) : y = Kids(x)[k]
      /\ \A y \in freed' :
            y \in freed \cup {x} \cup Entries \/ \E k \in 1 .. Len(Kids(x)) : y = Kids(x)[k]
  BY <1>1, DestroyFrame, Static
<1>3. TypeInv'
  BY <1>1, <1>2, RoomType, TypeStep DEF client, life, TypeInv
<1>4. ActInv' /\ RoomInv' /\ FreedInv'
  BY <1>1, <1>3, ReleaseValueStep, LoadRoomStep, NoRoomStep, StartThreadStep, ReturnStep, JoinStep,
     DeleteStep, ReleaseContainersStep DEF DestroyStep
<1>5. StoragesInv'
  <2>1. Storages \in AllItems /\ \A k \in 1 .. Len(Kids(x)) : Kids(x)[k] # Storages
    BY <1>1, KidsFacts DEF AllItems, Storages
  <2>2. Storages \notin Entries
    BY KidsOfOthers DEF Entries
  <2>3. CASE x = Storages
    <3>1. main = "storages" /\ act[Storages].pc \notin {"none", "gone"}
      BY <2>3, <1>1 DEF IInv, StoragesInv, Running
    <3> QED BY <1>1, <3>1 DEF IInv, StoragesInv, life
  <2>4. CASE x # Storages
    <3>1. act'[Storages] = act[Storages] /\ (Storages \in freed' => Storages \in freed)
      BY <1>2, <2>1, <2>2, <2>4
    <3> QED BY <1>1, <3>1 DEF IInv, StoragesInv, life
  <2> QED BY <2>3, <2>4
<1>6. TableInv'
  <2> SUFFICES ASSUME main # "table", NEW y \in AllItems, y[1] = -1 PROVE act'[y] = NotCalled
    BY <1>1, <1>2 DEF TableInv, life
  <2>1. \A z \in AllItems : z[1] = -1 => act[z] = NotCalled
    BY DEF IInv, TableInv
  <2>2. x[1] # -1
    BY <1>1, <2>1 DEF Running, NotCalled
  <2>3. x # SessionTable
    BY <2>2, KidsOfOthers
  <2>4. \A k \in 1 .. Len(Kids(x)) : Kids(x)[k] # y
    <3>1. y = SessionTable \/ IsContainer(y)
      BY DEF IsContainer
    <3> QED BY <1>1, <2>3, <3>1, KidsFacts DEF SessionTable
  <2> QED BY <1>2, <2>1, <2>2, <2>4
<1>7. CallInv'
  BY <1>1 DEF IInv, CallInv, CallRight, client, life
<1> QED BY <1>3, <1>4, <1>5, <1>6, <1>7 DEF IInv

-----------------------------------------------------------------------------
(* Steps of the clients.                                                   *)

\* A step that releases nothing and calls no destroy() leaves the trees as they are.
LEMMA TreesSame ==
    ASSUME DInv, UNCHANGED <<shape, named, act, room, freed>>, TypeInv'
    PROVE  ActInv' /\ RoomInv' /\ FreedInv'
<1>1. AllItems' = AllItems /\ \A y : Kids(y)' = Kids(y) /\ IsValue(y)' = IsValue(y)
  BY Static
<1>2. ActInv'
  BY <1>1 DEF DInv, ActInv, ActRight, Kid
<1>3. RoomInv'
  BY <1>1, <1>2, RoomSame DEF DInv
<1>4. FreedInv'
  <2>1. BottomUp'
    BY FreedBottomUp DEF DInv
  <2> QED BY <1>1, <2>1, FreedOthers DEF DInv, FreedInv
<1> QED BY <1>2, <1>3, <1>4

\* What a step of c is to the others.
Alone(c) ==
    /\ UNCHANGED <<shape, main, todo>> /\ made' >= made /\ made' \in 0 .. MaxTrees
    /\ mine' \in [Clients -> Trees \cup {None}]
    /\ DOMAIN pc' = Clients /\ DOMAIN op' = Clients /\ DOMAIN answer' = Clients /\ DOMAIN may' = Clients
    /\ \A d \in Clients \ {c} : /\ pc'[d] = pc[d] /\ op'[d] = op[d] /\ mine'[d] = mine[d]
                                /\ answer'[d] = answer[d] /\ may'[d] = may[d]
    /\ may'[c] \in {may[c], {}}

\* It leaves their calls right.
LEMMA OtherCalls ==
    ASSUME TypeInv, CallInv, NEW c \in Clients, Alone(c), CallRight(c)'
    PROVE  CallInv'
<1>1. ASSUME NEW d \in Clients PROVE CallRight(d)'
  BY <1>1 DEF CallInv, CallRight, Alone
<1>2. \A d \in Clients : may'[d] \subseteq [type : {"create", "delete"}, name : Names]
  BY DEF CallInv, Alone
<1>3. \A t \in Trees : t > made' => shape'[t] = Empty
  <2>1. Trees \subseteq Nat /\ made \in Nat /\ made' \in Nat
    BY DestroyAssumption DEF TypeInv, Trees, Alone
  <2> QED BY <2>1 DEF CallInv, Alone
<1> QED BY <1>1, <1>2, <1>3 DEF CallInv

\* A step of c that names, retires and releases nothing and calls no destroy().
LEMMA PlainStep ==
    ASSUME IInv, NEW c \in Clients, Alone(c), CallRight(c)',
           UNCHANGED <<named, retired, act, room, freed, hasRoot>>
    PROVE  IInv'
<1>1. TypeInv /\ DInv /\ StoragesInv /\ TableInv /\ CallInv
  BY DEF IInv, DInv
<1>2. AllItems' = AllItems
  BY Static DEF Alone
<1>3. TypeInv'
  BY <1>1, TypeStep DEF Alone, TypeInv
<1>4. ActInv' /\ RoomInv' /\ FreedInv'
  BY <1>1, <1>3, TreesSame DEF Alone
<1>5. StoragesInv' /\ TableInv'
  BY <1>1, <1>2 DEF StoragesInv, TableInv, Alone
<1>6. CallInv'
  BY <1>1, OtherCalls
<1> QED BY <1>3, <1>4, <1>5, <1>6 DEF IInv

\* The types of what the clients' steps change.
LEMMA ClientTypes ==
    ASSUME IInv, NEW c \in Clients
    PROVE  /\ CallRight(c) /\ made \in 0 .. MaxTrees /\ MaxTrees \in Nat
           /\ DOMAIN pc = Clients /\ DOMAIN op = Clients /\ DOMAIN answer = Clients /\ DOMAIN may = Clients
           /\ mine \in [Clients -> Trees \cup {None}] /\ named \in [Names -> Trees \cup {None}]
           /\ None \notin Trees /\ may[c] \subseteq [type : {"create", "delete"}, name : Names]
BY DestroyAssumption DEF IInv, TypeInv, CallInv, Trees

\* Call: a create_storage has a tree of its own, with an empty node.
LEMMA CallKeeps ==
    ASSUME IInv, NEW c \in Clients, NEW o \in may[c], Call(c, o)
    PROVE  IInv'
<1>1. /\ CallRight(c) /\ made \in 0 .. MaxTrees /\ MaxTrees \in Nat
      /\ DOMAIN pc = Clients /\ DOMAIN op = Clients /\ DOMAIN answer = Clients /\ DOMAIN may = Clients
      /\ mine \in [Clients -> Trees \cup {None}] /\ o \in [type : {"create", "delete"}, name : Names]
  BY ClientTypes
<1>2. /\ main = "up" /\ may' = [may EXCEPT ![c] = {}] /\ op' = [op EXCEPT ![c] = o]
      /\ pc' = [pc EXCEPT ![c] = "enter"] /\ answer' = answer
      /\ UNCHANGED <<named, shape, hasRoot, retired, act, room, freed, main, todo>>
  BY DEF Call, Goto, destroying, life
<1>3. \/ /\ o.type = "create" /\ made < MaxTrees /\ made' = made + 1
         /\ mine' = [mine EXCEPT ![c] = made + 1]
      \/ o.type # "create" /\ made' = made /\ mine' = mine
  BY DEF Call
<1>4. made' \in 0 .. MaxTrees /\ made' >= made /\ mine' \in [Clients -> Trees \cup {None}]
  BY <1>1, <1>3 DEF Trees
<1>5. Alone(c)
  BY <1>1, <1>2, <1>3, <1>4 DEF Alone
<1>6. o.type = "create" => mine'[c] \in Trees /\ shape[mine'[c]] = Empty
  <2> SUFFICES ASSUME o.type = "create" PROVE made + 1 \in Trees /\ shape[made + 1] = Empty
    BY <1>1, <1>3
  <2>1. made + 1 \in Trees /\ made + 1 > made
    BY <1>1, <1>3 DEF Trees
  <2> QED BY <2>1 DEF IInv, CallInv
<1>7. CallRight(c)'
  BY <1>1, <1>2, <1>6 DEF CallRight
<1> QED BY <1>2, <1>5, <1>7, PlainStep

\* Enter, GetEntry and StoreRoot.
LEMMA PlainKeeps ==
    ASSUME IInv, NEW c \in Clients, Enter(c) \/ GetEntry(c) \/ StoreRoot(c)
    PROVE  IInv'
<1>1. /\ CallRight(c) /\ made \in 0 .. MaxTrees /\ MaxTrees \in Nat
      /\ DOMAIN pc = Clients /\ DOMAIN op = Clients /\ DOMAIN answer = Clients /\ DOMAIN may = Clients
      /\ mine \in [Clients -> Trees \cup {None}] /\ named \in [Names -> Trees \cup {None}]
      /\ made >= made
  BY ClientTypes
<1>2. UNCHANGED <<named, shape, hasRoot, retired, act, room, freed, main, todo, made, op, may>>
  BY DEF Enter, GetEntry, StoreRoot, destroying, table, life
<1>3. CASE Enter(c)
  <2>1. /\ pc[c] = "enter" /\ UNCHANGED <<mine, answer>>
        /\ pc' = [pc EXCEPT ![c] = IF op[c].type = "create" THEN "put" ELSE "get"]
    BY <1>3 DEF Enter, Goto
  <2>2. Alone(c)
    BY <1>1, <1>2, <2>1 DEF Alone
  <2>3. CallRight(c)'
    BY <1>1, <1>2, <2>1 DEF CallRight
  <2> QED BY <1>2, <2>2, <2>3, PlainStep
<1>4. CASE GetEntry(c) /\ named[op[c].name] = None
  <2>1. /\ pc[c] = "get" /\ mine' = mine /\ pc' = [pc EXCEPT ![c] = "leave"]
        /\ answer' = [answer EXCEPT ![c] = "WARN_NOT_EXIST"]
    BY <1>4 DEF GetEntry, Goto, Answer
  <2>2. Alone(c)
    BY <1>1, <1>2, <2>1 DEF Alone
  <2>3. CallRight(c)'
    BY <1>1, <1>2, <2>1 DEF CallRight
  <2> QED BY <1>2, <2>2, <2>3, PlainStep
<1>5. CASE GetEntry(c) /\ named[op[c].name] # None
  <2>1. /\ pc[c] = "get" /\ mine' = [mine EXCEPT ![c] = named[op[c].name]]
        /\ pc' = [pc EXCEPT ![c] = "remove"] /\ answer' = answer
    BY <1>5 DEF GetEntry, Goto
  <2>2. named[op[c].name] \in Trees
    BY <1>1, <1>5, <2>1 DEF CallRight
  <2>3. Alone(c)
    BY <1>1, <1>2, <2>1, <2>2 DEF Alone
  <2>4. CallRight(c)'
    BY <1>1, <1>2, <2>1, <2>2 DEF CallRight
  <2> QED BY <1>2, <2>3, <2>4, PlainStep
<1>6. CASE StoreRoot(c)
  <2>1. /\ pc[c] = "destroy" /\ mine' = mine /\ pc' = [pc EXCEPT ![c] = "leave"]
        /\ answer' = [answer EXCEPT ![c] = "OK"]
    BY <1>6 DEF StoreRoot, Goto, Answer
  <2>2. Alone(c)
    BY <1>1, <1>2, <2>1 DEF Alone
  <2>3. CallRight(c)'
    BY <1>1, <1>2, <2>1 DEF CallRight
  <2> QED BY <1>2, <2>2, <2>3, PlainStep
<1> QED BY <1>3, <1>4, <1>5, <1>6

\* The tree of storages is nobody's child.
LEMMA NeverStorages ==
    ASSUME NEW y, y # Storages, NEW i \in DOMAIN Kids(y)
    PROVE  Kids(y)[i] # Storages
<1>1. 0 \notin Trees
  BY DestroyAssumption DEF Trees
<1>2. CASE y = SessionTable
  <2>1. Kids(y) = [s \in Slots |-> Containers(s)]
    BY <1>2, KidsOfOthers
  <2> QED BY <2>1, KidsOfOthers
<1>3. CASE y # SessionTable
  <2>1. CASE y[1] \in Trees /\ y[2] \in DOMAIN shape[y[1]]
    <3>1. Kids(y) = [k \in 1 .. shape[y[1]][y[2]] |-> <<y[1], Append(y[2], k)>>]
      BY <1>3, <2>1 DEF Kids
    <3>2. Kids(y)[i][1] = y[1]
      BY <3>1
    <3> QED BY <1>1, <2>1, <3>2, KidsOfOthers
  <2>2. CASE ~(y[1] \in Trees /\ y[2] \in DOMAIN shape[y[1]])
    <3>1. Kids(y) = <<>>
      BY <1>3, <2>2 DEF Kids
    <3> QED BY <3>1
  <2> QED BY <2>1, <2>2
<1> QED BY <1>2, <1>3

\* The names change while nobody destroys the tree of storages; it is new, or was there.
LEMMA NamesChange ==
    ASSUME DInv, TypeInv', shape' = shape, room' = room,
           act[Storages].pc \in {"none", "gone"}, act'[Storages] = NotCalled,
           \A y \in AllItems : y # Storages => act'[y] = act[y],
           freed' = freed \ {Storages}
    PROVE  ActInv' /\ RoomInv' /\ FreedInv'
<1>1. /\ AllItems' = AllItems /\ Storages \in AllItems /\ \A y : IsValue(y)' = IsValue(y)
      /\ \A y : y # Storages => Kids(y)' = Kids(y)
  BY Static DEF AllItems
<1>2. act'[Storages].pc = "none" /\ act'[Storages].threads = <<>> /\ act'[Storages].i = 1
  BY DEF NotCalled
<1>3. act[Storages].threads = <<>>
  BY <1>1 DEF DInv, ActInv, ActRight, NotCalled
<1>4. ActInv'
  <2>1. ASSUME NEW y \in AllItems, y # Storages PROVE ActRight(y)'
    <3>1. ActRight(y) /\ DOMAIN Kids(y) = 1 .. Len(Kids(y))
          /\ \A k \in 1 .. Len(Kids(y)) : Kids(y)[k] \in AllItems
      BY KidsFacts DEF DInv, ActInv
    <3>2. \A k \in 1 .. Len(Kids(y)) : act'[Kids(y)[k]] = act[Kids(y)[k]]
      BY <2>1, <3>1, NeverStorages
    <3>3. Kids(y)' = Kids(y) /\ act'[y] = act[y] /\ \A z : IsValue(z)' = IsValue(z)
      BY <1>1, <2>1
    <3>4. \A k \in 1 .. Len(Kids(y)) :
             act'[Kids(y)[k]].pc # "none" => k < act[y].i \/ (k = act[y].i /\ act[y].pc = "inline")
      BY <3>1, <3>2 DEF ActRight
    <3> QED BY <3>1, <3>3, <3>4 DEF ActRight, Kid
  <2>2. ActRight(Storages)'
    <3>1. Kids(Storages)' \in Seq(Entries)
      BY KidsOfStoragesNext DEF TypeInv
    <3>2. \A k \in 1 .. Len(Kids(Storages)') : Kids(Storages)'[k] \in Entries
      BY <3>1
    <3>3. \A e \in Entries : e \in AllItems /\ IsValue(e) /\ e # Storages
      BY KidsOfOthers DEF Entries, AllItems
    <3>4. \A e \in Entries : act'[e].pc = "none"
      BY <3>3 DEF DInv, ActInv, ActRight, NotCalled
    <3>5. ~IsValue(Storages)'
      BY <1>1, KidsOfOthers
    <3> QED BY <1>2, <3>2, <3>4, <3>5 DEF ActRight, IsInjective
  <2> QED BY <1>1, <2>1, <2>2 DEF ActInv
<1>5. RoomInv'
  <2>1. \A y \in AllItems : act'[y].threads = act[y].threads
    BY <1>2, <1>3
  <2>2. \A z \in AllItems : IsContainer(z) => act'[z].pc = act[z].pc
    BY KidsOfOthers
  <2> QED BY <1>1, <1>4, <2>1, <2>2, RoomSame DEF DInv
<1>6. FreedInv'
  <2>1. BottomUp'
    <3> SUFFICES ASSUME NEW y \in freed', NEW i \in DOMAIN (Kids(y)') PROVE Kids(y)'[i] \in freed'
      BY DEF BottomUp
    <3>1. y # Storages /\ Kids(y)' = Kids(y)
      BY <1>1
    <3>2. Kids(y)[i] \in freed
      BY <3>1 DEF DInv, FreedInv, BottomUp
    <3> QED BY <3>1, <3>2, NeverStorages
  <2>2. ASSUME NEW y \in AllItems, y # Storages
        PROVE  /\ Behind(y)'
               /\ act'[y].pc = "gone" /\ y # SessionTable /\ ~IsContainer(y) => y \in freed'
    <3>1. Kids(y)' = Kids(y) /\ act'[y] = act[y] /\ DOMAIN Kids(y) = 1 .. Len(Kids(y))
      BY <1>1, <2>2, KidsFacts DEF DInv
    <3>2. \A k \in 1 .. Len(Kids(y)) : Kids(y)[k] \in freed => Kids(y)[k] \in freed'
      BY <2>2, <3>1, NeverStorages
    <3>3. Behind(y)'
      BY <3>1, <3>2 DEF DInv, FreedInv, Behind
    <3> QED BY <2>2, <3>1, <3>3 DEF DInv, FreedInv
  <2>3. Behind(Storages)'
    BY <1>2 DEF Behind
  <2> QED BY <1>1, <1>2, <2>1, <2>2, <2>3 DEF FreedInv
<1> QED BY <1>4, <1>5, <1>6

\* While a call runs the tree of storages is not destroyed.
LEMMA StoragesSafe ==
    ASSUME IInv, NEW c \in Clients, pc[c] # "idle"
    PROVE  /\ main = "up" /\ Storages \in AllItems /\ act[Storages].pc \in {"none", "gone"}
           /\ hasRoot => act[Storages] = NotCalled /\ Storages \notin freed
<1>1. main = "up"
  BY DEF IInv, CallInv, CallRight
<1>2. Storages \in AllItems
  BY DEF AllItems
<1> QED BY <1>1, <1>2 DEF IInv, StoragesInv, ActInv, ActRight

\* PutEntry: a name is given to the tree the call has made.
LEMMA PutKeeps ==
    ASSUME IInv, NEW c \in Clients, PutEntry(c)
    PROVE  IInv'
<1>1. /\ CallRight(c) /\ made \in 0 .. MaxTrees /\ MaxTrees \in Nat /\ made >= made
      /\ DOMAIN pc = Clients /\ DOMAIN op = Clients /\ DOMAIN answer = Clients /\ DOMAIN may = Clients
      /\ mine \in [Clients -> Trees \cup {None}] /\ named \in [Names -> Trees \cup {None}]
  BY ClientTypes
<1>2. pc[c] = "put" /\ UNCHANGED <<retired, op, mine, may, main, todo>>
  BY DEF PutEntry, life
<1>3. CASE named[op[c].name] # None
  <2>1. /\ pc' = [pc EXCEPT ![c] = "leave"]
        /\ answer' = [answer EXCEPT ![c] = "WARN_UNIQUE_RESTRICTION"]
        /\ UNCHANGED <<named, shape, hasRoot, made, act, room, freed>>
    BY <1>3 DEF PutEntry, Goto, Answer, table, destroying
  <2>2. Alone(c)
    BY <1>1, <1>2, <2>1 DEF Alone
  <2>3. CallRight(c)'
    BY <1>1, <1>2, <2>1 DEF CallRight
  <2> QED BY <1>2, <2>1, <2>2, <2>3, PlainStep
<1>4. CASE named[op[c].name] = None
  <2>1. /\ pc' = [pc EXCEPT ![c] = "leave"] /\ answer' = [answer EXCEPT ![c] = "OK"]
        /\ named' = [named EXCEPT ![op[c].name] = mine[c]] /\ hasRoot' = TRUE
        /\ act' = (IF hasRoot THEN act ELSE [act EXCEPT ![Storages] = NotCalled])
        /\ freed' = (IF hasRoot THEN freed ELSE freed \ {Storages})
        /\ UNCHANGED <<shape, made, room>>
    BY <1>4 DEF PutEntry, Goto, Answer
  <2>2. Alone(c)
    BY <1>1, <1>2, <2>1 DEF Alone
  <2>3. CallRight(c)'
    BY <1>1, <1>2, <2>1 DEF CallRight
  <2>4. mine[c] \in Trees
    BY <1>1, <1>2 DEF CallRight
  <2>5. /\ main = "up" /\ Storages \in AllItems /\ act[Storages].pc \in {"none", "gone"}
        /\ hasRoot => act[Storages] = NotCalled /\ Storages \notin freed
    BY <1>2, StoragesSafe
  <2>6. TypeInv /\ DInv /\ TableInv /\ CallInv /\ act \in [AllItems -> Activation]
    BY DEF IInv, DInv, TypeInv
  <2>7. /\ act' \in [AllItems -> Activation] /\ act'[Storages] = NotCalled
        /\ \A y \in AllItems : y # Storages => act'[y] = act[y]
        /\ freed' = freed \ {Storages}
    BY <2>1, <2>5, <2>6, CalledType
  <2>8. AllItems' = AllItems
    BY <2>1, Static
  <2>9. TypeInv'
    <3>1. Activation' = Activation
      BY <2>8 DEF Activation
    <3>2. named' \in [Names -> Trees \cup {None}]
      BY <1>1, <2>1, <2>4
    <3> QED BY <1>2, <2>1, <2>2, <2>6, <2>7, <2>8, <3>1, <3>2 DEF TypeInv, Alone
  <2>10. ActInv' /\ RoomInv' /\ FreedInv'
    BY <2>1, <2>5, <2>6, <2>7, <2>9, NamesChange
  <2>11. StoragesInv'
    BY <1>2, <2>1, <2>5, <2>7 DEF StoragesInv, NotCalled
  <2>12. TableInv'
    <3>1. \A y \in AllItems : y[1] = -1 => y # Storages
      BY KidsOfOthers
    <3> QED BY <1>2, <2>6, <2>7, <2>8, <3>1 DEF TableInv
  <2>13. CallInv'
    BY <2>2, <2>3, <2>6, OtherCalls
  <2> QED BY <2>9, <2>10, <2>11, <2>12, <2>13 DEF IInv
<1> QED BY <1>3, <1>4

\* RemoveEntry: a name is taken away, its entry is retired.
LEMMA RemoveKeeps ==
    ASSUME IInv, NEW c \in Clients, RemoveEntry(c)
    PROVE  IInv'
<1>1. /\ CallRight(c) /\ made \in 0 .. MaxTrees /\ MaxTrees \in Nat /\ made >= made
      /\ DOMAIN pc = Clients /\ DOMAIN op = Clients /\ DOMAIN answer = Clients /\ DOMAIN may = Clients
      /\ mine \in [Clients -> Trees \cup {None}] /\ named \in [Names -> Trees \cup {None}]
  BY ClientTypes
<1>2. /\ pc[c] = "remove"
      /\ UNCHANGED <<shape, hasRoot, made, act, room, freed, op, mine, may, main, todo>>
  BY DEF RemoveEntry, life, destroying
<1>3. CASE named[op[c].name] = None
  <2>1. /\ pc' = [pc EXCEPT ![c] = "leave"]
        /\ answer' = [answer EXCEPT ![c] = "WARN_CONCURRENT_OPERATIONS"]
        /\ UNCHANGED <<named, retired>>
    BY <1>3 DEF RemoveEntry, Goto, Answer
  <2>2. Alone(c)
    BY <1>1, <1>2, <2>1 DEF Alone
  <2>3. CallRight(c)'
    BY <1>1, <1>2, <2>1 DEF CallRight
  <2> QED BY <1>2, <2>1, <2>2, <2>3, PlainStep
<1>4. CASE named[op[c].name] # None
  <2> DEFINE t == named[op[c].name]
             s == CHOOSE r \in Slots : sess[r] = c
  <2>1. /\ pc' = [pc EXCEPT ![c] = "load"] /\ answer' = answer
        /\ named' = [named EXCEPT ![op[c].name] = None]
        /\ retired' = [retired EXCEPT ![s] = @ \cup {Entry(t)}]
    BY <1>4 DEF RemoveEntry, Goto
  <2>2. Alone(c)
    BY <1>1, <1>2, <2>1 DEF Alone
  <2>3. CallRight(c)'
    BY <1>1, <1>2, <2>1 DEF CallRight
  <2>4. t \in Trees /\ op[c].name \in Names
    BY <1>1, <1>2, <1>4 DEF CallRight
  <2>5. TypeInv /\ DInv /\ TableInv /\ CallInv /\ act \in [AllItems -> Activation]
        /\ StoragesInv /\ retired \in [Slots -> SUBSET Entries]
    BY DEF IInv, DInv, TypeInv
  <2>6. hasRoot /\ main = "up" /\ act[Storages] = NotCalled /\ Storages \notin freed
    BY <1>2, <1>4, <2>4, <2>5, StoragesSafe DEF StoragesInv
  <2>7. AllItems' = AllItems
    BY <1>2, Static
  <2>8. TypeInv'
    <3>1. Activation' = Activation
      BY <2>7 DEF Activation
    <3>2. named' \in [Names -> Trees \cup {None}]
      BY <1>1, <2>1
    <3>3. retired' \in [Slots -> SUBSET Entries]
      <4>1. Entry(t) \in Entries
        BY <2>4 DEF Entries
      <4> HIDE DEF s, t
      <4> QED BY <2>1, <2>5, <4>1
    <3> QED BY <1>2, <2>2, <2>5, <2>7, <3>1, <3>2, <3>3 DEF TypeInv, Alone
  <2>9. ActInv' /\ RoomInv' /\ FreedInv'
    <3>1. freed' = freed \ {Storages} /\ act[Storages].pc = "none"
      BY <1>2, <2>6 DEF NotCalled
    <3> QED BY <1>2, <2>5, <2>6, <2>8, <3>1, NamesChange
  <2>10. StoragesInv' /\ TableInv'
    BY <1>2, <2>5, <2>6, <2>7 DEF StoragesInv, TableInv
  <2>11. CallInv'
    BY <2>2, <2>3, <2>5, OtherCalls
  <2> QED BY <2>8, <2>9, <2>10, <2>11 DEF IInv
<1> QED BY <1>3, <1>4

\* destroy() is called from outside on x: nobody's child, and for the first time.
LEMMA NewCall ==
    ASSUME DInv, UNCHANGED <<shape, named, room, freed>>, NEW x \in AllItems, act[x].pc = "none",
           \A w \in AllItems : \A k \in 1 .. Len(Kids(w)) : Kids(w)[k] # x,
           ~IsValue(x), act' = [act EXCEPT ![x] = Called], TypeInv'
    PROVE  ActInv' /\ RoomInv' /\ FreedInv'
<1>1. TypeInv /\ DOMAIN act = AllItems /\ AllItems' = AllItems
  BY Static DEF DInv, TypeInv
<1>2. /\ act'[x] = Called /\ \A y \in AllItems : y # x => act'[y] = act[y]
      /\ act[x].threads = <<>>
  BY <1>1 DEF DInv, ActInv, ActRight, NotCalled
<1>3. act'[x].threads = <<>> /\ act'[x].pc = "loop"
  BY <1>2 DEF Called, NotCalled
<1>4. ActInv'
  BY CallStep DEF DInv
<1>5. RoomInv'
  BY <1>1, <1>2, <1>3, <1>4, RoomSame DEF DInv
<1>6. FreedInv'
  <2>1. BottomUp'
    BY FreedBottomUp DEF DInv
  <2> QED BY <1>1, <1>2, <2>1, FreedOthers DEF DInv, FreedInv
<1> QED BY <1>4, <1>5, <1>6

\* The root of a tree is nobody's child.
LEMMA RootFacts ==
    ASSUME TypeInv, NEW t \in Trees
    PROVE  /\ Root(t) \in AllItems /\ ~IsValue(Root(t)) /\ Root(t)[1] # -1
           /\ Root(t) # Storages /\ Root(t) # SessionTable
           /\ \A w \in AllItems : \A k \in 1 .. Len(Kids(w)) : Kids(w)[k] # Root(t)
<1>1. Root(t) \in AllItems /\ Root(t) = <<t, <<>>>> /\ <<>> \in DOMAIN shape[t]
  BY ShapeFacts DEF AllItems, Root
<1>2. ~IsValue(Root(t)) /\ Root(t) # Storages /\ Root(t) # SessionTable
  BY <1>1, KidsOfTree
<1>3. Root(t)[1] = t /\ t # -1
  BY <1>1, ShapeFacts
<1> QED BY <1>1, <1>2, <1>3, KidsFacts

\* StartDestroy: the tree is destroyed from now on, or was destroyed before.
LEMMA StartDestroyKeeps ==
    ASSUME DInv, UNCHANGED <<shape, named>>, NEW t \in Trees, StartDestroy(t)
    PROVE  /\ act' \in [AllItems -> Activation] /\ room' \in Nat
           /\ TypeInv' => ActInv' /\ RoomInv' /\ FreedInv'
           /\ act'[Storages] = act[Storages] /\ freed' = freed
           /\ \A y \in AllItems : y[1] = -1 => act'[y] = act[y]
<1>1. TypeInv /\ ActInv /\ act \in [AllItems -> Activation] /\ room \in Nat
      /\ UNCHANGED <<room, freed>> /\ Storages \in AllItems
  BY DEF DInv, TypeInv, StartDestroy, AllItems
<1>2. /\ Root(t) \in AllItems /\ ~IsValue(Root(t)) /\ Root(t)[1] # -1
      /\ Root(t) # Storages
      /\ \A w \in AllItems : \A k \in 1 .. Len(Kids(w)) : Kids(w)[k] # Root(t)
  BY <1>1, RootFacts
<1>3. CASE act[Root(t)] = NotCalled
  <2>1. act' = [act EXCEPT ![Root(t)] = Called] /\ act[Root(t)].pc = "none"
    BY <1>3 DEF StartDestroy, NotCalled
  <2>2. act' \in [AllItems -> Activation]
    BY <1>1, <2>1, CalledType
  <2>3. TypeInv' => ActInv' /\ RoomInv' /\ FreedInv'
    BY <1>1, <1>2, <2>1, NewCall
  <2> QED BY <1>1, <1>2, <2>1, <2>2, <2>3
<1>4. CASE act[Root(t)] # NotCalled
  <2>1. act' = act
    BY <1>4 DEF StartDestroy
  <2> QED BY <1>1, <2>1, TreesSame
<1> QED BY <1>3, <1>4

\* LoadRoot.
LEMMA LoadRootKeeps ==
    ASSUME IInv, NEW c \in Clients, LoadRoot(c)
    PROVE  IInv'
<1>1. /\ CallRight(c) /\ made \in 0 .. MaxTrees /\ MaxTrees \in Nat /\ made >= made
      /\ DOMAIN pc = Clients /\ DOMAIN op = Clients /\ DOMAIN answer = Clients /\ DOMAIN may = Clients
      /\ mine \in [Clients -> Trees \cup {None}]
  BY ClientTypes
<1>2. /\ pc[c] = "load"
      /\ UNCHANGED <<named, shape, hasRoot, retired, made, op, mine, may, main, todo>>
  BY DEF LoadRoot, life, table
<1>3. CASE instance[mine[c]] # "root"
  <2>1. /\ pc' = [pc EXCEPT ![c] = "leave"] /\ answer' = [answer EXCEPT ![c] = "OK"]
        /\ UNCHANGED <<act, room, freed>>
    BY <1>3 DEF LoadRoot, Goto, Answer, destroying
  <2>2. Alone(c)
    BY <1>1, <1>2, <2>1 DEF Alone
  <2>3. CallRight(c)'
    BY <1>1, <1>2, <2>1 DEF CallRight
  <2> QED BY <1>2, <2>1, <2>2, <2>3, PlainStep
<1>4. CASE instance[mine[c]] = "root"
  <2>1. /\ pc' = [pc EXCEPT ![c] = "destroy"] /\ answer' = answer /\ StartDestroy(mine[c])
    BY <1>4 DEF LoadRoot, Goto
  <2>2. Alone(c)
    BY <1>1, <1>2, <2>1 DEF Alone
  <2>3. CallRight(c)'
    BY <1>1, <1>2, <2>1 DEF CallRight
  <2>4. TypeInv /\ DInv /\ StoragesInv /\ TableInv /\ CallInv /\ mine[c] \in Trees
    BY <1>1, <1>2 DEF IInv, DInv, CallRight
  <2>5. /\ act' \in [AllItems -> Activation] /\ room' \in Nat
        /\ TypeInv' => ActInv' /\ RoomInv' /\ FreedInv'
        /\ act'[Storages] = act[Storages] /\ freed' = freed
        /\ \A y \in AllItems : y[1] = -1 => act'[y] = act[y]
    BY <1>2, <2>1, <2>4, StartDestroyKeeps
  <2>6. AllItems' = AllItems
    BY <1>2, Static
  <2>7. TypeInv'
    BY <1>2, <2>2, <2>4, <2>5, TypeStep DEF Alone, TypeInv
  <2>8. StoragesInv' /\ TableInv'
    BY <1>2, <2>4, <2>5, <2>6 DEF StoragesInv, TableInv
  <2>9. CallInv'
    BY <2>2, <2>3, <2>4, OtherCalls
  <2> QED BY <2>5, <2>7, <2>8, <2>9 DEF IInv
<1> QED BY <1>3, <1>4

\* Leave: the border node a failed create_storage deletes is empty.
LEMMA LeaveKeeps ==
    ASSUME IInv, NEW c \in Clients, Leave(c)
    PROVE  IInv'
<1>1. /\ CallRight(c) /\ made \in 0 .. MaxTrees /\ MaxTrees \in Nat /\ made >= made
      /\ DOMAIN pc = Clients /\ DOMAIN op = Clients /\ DOMAIN answer = Clients /\ DOMAIN may = Clients
      /\ mine \in [Clients -> Trees \cup {None}]
  BY ClientTypes
<1>2. /\ pc[c] = "leave" /\ pc' = [pc EXCEPT ![c] = "idle"]
      /\ mine' = [mine EXCEPT ![c] = None] /\ op' = [op EXCEPT ![c] = None]
      /\ answer' = [answer EXCEPT ![c] = None]
      /\ freed' = (IF answer[c] = "WARN_UNIQUE_RESTRICTION" THEN freed \cup {Root(mine[c])} ELSE freed)
      /\ UNCHANGED <<named, shape, hasRoot, made, retired, act, room, may, main, todo>>
  BY DEF Leave, Goto, life, table
<1>3. Alone(c)
  BY <1>1, <1>2 DEF Alone
<1>4. CASE answer[c] # "WARN_UNIQUE_RESTRICTION"
  <2>1. CallRight(c)'
    BY <1>1, <1>2 DEF CallRight
  <2> QED BY <1>2, <1>3, <1>4, <2>1, PlainStep
<1>5. CASE answer[c] = "WARN_UNIQUE_RESTRICTION"
  <2>1. TypeInv /\ DInv /\ StoragesInv /\ TableInv /\ CallInv
        /\ mine[c] \in Trees /\ shape[mine[c]] = Empty
    BY <1>1, <1>2, <1>5 DEF IInv, DInv, CallRight
  <2>2. CallRight(c)'
    BY <1>1, <1>2 DEF CallRight
  <2>3. AllItems' = AllItems
    BY <1>2, Static
  <2>4. TypeInv'
    BY <1>2, <1>3, <2>1, TypeStep DEF Alone, TypeInv
  <2>5. ActInv'
    <3>1. \A y : Kids(y)' = Kids(y) /\ IsValue(y)' = IsValue(y)
      BY <1>2, Static
    <3> QED BY <1>2, <2>1, <2>3, <3>1 DEF DInv, ActInv, ActRight, Kid
  <2>6. RoomInv'
    BY <1>2, <2>1, <2>3, <2>4, <2>5, RoomSame DEF DInv
  <2>7. FreedInv'
    <3>1. <<>> \in DOMAIN Empty /\ Empty[<<>>] = 0
      BY DEF Empty
    <3>2. Kids(Root(mine[c])) = [i \in 1 .. 0 |-> <<mine[c], Append(<<>>, i)>>]
      BY <2>1, <3>1, KidsOfTree DEF Root
    <3>3. DOMAIN Kids(Root(mine[c])) = {}
      BY <3>2
    <3>4. BottomUp'
      BY <1>2, <2>1, <3>3, FreedBottomUp DEF DInv
    <3> QED BY <1>2, <2>1, <2>3, <3>4, FreedOthers DEF DInv, FreedInv
  <2>8. StoragesInv'
    BY <1>2, <2>1, RootFacts DEF StoragesInv
  <2>9. TableInv'
    BY <1>2, <2>1, <2>3 DEF TableInv
  <2>10. CallInv'
    BY <1>3, <2>1, <2>2, OtherCalls
  <2> QED BY <2>4, <2>5, <2>6, <2>7, <2>8, <2>9, <2>10 DEF IInv
<1> QED BY <1>4, <1>5

-----------------------------------------------------------------------------
(* Steps of init, fin and the threads of the manager.                      *)

\* A step that touches neither trees nor calls.
LEMMA MainQuiet ==
    ASSUME IInv, UNCHANGED <<named, shape, hasRoot, made, retired, act, room, freed, client>>,
           todo' \in Seq(Trees),
           main' # "up" => \A c \in Clients : pc[c] = "idle",
           main' = main \/ main \notin {"table", "storages"},
           main' \in {"each", "destroy", "storages"} => hasRoot,
           main' = "destroy" => todo' # <<>>
    PROVE  IInv'
<1>1. TypeInv /\ DInv /\ StoragesInv /\ TableInv /\ CallInv
  BY DEF IInv, DInv
<1>2. AllItems' = AllItems
  BY Static
<1>3. TypeInv'
  BY <1>1, TypeStep DEF TypeInv, client
<1>4. ActInv' /\ RoomInv' /\ FreedInv'
  BY <1>1, <1>3, TreesSame
<1>5. StoragesInv' /\ TableInv'
  BY <1>1, <1>2 DEF StoragesInv, TableInv
<1>6. CallInv'
  BY <1>1 DEF CallInv, CallRight, client
<1> QED BY <1>3, <1>4, <1>5, <1>6 DEF IInv

\* While init or fin runs no call does.
LEMMA AllIdle ==
    ASSUME IInv, main # "up"
    PROVE  \A c \in Clients : pc[c] = "idle"
BY DEF IInv, CallInv, CallRight

\* The steps that only go on.
LEMMA QuietKeeps ==
    ASSUME IInv,
           FinCall \/ FinStored \/ SetThreadEnds \/ InitAgain \/ EpochRound \/ GcRound \/ UNCHANGED vars
    PROVE  IInv'
<1>1. todo \in Seq(Trees) /\ StoragesInv
  BY DEF IInv, TypeInv
<1>2. UNCHANGED <<named, shape, hasRoot, made, retired, act, room, freed, client>>
  BY DEF FinCall, FinStored, SetThreadEnds, InitAgain, EpochRound, GcRound, vars, table, destroying
<1>3. CASE FinCall
  <2>1. todo' = SetToSeq({named[n] : n \in Names} \ {None})
        /\ main = "up" /\ main' = (IF hasRoot THEN "each" ELSE "flags")
        /\ \A c \in Clients : pc[c] = "idle"
    BY <1>3 DEF FinCall, Main
  <2> DEFINE S == {named[n] : n \in Names} \ {None}
  <2>2. S \subseteq Trees
    BY DEF IInv, TypeInv
  <2>3. IsFiniteSet(Trees)
    BY FS_Interval, DestroyAssumption DEF Trees
  <2>4. IsFiniteSet(S)
    BY <2>2, <2>3, FS_Subset
  <2> HIDE DEF S
  <2>5. SetToSeq(S) \in Seq(S)
    BY <2>4, SetToSeqIs
  <2>6. SetToSeq(S) \in Seq(Trees)
    <3>1. /\ Len(SetToSeq(S)) \in Nat /\ SetToSeq(S) = [i \in 1 .. Len(SetToSeq(S)) |-> SetToSeq(S)[i]]
          /\ \A i \in 1 .. Len(SetToSeq(S)) : SetToSeq(S)[i] \in Trees
      BY <2>2, <2>5
    <3> QED BY <3>1, SeqIs
  <2>7. todo' \in Seq(Trees)
    BY <2>1, <2>6 DEF S
  <2> QED BY <1>2, <2>1, <2>7, MainQuiet
<1>4. CASE FinStored
  <2>1. main = "destroy" /\ main' = "each" /\ todo' = Tail(todo)
    BY <1>4 DEF FinStored, Main
  <2>2. todo # <<>> /\ hasRoot
    BY <1>1, <2>1 DEF StoragesInv
  <2>3. Tail(todo) \in Seq(Trees)
    BY <1>1, <2>2
  <2> QED BY <1>2, <2>1, <2>2, <2>3, AllIdle, MainQuiet
<1>5. CASE SetThreadEnds
  <2>1. main = "flags" /\ main' = "join" /\ todo' = todo
    BY <1>5 DEF SetThreadEnds, Main
  <2> QED BY <1>1, <1>2, <2>1, AllIdle, MainQuiet
<1>6. CASE InitAgain
  <2>1. main = "down" /\ main' = "up" /\ todo' = todo
    BY <1>6 DEF InitAgain, Main
  <2> QED BY <1>1, <1>2, <2>1, MainQuiet
<1>7. CASE EpochRound \/ GcRound \/ UNCHANGED vars
  <2>1. main' = main /\ todo' = todo
    BY <1>7 DEF EpochRound, GcRound, vars, life
  <2>2. main # "up" => \A c \in Clients : pc[c] = "idle"
    BY AllIdle
  <2> QED BY <1>1, <1>2, <2>1, <2>2, MainQuiet DEF StoragesInv
<1> QED BY <1>3, <1>4, <1>5, <1>6, <1>7

\* FinEach: destroy() of the next tree.
LEMMA FinEachKeeps ==
    ASSUME IInv, FinEach
    PROVE  IInv'
<1>1. /\ main = "each" /\ main' = "destroy" /\ todo # <<>> /\ StartDestroy(Head(todo))
      /\ UNCHANGED <<named, shape, hasRoot, made, retired, client, todo>>
  BY DEF FinEach, Main, table
<1>2. TypeInv /\ DInv /\ StoragesInv /\ TableInv /\ CallInv /\ todo \in Seq(Trees)
  BY DEF IInv, DInv, TypeInv
<1>3. Head(todo) \in Trees
  BY <1>1, <1>2
<1>4. /\ act' \in [AllItems -> Activation] /\ room' \in Nat
      /\ TypeInv' => ActInv' /\ RoomInv' /\ FreedInv'
      /\ act'[Storages] = act[Storages] /\ freed' = freed
      /\ \A y \in AllItems : y[1] = -1 => act'[y] = act[y]
  BY <1>1, <1>2, <1>3, StartDestroyKeeps
<1>5. AllItems' = AllItems
  BY <1>1, Static
<1>6. TypeInv'
  BY <1>1, <1>2, <1>4, TypeStep DEF TypeInv, client
<1>7. StoragesInv' /\ TableInv'
  BY <1>1, <1>2, <1>4, <1>5 DEF StoragesInv, TableInv
<1>8. CallInv'
  BY <1>1, <1>2, AllIdle DEF CallInv, CallRight, client
<1> QED BY <1>4, <1>6, <1>7, <1>8 DEF IInv

\* FinStorages and FinJoin: destroy() of the tree of storages, and of the sessions.
LEMMA FinTablesKeep ==
    ASSUME IInv, FinStorages \/ FinJoin
    PROVE  IInv'
<1> DEFINE x == IF main = "each" THEN Storages ELSE SessionTable
<1>1. /\ (main = "each" /\ main' = "storages") \/ (main = "join" /\ main' = "table")
      /\ act' = [act EXCEPT ![x] = Called]
      /\ UNCHANGED <<named, shape, hasRoot, made, retired, client, todo, room, freed>>
  BY DEF FinStorages, FinJoin, Main, table
<1>2. TypeInv /\ DInv /\ StoragesInv /\ TableInv /\ CallInv /\ act \in [AllItems -> Activation]
  BY DEF IInv, DInv, TypeInv
<1>3. /\ x \in AllItems /\ ~IsValue(x) /\ act[x].pc = "none"
      /\ \A w \in AllItems : \A k \in 1 .. Len(Kids(w)) : Kids(w)[k] # x
  <2>1. Storages \in AllItems /\ SessionTable \in AllItems /\ ~IsValue(Storages) /\ ~IsValue(SessionTable)
        /\ SessionTable[1] = -1
    BY KidsOfOthers DEF AllItems
  <2>2. act[x].pc = "none"
    BY <1>1, <1>2, <2>1 DEF StoragesInv, TableInv, NotCalled
  <2>3. \A w \in AllItems : \A k \in 1 .. Len(Kids(w)) : Kids(w)[k] # Storages /\ Kids(w)[k] # SessionTable
    BY <1>2, KidsFacts DEF Storages, SessionTable
  <2> QED BY <2>1, <2>2, <2>3
<1>4. AllItems' = AllItems
  BY <1>1, Static
<1> HIDE DEF x
<1>5. TypeInv'
  <2>1. act' \in [AllItems -> Activation] /\ room' \in Nat
    BY <1>1, <1>2, CalledType DEF TypeInv
  <2> QED BY <1>1, <1>2, <2>1, TypeStep DEF TypeInv, client
<1>6. ActInv' /\ RoomInv' /\ FreedInv'
  BY <1>1, <1>2, <1>3, <1>5, NewCall
<1>7. StoragesInv'
  <2>1. SessionTable # Storages /\ Storages \in AllItems
    BY KidsOfOthers DEF AllItems
  <2>2. main = "join" => act'[Storages] = act[Storages]
    BY <1>1, <1>2, <2>1 DEF x
  <2> QED BY <1>1, <1>2, <2>2 DEF StoragesInv
<1>8. TableInv'
  <2>1. Storages[1] # -1
    BY KidsOfOthers
  <2> QED BY <1>1, <1>2, <1>4, <2>1 DEF TableInv, x
<1>9. CallInv'
  BY <1>1, <1>2, AllIdle DEF CallInv, CallRight, client
<1> QED BY <1>5, <1>6, <1>7, <1>8, <1>9 DEF IInv

\* FinNull: the tree of storages is gone, and its names with it.
LEMMA FinNullKeeps ==
    ASSUME IInv, FinNull
    PROVE  IInv'
<1>1. /\ main = "storages" /\ main' = "flags" /\ act[Storages].pc = "gone"
      /\ hasRoot' = FALSE /\ named' = [n \in Names |-> None]
      /\ UNCHANGED <<shape, made, retired, client, todo, act, room, freed>>
  BY DEF FinNull, Main, destroying
<1>2. TypeInv /\ DInv /\ TableInv /\ CallInv /\ Storages \in AllItems
  BY DEF IInv, DInv, AllItems
<1>3. /\ AllItems' = AllItems /\ \A y : IsValue(y)' = IsValue(y)
      /\ \A y : y # Storages => Kids(y)' = Kids(y)
  BY <1>1, Static
<1>4. named' \in [Names -> Trees \cup {None}] /\ \A n \in Names : named'[n] = None
  BY <1>1
<1>5. Kids(Storages)' = <<>>
  BY <1>4, KidsOfStoragesNext
<1>6. TypeInv'
  <2>1. Activation' = Activation
    BY <1>3 DEF Activation
  <2> QED BY <1>1, <1>2, <1>3, <1>4, <2>1 DEF TypeInv, client
<1>7. act[Storages].threads = <<>> /\ ~IsValue(Storages)
  BY <1>1, <1>2, KidsOfOthers DEF DInv, ActInv, ActRight
<1>8. ActInv'
  <2>1. ASSUME NEW y \in AllItems, y # Storages PROVE ActRight(y)'
    <3>1. ActRight(y) /\ Kids(y)' = Kids(y) /\ \A z : IsValue(z)' = IsValue(z)
      BY <1>2, <1>3, <2>1 DEF DInv, ActInv
    <3> QED BY <1>1, <3>1 DEF ActRight, Kid
  <2>2. ActRight(Storages)'
    BY <1>1, <1>3, <1>5, <1>7 DEF ActRight, IsInjective
  <2> QED BY <1>3, <2>1, <2>2 DEF ActInv
<1>9. RoomInv'
  BY <1>1, <1>2, <1>3, <1>6, <1>8, RoomSame DEF DInv
<1>10. FreedInv'
  <2>1. BottomUp'
    <3> SUFFICES ASSUME NEW y \in freed', NEW i \in DOMAIN (Kids(y)') PROVE Kids(y)'[i] \in freed'
      BY DEF BottomUp
    <3>1. y # Storages
      BY <1>5
    <3> QED BY <1>1, <1>2, <1>3, <3>1 DEF DInv, FreedInv, BottomUp
  <2>2. ASSUME NEW y \in AllItems, y # Storages PROVE Behind(y)'
    <3>1. Kids(y)' = Kids(y) /\ Behind(y)
      BY <1>2, <1>3, <2>2 DEF DInv, FreedInv
    <3> QED BY <1>1, <3>1 DEF Behind
  <2>3. Behind(Storages)'
    BY <1>5 DEF Behind
  <2> QED BY <1>1, <1>2, <1>3, <2>1, <2>2, <2>3 DEF DInv, FreedInv
<1>11. StoragesInv' /\ TableInv'
  BY <1>1, <1>2, <1>3, <1>4 DEF StoragesInv, TableInv
<1>12. CallInv'
  BY <1>1, <1>2, AllIdle DEF CallInv, CallRight, client
<1> QED BY <1>6, <1>8, <1>9, <1>10, <1>11, <1>12 DEF IInv

\* FinEnd: the table of sessions is as new.
LEMMA FinEndKeeps ==
    ASSUME IInv, FinEnd
    PROVE  IInv'
<1>1. /\ main = "table" /\ main' = "down" /\ act[SessionTable].pc = "gone"
      /\ act' = [x \in AllItems |-> IF x[1] = -1 THEN NotCalled ELSE act[x]]
      /\ retired' = [s \in Slots |-> {}]
      /\ UNCHANGED <<named, shape, hasRoot, made, client, todo, room, freed>>
  BY DEF FinEnd, Main, table
<1>2. TypeInv /\ DInv /\ CallInv /\ StoragesInv /\ SessionTable \in AllItems
      /\ Storages \in AllItems /\ Storages[1] # -1 /\ SessionTable[1] = -1
      /\ act \in [AllItems -> Activation]
  BY KidsOfOthers DEF IInv, DInv, AllItems, TypeInv
<1>3. /\ AllItems' = AllItems /\ \A y : Kids(y)' = Kids(y) /\ IsValue(y)' = IsValue(y)
  BY <1>1, Static
<1>4. \A y \in AllItems : /\ y[1] = -1 => act'[y] = NotCalled
                          /\ y[1] # -1 => act'[y] = act[y]
  BY <1>1
<1>5. ASSUME NEW y \in AllItems, y[1] = -1
      PROVE  /\ ~IsValue(y) /\ act[y].threads = <<>>
             /\ \A k \in 1 .. Len(Kids(y)) : Kids(y)[k] \in AllItems /\ Kids(y)[k][1] = -1
  <2>1. CASE y = SessionTable
    <3>1. act[y].threads = <<>>
      BY <1>1, <1>2, <2>1 DEF DInv, ActInv, ActRight
    <3> QED BY <1>2, <2>1, <3>1, KidsFacts, KidsOfOthers DEF IsContainer
  <2>2. CASE IsContainer(y)
    <3>1. Kids(y) = <<>> /\ act[y].threads \in Seq(AllItems)
      BY <1>2, <2>2, KidsFacts, ActTypes
    <3>2. ASSUME NEW j \in 1 .. Len(act[y].threads) PROVE FALSE
      <4>1. PICK k \in 1 .. Len(Kids(y)) : act[y].threads[j] = Kids(y)[k]
        BY <1>2, ThreadKids DEF DInv
      <4> QED BY <3>1
    <3>3. act[y].threads = <<>>
      BY <3>1, <3>2
    <3>4. ~IsValue(y)
      BY <1>5, DestroyAssumption DEF IsValue, Trees
    <3> QED BY <3>1, <3>3, <3>4
  <2> QED BY <1>5, <2>1, <2>2 DEF IsContainer
<1>6. NotCalled.pc = "none" /\ NotCalled.threads = <<>> /\ NotCalled.i = 1
  BY DEF NotCalled
<1>7. act' \in [AllItems -> Activation]
  BY <1>1, <1>2, CalledType
<1>8. TypeInv'
  <2>1. Activation' = Activation /\ retired' \in [Slots -> SUBSET Entries]
    BY <1>1, <1>3 DEF Activation
  <2> QED BY <1>1, <1>2, <1>3, <1>7, <2>1 DEF TypeInv, client
<1>9. ActInv'
  <2>1. ASSUME NEW y \in AllItems, y[1] # -1 PROVE ActRight(y)'
    <3>1. ActRight(y) /\ Kids(y)' = Kids(y) /\ act'[y] = act[y] /\ \A z : IsValue(z)' = IsValue(z)
      BY <1>2, <1>3, <1>4, <2>1 DEF DInv, ActInv
    <3>2. \A k \in 1 .. Len(Kids(y)) :
             act'[Kids(y)[k]].pc # "none" => k < act[y].i \/ (k = act[y].i /\ act[y].pc = "inline")
      <4> TAKE k \in 1 .. Len(Kids(y))
      <4>1. Kids(y)[k] \in AllItems
        BY <1>2, KidsFacts
      <4>2. act'[Kids(y)[k]].pc # "none" => act[Kids(y)[k]].pc # "none"
        BY <1>4, <1>6, <4>1
      <4> QED BY <3>1, <4>2 DEF ActRight
    <3> QED BY <3>1, <3>2 DEF ActRight, Kid
  <2>2. ASSUME NEW y \in AllItems, y[1] = -1 PROVE ActRight(y)'
    <3>1. act'[y] = NotCalled /\ Kids(y)' = Kids(y) /\ ~IsValue(y)'
          /\ \A k \in 1 .. Len(Kids(y)) : act'[Kids(y)[k]].pc = "none"
      BY <1>3, <1>4, <1>5, <1>6, <2>2
    <3> QED BY <1>6, <3>1 DEF ActRight, IsInjective
  <2> QED BY <1>3, <2>1, <2>2 DEF ActInv
<1>10. RoomInv'
  <2>1. \A y \in AllItems : act'[y].threads = act[y].threads
    BY <1>4, <1>5, <1>6
  <2>2. ASSUME NEW y \in AllItems, NEW w PROVE IsThread(act', y, w) <=> IsThread(act, y, w)
    <3>1. CASE y = SessionTable
      <4>1. act[y].threads = <<>> /\ act'[y].threads = <<>>
        BY <1>2, <1>5, <2>1, <3>1
      <4> QED BY <4>1 DEF IsThread
    <3>2. CASE y # SessionTable
      BY <2>1, <3>2 DEF IsThread
    <3> QED BY <3>1, <3>2
  <2> QED BY <1>1, <1>2, <1>3, <1>8, <1>9, <2>2, RoomKeep DEF DInv
<1>11. FreedInv'
  <2>1. BottomUp'
    BY <1>1, <1>2, FreedBottomUp DEF DInv
  <2>2. ASSUME NEW y \in AllItems, y[1] # -1
        PROVE  /\ Behind(y)'
               /\ act'[y].pc = "gone" /\ y # SessionTable /\ ~IsContainer(y) => y \in freed'
    BY <1>1, <1>2, <1>4, <2>2, FreedOthers DEF DInv
  <2>3. ASSUME NEW y \in AllItems, y[1] = -1 PROVE Behind(y)' /\ act'[y].pc # "gone"
    BY <1>4, <1>6, <2>3 DEF Behind
  <2> QED BY <1>3, <2>1, <2>2, <2>3 DEF FreedInv
<1>12. StoragesInv' /\ TableInv'
  BY <1>1, <1>2, <1>3, <1>4 DEF StoragesInv, TableInv
<1>13. CallInv'
  BY <1>1, <1>2, AllIdle DEF CallInv, CallRight, client
<1> QED BY <1>8, <1>9, <1>10, <1>11, <1>12, <1>13 DEF IInv

-----------------------------------------------------------------------------
(* The theorems.                                                           *)

\* The stock of every scene makes an initial state.
LEMMA InitInv == Init => IInv
<1> SUFFICES ASSUME Init PROVE IInv
  OBVIOUS
<1>1. PICK scene \in Scenes :
         /\ made = Len(scene.stock)
         /\ shape = [t \in Trees |-> IF t <= made THEN scene.stock[t].shape ELSE Empty]
         /\ named = [n \in Names |-> IF \E t \in 1 .. made : scene.stock[t].name = n
                                     THEN CHOOSE t \in 1 .. made : scene.stock[t].name = n ELSE None]
         /\ may = scene.roles
  BY DEF Init
<1>2. /\ hasRoot = (made > 0) /\ act = [x \in AllItems |-> NotCalled] /\ room = 0 /\ freed = {}
      /\ retired = [s \in Slots |-> {}] /\ pc = [c \in Clients |-> "idle"]
      /\ op = [c \in Clients |-> None] /\ mine = [c \in Clients |-> None]
      /\ answer = [c \in Clients |-> None] /\ main = "up" /\ todo = <<>>
  BY DEF Init, InitDestroy
<1>3. /\ made \in Nat /\ made <= MaxTrees /\ MaxTrees \in Nat
      /\ \A i \in 1 .. made : IsShape(scene.stock[i].shape)
      /\ may \in [Clients -> SUBSET [type : {"create", "delete"}, name : Names]]
  <2>1. scene.stock \in Seq([name : Names, shape : {st.shape : st \in ToSet(scene.stock)}])
    BY StorageAssumption
  <2>2. Len(scene.stock) \in Nat
    BY <2>1
  <2> QED BY <1>1, <2>2, StorageAssumption, DestroyAssumption
<1>4. IsShape(Empty)
  BY DEF IsShape, Empty
<1>5. TypeInv
  <2>1. \A t \in Trees : IsShape(shape[t])
    BY <1>1, <1>3, <1>4 DEF Trees
  <2>2. shape = [t \in Trees |-> shape[t]]
    BY <1>1
  <2>3. named \in [Names -> Trees \cup {None}]
    <3>1. ASSUME NEW n \in Names, \E t \in 1 .. made : scene.stock[t].name = n
          PROVE  (CHOOSE t \in 1 .. made : scene.stock[t].name = n) \in Trees
      BY <1>3, <3>1 DEF Trees
    <3> QED BY <1>1, <3>1
  <2>4. retired \in [Slots -> SUBSET Entries] /\ act \in [AllItems -> Activation]
    BY <1>2, CalledType
  <2> QED BY <1>2, <1>3, <2>1, <2>2, <2>3, <2>4 DEF TypeInv
<1>6. \A x \in AllItems : act[x] = NotCalled /\ act[x].pc = "none" /\ act[x].threads = <<>> /\ act[x].i = 1
  BY <1>2 DEF NotCalled
<1>7. ActInv
  <2>1. \A x \in AllItems : \A k \in 1 .. Len(Kids(x)) : Kids(x)[k] \in AllItems
    BY <1>5, KidsFacts
  <2> QED BY <1>6, <2>1 DEF ActInv, ActRight, IsInjective
<1>8. RoomInv
  <2>1. \A z : z \notin Counted
    BY <1>5, <1>6, <1>7, CountedIs DEF IsThread
  <2>2. Counted = {}
    BY <2>1
  <2> QED BY <1>2, <2>2, FS_EmptySet, DestroyAssumption DEF RoomInv, RoomExact
<1>9. FreedInv
  BY <1>2, <1>6 DEF FreedInv, BottomUp, Behind
<1>10. StoragesInv
  <2>1. Storages \in AllItems
    BY DEF AllItems
  <2>2. ~hasRoot => \A n \in Names : named[n] = None
    <3>1. ~hasRoot => ~(made > 0)
      BY <1>2, Zenon
    <3>2. ~(made > 0) => \A t \in 1 .. made : FALSE
      BY <1>3
    <3> QED BY <1>1, <3>1, <3>2
  <2> QED BY <1>2, <1>6, <2>1, <2>2 DEF StoragesInv
<1>11. TableInv
  BY <1>6 DEF TableInv
<1>12. CallInv
  <2>1. \A t \in Trees : t > made => shape[t] = Empty
    BY <1>1, <1>3 DEF Trees
  <2> QED BY <1>2, <1>3, <2>1 DEF CallInv, CallRight
<1> QED BY <1>5, <1>7, <1>8, <1>9, <1>10, <1>11, <1>12 DEF IInv

\* Every step keeps the invariant.
LEMMA NextInv == IInv /\ [Next]_vars => IInv'
<1> SUFFICES ASSUME IInv, [Next]_vars PROVE IInv'
  OBVIOUS
<1>1. ASSUME NEW c \in Clients, NEW o \in may[c], Call(c, o) PROVE IInv'
  BY <1>1, CallKeeps
<1>2. ASSUME NEW c \in Clients, ClientStep(c) PROVE IInv'
  BY <1>2, PlainKeeps, PutKeeps, RemoveKeeps, LoadRootKeeps, LeaveKeeps DEF ClientStep
<1>3. ASSUME NEW x \in Active, Destroyer(x) PROVE IInv'
  BY <1>3, DestroyerStep
<1>4. CASE FinCall \/ InitAgain \/ EpochRound \/ GcRound \/ UNCHANGED vars \/ Finished
  BY <1>4, QuietKeeps DEF Finished
<1>5. CASE MainStep
  BY <1>5, QuietKeeps, FinEachKeeps, FinTablesKeep, FinNullKeeps, FinEndKeeps DEF MainStep
<1> QED BY <1>1, <1>2, <1>3, <1>4, <1>5 DEF Next

\* The invariant holds throughout.
LEMMA Invariant == Spec => []IInv
<1>1. Init => IInv
  BY InitInv
<1>2. IInv /\ [Next]_vars => IInv'
  BY NextInv
<1> QED BY <1>1, <1>2, PTL DEF Spec

\* However the destroyers of any trees race, check_room and the joins count the
\* threads exactly, and never more than the processor has (destroy_manager).
THEOREM RoomIsExact == Spec => []RoomExact
<1>1. IInv => RoomExact
  BY DEF IInv, RoomInv
<1> QED BY <1>1, Invariant, PTL

\* destroy() releases every node of any tree after everything below it, whether
\* by its own thread or by others.
THEOREM ReleasedBottomUp == Spec => []BottomUp
<1>1. IInv => BottomUp
  BY DEF IInv, FreedInv
<1> QED BY <1>1, Invariant, PTL
====
