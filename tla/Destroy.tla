---- MODULE Destroy ----
(***************************************************************************)
(* The release of whole trees (border_node::destroy, interior_node::       *)
(* destroy, link_or_value::destroy, thread_info_table::fin) by threads     *)
(* that destroy_manager counts.  A node gives each child node a thread of  *)
(* its own while there is room and releases it itself otherwise, and joins *)
(* the threads it started before it is released.                           *)
(*                                                                         *)
(* An item is a pair of a tree and a path: path <<i, j>> is the child or   *)
(* entry j of the child or entry i of the root.  Tree 0 is the tree of     *)
(* storages, tree -1 stands for the table of sessions.                     *)
(***************************************************************************)
EXTENDS Integers, Sequences, FiniteSets, SequencesExt

CONSTANTS
    Concurrency,    \* std::thread::hardware_concurrency()
    NSlots,         \* YAKUSHIMA_MAX_PARALLEL_SESSIONS
    Names,          \* names of storages
    MaxTrees,       \* bound on the trees ever created
    None            \* nullptr

ASSUME DestroyAssumption ==
    /\ Concurrency \in Nat /\ MaxTrees \in Nat
    /\ NSlots \in Nat \ {0}
    /\ None \notin Nat

Trees == 1 .. MaxTrees
Slots == 1 .. NSlots

\* The shape of a tree: the paths of its nodes, each with its number of children.
\* Every node but the root is the child of a node.
IsShape(f) ==
    /\ f = [p \in DOMAIN f |-> f[p]]
    /\ <<>> \in DOMAIN f /\ DOMAIN f \subseteq Seq(Nat)
    /\ \A p \in DOMAIN f :
          /\ f[p] \in Nat
          /\ p = <<>> \/ \E q \in DOMAIN f : \E i \in 1 .. f[q] : p = Append(q, i)

VARIABLES
    shape,      \* shape[t][p]: how many children or entries the node at path p has
    named,      \* named[n]: the tree that has an entry for n in the tree of storages
    retired,    \* retired[s]: the items in the GC containers of session s
    act,        \* act[x]: the activation of destroy() on x
    room,       \* destroy_threads_num_
    freed,      \* the items released
    twice       \* history: items that were released, or destroyed, again

destroying == <<act, room, freed, twice>>

-----------------------------------------------------------------------------

Root(t) == <<t, <<>>>>
Storages == Root(0)
SessionTable == Root(-1)
Entry(t) == <<0, <<t>>>>            \* the tree_instance of t in the tree of storages
Containers(s) == <<-1, <<s>>>>

\* Children and entries, in the order of the loop.
Kids(x) ==
    IF x = Storages THEN SetToSeq({Entry(named[n]) : n \in {m \in Names : named[m] # None}})
    ELSE IF x = SessionTable THEN [s \in Slots |-> Containers(s)]
    ELSE IF x[1] \in Trees /\ x[2] \in DOMAIN shape[x[1]]
    THEN [i \in 1 .. shape[x[1]][x[2]] |-> <<x[1], Append(x[2], i)>>]
    ELSE <<>>

\* Everything that hangs below t's root, and the root.
Below(t) == {<<t, p>> : p \in DOMAIN shape[t]} \cup
            UNION {{<<t, Append(p, i)>> : i \in 1 .. shape[t][p]} : p \in DOMAIN shape[t]}

IsContainer(x) == x[1] = -1 /\ x # SessionTable

\* A value has no destroy() of its own.
IsValue(x) == IF x[1] \in Trees THEN x[2] \notin DOMAIN shape[x[1]] ELSE x[1] = 0 /\ x # Storages

NotCalled == [pc |-> "none", i |-> 1, expected |-> 0, threads |-> <<>>]
Called == [NotCalled EXCEPT !.pc = "loop"]

AllItems == {Storages, SessionTable} \cup {Containers(s) : s \in Slots}
            \cup {Entry(t) : t \in Trees} \cup UNION {Below(t) : t \in Trees}

\* The activations that are under way.
Active == {x \in DOMAIN act : act[x].pc \notin {"none", "gone"}}

InitDestroy ==
    /\ act = [x \in AllItems |-> NotCalled]
    /\ room = 0 /\ freed = {} /\ twice = {}

-----------------------------------------------------------------------------
(* The loop of destroy(), and of thread_info_table::fin.                   *)

Kid(x) == Kids(x)[act[x].i]
InLoop(x) == act[x].pc = "loop" /\ act[x].i <= Len(Kids(x))

\* An entry that is a value is released on the spot.
ReleaseValue(x) ==
    /\ InLoop(x) /\ IsValue(Kid(x))
    /\ freed' = freed \cup {Kid(x)}
    /\ twice' = twice \cup (freed \cap {Kid(x)})
    /\ act' = [act EXCEPT ![x].i = @ + 1]
    /\ UNCHANGED room

\* check_room: load the count ...
LoadRoom(x) ==
    /\ InLoop(x) /\ ~IsValue(Kid(x))
    /\ act' = [act EXCEPT ![x].pc = "cas", ![x].expected = room]
    /\ UNCHANGED <<room, freed, twice>>

HasRoom(n) == n < Concurrency

\* ... and no room: the child is released by this thread ...
NoRoom(x) ==
    /\ act[x].pc = "cas" /\ ~HasRoom(act[x].expected)
    /\ act' = [act EXCEPT ![x].pc = "inline", ![Kid(x)] = Called]
    /\ UNCHANGED <<room, freed, twice>>

\* A plausible slip in check_room: a store takes the place of the compare-exchange.
StartThreadStored(x) ==
    /\ act[x].pc = "cas" /\ HasRoom(act[x].expected)
    /\ room' = act[x].expected + 1
    /\ act' = [act EXCEPT ![x].pc = "loop", ![x].i = @ + 1, ![x].threads = Append(@, Kid(x)),
                          ![Kid(x)] = Called]
    /\ UNCHANGED <<freed, twice>>

\* ... or the count is still the same, and a thread is started ...
StartThread(x) ==
    /\ act[x].pc = "cas" /\ HasRoom(act[x].expected) /\ room = act[x].expected
    /\ room' = room + 1
    /\ act' = [act EXCEPT ![x].pc = "loop", ![x].i = @ + 1, ![x].threads = Append(@, Kid(x)),
                          ![Kid(x)] = Called]
    /\ UNCHANGED <<freed, twice>>

\* ... or it is not: the compare-exchange loads it again.
ReloadRoom(x) ==
    /\ act[x].pc = "cas" /\ HasRoom(act[x].expected) /\ room # act[x].expected
    /\ act' = [act EXCEPT ![x].expected = room]
    /\ UNCHANGED <<room, freed, twice>>

\* The child this thread released itself is gone.
Return(x) ==
    /\ act[x].pc = "inline" /\ act[Kid(x)].pc = "gone"
    /\ act' = [act EXCEPT ![x].pc = "loop", ![x].i = @ + 1]
    /\ UNCHANGED <<room, freed, twice>>

\* After the loop: join the threads in their order.  destroy() returns the room of
\* each one now, the threads of thread_info_table::fin have done so themselves.
Join(x) ==
    /\ act[x].pc = "loop" /\ act[x].i > Len(Kids(x)) /\ act[x].threads # <<>>
    /\ act[Head(act[x].threads)].pc = "gone"
    /\ act' = [act EXCEPT ![x].threads = Tail(@)]
    /\ room' = IF x = SessionTable THEN room ELSE room - 1
    /\ UNCHANGED <<freed, twice>>

\* A plausible slip in destroy: the threads are not joined.
DeleteUnjoined(x) ==
    /\ act[x].pc = "loop" /\ act[x].i > Len(Kids(x)) /\ ~IsContainer(x)
    /\ act' = [act EXCEPT ![x].pc = "gone"]
    /\ freed' = IF x = SessionTable THEN freed ELSE freed \cup {x}
    /\ twice' = twice \cup (freed \cap {x})
    /\ UNCHANGED room

\* destroy() returns and the caller deletes the node.
Delete(x) ==
    /\ act[x].pc = "loop" /\ act[x].i > Len(Kids(x)) /\ act[x].threads = <<>>
    /\ ~IsContainer(x)
    /\ act' = [act EXCEPT ![x].pc = "gone"]
    /\ freed' = IF x = SessionTable THEN freed ELSE freed \cup {x}
    /\ twice' = twice \cup (freed \cap {x})
    /\ UNCHANGED room

\* gc_container::fin releases what is in the containers of session s.
ReleaseContainers(s) ==
    LET x == Containers(s)
    IN  /\ act[x].pc = "loop"
        /\ act' = [act EXCEPT ![x].pc = "gone"]
        /\ freed' = freed \cup retired[s]
        /\ twice' = twice \cup (freed \cap retired[s])
        /\ room' = IF Contains(act[SessionTable].threads, x) THEN room - 1 ELSE room

DestroyStep(x) ==
    /\ \/ ReleaseValue(x) \/ LoadRoom(x) \/ NoRoom(x) \/ StartThread(x) \/ ReloadRoom(x)
       \/ Return(x) \/ Join(x) \/ Delete(x)
       \/ \E s \in Slots : x = Containers(s) /\ ReleaseContainers(s)
    /\ UNCHANGED <<shape, named, retired>>

-----------------------------------------------------------------------------
(* Properties.                                                             *)

\* The threads destroy_manager has counted and not taken back: those that were
\* started and not joined, or of the table of sessions that have not ended.
Counted ==
    UNION {{x \in ToSet(act[y].threads) : y = SessionTable => act[x].pc # "gone"} : y \in Active}

\* Never more threads than the processor has, however the destroyers of several
\* trees race for room, and every room is returned: the count is that of the
\* threads.
RoomExact == room = Cardinality(Counted) /\ room <= Concurrency

\* A node is released after everything below it, by whichever threads: no thread
\* is left to work in a node that is gone.
BottomUp ==
    \A x \in freed : \A i \in DOMAIN Kids(x) : Kids(x)[i] \in freed
====
