---- MODULE Storage ----
(***************************************************************************)
(* Storages, start and stop (storage_impl.h, interface_destroy.h,          *)
(* interface_helper.h, the ends of the threads of manager_thread.h).  The  *)
(* tree of storages maps a name to a tree_instance; put, get and remove on *)
(* it are single steps here, modules BorderNode and Tree take them apart.  *)
(* create_storage and delete_storage run in parallel, and nothing besides; *)
(* puts of earlier filled the storages there are at first.                 *)
(***************************************************************************)
EXTENDS Destroy, TLC

CONSTANTS
    Clients,    \* threads that create and delete storages
    Scenes,     \* where a history may begin: [stock, roles, lost], that is the storages there
                \* are, as a sequence of [name, shape], what each client may call, as a set of
                \* [type, name], and whether a user forgot to leave a session
    MaxRounds   \* bound on the calls of init

ASSUME StorageAssumption ==
    /\ MaxRounds \in Nat \ {0}
    /\ None \notin Clients
    /\ \A scene \in Scenes :
          /\ scene.stock \in Seq([name : Names, shape : {st.shape : st \in ToSet(scene.stock)}])
          /\ Len(scene.stock) <= MaxTrees
          /\ \A i \in 1 .. Len(scene.stock) : IsShape(scene.stock[i].shape)
          /\ \A i, j \in 1 .. Len(scene.stock) : scene.stock[i].name = scene.stock[j].name => i = j
          /\ scene.roles \in [Clients -> SUBSET [type : {"create", "delete"}, name : Names]]

VARIABLES
    hasRoot,    \* whether the tree of storages has a root
    instance,   \* instance[t]: root_ in t's tree_instance: "root", "null", "none" if never put
    made,       \* how many trees were made
    sess,       \* sess[s]: who runs session s, None, or "lost" if its user forgot to leave
    behind,     \* the sessions whose begin epoch is not the current epoch
    pc,         \* pc[c]: where c is in its call
    op,         \* op[c]: the call, [type, name]
    mine,       \* mine[c]: the tree c made, or looked up
    answer,     \* answer[c]: what its call returns
    may,        \* may[c]: what c may yet call, each client calls once
    main,       \* where the thread is that calls init and fin: "up" and "down" between them
    todo,       \* the storages destroy() has yet to release
    rounds,     \* the calls of init
    ending,     \* kEpochThreadEnd, kGCThreadEnd
    epoch, gc,  \* the epoch and the gc thread: "run", "ended"; "none" when joined
    mixed       \* history: <<t, u>> if a delete looked up t and removed u

client == <<pc, op, mine, answer, may>>
life == <<main, todo, rounds>>
ends == <<ending, epoch, gc>>
table == <<named, shape, hasRoot, instance, made>>
vars == <<table, retired, destroying, sess, behind, client, life, ends, mixed>>

Empty == [p \in {<<>>} |-> 0]       \* the shape of a new border node

Init ==
    /\ \E scene \in Scenes :
          LET stock == scene.stock
          IN  /\ made = Len(stock)
              /\ shape = [t \in Trees |-> IF t <= made THEN stock[t].shape ELSE Empty]
              /\ named = [n \in Names |-> IF \E t \in 1 .. made : stock[t].name = n
                                          THEN CHOOSE t \in 1 .. made : stock[t].name = n ELSE None]
              /\ sess = [s \in Slots |-> IF scene.lost /\ s = 1 THEN "lost" ELSE None]
              /\ may = scene.roles
    /\ hasRoot = (made > 0)
    /\ instance = [t \in Trees |-> IF t <= made THEN "root" ELSE "none"]
    /\ InitDestroy
    /\ retired = [s \in Slots |-> {}]
    /\ behind = {}
    /\ pc = [c \in Clients |-> "idle"] /\ op = [c \in Clients |-> None]
    /\ mine = [c \in Clients |-> None] /\ answer = [c \in Clients |-> None]
    /\ main = "up" /\ todo = <<>> /\ rounds = 1
    /\ ending = FALSE /\ epoch = "run" /\ gc = "run"
    /\ mixed = {}

Goto(c, label) == pc' = [pc EXCEPT ![c] = label]
Answer(c, a) == answer' = [answer EXCEPT ![c] = a] /\ Goto(c, "leave")

-----------------------------------------------------------------------------
(* create_storage and delete_storage.                                      *)

\* create_storage first makes a border node, the root of a new tree.
Call(c, o) ==
    /\ main = "up" /\ o \in may[c]
    /\ may' = [may EXCEPT ![c] = {}]
    /\ op' = [op EXCEPT ![c] = o]
    /\ IF o.type = "create"
       THEN made < MaxTrees /\ made' = made + 1 /\ mine' = [mine EXCEPT ![c] = made + 1]
       ELSE UNCHANGED <<made, mine>>
    /\ Goto(c, "enter")
    /\ UNCHANGED <<named, shape, hasRoot, instance, retired, destroying, sess, behind, answer,
                   life, ends, mixed>>

\* The loop around enter: WARN_MAX_SESSIONS until a session is free.
Enter(c) ==
    /\ pc[c] = "enter"
    /\ \E s \in Slots : /\ sess[s] = None /\ \A r \in Slots : r < s => sess[r] # None
                        /\ sess' = [sess EXCEPT ![s] = c]
    /\ Goto(c, IF op[c].type = "create" THEN "put" ELSE "get")
    /\ UNCHANGED <<table, retired, destroying, behind, op, mine, answer, may, life, ends, mixed>>

\* put with unique_restriction.  A tree of storages without a root gets one.
PutEntry(c) ==
    /\ pc[c] = "put"
    /\ IF named[op[c].name] # None
       THEN /\ Answer(c, "WARN_UNIQUE_RESTRICTION")
            /\ UNCHANGED <<table, destroying>>
       ELSE /\ Answer(c, "OK")
            /\ named' = [named EXCEPT ![op[c].name] = mine[c]]
            /\ instance' = [instance EXCEPT ![mine[c]] = "root"]
            /\ hasRoot' = TRUE
            /\ act' = IF hasRoot THEN act ELSE [act EXCEPT ![Storages] = NotCalled]
            /\ freed' = IF hasRoot THEN freed ELSE freed \ {Storages}
            /\ UNCHANGED <<shape, made, room, twice>>
    /\ UNCHANGED <<retired, sess, behind, op, mine, may, life, ends, mixed>>

GetEntry(c) ==
    /\ pc[c] = "get"
    /\ IF named[op[c].name] = None
       THEN Answer(c, "WARN_NOT_EXIST") /\ UNCHANGED mine
       ELSE /\ mine' = [mine EXCEPT ![c] = named[op[c].name]]
            /\ Goto(c, "remove") /\ UNCHANGED answer
    /\ UNCHANGED <<table, retired, destroying, sess, behind, op, may, life, ends, mixed>>

\* A plausible slip in delete_storage: the answer of remove is not looked at.
RemoveUnchecked(c) ==
    /\ pc[c] = "remove"
    /\ LET t == named[op[c].name]
           s == CHOOSE r \in Slots : sess[r] = c
       IN  /\ named' = [named EXCEPT ![op[c].name] = None]
           /\ retired' = IF t = None THEN retired ELSE [retired EXCEPT ![s] = @ \cup {Entry(t)}]
           /\ mixed' = IF t \in {None, mine[c]} THEN mixed ELSE mixed \cup {<<mine[c], t>>}
    /\ Goto(c, "load")
    /\ UNCHANGED <<shape, hasRoot, instance, made, destroying, sess, behind, op, mine, answer, may,
                   life, ends>>

\* remove takes away what has the name now, and retires the entry.
RemoveEntry(c) ==
    /\ pc[c] = "remove"
    /\ IF named[op[c].name] = None
       THEN Answer(c, "WARN_CONCURRENT_OPERATIONS") /\ UNCHANGED <<named, retired, mixed>>
       ELSE LET t == named[op[c].name]
                s == CHOOSE r \in Slots : sess[r] = c
            IN  /\ named' = [named EXCEPT ![op[c].name] = None]
                /\ retired' = [retired EXCEPT ![s] = @ \cup {Entry(t)}]
                /\ mixed' = IF t = mine[c] THEN mixed ELSE mixed \cup {<<mine[c], t>>}
                /\ Goto(c, "load") /\ UNCHANGED answer
    /\ UNCHANGED <<shape, hasRoot, instance, made, destroying, sess, behind, op, mine, may, life,
                   ends>>

\* destroy() of the tree t, on whoever's call.
StartDestroy(t) ==
    /\ act' = IF act[Root(t)] = NotCalled THEN [act EXCEPT ![Root(t)] = Called] ELSE act
    /\ twice' = IF act[Root(t)] = NotCalled THEN twice ELSE twice \cup {Root(t)}
    /\ UNCHANGED <<room, freed>>

\* The tree of the entry that was looked up is destroyed, if it has a root.
LoadRoot(c) ==
    /\ pc[c] = "load"
    /\ IF instance[mine[c]] = "root"
       THEN StartDestroy(mine[c]) /\ Goto(c, "destroy") /\ UNCHANGED answer
       ELSE Answer(c, "OK") /\ UNCHANGED destroying
    /\ UNCHANGED <<table, retired, sess, behind, op, mine, may, life, ends, mixed>>

StoreRoot(c) ==
    /\ pc[c] = "destroy" /\ act[Root(mine[c])].pc = "gone"
    /\ instance' = [instance EXCEPT ![mine[c]] = "null"]
    /\ Answer(c, "OK")
    /\ UNCHANGED <<named, shape, hasRoot, made, retired, destroying, sess, behind, op, mine, may,
                   life, ends, mixed>>

\* leave; a create_storage that failed deletes the border node it made.
Leave(c) ==
    /\ pc[c] = "leave"
    /\ LET s == CHOOSE r \in Slots : sess[r] = c
       IN  sess' = [sess EXCEPT ![s] = None] /\ behind' = behind \ {s}
    /\ freed' = IF answer[c] = "WARN_UNIQUE_RESTRICTION" THEN freed \cup {Root(mine[c])} ELSE freed
    /\ mine' = [mine EXCEPT ![c] = None] /\ op' = [op EXCEPT ![c] = None]
    /\ answer' = [answer EXCEPT ![c] = None]
    /\ Goto(c, "idle")
    /\ UNCHANGED <<table, retired, act, room, twice, may, life, ends, mixed>>

ClientStep(c) ==
    \/ Enter(c) \/ PutEntry(c) \/ GetEntry(c) \/ RemoveEntry(c) \/ LoadRoot(c) \/ StoreRoot(c) \/ Leave(c)

-----------------------------------------------------------------------------
(* init and fin, called when no other call runs.                           *)

Main(from, to) == main = from /\ main' = to

\* destroy(): a scan lists the storages.
FinCall ==
    /\ \A c \in Clients : pc[c] = "idle"
    /\ Main("up", IF hasRoot THEN "each" ELSE "flags")
    /\ todo' = SetToSeq({named[n] : n \in Names} \ {None})
    /\ UNCHANGED <<table, retired, destroying, sess, behind, client, rounds, ends, mixed>>

\* The tree of each.  The loop would pass over one without a root; a storage that is listed
\* has one, so fin never waits here (StopsAndReturns).
FinEach ==
    /\ Main("each", "destroy")
    /\ todo # <<>> /\ instance[Head(todo)] = "root"
    /\ StartDestroy(Head(todo))
    /\ UNCHANGED <<table, retired, sess, behind, client, todo, rounds, ends, mixed>>

FinStored ==
    /\ Main("destroy", "each")
    /\ act[Root(Head(todo))].pc = "gone"
    /\ instance' = [instance EXCEPT ![Head(todo)] = "null"]
    /\ todo' = Tail(todo)
    /\ UNCHANGED <<named, shape, hasRoot, made, retired, destroying, sess, behind, client, rounds,
                   ends, mixed>>

\* The tree of storages comes last.
FinStorages ==
    /\ Main("each", "storages") /\ todo = <<>>
    /\ act' = [act EXCEPT ![Storages] = Called]
    /\ UNCHANGED <<table, retired, room, freed, twice, sess, behind, client, todo, rounds, ends,
                   mixed>>

FinNull ==
    /\ Main("storages", "flags") /\ act[Storages].pc = "gone"
    /\ hasRoot' = FALSE /\ named' = [n \in Names |-> None]
    /\ UNCHANGED <<shape, instance, made, retired, destroying, sess, behind, client, todo, rounds,
                   ends, mixed>>

SetThreadEnds ==
    /\ Main("flags", "join")
    /\ ending' = TRUE
    /\ UNCHANGED <<table, retired, destroying, sess, behind, client, todo, rounds, epoch, gc, mixed>>

\* Both threads are joined, then the GC containers of all sessions are released.
FinJoin ==
    /\ Main("join", "table") /\ epoch = "ended" /\ gc = "ended"
    /\ epoch' = "none" /\ gc' = "none"
    /\ act' = [act EXCEPT ![SessionTable] = Called]
    /\ UNCHANGED <<table, retired, room, freed, twice, sess, behind, client, todo, rounds, ending,
                   mixed>>

FinEnd ==
    /\ Main("table", "down") /\ act[SessionTable].pc = "gone"
    /\ act' = [x \in AllItems |-> IF x[1] = -1 THEN NotCalled ELSE act[x]]
    /\ retired' = [s \in Slots |-> {}]
    /\ UNCHANGED <<table, room, freed, twice, sess, behind, client, todo, rounds, ends, mixed>>

\* init: the table of sessions is cleared and the threads are started.  The flags
\* that end them keep their values.
InitAgain ==
    /\ Main("down", "up") /\ rounds < MaxRounds
    /\ rounds' = rounds + 1
    /\ sess' = [s \in Slots |-> None] /\ behind' = {}
    /\ epoch' = "run" /\ gc' = "run"
    /\ UNCHANGED <<table, retired, destroying, client, todo, ending, mixed>>

MainStep ==
    FinEach \/ FinStored \/ FinStorages \/ FinNull \/ SetThreadEnds \/ FinJoin \/ FinEnd

-----------------------------------------------------------------------------
(* The epoch and the gc thread, as far as fin waits for them.              *)

\* A plausible slip in epoch_thread: the wait for old sessions does not look at the flag.
EpochRoundWaits ==
    /\ epoch = "run" /\ behind = {}
    /\ behind' = {s \in Slots : sess[s] # None}
    /\ epoch' = IF ending THEN "ended" ELSE "run"
    /\ UNCHANGED <<table, retired, destroying, sess, client, life, ending, gc, mixed>>

\* The epoch is raised once every session has begun in it, or fin was called.
EpochRound ==
    /\ epoch = "run" /\ (behind = {} \/ ending)
    /\ behind' = {s \in Slots : sess[s] # None}
    /\ epoch' = IF ending THEN "ended" ELSE "run"
    /\ UNCHANGED <<table, retired, destroying, sess, client, life, ending, gc, mixed>>

\* gc_thread: a round of releases, then the flag.
GcRound ==
    /\ gc = "run" /\ ending
    /\ gc' = "ended"
    /\ UNCHANGED <<table, retired, destroying, sess, behind, client, life, ending, epoch, mixed>>

-----------------------------------------------------------------------------

Destroyer(x) ==
    /\ DestroyStep(x)
    /\ UNCHANGED <<hasRoot, instance, made, sess, behind, client, life, ends, mixed>>

\* Every bound is reached, or memory was released twice and anything may happen.
Finished ==
    /\ twice # {} \/ (main = "down" /\ rounds = MaxRounds)
    /\ UNCHANGED vars

Next ==
    \/ /\ twice = {}
       /\ \/ \E c \in Clients : \E o \in may[c] : Call(c, o)
          \/ \E c \in Clients : ClientStep(c)
          \/ \E x \in Active : Destroyer(x)
          \/ FinCall \/ InitAgain \/ MainStep
          \/ EpochRound \/ GcRound
    \/ Finished

\* The operating system schedules every thread.  Of the threads that destroy it is
\* enough that some one runs.
Fairness ==
    /\ \A c \in Clients : WF_vars(twice = {} /\ ClientStep(c))
    /\ WF_vars(twice = {} /\ \E x \in Active : Destroyer(x))
    /\ WF_vars(twice = {} /\ MainStep)
    /\ WF_vars(twice = {} /\ EpochRound) /\ WF_vars(twice = {} /\ GcRound)

Spec == Init /\ [][Next]_vars
FairSpec == Spec /\ Fairness

-----------------------------------------------------------------------------
(* Properties.                                                             *)

\* create_storage and delete_storage in parallel release every tree once, and fin
\* leaves none, with one exception: a delete_storage that looked up one tree, and
\* removed another of the same name that was created since, may destroy the first
\* a second time and never destroys the other.
TreesReleasedOnce ==
    /\ \A x \in twice : \E m \in mixed : x = Root(m[1])
    /\ main = "down" =>
          \A t \in 1 .. made :
              /\ Below(t) \subseteq freed \/ \E m \in mixed : m[2] = t
              /\ instance[t] # "none" => Entry(t) \in freed

\* Every create_storage, delete_storage and fin returns: no loop for a session, no
\* join and no wait of the epoch thread lasts for ever, even if a session was never
\* left.
StopsAndReturns ==
    []<>(twice # {} \/ (main \in {"up", "down"} /\ \A c \in Clients : pc[c] = "idle"))
====
