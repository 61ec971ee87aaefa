---- MODULE MCTree ----
(* Tree for TLC: nodes of three keys, small initial tries, each with the   *)
(* calls that bring its structure changes about.                           *)
EXTENDS Tree

CONSTANTS t1, t2, t3

\* A value under slice s is entry 2s, a link entry 2s + 1.
V(S) == {2 * s : s \in S}

\* Border nodes without and with links, and interior nodes, of the first layer;
\* On(r, x) puts node x into the layer of root r, and Slot0(e, x) entry e into slot 0,
\* where otherwise the least entry is.
L(keys, link) ==
    [top |-> 1, keys |-> keys, link |-> link, slot0 |-> IF keys = {} THEN 0 ELSE Least(keys),
     piv |-> <<>>, child |-> <<>>]
B(S) == L(V(S), <<>>)
I(piv, child) ==
    [top |-> 1, keys |-> {}, link |-> <<>>, slot0 |-> 0, piv |-> piv, child |-> child]
On(r, x) == [x EXCEPT !.top = r]
Slot0(e, x) == [x EXCEPT !.slot0 = e]

One(S) == {<<s>> : s \in S}
Two(p, S) == {<<p, s>> : s \in S}

Calls(c, m) == [calls |-> c, max |-> m]
nobody == Calls({}, 0)
Scene3(shape, kvs, a, b, c) ==
    [shape |-> shape, kv |-> kvs,
     cast |-> [t \in Threads |-> CASE t = t1 -> a [] t = t2 -> b [] t = t3 -> c [] OTHER -> nobody]]
Scene(shape, kvs, c1, m1, c2, m2) ==
    Scene3(shape, kvs, Calls(c1, m1), Calls(c2, m2), nobody)
put(S) == {"put"} \X S
get(S) == {"get"} \X S
remove(S) == {"remove"} \X S

\* Growth of one layer.
NoRoot == Scene(<<>>, {}, get(One({1})) \cup put({<<1>>, <<2, 1>>}), 1, put({<<1>>, <<2, 1>>}), 2)
Empty == Scene(<<B({})>>, {}, get(One({1})) \cup put(One({1})), 1, put({<<1>>, <<1, 1>>}), 2)
OneFull ==
    Scene(<<B({2, 4, 6})>>, One({2, 4, 6}),
          get(One({2, 6})) \cup put(One({1, 5})), 1, put(One({1, 3, 7})), 2)
FullLeaf ==
    Scene(<<I(<<8>>, <<2, 3>>), B({2}), B({4, 5, 6})>>, One({2, 4, 5, 6}),
          get(One({5})) \cup put(One({1, 7})), 1, put(One({1, 3, 7})), 2)
FullAbove ==
    Scene(<<I(<<4, 6, 8>>, <<2, 3, 4, 5>>), B({1}), B({2}), B({3}), B({4, 5, 6})>>,
          One({1, 2, 3, 4, 5, 6}),
          get(One({2, 6})) \cup put(One({2, 7})), 1, put(One({7})), 1)
FullLeft ==
    Scene(<<I(<<10, 12, 14>>, <<2, 3, 4, 5>>), B({2, 3, 4}), B({5}), B({6}), B({7})>>,
          One({2, 3, 4, 5, 6, 7}),
          get(One({4, 6})) \cup put(One({1, 3})), 1, put(One({1})), 1)

\* Growth in and of lower layers.
NewLayer ==
    Scene(<<B({1})>>, One({1}), get({<<1>>, <<1, 1>>}) \cup put({<<1, 1, 1>>}), 1,
          put({<<1, 1>>, <<1, 1, 1>>}), 2)
LayerFull ==
    Scene(<<L({3}, 3 :> 2), On(2, B({2, 4, 6}))>>, Two(1, {2, 4, 6}),
          get(Two(1, {2, 6})) \cup put({<<1, 5>>, <<2>>}), 1, put(Two(1, {1, 3, 7})), 2)
LinkMoves ==
    Scene(<<L({4, 8, 9}, 9 :> 2), On(2, B({2, 4, 6}))>>, One({2, 4}) \cup Two(4, {2, 4, 6}),
          get(Two(4, {2})) \cup put({<<4, 1>>, <<4, 7>>}), 1, put({<<1>>, <<5, 1>>}), 1)
LayerFullAbove ==
    Scene(<<L({3}, 3 :> 2), On(2, I(<<4, 6, 8>>, <<3, 4, 5, 6>>)), On(2, B({1})), On(2, B({2})),
            On(2, B({3})), On(2, B({4, 5, 6}))>>, Two(1, 1 .. 6),
          get(Two(1, {2, 6})) \cup put({<<1, 2>>, <<1, 7>>}), 1, put(Two(1, {7})), 1)
GrowScenes == {NoRoot, Empty, OneFull, FullLeaf, FullAbove, FullLeft, NewLayer, LayerFull,
               LinkMoves, LayerFullAbove}

\* Removal in one layer.
TwoLeaves ==
    Scene(<<I(<<8>>, <<2, 3>>), B({2}), B({4})>>, One({2, 4}),
          remove(One({2, 4})), 2, get(One({2, 4})) \cup put(One({1, 2, 4})), 1)
ThreeLeaves ==
    Scene(<<I(<<4, 8>>, <<2, 3, 4>>), B({1}), B({2}), B({4})>>, One({1, 2, 4}),
          remove(One({1, 2, 4})), 2, get(One({2})) \cup put(One({2, 3})), 1)
Leaning ==
    Scene(<<I(<<8>>, <<2, 5>>), I(<<4>>, <<3, 4>>), B({1}), B({2}), B({4})>>, One({1, 2, 4}),
          remove(One({1, 2, 4})), 2, get(One({2})) \cup put(One({3})), 1)
OneAndFull ==
    Scene(<<I(<<4>>, <<2, 3>>), B({1}), B({2, 3, 4})>>, One({1, 2, 3, 4}),
          remove(One({1})), 1, get(One({3})) \cup put(One({1, 5})), 2)
FullAndOne ==
    Scene(<<I(<<10>>, <<2, 3>>), B({1, 2, 4}), B({5})>>, One({1, 2, 4, 5}),
          remove(One({5})), 1, get(One({2})) \cup put(One({3, 5})), 2)

\* Removal of lower layers.
LayerEnds ==
    Scene(<<L({2, 3}, 3 :> 2), On(2, B({1}))>>, {<<1>>, <<1, 1>>},
          remove({<<1>>, <<1, 1>>}), 2, get({<<1, 1>>}) \cup put({<<1, 1>>, <<1, 2>>}), 2)
LayerShrinks ==
    Scene(<<L({3}, 3 :> 2), On(2, I(<<4>>, <<3, 4>>)), On(2, B({1})), On(2, B({2}))>>,
          Two(1, {1, 2}),
          remove(Two(1, {1, 2})), 2, get(Two(1, {1, 2})) \cup put(Two(1, {1, 2})), 1)
Cascade ==
    Scene(<<I(<<4>>, <<2, 3>>), B({1}), L({5}, 5 :> 4), On(4, L({3}, 3 :> 5)), On(5, B({1}))>>,
          {<<1>>, <<2, 1, 1>>},
          remove({<<2, 1, 1>>}), 1, get({<<2, 1, 1>>}) \cup put({<<2, 1>>, <<2, 1, 1>>, <<3>>}), 2)

\* Slot 0 has, or had, the greatest entry: the rank too many of a deletion leads there.
DeadValue ==
    Scene(<<Slot0(6, B({1, 2}))>>, One({1, 2}),
          remove(One({1, 2})), 1, get(One({3})) \cup put(One({3})) \cup remove(One({3})), 1)
DeadLink ==
    Scene(<<Slot0(5, L({2, 4, 5}, 5 :> 2)), On(2, B({1}))>>, {<<1>>, <<2>>, <<2, 1>>},
          remove({<<2>>, <<2, 1>>}), 2, get({<<2, 1>>}) \cup put({<<2, 1>>}), 1)
RemoveScenes == {TwoLeaves, ThreeLeaves, Leaning, OneAndFull, FullAndOne, LayerEnds,
                 LayerShrinks, Cascade, DeadValue, DeadLink}

\* Two removers that empty neighbours of one interior node, or a layer.
TwoRemovers ==
    Scene(<<I(<<4, 8>>, <<2, 3, 4>>), B({1}), B({2}), B({4})>>, One({1, 2, 4}),
          remove(One({1, 2})), 2, remove(One({1, 2})), 2)
LayerRemovers ==
    Scene(<<L({3}, 3 :> 2), On(2, I(<<4>>, <<3, 4>>)), On(2, B({1})), On(2, B({2}))>>,
          Two(1, {1, 2}), remove(Two(1, {1, 2})), 2, remove(Two(1, {1, 2})), 2)
RootRemovers ==
    Scene(<<I(<<8>>, <<2, 3>>), B({2}), B({4})>>, One({2, 4}),
          remove(One({2, 4})), 1, remove(One({2, 4})), 1)
LayerCrowd ==
    Scene3(LayerShrinks.shape, LayerShrinks.kv, Calls(remove(Two(1, {1})), 1),
           Calls(remove(Two(1, {2})), 1), Calls(get(Two(1, {2})) \cup put(Two(1, {1})), 1))
SplitCrowd ==
    Scene3(LayerFull.shape, LayerFull.kv, Calls(put(Two(1, {1})), 1),
           Calls(put(Two(1, {7})), 1), Calls(get(Two(1, {2, 6})), 1))
MoveCrowd ==
    Scene3(LinkMoves.shape, LinkMoves.kv, Calls(put(Two(4, {1})), 1),
           Calls(put({<<1>>}), 1), Calls(get(Two(4, {6})) \cup remove(One({4})), 1))
CascadeCrowd ==
    Scene3(Cascade.shape, Cascade.kv, Calls(remove({<<2, 1, 1>>}), 1),
           Calls(put({<<2, 1>>}), 1), Calls(get({<<2, 1, 1>>}) \cup remove({<<2, 1>>}), 1))
CrowdScenes == {LayerCrowd, SplitCrowd, MoveCrowd, CascadeCrowd}
PairScenes == {TwoRemovers, LayerRemovers}
RootScenes == {RootRemovers}
AllScenes == CrowdScenes \cup GrowScenes \cup RemoveScenes \cup PairScenes
AllKeys == One(1 .. 7) \cup {<<i, j>> : i \in 1 .. 5, j \in 1 .. 7} \cup {<<1, 1, 1>>, <<2, 1, 1>>}
====
