---- MODULE MCScan ----
(* Tree and Scan for TLC: the tries of MCTree with their calls, and small  *)
(* tries with one scan and the calls that disturb it.                      *)
EXTENDS MCTree, Scan

CONSTANTS scanner

Q(l, l_end, r, r_end, max) == [l |-> l, l_end |-> l_end, r |-> r, r_end |-> r_end, max |-> max]
All == Q(<<>>, "INF", <<>>, "INF", 0)
First(m) == Q(<<>>, "INF", <<>>, "INF", m)
Between(l, r) == Q(l, "INCLUSIVE", r, "EXCLUSIVE", 0)

ScanScene(shape, kvs, qs, a, b) ==
    [shape |-> shape, kv |-> kvs,
     cast |-> scanner :> Calls({"scan"} \X qs, 1) @@ t1 :> a @@ t2 :> b @@ t3 :> nobody]

\* Every pair of endpoints on a trie of three layers.
Points == {<<1>>, <<1, 1>>, <<1, 2>>, <<2>>, <<2, 1>>, <<2, 1, 1>>, <<3>>, <<3, 1>>, <<4>>}
Ends == {"INF", "INCLUSIVE", "EXCLUSIVE"}
Endpoints ==
    ScanScene(<<I(<<4>>, <<2, 3>>), L({2, 3}, 3 :> 4), L({4, 5, 8}, 5 :> 5), On(4, B({1, 2})),
            On(5, L({3}, 3 :> 6)), On(6, B({1}))>>,
          {<<1>>, <<1, 1>>, <<1, 2>>, <<2>>, <<2, 1, 1>>, <<4>>},
          {Q(IF le = "INF" THEN <<>> ELSE l, le, IF re = "INF" THEN <<>> ELSE r, re, 0) :
              l, r \in Points, le, re \in Ends}, nobody, nobody)

ScanNoTree == ScanScene(<<>>, {}, {All}, Calls(put({<<1>>}), 1), Calls(put({<<1, 1>>}), 1))
ScanRootSplits ==
    ScanScene(<<B({1, 2, 4})>>, One({1, 2, 4}), {All, Between(<<2>>, <<4>>), First(2)},
          Calls(put(One({3, 5})), 1), Calls(put({<<4, 1>>}), 1))
ScanLeafSplits ==
    ScanScene(<<I(<<10>>, <<2, 3>>), B({1, 2, 3}), B({5})>>, One({1, 2, 3, 5}),
          {Between(<<3>>, <<6>>)}, Calls(put(One({4})), 1), Calls(remove(One({5})), 1))
ScanLeafGoes ==
    ScanScene(<<I(<<4, 8>>, <<2, 3, 4>>), B({1}), B({2}), B({4})>>, One({1, 2, 4}),
          {All}, Calls(remove(One({1, 2})), 1), Calls(put(One({3})), 1))
ScanLayerSplits ==
    ScanScene(<<L({2, 3, 4}, 3 :> 2), On(2, B({1, 2, 3}))>>, One({1, 2}) \cup Two(1, {1, 2, 3}),
          {Between(<<1, 2>>, <<2>>)}, Calls(put({<<1, 4>>}), 1), Calls(put({<<3>>}), 1))
ScanLayerShrinks ==
    ScanScene(<<L({3, 4}, 3 :> 2), On(2, I(<<4>>, <<3, 4>>)), On(2, B({1})), On(2, B({2}))>>,
          Two(1, {1, 2}) \cup One({2}),
          {All}, Calls(remove(Two(1, {1})), 1), Calls(put(Two(1, {3})), 1))
ScanCascade ==
    ScanScene(<<L({2, 5}, 5 :> 2), On(2, L({3}, 3 :> 3)), On(3, B({1}))>>,
          {<<1>>, <<2, 1, 1>>}, {Between(<<2>>, <<2, 2>>)},
          Calls(remove({<<2, 1, 1>>}), 1), Calls(put({<<2, 1>>}), 1))
\* The first node behind the right endpoint has a link there; a limit among links.
EndsAtLink == ScanScene(<<L({5}, 5 :> 2), On(2, B({1}))>>, {<<2, 1>>}, {Between(<<1>>, <<2>>)},
                        Calls(put({<<1>>}), 1), nobody)
LimitBelow == ScanScene(<<L({3, 4, 6}, 3 :> 2), On(2, B({1, 2}))>>,
                        Two(1, {1, 2}) \cup One({2, 3}), {First(1), First(2)},
                        Calls(put({<<1, 3>>}), 1), nobody)
\* A rank too many repeats a value or a layer, or leads to a removed or a moved key.
ScanTwice == ScanScene(<<B({1, 2, 4})>>, One({1, 2, 4}), {All, First(3), Between(<<1>>, <<4>>)},
                       Calls(remove(One({2})), 1), Calls(put(One({3})), 1))
ScanLayerTwice == ScanScene(<<L({3, 4}, 3 :> 2), On(2, B({1, 2}))>>, Two(1, {1, 2}) \cup One({2}),
                            {All, Between(<<1, 2>>, <<3>>)}, Calls(remove(One({2})), 1), nobody)
ScanDead == ScanScene(<<Slot0(8, B({1, 2, 4}))>>, One({1, 2, 4}), {All, Between(<<1>>, <<4>>)},
                      Calls(remove(One({2, 4})), 2), nobody)
ScanDeadLink == ScanScene(DeadLink.shape, DeadLink.kv, {All}, DeadLink.cast[t1], nobody)
ScanCleared == ScanScene(<<Slot0(8, B({1, 2, 4}))>>, One({1, 2, 4}), {All},
                         Calls(put(One({5})), 1), Calls(remove(One({1})), 1))
ScanScenes == {Endpoints, ScanNoTree, ScanRootSplits, ScanLeafSplits, ScanLeafGoes, ScanLayerSplits,
               ScanLayerShrinks, ScanCascade, EndsAtLink, LimitBelow, ScanTwice, ScanLayerTwice,
               ScanDead, ScanDeadLink, ScanCleared}
TreeAndScanScenes == AllScenes \cup ScanScenes
====
