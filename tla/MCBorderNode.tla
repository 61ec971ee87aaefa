---- MODULE MCBorderNode ----
(* BorderNode for TLC.  The uniform instance gives every thread the same   *)
(* menu, so threads are interchangeable; the others cast them in roles.    *)
EXTENDS BorderNode, TLC

CONSTANTS t1, t2

Symmetry == Permutations(Threads)

Once == [t \in Threads |-> 1]
SecondTwice == [Once EXCEPT ![t2] = 2]

ReadWrite == t1 :> {"get", "put", "insert", "scan"} @@ t2 :> {"put", "insert"}
ReadRemove == t1 :> {"get", "put", "remove"} @@ t2 :> {"put", "remove"}
GetOrRemove == t1 :> {"get"} @@ t2 :> {"remove"}
PutRemove == [t \in Threads |-> {"put", "remove"}]
====
