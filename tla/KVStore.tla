---- MODULE KVStore ----
(***************************************************************************)
(* What get, put, remove and scan promise their callers (include/kvs.h): a *)
(* map from keys to values.  A writer takes effect at one instant between  *)
(* its call and its return; a reader answers with something that was true  *)
(* at an instant of its call, which seen[t] collects.                      *)
(***************************************************************************)
EXTENDS Naturals

CONSTANTS Keys,     \* the keys
          Values,   \* the values
          Threads,  \* the client threads
          None      \* absence of a value

VARIABLES
    kv,         \* kv[k]: the value of k, or None
    req,        \* req[t]: the request t made last
    resp,       \* resp[t]: "idle", "pending" or the answer to req[t]
    seen        \* seen[t]: what there was to see of the map since the call

vars == <<kv, req, resp, seen>>

Answer(st, val) == [st |-> st, val |-> val]

\* What request r can see of map m: the value of its key, or all for a scan.
View(r, m) == IF r.type = "scan" THEN m ELSE m[r.key]

\* What the threads have seen once the map becomes m.
SeenAfter(m) ==
    [t \in Threads |-> IF resp[t].st = "pending" THEN seen[t] \cup {View(req[t], m)}
                                              ELSE seen[t]]

Init ==
    /\ kv \in [Keys -> Values \cup {None}]
    /\ req = [t \in Threads |-> None]
    /\ resp = [t \in Threads |-> Answer("idle", None)]
    /\ seen = [t \in Threads |-> {}]

Invoke(t) ==
    /\ resp[t].st # "pending"
    /\ \E y \in {"get", "put", "insert", "remove", "scan"}, k \in Keys, x \in Values :
          req' = [req EXCEPT ![t] = [type |-> y, key |-> k, val |-> x]]
    /\ resp' = [resp EXCEPT ![t] = Answer("pending", None)]
    /\ seen' = [seen EXCEPT ![t] = {View(req'[t], kv)}]
    /\ UNCHANGED kv

\* The map becomes m and t gets its answer.
Commit(t, m, a) ==
    /\ kv' = m
    /\ seen' = SeenAfter(m)
    /\ resp' = [resp EXCEPT ![t] = a]
    /\ UNCHANGED req

Put(t) ==
    /\ req[t].type = "put" \/ (req[t].type = "insert" /\ kv[req[t].key] = None)
    /\ Commit(t, [kv EXCEPT ![req[t].key] = req[t].val], Answer("OK", None))

Remove(t) ==
    /\ req[t].type = "remove"
    /\ kv[req[t].key] # None
    /\ Commit(t, [kv EXCEPT ![req[t].key] = None], Answer("OK", None))

\* A scan lists, in order, exactly the keys of one instant of the call, each
\* with a value it had during the call (updates are not announced to scans).
Listing(l, maps) ==
    /\ \A i, j \in DOMAIN l : i < j => l[i][1] < l[j][1]
    /\ \E m \in maps : {l[i][1] : i \in DOMAIN l} = {k \in Keys : m[k] # None}
    /\ \A i \in DOMAIN l : \E m \in maps : l[i][2] = m[l[i][1]]

\* Answers that change nothing: what they report was true during the call.
Report(t) ==
    /\ \/ \E x \in seen[t] \ {None} :
             /\ req[t].type = "get"
             /\ resp' = [resp EXCEPT ![t] = Answer("OK", x)]
       \/ /\ req[t].type \in {"get", "remove"}
          /\ None \in seen[t]
          /\ resp' = [resp EXCEPT ![t] = Answer("NOT_FOUND", None)]
       \/ /\ req[t].type = "insert"
          /\ seen[t] # {None}
          /\ resp' = [resp EXCEPT ![t] = Answer("UNIQUE", None)]
       \/ /\ req[t].type = "scan"
          /\ resp'[t].st = "OK" /\ Listing(resp'[t].val, seen[t])
          /\ resp' = [resp EXCEPT ![t] = Answer("OK", resp'[t].val)]
    /\ UNCHANGED <<kv, req, seen>>

Next ==
    \E t \in Threads :
        \/ Invoke(t)
        \/ resp[t].st = "pending" /\ (Put(t) \/ Remove(t) \/ Report(t))

Spec == Init /\ [][Next]_vars
====
