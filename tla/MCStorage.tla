---- MODULE MCStorage ----
(* Storage for TLC.                                                        *)
EXTENDS Storage

CONSTANTS c1, c2, c3, a, b

\* An interior node above two border nodes with one entry each: a link to a layer
\* that has a value, and a value.
Deep == <<>> :> 2 @@ <<1>> :> 1 @@ <<2>> :> 1 @@ <<1, 1>> :> 1

\* A border node with a link to a layer with a value.
Layered == <<>> :> 1 @@ <<1>> :> 1

create(n) == [type |-> "create", name |-> n]
delete(n) == [type |-> "delete", name |-> n]
Scene(stock, may1, may2, may3, lost) ==
    [stock |-> stock, roles |-> c1 :> may1 @@ c2 :> may2 @@ c3 :> may3, lost |-> lost]
A == [name |-> a, shape |-> Deep]
B == [name |-> b, shape |-> Layered]

\* One name, looked up by two deletes and created again; two trees whose
\* destroyers compete for room; nothing at first, and a session never left.
AllScenes == {
    Scene(<<A>>, {delete(a)}, {delete(a)}, {create(a)}, FALSE),
    Scene(<<A, B>>, {delete(a)}, {delete(b)}, {}, FALSE),
    Scene(<<>>, {create(a)}, {create(a)}, {delete(a)}, TRUE)}
====
