---- MODULE MCEpochGC ----
(* EpochGC for TLC: interchangeable clients.                               *)
EXTENDS EpochGC, TLC

Symmetry == Permutations(Clients)
====
