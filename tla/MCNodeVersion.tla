---- MODULE MCNodeVersion ----
(* NodeVersion for TLC: interchangeable threads.                     *)
EXTENDS NodeVersion, TLC

Symmetry == Permutations(Threads)
====
