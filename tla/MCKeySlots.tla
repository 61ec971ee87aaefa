---- MODULE MCKeySlots ----
(* KeySlots for TLC: slices of two bytes, all strings up to one byte more  *)
(* than a slice that differ in this layer, endpoints with lengths past the *)
(* period of the length type.                                              *)
EXTENDS KeySlots

Strings(n) == UNION {[1 .. i -> Byte] : i \in 0 .. n}
AllViews == Strings(W) \cup {Append(v, 0) : v \in [1 .. W -> Byte]}
AllEnds == Strings(LenPeriod + 1)
====
