------------------------------- MODULE Totals -------------------------------
(* What the members of a set come to: requests that hold bytes of a breaker *)
(* (Admission), results that take up room (AsyncSearch).                    *)
EXTENDS Integers, FiniteSets

(* h gives the amount of each member: what it holds are the units <<x, 1>>  *)
(* to <<x, h[x]>>.  The total is a number of units, so that what is known   *)
(* of finite sets can be said of it.                                        *)
Units(h, S) == UNION {{x} \X (1 .. h[x]) : x \in S}

Total(h, S) == Cardinality(Units(h, S))
=============================================================================
