------------------------------ MODULE MCWalk ------------------------------
(* A walk of two slices that is cancelled and rethrottled, and one of one  *)
(* slice that is also looked up and forgotten.                             *)
EXTENDS Walk

CONSTANTS walk, s1, s2

Sliced == [slices |-> {s1, s2}, cancels |-> 2, rates |-> 1, reads |-> 0, deletes |-> 0]
Single == [slices |-> {s1}, cancels |-> 1, rates |-> 2, reads |-> 2, deletes |-> 1]

Every == {Sliced, Single}
=============================================================================
