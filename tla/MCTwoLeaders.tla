---------------------------- MODULE MCTwoLeaders ----------------------------
(* The growing cluster of MCReconfigure, some steps on: b lost the manager  *)
(* and stands in term 2, which only a can win; a restarted.                 *)
EXTENDS MCReconfigure

Splitting == [Restarting EXCEPT !.standing = {a, b}, !.refusing = {}, !.version = 6, !.restarts = 0]

Only == {Splitting}

InitSplit ==
    /\ node = [n \in Node |->
         CASE n = a -> Start(a, 1, Second, Second, 1)
           [] n = b -> [Start(b, 2, Second, Second, 0) EXCEPT !.join_votes = {b}]
           [] n = c -> Start(c, 0, EmptyState, EmptyState, 0)]
    /\ msgs = Elected \cup {StartJoin(b, 2)} \cup Published({First, Second}) \cup Took(b, Second)
    /\ budget = Splitting

SpecSplit == InitSplit /\ [][Next]_vars
=============================================================================
