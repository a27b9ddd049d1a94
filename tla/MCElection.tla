----------------------------- MODULE MCElection -----------------------------
(* Three nodes that have never run before: bootstrapping, contended         *)
(* elections, a restart.                                                    *)
EXTENDS FixedConfiguration, TLC

CONSTANTS a, b, c

IdOrder == (a :> 1) @@ (b :> 2) @@ (c :> 3)

Contended ==
    [leaving |-> {}, excluding |-> {{}}, standing |-> Node, answered |-> {}, refusing |-> {},
     term |-> 2, version |-> 1, changed |-> 0, restarts |-> 1]

Only == {Contended}

(* Sound although Id is not symmetric: the order of ids only decides whom   *)
(* reconfigure leaves out, and with a fixed configuration it leaves out     *)
(* nobody.                                                                  *)
Symmetry == Permutations(Node)
=============================================================================
