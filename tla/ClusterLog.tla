----------------------------- MODULE ClusterLog -----------------------------
(***************************************************************************)
(* What coordination promises to the rest of a node: the committed cluster *)
(* states are one log that only grows, and every node moves along it.      *)
(*                                                                         *)
(* An entry is the name of a state: the term and the manager it was        *)
(* published under, and its version, which is its place in the log.        *)
(***************************************************************************)
EXTENDS Integers, FiniteSets

CONSTANT Node

VARIABLES
    log,   \* the states that are committed, with those they were built on
    seen   \* seen[n]: the part of the log that node n has committed

logVars == <<log, seen>>

(* A log: one entry per version, from one up, and terms that do not go down. *)
WellFormed(l) ==
    /\ {s.version : s \in l} = 1 .. Cardinality(l)
    /\ \A s, t \in l : s.version <= t.version => s.term <= t.term

Upto(l, k) == {s \in l : s.version <= k}
Prefixes(l) == {Upto(l, k) : k \in 0 .. Cardinality(l)}
Last(l) == CHOOSE s \in l : s.version = Cardinality(l)

Init == WellFormed(log) /\ seen \in [Node -> Prefixes(log)]

(* The manager n commits a state it has published, and with it those an    *)
(* earlier manager had published and that it has built on.                 *)
Commit(n) ==
    /\ seen'[n] # seen[n] /\ seen' = [seen EXCEPT ![n] = log']
    /\ log \in Prefixes(log') \ {log'}
    /\ WellFormed(log') /\ Last(log').manager = n

(* A node hears of a commit. *)
Learn(n) ==
    /\ seen'[n] # seen[n] /\ log' = log
    /\ \E l \in Prefixes(log) :
         Cardinality(l) > Cardinality(seen[n]) /\ seen' = [seen EXCEPT ![n] = l]

Next == \E n \in Node : Commit(n) \/ Learn(n)

Spec == Init /\ [][Next]_logVars
=============================================================================
