--------------------------- MODULE MCElectionLive ---------------------------
(* Three nodes, of which one, perhaps the manager of the other two, is down *)
(* until they have another.                                                 *)
EXTENDS Election

CONSTANTS a, b, c

(* It comes back, and a node takes the new manager for lost. *)
Suspecting == [suspicions |-> 1, timeouts |-> 0, returning |-> TRUE]

(* It stays away, and the first publication of a manager times out. *)
TimingOut == [suspicions |-> 0, timeouts |-> 1, returning |-> FALSE]

Every == {Suspecting, TimingOut}
=============================================================================
