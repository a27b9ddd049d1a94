--------------------------- MODULE MCReconfigure ---------------------------
(* A cluster bootstrapped with one node: others join and leave it, the      *)
(* manager restarts while the configuration grows, and an operator excludes *)
(* nodes from it.                                                           *)
EXTENDS Coordination, TLC

CONSTANTS a, b, c

IdOrder == (a :> 1) @@ (b :> 2) @@ (c :> 3)

(* From nothing: only the first node stands, so that who leads the term is  *)
(* settled, and what the manager does with the configuration is not.        *)
Joining ==
    [leaving |-> {b, c}, excluding |-> {{}}, standing |-> {a}, answered |-> {}, refusing |-> {},
     term |-> 1, version |-> 4, changed |-> 0, restarts |-> 0]

(* From two members of which one votes, with a third about to join. *)
Restarting == [Joining EXCEPT !.leaving = {}, !.refusing = {c}, !.term = 2, !.restarts = 1]

(* From three members that vote: the manager or another is excluded while   *)
(* the third leaves, and the first two stand for election.                  *)
Excluding ==
    [leaving |-> {c}, excluding |-> {{}, {a}, {b}}, standing |-> {a, b}, answered |-> {},
     refusing |-> {}, term |-> 2, version |-> 5, changed |-> 4, restarts |-> 0]

Every == {Joining, Restarting, Excluding}

(* Term 1, led by a: version 2 took b in, version 3 took c in and made all  *)
(* three vote.                                                              *)
First ==
    [EmptyState EXCEPT !.term = 1, !.version = 1, !.manager = a, !.nodes = {a},
                       !.last_committed_config = {a}, !.last_accepted_config = {a},
                       !.lineage = {Name(1, a, 1)}]
Second == [First EXCEPT !.version = 2, !.nodes = {a, b}, !.lineage = @ \cup {Name(1, a, 2)}]
Third == [Second EXCEPT !.version = 3, !.nodes = Node, !.last_accepted_config = Node,
                        !.lineage = @ \cup {Name(1, a, 3)}]

(* What a member of the cluster led by a is like once it has committed s.   *)
Member(n, s) ==
    [Start(n, 1, s, [s EXCEPT !.last_committed_config = s.last_accepted_config], 0) EXCEPT
        !.mode = IF n = a THEN "Leader" ELSE "Follower", !.leader = a, !.accepted = s,
        !.next_request = IF n = a THEN s.version + 1 ELSE 1]

(* What was sent when the states were published, taken and committed.       *)
Elected == {StartJoin(a, 1), [type |-> "LeaderNote", from |-> a, term |-> 1]}
Published(states) ==
    {[type |-> "Publish", from |-> a, run |-> 0, rid |-> s.version, state |-> s] : s \in states}
    \cup {[type |-> "CommitNote", from |-> a, state |-> s] : s \in states}
Took(n, s) ==
    {[type |-> "PublishResponse", from |-> n, to |-> a, run |-> 0, rid |-> s.version,
      term |-> 1, version |-> s.version], CommitRequest(a, n, 1, s.version)}

InitJoining == Init /\ budget = Joining

InitRestarting ==
    /\ node = [n \in Node |-> IF n = c THEN Start(c, 0, EmptyState, EmptyState, 0)
                              ELSE Member(n, Second)]
    /\ msgs = Elected \cup Published({First, Second}) \cup Took(b, Second)
    /\ budget = Restarting

InitExcluding ==
    /\ node = [n \in Node |-> Member(n, Third)]
    /\ msgs = Elected \cup Published({First, Second, Third})
              \cup Took(b, Second) \cup Took(b, Third) \cup Took(c, Third)
    /\ budget = Excluding

SpecEvery == (InitJoining \/ InitRestarting \/ InitExcluding) /\ [][Next]_vars
=============================================================================
