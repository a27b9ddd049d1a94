----------------------------- MODULE MCFailover -----------------------------
(* Three nodes under an established manager: the manager publishes, it and  *)
(* the others lose each other or restart, and another is elected.           *)
EXTENDS FixedConfiguration, CoordinationLog, TLC

CONSTANTS a, b, c

IdOrder == (a :> 1) @@ (b :> 2) @@ (c :> 3)

(* Any of them stands. *)
Contended ==
    [leaving |-> {}, excluding |-> {{}}, standing |-> Node, answered |-> {}, refusing |-> {},
     term |-> 2, version |-> 4, changed |-> 3, restarts |-> 0]

(* One of the others stands, and the manager's answers to joins arrive. *)
Answered == [Contended EXCEPT !.standing = {b}, !.answered = {a}]

(* One of the others stands, and a node restarts at any point. *)
Restarting == [Contended EXCEPT !.standing = {b}, !.changed = 2, !.restarts = 1]

Every == {Contended, Answered, Restarting}

(* Term 1, led by a: version 1 went to a and b, version 2 took c in, and    *)
(* every node has committed it.                                             *)
First ==
    [EmptyState EXCEPT !.term = 1, !.version = 1, !.manager = a, !.nodes = {a, b},
                       !.last_committed_config = Node, !.last_accepted_config = Node,
                       !.lineage = {Name(1, a, 1)}]
Second == [First EXCEPT !.version = 2, !.nodes = Node, !.lineage = @ \cup {Name(1, a, 2)}]

Response(n, s) ==
    [type |-> "PublishResponse", from |-> n, to |-> a, run |-> 0, rid |-> s.version,
     term |-> 1, version |-> s.version]

Established(n) ==
    [Start(n, 1, Second, Second, 0) EXCEPT
       !.mode = IF n = a THEN "Leader" ELSE "Follower", !.leader = a,
       !.next_request = IF n = a THEN 3 ELSE 1]

Sofar ==
    {StartJoin(a, 1), [type |-> "LeaderNote", from |-> a, term |-> 1]}
    \cup {[type |-> "Join", from |-> n, to |-> a, term |-> 1,
           accepted_term |-> 0, accepted_version |-> 0] : n \in {b, c}}
    \cup {[type |-> "Publish", from |-> a, run |-> 0, rid |-> s.version, state |-> s] :
             s \in {First, Second}}
    \cup {[type |-> "CommitNote", from |-> a, state |-> s] : s \in {First, Second}}
    \cup {Response(b, First), Response(b, Second), Response(c, Second)}
    \cup {CommitRequest(a, b, 1, 1), CommitRequest(a, b, 1, 2), CommitRequest(a, c, 1, 2)}

(* a publishes the third version, b has taken it and answered.              *)
Third == NextPublication(a, [Established(a) EXCEPT !.republish_wanted = TRUE])

(* The restarts happen around this publication; without them it is yet to   *)
(* begin.                                                                   *)
InitEstablished ==
    /\ budget \in Scopes
    /\ IF budget.restarts = 0
       THEN node = [n \in Node |-> Established(n)] /\ msgs = Sofar
       ELSE /\ node = [n \in Node |->
                 CASE n = a -> [Third EXCEPT !.out = {}]
                   [] n = b -> [Established(b) EXCEPT !.accepted = Third.accepted]
                   [] OTHER -> Established(n)]
            /\ msgs = Sofar \cup Third.out \cup {Response(b, Third.accepted)}

SpecEstablished == InitEstablished /\ [][Next]_vars

(* See MCElection. *)
Symmetry == Permutations({b, c})
=============================================================================
