---------------------------- MODULE MCReplication ----------------------------
(* Instances of Replication for TLC: nodes a, b, c, a document d.          *)
EXTENDS Replication

CONSTANTS a, b, c, d

(* Two copies; two writes or deletes of one document, a call or a report   *)
(* lost, a caller that hangs up.                                           *)
Reports ==
    [members |-> {a, b}, first |-> a, others |-> {b}, replicas |-> 1,
     loaded |-> <<>>, writes |-> 2, states |-> 2, losses |-> 1, crashes |-> 0,
     joins |-> FALSE, deletes |-> TRUE, overtaking |-> TRUE, fallback |-> FALSE]

(* Three copies, and two primaries lost one after the other. *)
Failover ==
    [Reports EXCEPT !.members = {a, b, c}, !.others = {b, c}, !.replicas = 2, !.writes = 1,
                    !.states = 3, !.losses = 0, !.deletes = FALSE, !.overtaking = FALSE]

(* A copy is placed and filled while writes go on and nodes leave. *)
Filling ==
    [Reports EXCEPT !.others = {}, !.states = 3, !.losses = 0, !.deletes = FALSE]

(* The only copy leaves with its node, comes back, and crashes. *)
Back ==
    [Filling EXCEPT !.replicas = 0, !.states = 4, !.crashes = 1, !.joins = TRUE]

Every == {Reports, Failover, Filling, Back}

(* A copy is filled while a document is deleted. *)
FillingDeletes == {[Filling EXCEPT !.deletes = TRUE]}
=============================================================================
