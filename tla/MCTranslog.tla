----------------------------- MODULE MCTranslog -----------------------------
(* One index of two shards, holding two documents. *)
EXTENDS Translog, TLC

CONSTANTS x, y, s1, s2, r1, r2

HomeShard == [d \in Doc |-> IF d = x THEN s1 ELSE s2]

(* Two bulks and single writes, refreshes and an idle writer; the power    *)
(* goes at any point, in the middle of a refresh included.                 *)
Crashing ==
    [routed |-> {}, deleted |-> {}, bulks |-> 2, async |-> FALSE, power_loss |-> TRUE,
     mid_refreshes |-> TRUE, faults |-> {}, deferred_max |-> 3, flush_at |-> 3,
     pending_max |-> 2, max_seq |-> 4, max_faults |-> 0, max_stops |-> 1]

(* One operation on the disk or in the writer fails. *)
Failing ==
    [Crashing EXCEPT !.bulks = 1, !.mid_refreshes = FALSE,
        !.faults = {"record", "flush", "force", "doc_meta", "commit", "writer"},
        !.deferred_max = 2, !.flush_at = 1, !.pending_max = 1, !.max_seq = 3, !.max_faults = 1]

(* Asynchronous durability on a machine that does not stop with the process. *)
Asynchronous ==
    [Crashing EXCEPT !.deleted = {x, y}, !.async = TRUE, !.power_loss = FALSE,
        !.mid_refreshes = FALSE, !.faults = {"spill"}, !.max_seq = 2]

(* One document is written under changing routings, and deleted. *)
Rerouting ==
    [Crashing EXCEPT !.routed = {x}, !.deleted = {x}, !.bulks = 1, !.mid_refreshes = FALSE,
        !.flush_at = 9, !.pending_max = 9, !.max_seq = 3]

Every == {Crashing, Failing, Asynchronous, Rerouting}

(* Bulks are told apart by nothing but their names. *)
Symmetry == Permutations(Request)
=============================================================================
