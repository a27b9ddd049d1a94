--------------------------- MODULE MCAsyncSearch ---------------------------
(* Searches a, b and c: a and b are of one caller, c of another.  Results  *)
(* are of size 2, so that no two of them fit into 3 bytes.                 *)
EXTENDS AsyncSearch, TLC

CONSTANTS a, b, c, u, v

MCOwnerOf == [s \in Search |-> IF s = c THEN v ELSE u]
MCSize == [s \in Search |-> 2]

(* Nothing happens but the submits and the searches themselves. *)
Quiet(submits) ==
    [node_running |-> 2, user_running |-> 1, node_bytes |-> 5, user_bytes |-> 3,
     submits |-> submits, time |-> 1, reads |-> 0, deletes |-> 0, errors |-> 0, crashes |-> 0]

(* Three submits at once, for the places of a caller and those of the node. *)
OneEach == Quiet({a, b, c})
OneInAll == [Quiet({a, b, c}) EXCEPT !.node_running = 1]

(* Reads that extend, expiry, and a restart at any point. *)
Restarting == [Quiet({a}) EXCEPT !.time = 4, !.reads = 2, !.crashes = 1]
BothRestarting == [Quiet({a, c}) EXCEPT !.time = 2, !.reads = 1, !.crashes = 1]

(* Deletes, reads that extend, expiry, and a write that fails. *)
Deleting == [Quiet({a}) EXCEPT !.time = 4, !.reads = 2, !.deletes = 2, !.errors = 1]

(* Two searches of one caller finish with room for one result. *)
Crowding == [Quiet({a, b}) EXCEPT !.user_running = 2, !.time = 3, !.deletes = 1]

Every == {OneEach, OneInAll, Restarting, BothRestarting, Deleting, Crowding}
============================================================================
