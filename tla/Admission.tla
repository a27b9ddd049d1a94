----------------------------- MODULE Admission -----------------------------
(***************************************************************************)
(* What a node lets in: a request takes a place in its pool                *)
(* (src/src/api/pools.rs track), then room for its body and a look at the  *)
(* parent breaker (src/src/breaker.rs layer), and an aggregating search a  *)
(* share of the request breaker (src/src/search/budget.rs).                *)
(*                                                                         *)
(* A step is one operation on a shared counter.  The limit a reservation   *)
(* is held to is read before it adds; a change of the setting between the  *)
(* two is the same as one after both, so the two are one step.             *)
(* Statistics (active, largest, completed, rejected, tripped) are left out.*)
(***************************************************************************)
EXTENDS Integers, Sequences, FiniteSets, Totals

CONSTANTS
    Client,     \* requests of clients; each goes through the pool
    Remote,     \* searches other nodes send, which do not
    Bodies,     \* Bodies[r]: sizes of the bodies client r sends
    AtOnce,     \* Pool::at_once
    Room,       \* Pool::queue_size
    InFlightLimit, \* network.breaker.inflight_requests.limit
    Limits,     \* values indices.breaker.request.limit is given
    ParentLimit, \* indices.breaker.total.limit
    RealMemory  \* readings of the allocator

Request == Client \cup Remote

ASSUME AdmissionAssumption ==
    /\ IsFiniteSet(Client) /\ IsFiniteSet(Remote) /\ Client \cap Remote = {}
    /\ AtOnce \in Nat \ {0}
    /\ Room \in Nat
    /\ Bodies \in [Client -> SUBSET Nat] /\ Limits \subseteq Nat /\ RealMemory \subseteq Nat
    /\ InFlightLimit \in Nat /\ ParentLimit \in Nat

VARIABLES
    at,       \* at[r]: where request r is
    body,     \* body[r]: the size of its body
    share,    \* share[r]: what its search takes of the request breaker
    places,   \* free places of the pool
    line,     \* requests waiting in the semaphore, first come first served
    waiting,  \* Pool::waiting
    in_flight, \* IN_FLIGHT.used
    request,  \* REQUEST.used
    limit     \* indices.breaker.request.limit

vars == <<at, body, share, places, line, waiting, in_flight, request, limit>>

(* Where a request that holds a place of the pool is. *)
Inside == {"handed", "placed", "over body", "held", "admitted", "sharing", "over share",
           "running", "answered", "leaving"}

Places == {"away", "full", "queueing", "waiting"} \cup Inside

TypeOK ==
    /\ at \in [Request -> Places]
    /\ body \in [Request -> Nat]
    /\ share \in [Request -> Nat]
    /\ places \in 0 .. AtOnce
    /\ line \in Seq(Client)
    /\ waiting \in Nat /\ in_flight \in Nat /\ request \in Nat
    /\ limit \in Limits

Init ==
    /\ at = [r \in Request |-> "away"]
    /\ body = [r \in Request |-> 0]
    /\ share = [r \in Request |-> 0]
    /\ places = AtOnce
    /\ line = <<>>
    /\ waiting = 0 /\ in_flight = 0 /\ request = 0
    /\ limit \in Limits

----------------------------------------------------------------------------
(* The pool. *)

(* A request comes in and tries for a place. *)
Arrive(r, size) ==
    /\ at[r] = "away"
    /\ body' = [body EXCEPT ![r] = size]
    /\ at' = [at EXCEPT ![r] = IF places > 0 THEN "placed" ELSE "full"]
    /\ places' = IF places > 0 THEN places - 1 ELSE places
    /\ UNCHANGED <<share, line, waiting, in_flight, request, limit>>

(* Without one it looks at the length of the queue. *)
LookAtQueue(r) ==
    /\ at[r] = "full"
    /\ at' = [at EXCEPT ![r] = IF waiting >= Room THEN "away" ELSE "queueing"]
    /\ UNCHANGED <<body, share, places, line, waiting, in_flight, request, limit>>

(* It is counted as waiting, and asks the semaphore. *)
JoinQueue(r) ==
    /\ at[r] = "queueing"
    /\ waiting' = waiting + 1
    /\ at' = [at EXCEPT ![r] = IF places > 0 THEN "handed" ELSE "waiting"]
    /\ places' = IF places > 0 THEN places - 1 ELSE places
    /\ line' = IF places > 0 THEN line ELSE Append(line, r)
    /\ UNCHANGED <<body, share, in_flight, request, limit>>

(* It has been handed a place, and leaves the queue. *)
LeaveQueue(r) ==
    /\ at[r] = "handed"
    /\ waiting' = waiting - 1
    /\ at' = [at EXCEPT ![r] = "placed"]
    /\ UNCHANGED <<body, share, places, line, in_flight, request, limit>>

(* The semaphore gets a place back from r, and hands it to the first in    *)
(* the line (external: tokio's Semaphore).                                 *)
Release(r) ==
    \/ /\ line = <<>>
       /\ places' = places + 1
       /\ at' = [at EXCEPT ![r] = "away"]
       /\ line' = line
    \/ /\ line # <<>>
       /\ places' = places
       /\ at' = [at EXCEPT ![r] = "away", ![Head(line)] = "handed"]
       /\ line' = Tail(line)

(* Mutant: a request that had a body keeps its place. *)
LeaveKeepingPlace(r) ==
    /\ at[r] = "leaving"
    /\ IF body[r] > 0
       THEN at' = [at EXCEPT ![r] = "away"] /\ UNCHANGED <<places, line>>
       ELSE Release(r)
    /\ UNCHANGED <<body, share, waiting, in_flight, request, limit>>

(* The answer is written and the place given back. *)
Leave(r) ==
    /\ at[r] = "leaving"
    /\ Release(r)
    /\ UNCHANGED <<body, share, waiting, in_flight, request, limit>>

----------------------------------------------------------------------------
(* The breakers. *)

(* What a body counts for: twice its size (the overhead of IN_FLIGHT). *)
Want(r) == 2 * body[r]

(* IN_FLIGHT.reserve, from the addition to the comparison *)
ReserveBody(r) ==
    /\ at[r] = "placed"
    /\ in_flight' = in_flight + Want(r)
    /\ at' = [at EXCEPT ![r] = IF body[r] > 0 /\ in_flight' > InFlightLimit
                               THEN "over body" ELSE "held"]
    /\ UNCHANGED <<body, share, places, line, waiting, request, limit>>

(* Mutant: what was refused stays counted. *)
RefuseBodyKeeping(r) ==
    /\ at[r] = "over body"
    /\ at' = [at EXCEPT ![r] = "leaving"]
    /\ UNCHANGED <<body, share, places, line, waiting, in_flight, request, limit>>

(* ... and what it takes back when it refuses *)
RefuseBody(r) ==
    /\ at[r] = "over body"
    /\ in_flight' = in_flight - Want(r)
    /\ at' = [at EXCEPT ![r] = "leaving"]
    /\ UNCHANGED <<body, share, places, line, waiting, request, limit>>

(* parent_used, where the allocator was last seen to hold real *)
ParentUsed(real) == IF real > in_flight + request THEN real ELSE in_flight + request

(* check_parent *)
CheckParent(r, real) ==
    /\ at[r] = "held"
    /\ at' = [at EXCEPT ![r] = IF ParentUsed(real) > ParentLimit THEN "answered" ELSE "admitted"]
    /\ UNCHANGED <<body, share, places, line, waiting, in_flight, request, limit>>

(* Mutant: the share is rounded up. *)
PerSearchRoundedUp == limit \div AtOnce + 1

(* per_search *)
PerSearch == IF limit \div AtOnce > 1 THEN limit \div AtOnce ELSE 1

(* Budget::of_search of the outermost search of a request, or of a search  *)
(* another node sent: its share is worked out ...                          *)
TakeShare(r) ==
    /\ \/ r \in Client /\ at[r] = "admitted"
       \/ r \in Remote /\ at[r] = "away"
    /\ share' = [share EXCEPT ![r] = PerSearch]
    /\ at' = [at EXCEPT ![r] = "sharing"]
    /\ UNCHANGED <<body, places, line, waiting, in_flight, request, limit>>

(* Mutant: only what is held already is compared with the limit. *)
ReserveShareLate(r) ==
    /\ at[r] = "sharing"
    /\ request' = request + share[r]
    /\ at' = [at EXCEPT ![r] = IF request > limit THEN "over share" ELSE "running"]
    /\ UNCHANGED <<body, share, places, line, waiting, in_flight, limit>>

(* ... and reserved, which reads the limit again.                          *)
ReserveShare(r) ==
    /\ at[r] = "sharing"
    /\ request' = request + share[r]
    /\ at' = [at EXCEPT ![r] = IF request' > limit THEN "over share" ELSE "running"]
    /\ UNCHANGED <<body, share, places, line, waiting, in_flight, limit>>

(* A search that aggregates nothing takes no share. *)
SearchOnly(r) ==
    /\ r \in Client /\ at[r] = "admitted"
    /\ at' = [at EXCEPT ![r] = "running"]
    /\ UNCHANGED <<body, share, places, line, waiting, in_flight, request, limit>>

(* Where a request goes once its handler is done: a search of another node *)
(* has nothing else to give back.                                          *)
Over(r) == IF r \in Client THEN "answered" ELSE "away"

(* A search is over, or refused: its share goes back. *)
DropShare(r) ==
    /\ at[r] \in {"running", "over share"}
    /\ request' = request - share[r]
    /\ share' = [share EXCEPT ![r] = 0]
    /\ at' = [at EXCEPT ![r] = Over(r)]
    /\ UNCHANGED <<body, places, line, waiting, in_flight, limit>>

(* The body's reservation goes back. *)
DropBody(r) ==
    /\ at[r] = "answered"
    /\ in_flight' = in_flight - Want(r)
    /\ at' = [at EXCEPT ![r] = "leaving"]
    /\ UNCHANGED <<body, share, places, line, waiting, request, limit>>

----------------------------------------------------------------------------
(* Everything else. *)

(* The client goes away while its request waits: for a place, with one it  *)
(* was handed and has not taken up, or for its body to be read.            *)
HangUp(r) ==
    \/ /\ at[r] = "waiting"
       /\ waiting' = waiting - 1
       /\ \E i \in DOMAIN line :
            /\ line[i] = r
            /\ line' = [j \in 1 .. Len(line) - 1 |-> IF j < i THEN line[j] ELSE line[j + 1]]
       /\ at' = [at EXCEPT ![r] = "away"]
       /\ UNCHANGED <<body, share, places, in_flight, request, limit>>
    \/ /\ at[r] = "handed"
       /\ waiting' = waiting - 1
       /\ Release(r)
       /\ UNCHANGED <<body, share, in_flight, request, limit>>
    \/ /\ at[r] = "admitted"
       /\ at' = [at EXCEPT ![r] = "answered"]
       /\ UNCHANGED <<body, share, places, line, waiting, in_flight, request, limit>>

(* An operator changes the limit of the request breaker. *)
SetLimit(l) ==
    /\ l # limit
    /\ limit' = l
    /\ UNCHANGED <<at, body, share, places, line, waiting, in_flight, request>>

(* What a request does by itself once it is in. *)
Proceed(r) ==
    \/ LookAtQueue(r) \/ JoinQueue(r) \/ LeaveQueue(r) \/ Leave(r)
    \/ ReserveBody(r) \/ RefuseBody(r) \/ \E real \in RealMemory : CheckParent(r, real)
    \/ r \in Client /\ TakeShare(r)
    \/ ReserveShare(r) \/ SearchOnly(r) \/ DropShare(r) \/ DropBody(r)

Next ==
    \/ \E r \in Client : \E size \in Bodies[r] : Arrive(r, size)
    \/ \E r \in Remote : TakeShare(r)
    \/ \E r \in Request : Proceed(r)
    \/ \E r \in Client : HangUp(r)
    \/ \E l \in Limits : SetLimit(l)

Spec == Init /\ [][Next]_vars

(* The runtime polls every request that can go on. *)
FairSpec == Spec /\ \A r \in Request : WF_vars(Proceed(r))

----------------------------------------------------------------------------
(* Properties. *)

HoldsBody == {r \in Client : at[r] \in {"over body", "held", "admitted", "sharing",
                                        "over share", "running", "answered"}}
HoldsShare == {r \in Request : at[r] \in {"over share", "running"}}
HoldsPlace == {r \in Client : at[r] \in Inside}
Queued == {r \in Client : at[r] \in {"waiting", "handed"}}

(* No breaker drifts: whatever was taken, refused or hung up on, it counts *)
(* what its requests hold (breaker.rs reserve and the Drop of Reservation).*)
BreakersAccounted ==
    /\ in_flight = 2 * Total(body, HoldsBody)
    /\ request = Total(share, HoldsShare)

(* The pool has lent the places it does not have, and its queue is counted *)
(* as long as it is, whoever hangs up and whenever (pools.rs track).       *)
PoolAccounted ==
    /\ places + Cardinality(HoldsPlace) = AtOnce
    /\ waiting = Cardinality(Queued)

(* The pool never runs more at once than it has places for (pools.rs       *)
(* at_once), with a place handed over from one request to the next.        *)
NeverMoreAtOnce == Cardinality(HoldsPlace) <= AtOnce

(* The reservations that were granted, taken together, fit the limit at    *)
(* the moment one more is granted (breaker.rs reserve: each adds before it *)
(* compares, so two that fit one at a time are not both let in).           *)
GrantedTogether ==
    [][/\ \A r \in Request : at[r] = "sharing" /\ at'[r] = "running"
            => Total(share, {q \in Request : at'[q] = "running"}) <= limit
       /\ \A r \in Client : at[r] = "placed" /\ at'[r] = "held" /\ body[r] > 0
            => 2 * Total(body, HoldsBody' \ {q \in Client : at'[q] = "over body"})
                 <= InFlightLimit]_vars

(* A search the pool let in is not refused its share: there are no more of *)
(* them at once than shares (budget.rs per_search).  What can take it is a *)
(* search of another node, or a share worked out before the limit changed. *)
SharesFit ==
    [][\A r \in Client : at[r] = "sharing" /\ at'[r] = "over share" =>
            \E q \in Request : share[q] > 0 /\ (q \in Remote \/ share[q] # PerSearch)]_vars

(* A request that waits for a place gets one, or is given up by its client,*)
(* however many come after it; and whatever got in leaves again.           *)
Served == \A r \in Client : at[r] \notin {"away"} ~> at[r] = "away"
=============================================================================
