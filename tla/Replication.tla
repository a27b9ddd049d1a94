---------------------------- MODULE Replication ----------------------------
(***************************************************************************)
(* The copies of one shard: what the primary writes is copied to the       *)
(* others and answered for (src/src/cluster/replication.rs), the manager   *)
(* keeps who holds a copy, who is in sync and the primary's term           *)
(* (src/src/cluster/coordinator.rs, allocation.rs, metadata.rs), and a     *)
(* copy is filled, caught up or brought in line by the primary.            *)
(*                                                                         *)
(* The cluster states the managers commit form one chain (Coordination);   *)
(* here it is a sequence, which every member applies at its own pace.  An  *)
(* event reaches the manager and is committed, or it does not.             *)
(* A document is its last write; moves of a copy are left out.             *)
(***************************************************************************)
EXTENDS Integers, Sequences, FiniteSets, SequencesExt

CONSTANTS
    Node, Doc, None,
    MaxWrites,  \* bound
    Scopes      \* the clusters, workloads and faults to look at (see ScopeOK)

ScopeOK(s) ==
    /\ s.members \subseteq Node                     \* the nodes of the cluster
    /\ s.first \in s.members                       \* holds the primary at first
    /\ s.others \subseteq s.members \ {s.first}    \* hold started replicas at first
    /\ s.replicas \in Nat                          \* number_of_replicas
    /\ s.loaded \in Seq(Doc)                       \* the documents written before, in order
    /\ {s.joins,       \* whether nodes that left come back
        s.deletes,     \* whether documents are deleted too
        s.overtaking,  \* whether a resync or a fill may overtake the state it follows from
        s.fallback}    \* whether a fill may outlast its thirty seconds
       \subseteq BOOLEAN
    /\ s.writes \in Len(s.loaded) .. MaxWrites      \* bound
    /\ {s.states, s.losses, s.crashes} \subseteq Nat \* bounds

ASSUME ReplicationAssumption == \A s \in Scopes : ScopeOK(s)

VARIABLES
    states,   \* the committed cluster states
    counted,  \* the primary term this manager has counted; 0: it is new
    view,     \* view[n]: the state node n reads
    applied,  \* applied[n]: the state whose shards it has started; 0: none yet
    lease,    \* lease[n]: has_manager()
    store,    \* store[n]: the copy on the disk of n
    parked,   \* ARRIVED: writes that wait for a fill, or None
    resyncs,  \* OPEN: the resync open on a copy, or None
    fills,    \* the recoveries of n; the first runs, the rest wait for the lock
    reported, \* the copy n has begun to start
    ready,    \* the copy n has started (started_here)
    resynced, \* the term n last sent its documents out for
    sending,  \* resyncs under way
    write,    \* write[w]: the w-th write
    net,      \* writes on their way to copies
    pending,  \* PENDING: reports to send again
    acked,    \* writes that were acknowledged
    lost,     \* how many calls were lost
    env       \* the scope of this behaviour, how many processes crashed, and the
              \* new ones that have not joined

vars == <<states, counted, view, applied, lease, store, parked, resyncs, fills, reported, ready,
          resynced, sending, write, net, pending, acked, lost, env>>

manager == <<states, counted>>
local == <<view, applied, lease, reported, ready, resynced>>
copies == <<store, parked, resyncs, fills>>

scope == env.scope

Write == 1 .. MaxWrites
NoCopy == [st |-> "none", primary |-> FALSE, id |-> None]
Absent == [version |-> 0, write |-> 0, live |-> FALSE]
Empty == [docs |-> [d \in Doc |-> Absent], applied_term |-> 0, deletes |-> {}, id |-> None]
NoWrite == [stage |-> "none", node |-> None, op |-> None, after |-> {}, snap |-> 0, wait |-> {},
            took |-> {}, bad |-> {}, stale |-> FALSE, reports |-> {}, unreachable |-> FALSE,
            silent |-> FALSE]

----------------------------------------------------------------------------
(* Cluster states. *)

PrimaryOf(s) == IF \E n \in Node : s.copies[n].primary
                THEN CHOOSE n \in Node : s.copies[n].primary ELSE None

(* The node a copy's id is placed on. *)
Placed(s, id) == {n \in Node : s.copies[n].st # "none" /\ s.copies[n].id = id}

Top == states[Len(states)]
View(n) == states[view[n]]

(* targets: the copies a write of n goes to *)
Targets(s, n) == {m \in Node \ {n} : s.copies[m].st # "none" /\ ~ s.copies[m].primary}

(* Mutant: a new manager counts from one. *)
NextTermFromOne(carried) == IF counted = 0 THEN 2 ELSE counted + 1

(* next_term, from what the manager has counted, or carries if it is new *)
NextTerm(carried) == IF counted > carried THEN counted + 1 ELSE carried + 1

(* with_terms: who is in sync once the copies stand as in c *)
InSync(s, c, retired) ==
    LET active == {n \in Node : c[n].st = "started" /\ (s.in_sync # {} \/ c[n].primary)}
        now == (s.in_sync \cup {c[n].id : n \in active}) \ retired
    IN  IF now = {} THEN s.in_sync ELSE now

(* reroute, copies on nodes that left: they are unassigned, ... *)
Staying(s) == [n \in Node |-> IF n \in s.members THEN s.copies[n] ELSE NoCopy]

(* ... a replica among them is retired ... *)
Departed(s) == {s.copies[n].id : n \in {m \in Node \ s.members : ~ s.copies[m].primary}} \ {None}

(* ... and an active copy in sync takes over from a lost primary.          *)
Heirs(s) ==
    IF \E n \in s.members : s.copies[n].primary THEN {}
    ELSE {n \in s.members : s.copies[n].st = "started" /\ s.copies[n].id \in s.in_sync}

(* A node that holds a copy in sync gets a lost primary back. *)
Keepers(s) ==
    IF (\E n \in s.members : s.copies[n].primary) \/ Heirs(s) # {} THEN {}
    ELSE {n \in s.members : /\ s.copies[n].st = "none"
                            /\ store[n] # None /\ store[n].id \in s.in_sync}

(* The ids of copies placed by the state that comes next. *)
NewId(n) == <<n, Len(states) + 1>>

(* Replicas that are missing are placed, now or later. *)
WithReplicas(s, c) ==
    LET free == {n \in s.members : c[n].st = "none"}
        missing == scope.replicas - Cardinality({n \in Node : c[n].st # "none" /\ ~ c[n].primary})
        active == \E n \in Node : c[n].primary /\ c[n].st = "started"
        where == {p \in SUBSET free : Cardinality(p) <= (IF active THEN missing ELSE 0)}
    IN  {[n \in Node |-> IF n \in p THEN [st |-> "init", primary |-> FALSE, id |-> NewId(n)]
                         ELSE c[n]] : p \in where}

(* place, reroute: the state that follows s, with what was retired; a      *)
(* state that is no different is not worth a place in the sequence.        *)
Publish(s, retired) ==
    \/ /\ Heirs(s) # {}
       /\ \E n \in Heirs(s) :
            LET old == PrimaryOf(s)
                staying == [Staying(s) EXCEPT ![n].primary = TRUE]
                out == retired \cup Departed(s) \cup (IF old = None THEN {} ELSE {s.copies[old].id})
            IN  /\ counted' = NextTerm(s.term)
                /\ \E t \in WithReplicas(s, staying) :
                     states' = Append(states,
                        [s EXCEPT !.copies = t, !.in_sync = InSync(s, t, out),
                                  !.term = IF counted' > s.term THEN counted' ELSE s.term])
    \/ /\ Heirs(s) = {}
       /\ \E c \in IF Keepers(s) = {} THEN {Staying(s)}
                   ELSE {[Staying(s) EXCEPT ![n] = [st |-> "init", primary |-> TRUE, id |-> NewId(n)]]
                         : n \in Keepers(s)} :
          \E t \in WithReplicas(s, c) :
            LET next == [s EXCEPT !.copies = t,
                                  !.in_sync = InSync(s, t, retired \cup Departed(s))]
            IN  states' = IF next = Top THEN states ELSE Append(states, next)
       /\ counted' = counted

(* There is a manager to publish another state. *)
Room == Len(states) < scope.states

----------------------------------------------------------------------------
(* A copy. *)

(* apply_replicated *)
ApplyReplicated(st, op) ==
    IF op.term <= st.applied_term /\ st.docs[op.doc].version >= op.version THEN st
    ELSE [st EXCEPT
            !.applied_term = IF op.term > @ THEN op.term ELSE @,
            !.docs[op.doc] = [version |-> op.version, write |-> op.write, live |-> op.live],
            !.deletes = IF op.live THEN @ \ {op.doc} ELSE @ \cup {op.doc}]

ApplyAll(st, ops) == FoldLeft(ApplyReplicated, st, ops)

(* scan_replicated: the documents, and the deletes no refresh has taken    *)
(* away yet, in the order they were written                                *)
Scan(st, term) ==
    LET found == {d \in Doc : st.docs[d].live \/ d \in st.deletes}
        op(d) == [doc |-> d, version |-> st.docs[d].version, write |-> st.docs[d].write,
                  live |-> st.docs[d].live, term |-> term, from |-> None, page |-> TRUE]
    IN  SetToSortSeq({op(d) : d \in found}, LAMBDA a, b : a.write < b.write)

(* not_from_the_primary, as node m sees it.  A page of a resync names no    *)
(* shard the state knows, so its term is held against the term 1.          *)
NotFromThePrimary(m, op) ==
    /\ ~ op.page
    /\ \/ op.term < View(m).term
       \/ op.term = View(m).term /\ PrimaryOf(View(m)) # op.from

(* The handler of REPLICA_WRITE at m: what it answers ...                  *)
Taken(m, op) ==
    CASE NotFromThePrimary(m, op) -> "stale"
      [] parked[m] = None /\ store[m] = None -> "error"
      [] OTHER -> "ok"

(* ... and what it does with the operations, which have one term.          *)
TakeOps(m, ops) ==
    IF Taken(m, ops[1]) # "ok" THEN UNCHANGED copies
    ELSE /\ resyncs' = [resyncs EXCEPT ![m] =
                IF @ # None /\ ops[1].term >= @.term
                THEN [@ EXCEPT !.seen = @ \cup {ops[i].doc : i \in DOMAIN ops}] ELSE @]
         /\ IF parked[m] # None
            THEN parked' = [parked EXCEPT ![m] = @ \o ops] /\ UNCHANGED store
            ELSE store' = [store EXCEPT ![m] = ApplyAll(@, ops)] /\ UNCHANGED parked
         /\ UNCHANGED fills

----------------------------------------------------------------------------
(* Reports to the manager. *)

(* The copy a report is about: a named node's copy, if the manager has     *)
(* placed one there that is not the primary.                               *)
About(r) ==
    IF r.node # None /\ Top.copies[r.node].st # "none" /\ ~ Top.copies[r.node].primary
    THEN Top.copies[r.node].id ELSE r.id

AboutPrimary(r) == PrimaryOf(Top) # None /\ Top.copies[PrimaryOf(Top)].id = About(r)

(* SHARD_FAILED, SHARD_STALE: whether the manager takes it from n ...      *)
Accepts(n, r) == n \in Top.members /\ (AboutPrimary(r) \/ Top.copies[n].st # "none")

(* ... and shard_failed, shard_stale: what it publishes for it.            *)
Hear(r) ==
    LET id == About(r)
        out == IF Placed(Top, id) # {} \/ (r.kind = "stale" /\ id \in Top.in_sync) THEN {id} ELSE {}
    IN  IF AboutPrimary(r) THEN UNCHANGED manager
        ELSE /\ Room
             /\ Publish([Top EXCEPT !.copies =
                            [n \in Node |-> IF n \in Placed(Top, id) THEN NoCopy ELSE @[n]]], out)

(* A call that reports: ok is whether the manager's answer came back.      *)
Told(n, r, ok) ==
    \/ ok /\ Accepts(n, r) /\ Hear(r) /\ UNCHANGED lost
    \/ ~ ok /\ (~ Accepts(n, r) \/ ~ Room) /\ UNCHANGED <<manager, lost>>
    \/ /\ ~ ok /\ lost < scope.losses /\ lost' = lost + 1
       /\ UNCHANGED manager \/ (Accepts(n, r) /\ Hear(r))

(* retry_later *)
RetryLater(n, r) ==
    IF \E q \in pending[n] : q.kind = r.kind /\ q.id = r.id THEN pending
    ELSE [pending EXCEPT ![n] = @ \cup {r}]

(* retry_reports, one report *)
RetryReport(n) ==
    /\ \E r \in pending[n] :
         \/ /\ PrimaryOf(View(n)) # n \/ (Placed(View(n), r.id) = {} /\ r.id \notin View(n).in_sync)
            /\ pending' = [pending EXCEPT ![n] = @ \ {r}]
            /\ UNCHANGED <<manager, lost>>
         \/ /\ PrimaryOf(View(n)) = n /\ (Placed(View(n), r.id) # {} \/ r.id \in View(n).in_sync)
            /\ \E ok \in BOOLEAN :
                 Told(n, r, ok) /\ pending' = IF ok THEN [pending EXCEPT ![n] = @ \ {r}] ELSE pending
    /\ UNCHANGED <<local, copies, sending, write, net, acked, env>>
----------------------------------------------------------------------------
(* A write. *)

(* may_still_answer *)
MayStillAnswer(w) ==
    LET n == write[w].node
    IN  lease[n] /\ PrimaryOf(View(n)) = n /\ write[w].op.term >= View(n).term

Finished(rec) == [NoWrite EXCEPT !.stage = "done", !.op = rec.op, !.after = rec.after]

(* replicate, once every copy answered: what the manager must hear of.     *)
Gather(rec) ==
    LET s == states[rec.snap]
        fine == {s.copies[m].id : m \in rec.took \cup {rec.node}}
        failed == {[kind |-> "failed", id |-> s.copies[m].id, node |-> None] : m \in rec.bad}
        stale == {[kind |-> "stale", id |-> id, node |-> None] : id \in s.in_sync \ fine}
    IN  IF rec.wait # {} THEN rec
        ELSE [rec EXCEPT !.stage = "reporting", !.reports = failed \cup stale]

(* run_with_replication: the handler writes on n, the primary to someone.  *)
BeginWrite(n) ==
    /\ \E m \in Node : PrimaryOf(View(m)) = n
    /\ lease[n] \/ Cardinality(View(n).members) = 1
    /\ store[n] # None
    /\ \E w \in Write, d \in Doc, live \in IF scope.deletes THEN BOOLEAN ELSE {TRUE} :
         LET was == store[n].docs[d]
             op == [doc |-> d, version |-> was.version + 1, write |-> w, live |-> live,
                    term |-> View(n).term, from |-> n, page |-> FALSE]
         IN  /\ w <= scope.writes
             /\ write[w].stage = "none" /\ (w > 1 => write[w - 1].stage # "none")
             /\ live \/ was.live
             /\ write' = [write EXCEPT ![w] =
                    [NoWrite EXCEPT !.stage = "written", !.node = n, !.op = op,
                        !.after = IF was.write = 0 THEN {} ELSE {was.write} \cup write[was.write].after]]
             /\ store' = [store EXCEPT
                    ![n].docs[d] = [version |-> op.version, write |-> w, live |-> live],
                    ![n].deletes = IF live THEN @ \ {d} ELSE @ \cup {d}]
    /\ UNCHANGED <<manager, local, parked, resyncs, fills, sending, net, pending, acked, lost, env>>

(* finish, up to the calls of replicate; or, when the caller has hung up,  *)
(* the guard on the writes, which copies them and answers nobody           *)
Replicate(w, awaited) ==
    LET rec == write[w]
        n == rec.node
        s == View(n)
        alone == Targets(s, n) = {} /\ s.in_sync \subseteq {s.copies[n].id}
        out == [rec EXCEPT !.stage = "waiting", !.snap = view[n], !.wait = Targets(s, n),
                           !.silent = ~ awaited \/ ~ lease[n]]
    IN  /\ rec.stage = "written"
        /\ IF alone /\ awaited
           THEN /\ acked' = IF Cardinality(s.members) > 1 /\ ~ MayStillAnswer(w) THEN acked
                            ELSE acked \cup {w}
                /\ write' = [write EXCEPT ![w] = Finished(rec)]
                /\ UNCHANGED net
           ELSE /\ write' = [write EXCEPT ![w] = Gather(out)]
                /\ net' = net \cup {[write |-> w, to |-> m] : m \in Targets(s, n)}
                /\ UNCHANGED acked
        /\ UNCHANGED <<manager, local, copies, sending, pending, lost, env>>

(* REPLICA_WRITE reaches m; its answer is heard, or lost, or comes to a    *)
(* primary that waits no longer                                            *)
Deliver(w, m) ==
    LET rec == write[w]
        answer == Taken(m, rec.op)
        heard == IF answer = "ok" THEN [rec EXCEPT !.wait = @ \ {m}, !.took = @ \cup {m}]
                 ELSE [rec EXCEPT !.wait = @ \ {m}, !.bad = @ \cup {m},
                          !.stale = @ \/ (answer = "stale" /\ states[rec.snap].copies[m].st = "started")]
        unheard == [rec EXCEPT !.wait = @ \ {m}, !.bad = @ \cup {m}]
        waits == rec.stage = "waiting" /\ m \in rec.wait
    IN  /\ [write |-> w, to |-> m] \in net
        /\ net' = net \ {[write |-> w, to |-> m]}
        /\ TakeOps(m, <<rec.op>>)
        /\ \/ write' = [write EXCEPT ![w] = IF waits THEN Gather(heard) ELSE @] /\ UNCHANGED lost
           \/ /\ waits /\ lost < scope.losses /\ lost' = lost + 1
              /\ write' = [write EXCEPT ![w] = Gather(unheard)]
        /\ UNCHANGED <<manager, local, sending, pending, acked, env>>

(* call_while_member gives up: the node left, or did not answer in time    *)
GiveUp(w, m) ==
    LET rec == write[w] IN
    /\ rec.stage = "waiting" /\ m \in rec.wait
    /\ IF m \notin View(rec.node).members THEN UNCHANGED lost ELSE lost < scope.losses /\ lost' = lost + 1
    /\ write' = [write EXCEPT ![w] = Gather([rec EXCEPT !.wait = @ \ {m}, !.bad = @ \cup {m}])]
    /\ UNCHANGED <<manager, local, copies, sending, net, pending, acked, env>>

(* One report of replicate, or of fail_copies_written. *)
Report(w) ==
    LET rec == write[w] IN
    /\ rec.stage \in {"reporting", "failing"}
    /\ \E r \in rec.reports, ok \in BOOLEAN :
         LET rest == [rec EXCEPT !.reports = @ \ {r}, !.unreachable = @ \/ ~ ok] IN
         /\ r.kind = "stale" => \A q \in rec.reports : q.kind = "stale"
         /\ Told(rec.node, r, ok)
         /\ pending' = IF ok THEN pending ELSE RetryLater(rec.node, r)
         /\ write' = [write EXCEPT ![w] = IF rec.stage = "failing" /\ rest.reports = {}
                                         THEN Finished(rec) ELSE rest]
    /\ UNCHANGED <<local, copies, sending, net, acked, env>>

(* finish, from what replicate found out *)
Answer(w) ==
    LET rec == write[w]
        n == rec.node
        named == {[kind |-> "failed", id |-> View(n).copies[m].id, node |-> m]
                  : m \in rec.took \cup {n}}
        refuse == rec.stale \/ (~ rec.unreachable /\ ~ MayStillAnswer(w))
    IN  /\ rec.stage = "reporting" /\ rec.reports = {}
        /\ write' = [write EXCEPT ![w] =
                IF ~ rec.silent /\ refuse THEN [rec EXCEPT !.stage = "failing", !.reports = named]
                ELSE Finished(rec)]
        /\ acked' = IF rec.silent \/ refuse \/ rec.unreachable THEN acked ELSE acked \cup {w}
        /\ UNCHANGED <<manager, local, copies, sending, net, pending, lost, env>>
----------------------------------------------------------------------------
(* A node takes a committed state: apply_metadata, apply_shards.  One that *)
(* restarted is given the last one again when it joins or when a state     *)
(* that changes nothing here is published.                                 *)

(* Mutant: a node that became the primary does not resync. *)
NoResync(n, s) == {}

(* The resync a node starts when it finds itself the primary of a term.    *)
ResyncFor(n, s) ==
    LET to == {m \in Node \ {n} : s.copies[m].st = "started" /\ ~ s.copies[m].primary}
    IN  IF s.copies[n].primary /\ s.copies[n].st = "started" /\ resynced[n] < s.term /\ to # {}
        THEN {[node |-> n, term |-> s.term, to |-> to, phase |-> "begin", left |-> to, ops |-> <<>>]}
        ELSE {}

ApplyState(n) ==
    \E k \in applied[n] + 1 .. Len(states) :
      LET s == states[k]
          mine == s.copies[n]
          drop == mine.st = "none" /\ \E m \in Node \ {n} : s.copies[m].primary /\ s.copies[m].st = "started"
          noted == IF drop THEN None
                   ELSE IF store[n] # None /\ mine.st # "none" THEN [store[n] EXCEPT !.id = mine.id]
                   ELSE store[n]
          begin == mine.st = "init" /\ reported[n] # mine.id
          fill == begin /\ ~ mine.primary
          made == mine.st # "none" /\ reported[n] = mine.id
      IN  /\ k > view[n] \/ k = Len(states)
          /\ n \in s.members
          /\ view' = [view EXCEPT ![n] = k]
          /\ applied' = [applied EXCEPT ![n] = k]
          /\ lease' = [lease EXCEPT ![n] = TRUE]
          /\ reported' = [reported EXCEPT ![n] = IF begin \/ made THEN mine.id ELSE None]
          /\ ready' = [ready EXCEPT ![n] = IF begin /\ mine.primary THEN mine.id
                                           ELSE IF mine.st # "none" /\ @ = mine.id THEN @ ELSE None]
          /\ store' = [store EXCEPT ![n] = IF begin /\ noted = None THEN Empty ELSE noted]
          /\ parked' = [parked EXCEPT ![n] = IF fill /\ @ = None /\ PrimaryOf(s) # None THEN <<>> ELSE @]
          /\ fills' = [fills EXCEPT ![n] = IF fill
                THEN Append(@, [id |-> mine.id, from |-> PrimaryOf(s), full |-> FALSE,
                                begun |-> PrimaryOf(s) = None, held |-> PrimaryOf(s) = None])
                ELSE @]
          /\ sending' = sending \cup ResyncFor(n, s)
          /\ resynced' = [resynced EXCEPT ![n] =
                IF mine.primary /\ mine.st = "started" /\ @ < s.term THEN s.term ELSE @]
          /\ UNCHANGED <<manager, resyncs, write, net, pending, acked, lost, env>>

----------------------------------------------------------------------------
(* A copy is filled: seed_replica. *)

Fill(n) == fills[n][1]

(* The recovery lock is free: what was parked since is let go, what is     *)
(* here makes way for the primary's documents.                             *)
BeginFill(n) ==
    /\ fills[n] # <<>> /\ ~ Fill(n).begun
    /\ fills' = [fills EXCEPT ![n][1] = [@ EXCEPT !.begun = TRUE, !.held = store[n] # None]]
    /\ parked' = [parked EXCEPT ![n] = <<>>]
    /\ resyncs' = [resyncs EXCEPT ![n] = None]
    /\ store' = [store EXCEPT ![n] = Empty]
    /\ UNCHANGED <<manager, local, sending, write, net, pending, acked, lost, env>>

(* Mutant: the scan ends on any page. *)
LastPage(n) == TRUE

(* Whether a page is the last: the primary sends its writes here already,  *)
(* or has not for thirty seconds                                           *)
RoutesHere(n) == scope.fallback \/ n \in Targets(View(Fill(n).from), Fill(n).from)

(* catch_up_by_scan, one page; it names no shard, so its term is 1         *)
FillPage(n) ==
    /\ fills[n] # <<>> /\ Fill(n).begun /\ ~ Fill(n).full
    /\ Fill(n).from \notin {n, None} /\ store[Fill(n).from] # None /\ store[n] # None
    /\ scope.overtaking \/ View(Fill(n).from).term >= View(n).term
    /\ store' = [store EXCEPT ![n] = ApplyAll(@, Scan(store[Fill(n).from], 1))]
    /\ fills' = [fills EXCEPT ![n][1].full = RoutesHere(n)]
    /\ UNCHANGED <<manager, local, parked, resyncs, sending, write, net, pending, acked, lost, env>>

(* apply_what_waited, then ShardDone *)
EndFill(n) ==
    /\ fills[n] # <<>> /\ Fill(n).full /\ store[n] # None
    /\ IF parked[n] \notin {None, <<>>}
       THEN /\ store' = [store EXCEPT ![n] = ApplyAll(@, parked[n])]
            /\ parked' = [parked EXCEPT ![n] = <<>>]
            /\ UNCHANGED <<fills, ready>>
       ELSE /\ parked' = [parked EXCEPT ![n] = None]
            /\ fills' = [fills EXCEPT ![n] = Tail(@)]
            /\ store' = [store EXCEPT ![n].id = IF View(n).copies[n].st # "none"
                                               THEN View(n).copies[n].id ELSE @]
            /\ ready' = [ready EXCEPT ![n] = IF View(n).copies[n].id = Fill(n).id THEN Fill(n).id ELSE @]
    /\ UNCHANGED <<manager, view, applied, lease, reported, resynced, resyncs, sending, write, net,
                   pending, acked, lost, env>>

(* The fill fails: its source does not answer, or the copy here is gone.   *)
FailFill(n) ==
    LET r == [kind |-> "failed", id |-> Fill(n).id, node |-> None]
        mine == View(n).copies[n].id = Fill(n).id
    IN  /\ fills[n] # <<>> /\ Fill(n).begun
        /\ ~ Fill(n).full \/ store[n] = None
        /\ \/ Fill(n).from \in {n, None} \/ store[n] = None
           \/ Fill(n).from # None /\ (store[Fill(n).from] = None \/ lost < scope.losses)
        /\ parked' = [parked EXCEPT ![n] = None]
        /\ store' = [store EXCEPT ![n] = IF Fill(n).held THEN @ ELSE None]
        /\ fills' = [fills EXCEPT ![n] = Tail(@)]
        /\ reported' = [reported EXCEPT ![n] = IF mine /\ Fill(n).from # None THEN None ELSE @]
        /\ IF mine THEN \E ok \in BOOLEAN : Told(n, r, ok) ELSE UNCHANGED <<manager, lost>>
        /\ UNCHANGED <<view, applied, lease, ready, resynced, resyncs, sending, write, net, pending,
                       acked, env>>
----------------------------------------------------------------------------
(* A new primary sends out what it holds: resync. *)

Sent(r, m) == (sending \ {r}) \cup {[r EXCEPT !.left = @ \ {m}]}

(* The copies are told that a resync begins, or do not hear it. *)
ResyncBegin(r, m) ==
    /\ r.phase = "begin" /\ m \in r.left
    /\ scope.overtaking \/ View(m).term >= r.term
    /\ sending' = Sent(r, m)
    /\ \/ /\ resyncs' = [resyncs EXCEPT ![m] =
                IF r.term >= View(m).term /\ parked[m] = None THEN [term |-> r.term, seen |-> {}] ELSE @]
          /\ UNCHANGED lost
       \/ lost < scope.losses /\ lost' = lost + 1 /\ UNCHANGED resyncs
    /\ UNCHANGED <<manager, local, store, parked, fills, write, net, pending, acked, env>>

ResyncScan(r) ==
    LET ops == IF store[r.node] = None THEN <<>> ELSE Scan(store[r.node], r.term)
    IN  /\ r.phase = "begin" /\ r.left = {}
        /\ sending' = (sending \ {r}) \cup
               {[r EXCEPT !.ops = ops, !.left = r.to, !.phase = IF ops = <<>> THEN "end" ELSE "page"]}
        /\ UNCHANGED <<manager, local, copies, write, net, pending, acked, lost, env>>

(* A page; a copy that does not take it is failed (fail_copy) and no       *)
(* longer part of the resync                                               *)
ResyncPage(r, m) ==
    LET report == [kind |-> "failed", id |-> View(r.node).copies[m].id, node |-> None]
        placed == View(r.node).copies[m].st # "none" /\ ~ View(r.node).copies[m].primary
        missed == (sending \ {r}) \cup {[r EXCEPT !.left = @ \ {m}, !.to = @ \ {m}]}
    IN  /\ r.phase = "page" /\ m \in r.left
        /\ \/ /\ Taken(m, r.ops[1]) = "ok" /\ TakeOps(m, r.ops)
              /\ sending' = Sent(r, m)
              /\ UNCHANGED <<manager, pending, lost>>
           \/ /\ IF Taken(m, r.ops[1]) # "ok" THEN UNCHANGED copies
                 ELSE lost < scope.losses /\ (UNCHANGED copies \/ TakeOps(m, r.ops))
              /\ sending' = missed
              /\ IF ~ placed THEN UNCHANGED <<manager, pending, lost>>
                 ELSE \E ok \in BOOLEAN :
                        /\ Told(r.node, report, ok)
                        /\ pending' = IF ok THEN pending ELSE RetryLater(r.node, report)
        /\ UNCHANGED <<local, write, net, acked, env>>

ResyncSent(r) ==
    /\ r.phase = "page" /\ r.left = {}
    /\ sending' = (sending \ {r}) \cup {[r EXCEPT !.phase = "end", !.left = r.to]}
    /\ UNCHANGED <<manager, local, copies, write, net, pending, acked, lost, env>>

(* What no write of the new term touched is deleted. *)
Trim(st, seen, term) ==
    LET doomed == {d \in Doc : st.docs[d].live /\ d \notin seen}
        ops == {[doc |-> d, version |-> st.docs[d].version + 1, write |-> 0, live |-> FALSE,
                 term |-> term, from |-> None, page |-> FALSE] : d \in doomed}
    IN  [ApplyAll(st, SetToSeq(ops)) EXCEPT !.deletes = {}]

ResyncEnd(r, m) ==
    /\ r.phase = "end" /\ m \in r.left
    /\ sending' = Sent(r, m)
    /\ \/ /\ IF r.term >= View(m).term /\ resyncs[m] # None /\ resyncs[m].term = r.term
             THEN /\ resyncs' = [resyncs EXCEPT ![m] = None]
                  /\ store' = [store EXCEPT ![m] = IF @ = None THEN None
                                                   ELSE Trim(@, resyncs[m].seen, r.term)]
             ELSE UNCHANGED <<resyncs, store>>
          /\ UNCHANGED lost
       \/ lost < scope.losses /\ lost' = lost + 1 /\ UNCHANGED <<resyncs, store>>
    /\ UNCHANGED <<manager, local, parked, fills, write, net, pending, acked, env>>

ResyncDone(r) ==
    /\ r.phase = "end" /\ r.left = {}
    /\ sending' = sending \ {r}
    /\ UNCHANGED <<manager, local, copies, write, net, pending, acked, lost, env>>

----------------------------------------------------------------------------
(* The manager's own steps, and the faults. *)

(* SHARD_STARTED *)
Started(n) ==
    /\ ready[n] # None /\ Room
    /\ n \in Top.members /\ Top.copies[n].id = ready[n] /\ Top.copies[n].st = "init"
    /\ Publish([Top EXCEPT !.copies[n].st = "started"], {})
    /\ UNCHANGED <<local, copies, sending, write, net, pending, acked, lost, env>>

NodeLeaves(n) ==
    /\ Room /\ n \in Top.members /\ Top.members # {n}
    /\ Publish([Top EXCEPT !.members = @ \ {n}], {})
    /\ UNCHANGED <<local, copies, sending, write, net, pending, acked, lost, env>>

NodeJoins(n) ==
    /\ scope.joins /\ Room /\ n \in scope.members \ Top.members
    /\ Publish([Top EXCEPT !.members = @ \cup {n}], {})
    /\ env' = [env EXCEPT !.fresh = @ \ {n}]
    /\ UNCHANGED <<local, copies, sending, write, net, pending, acked, lost>>

(* A member joins with another ephemeral id: its copies are unassigned.    *)
(* A new process that a check reaches first follows without joining.       *)
Rejoins(n) ==
    /\ Room /\ n \in Top.members /\ n \in env.fresh
    /\ Publish([Top EXCEPT !.copies[n] = NoCopy], {})
    /\ env' = [env EXCEPT !.fresh = @ \ {n}]
    /\ UNCHANGED <<local, copies, sending, write, net, pending, acked, lost>>

(* A state published for no event: what could not be placed may be now. *)
Reroute ==
    /\ Room /\ Publish(Top, {}) /\ states' # states
    /\ UNCHANGED <<local, copies, sending, write, net, pending, acked, lost, env>>

(* Another manager takes over; it has counted no terms. *)
NewManager ==
    /\ counted # 0 /\ counted' = 0
    /\ UNCHANGED <<states, local, copies, sending, write, net, pending, acked, lost, env>>

(* manager_here: the manager is not heard from, and is again -- before the *)
(* states it has committed since have come.  It matters to a node that has *)
(* a write in hand.                                                        *)
LeaseEnds(n) ==
    /\ \E w \in Write : write[w].node = n
    /\ lease[n] /\ lease' = [lease EXCEPT ![n] = FALSE]
    /\ UNCHANGED <<manager, view, applied, reported, ready, resynced, copies, sending, write, net,
                   pending, acked, lost, env>>

HearsManager(n) ==
    /\ ~ lease[n] /\ n \in Top.members
    /\ lease' = [lease EXCEPT ![n] = TRUE]
    /\ UNCHANGED <<manager, view, applied, reported, ready, resynced, copies, sending, write, net,
                   pending, acked, lost, env>>

(* A refresh: deletes are in the index now, and in no scan. *)
Refresh(n) ==
    /\ store[n] # None /\ store[n].deletes # {}
    /\ store' = [store EXCEPT ![n].deletes = {}]
    /\ UNCHANGED <<manager, local, parked, resyncs, fills, sending, write, net, pending, acked, lost,
                   env>>

(* A node stops and starts again: what is on disk is the copy with its id  *)
(* and the state it had; a stopped write is answered by no one.            *)
Crash(n) ==
    /\ n \in scope.members /\ env.crashed < scope.crashes
    /\ env' = [env EXCEPT !.crashed = @ + 1, !.fresh = @ \cup {n}]
    /\ applied' = [applied EXCEPT ![n] = 0]
    /\ lease' = [lease EXCEPT ![n] = FALSE]
    /\ reported' = [reported EXCEPT ![n] = None]
    /\ ready' = [ready EXCEPT ![n] = None]
    /\ resynced' = [resynced EXCEPT ![n] = 0]
    /\ store' = [store EXCEPT ![n] = IF @ = None THEN None ELSE [@ EXCEPT !.applied_term = 0]]
    /\ parked' = [parked EXCEPT ![n] = None]
    /\ resyncs' = [resyncs EXCEPT ![n] = None]
    /\ fills' = [fills EXCEPT ![n] = <<>>]
    /\ pending' = [pending EXCEPT ![n] = {}]
    /\ sending' = {r \in sending : r.node # n}
    /\ write' = [w \in Write |-> IF write[w].node = n THEN Finished(write[w]) ELSE write[w]]
    /\ UNCHANGED <<manager, view, net, acked, lost>>
----------------------------------------------------------------------------
(* The copies hold the writes that came before the first step. *)
Before(w) ==
    [doc |-> scope.loaded[w],
     version |-> Cardinality({v \in 1 .. w : scope.loaded[v] = scope.loaded[w]}), write |-> w,
     live |-> TRUE, term |-> 1, from |-> scope.first, page |-> FALSE]

Full == [ApplyAll(Empty, [w \in DOMAIN scope.loaded |-> Before(w)]) EXCEPT !.applied_term = 0]

Holders == scope.others \cup {scope.first}

Init ==
    /\ env \in [scope : Scopes, crashed : {0}, fresh : {{}}]
    /\ states = <<[members |-> scope.members, term |-> 1,
                   copies |-> [n \in Node |->
                       IF n \notin Holders THEN NoCopy
                       ELSE [st |-> "started", primary |-> n = scope.first, id |-> <<n, 1>>]],
                   in_sync |-> {<<n, 1>> : n \in Holders}]>>
    /\ counted = 1
    /\ view = [n \in Node |-> 1] /\ applied = view
    /\ lease = [n \in Node |-> TRUE]
    /\ store = [n \in Node |-> IF n \in Holders THEN [Full EXCEPT !.id = <<n, 1>>] ELSE None]
    /\ parked = [n \in Node |-> None] /\ resyncs = parked /\ reported = parked /\ ready = parked
    /\ fills = [n \in Node |-> <<>>]
    /\ resynced = [n \in Node |-> IF n = scope.first THEN 1 ELSE 0]
    /\ write = [w \in Write |->
          IF w \notin DOMAIN scope.loaded THEN NoWrite
          ELSE [NoWrite EXCEPT !.stage = "done", !.op = Before(w),
                               !.after = {v \in 1 .. w - 1 : scope.loaded[v] = scope.loaded[w]}]]
    /\ pending = [n \in Node |-> {}]
    /\ sending = {} /\ net = {} /\ acked = DOMAIN scope.loaded
    /\ lost = 0

Next ==
    \/ \E n \in Node :
         \/ BeginWrite(n) \/ RetryReport(n) \/ ApplyState(n)
         \/ BeginFill(n) \/ FillPage(n) \/ EndFill(n) \/ FailFill(n)
         \/ Started(n) \/ NodeLeaves(n) \/ NodeJoins(n) \/ Rejoins(n)
         \/ LeaseEnds(n) \/ HearsManager(n) \/ Refresh(n) \/ Crash(n)
    \/ Reroute \/ NewManager
    \/ \E w \in Write :
         \/ \E awaited \in BOOLEAN : Replicate(w, awaited)
         \/ \E m \in Node : Deliver(w, m) \/ GiveUp(w, m)
         \/ Report(w) \/ Answer(w)
    \/ \E r \in sending :
         \/ ResyncScan(r) \/ ResyncSent(r) \/ ResyncDone(r)
         \/ \E m \in Node : ResyncBegin(r, m) \/ ResyncPage(r, m) \/ ResyncEnd(r, m)

Spec == Init /\ [][Next]_vars

----------------------------------------------------------------------------
Id == Node \X (1 .. scope.states)
ReportType == [kind : {"failed", "stale"}, id : Id \cup {None}, node : Node \cup {None}]

(* Types: the tables of a node hold what the code puts in them; what is    *)
(* parked waits for a fill.                                                *)
TypeOK ==
    /\ \A n \in Node :
         /\ 1 <= view[n] /\ view[n] <= Len(states) /\ applied[n] \in {0, view[n]}
         /\ pending[n] \subseteq ReportType
         /\ parked[n] # None => fills[n] # <<>>
         /\ store[n] = None \/ (store[n].id \in Id \cup {None} /\ store[n].applied_term \in 0 .. Top.term)
    /\ \A w \in Write : write[w].reports \subseteq ReportType
    /\ net \subseteq [write : Write, to : Node]
    /\ acked \subseteq {w \in Write : write[w].stage = "done"}
    /\ Top.in_sync # {} /\ Top.in_sync \subseteq Id

(* What write x stands for: itself, and the writes it was made on top of.  *)
Carries(x) == {x} \cup write[x].after

(* Whether a copy still has what write w did: w itself or a write made on  *)
(* top of it, or no document, when a write made on top of it deleted it.   *)
Holds(n, w) ==
    /\ store[n] # None
    /\ LET now == store[n].docs[write[w].op.doc].write
       IN  IF now # 0 THEN w \in Carries(now)
           ELSE \E x \in Write : w \in Carries(x) /\ write[x].op # None /\ ~ write[x].op.live

(* An acknowledged write is on every copy that is active and in sync --    *)
(* the primary and whoever may take over from it -- whatever was lost,     *)
(* whoever was promoted and however late a node heard of it (finish,       *)
(* may_still_answer, and the order of replicate, report and answer).       *)
AckedKept ==
    \A w \in acked, n \in Node :
        Top.copies[n].st = "started" /\ Top.copies[n].id \in Top.in_sync => Holds(n, w)

(* Within one term there is one primary: what every copy relies on when it *)
(* takes a write by its term (next_term, not_from_the_primary).            *)
OnePrimaryPerTerm ==
    \A i, j \in DOMAIN states :
        states[i].term = states[j].term =>
            PrimaryOf(states[i]) = None \/ PrimaryOf(states[j]) = None
            \/ PrimaryOf(states[i]) = PrimaryOf(states[j])

(* Nothing is under way at a member: all was said, heard and applied. *)
Quiet ==
    /\ net = {} /\ sending = {}
    /\ \A w \in Write : write[w].stage \in {"none", "done"}
    /\ \A n \in Top.members : applied[n] = Len(states) /\ fills[n] = <<>> /\ pending[n] = {}

(* Once nothing is under way, the active copies hold the same documents:   *)
(* what a refused, lost or deposed write left on one of them has been      *)
(* copied, trimmed or failed with its copy (replicate, resync, WritesGuard,*)
(* fail_copies_written, retry_later).                                      *)
CopiesAgree ==
    Quiet => \A m, n \in Node :
        Top.copies[m].st = "started" /\ Top.copies[n].st = "started" =>
            \A x \in Doc : LET here == store[m].docs[x]
                               there == store[n].docs[x]
                           IN  here.live = there.live /\ (here.live => here.write = there.write)

(* A shard whose primary is lost is not stuck once every node is back: one *)
(* of them holds a copy that counts as in sync, and gets the primary       *)
(* (reroute, note_allocation, with_terms).                                 *)
Recoverable ==
    Top.members = scope.members /\ PrimaryOf(Top) = None =>
        \E n \in Node : store[n] # None /\ store[n].id \in Top.in_sync
=============================================================================
