------------------------------ MODULE Translog ------------------------------
(***************************************************************************)
(* One index on disk: its queue of writes, its writer and its translog.    *)
(* src/src/store/translog.rs, writer.rs and ids.rs, the write path of      *)
(* src/src/api/doc/mod.rs and bulk.rs, and the replay at start-up.         *)
(*                                                                         *)
(* Every method of IdxState runs under the lock of its index, so a method  *)
(* is an operator from the record of the index to the next one.  What lies *)
(* between two takings of the lock is what interleaves: the items of a     *)
(* bulk and the sync that answers for them, refreshes, the release of an   *)
(* idle writer, and a stop of the process at any of these points.          *)
(*                                                                         *)
(* A parameter f is the set of things that go wrong during one step (see   *)
(* FaultKinds).  A translog size, a queue length and a pending size count  *)
(* records.                                                                *)
(***************************************************************************)
EXTENDS Integers, FiniteSets, Sequences, SequencesExt

CONSTANTS
    Doc,       \* document ids
    Shard,     \* shards of the index
    Home,      \* Home[d]: the shard d's id alone routes it to
    Request,   \* names of bulks
    Scopes     \* the settings, workloads and faults to look at (see ScopeType)

(* record: a record is not taken by the translog's buffer;                 *)
(* flush, force: the buffer does not reach the file, the file the disk;    *)
(* open: the emptied translog cannot be opened again;                      *)
(* meta, doc_meta, versions: _meta.json, _docmeta.log, _versions.bin       *)
(* cannot be written;                                                      *)
(* writer, add, commit: there is no writer to be had, it refuses a         *)
(* document, its commit fails.                                             *)
(* spill is no fault: the buffer is full, and goes to the file.            *)
FaultKinds == {"spill", "record", "flush", "force", "open", "meta", "doc_meta",
               "versions", "writer", "add", "commit"}

ScopeType ==
    [routed : SUBSET Doc,          \* written by callers with a routing of their choice
     deleted : SUBSET Doc,         \* deleted by callers
     bulks : Nat,                  \* bulks that may run at once
     async : BOOLEAN,              \* index.translog.durability: async
     power_loss : BOOLEAN,         \* does a stop lose what the file system had not forced
     mid_refreshes : BOOLEAN,      \* does a stop come in the middle of a refresh as well
     faults : SUBSET FaultKinds,   \* what may happen to a step
     deferred_max : Nat,           \* DEFERRED_MAX_OPS
     flush_at : Nat,               \* TRANSLOG_FLUSH_BYTES
     pending_max : Nat,            \* PENDING_BUDGET_BYTES
     max_seq : Nat,                \* bound: sequence numbers given out
     max_faults : Nat,             \* bound: things that go wrong
     max_stops : Nat]              \* bound: stops of the process

ASSUME TranslogAssumption ==
    /\ IsFiniteSet(Doc) /\ IsFiniteSet(Shard)
    /\ Home \in [Doc -> Shard]
    /\ Scopes \subseteq ScopeType

VARIABLES
    scope,    \* the member of Scopes this behaviour is in
    idx,      \* IdxState and the files of the index
    phase,    \* "up", "opened" (nothing replayed yet) or "replaying"
    replay,   \* the records recover has read and not replayed
    open,     \* open[r]: the writes bulk r has made and not answered for
    issued,   \* every write ever made (history)
    acked,    \* the writes answered for with success (history)
    faults,   \* things that went wrong so far
    stops     \* stops so far

vars == <<scope, idx, phase, replay, open, issued, acked, faults, stops>>

All == "all shards"
Unpinned == "no queue"
NoWrite == [seq |-> -1, live |-> FALSE]
NoVersion == [version |-> 0, live |-> FALSE]

Larger(a, b) == IF a > b THEN a ELSE b

NewIndex ==
    [seq_no |-> 0,
     versions |-> [d \in Doc |-> NoVersion],     \* entries of `versions`
     meta_dirty |-> {},
     routing |-> Home,                           \* shard_of_doc
     pending |-> [d \in Doc |-> NoWrite],        \* with pending_seq
     pending_bytes |-> 0,
     deferred |-> <<>>,
     queued_shard |-> [d \in Doc |-> Unpinned],
     writer |-> FALSE,                           \* is there a writer
     staged |-> {},                              \* what a commit would write
     buffer |-> <<>>,                            \* the BufWriter
     translog |-> TRUE,                          \* is the translog open
     translog_error |-> FALSE,
     since_commit |-> 0,
     \* on disk
     file |-> <<>>,                              \* translog.ndjson
     forced |-> 0,                               \* records of it forced
     index |-> {},                               \* the committed documents
     meta_seq |-> 0,                             \* seq_no in _meta.json
     doc_meta |-> [d \in Doc |-> NoVersion],     \* _versions.bin with _docmeta.log
     saved_versions |-> [d \in Doc |-> NoVersion]] \* _versions.bin alone

----------------------------------------------------------------------------
(* The queue and the writer. *)

(* IndexWriter: a delete takes every copy of the id handed over before it. *)
HandOver(docs, op) ==
    IF op.kind = "Delete"
    THEN {d \in docs : d.id # op.id}
    ELSE docs \cup {[id |-> op.id, seq |-> op.seq, shard |-> op.route]}

(* apply_ops: the state after it, and whether it answered Ok.  A document  *)
(* the writer refuses ends it: what came after goes back to the queue.     *)
ApplyOps(s, only, f) ==
    LET mine(op) == only = All \/ op.queue = only
        go == SelectSeq(s.deferred, mine)
        keep == SelectSeq(s.deferred, LAMBDA op : ~ mine(op))
        unpinned == [d \in Doc |-> IF only \in {All, s.queued_shard[d]}
                                   THEN Unpinned ELSE s.queued_shard[d]]
        adds == {i \in DOMAIN go : go[i].kind = "Add"}
        refused == IF "add" \in f /\ adds # {}
                   THEN CHOOSE i \in adds : \A j \in adds : i <= j
                   ELSE Len(go) + 1
        left == SubSeq(go, refused + 1, Len(go))
        again(d) == {op \in Range(left) : op.kind = "Delete" /\ op.id = d}
    IN  IF s.deferred = <<>> THEN [s |-> s, done |-> TRUE]
        ELSE IF "writer" \in f
        THEN [s |-> [s EXCEPT !.deferred = keep \o go, !.queued_shard = unpinned],
              done |-> FALSE]
        ELSE [s |-> [s EXCEPT
                !.writer = TRUE,
                !.deferred = keep \o left,
                !.queued_shard = [d \in Doc |-> IF again(d) = {} THEN unpinned[d]
                                                ELSE (CHOOSE op \in again(d) : TRUE).queue],
                !.staged = FoldLeft(HandOver, s.staged, SubSeq(go, 1, refused - 1))],
              done |-> refused > Len(go)]

(* Mutant: a write is queued under the shard it routes to now. *)
QueueUnpinned(s, id, op, f) ==
    LET q == [s EXCEPT !.deferred = Append(@, [queue |-> s.routing[id]] @@ op)]
    IN  IF Len(q.deferred) >= scope.deferred_max THEN ApplyOps(q, All, f).s ELSE q

(* queue_op_for, queue_op *)
QueueOpFor(s, id, op, f) ==
    LET queue == IF s.queued_shard[id] = Unpinned THEN s.routing[id] ELSE s.queued_shard[id]
        q == [s EXCEPT !.queued_shard[id] = queue,
                       !.deferred = Append(@, [queue |-> queue] @@ op)]
    IN  IF Len(q.deferred) >= scope.deferred_max THEN ApplyOps(q, All, f).s ELSE q

Commit(s) == [s EXCEPT !.index = s.staged]

(* The commit of a refresh; without a writer there is nothing to commit. *)
Commits(s, f) == ~ s.writer \/ "commit" \notin f

----------------------------------------------------------------------------
(* The translog. *)

(* Mutant: _meta.json is not written again. *)
SaveMetaStale(s, f) == s

(* save_meta: a file that cannot be written is logged and passed over. *)
SaveMeta(s, f) == IF "meta" \in f THEN s ELSE [s EXCEPT !.meta_seq = s.seq_no]

(* save_doc_meta: the versions in full; the record of what moved goes even *)
(* when they could not be written.                                         *)
SaveDocMeta(s, f) ==
    LET kept == IF "versions" \in f THEN s.saved_versions ELSE s.versions
    IN  [s EXCEPT !.saved_versions = kept, !.doc_meta = kept, !.meta_dirty = {}]

(* append_doc_meta_log, where it succeeds *)
AppendDocMetaLog(s) ==
    [s EXCEPT !.doc_meta = [d \in Doc |-> IF d \in s.meta_dirty THEN s.versions[d] ELSE @[d]],
              !.meta_dirty = {}]

(* Mutant: the versions are not waited for. *)
ClearTranslogRegardless(s, f) ==
    LET kept == IF "doc_meta" \in f THEN s ELSE AppendDocMetaLog(s)
    IN  [kept EXCEPT !.file = <<>>, !.forced = 0, !.buffer = <<>>, !.translog = TRUE,
                     !.since_commit = 0]

(* clear_translog: kept when the versions it recorded cannot be written. *)
ClearTranslog(s, f) ==
    IF "doc_meta" \in f /\ s.meta_dirty # {} THEN s
    ELSE IF "open" \in f
    THEN [AppendDocMetaLog(s) EXCEPT !.file = @ \o s.buffer, !.buffer = <<>>,
                                     !.translog = FALSE, !.since_commit = 0]
    ELSE [AppendDocMetaLog(s) EXCEPT !.file = <<>>, !.forced = 0, !.buffer = <<>>,
                                     !.translog = TRUE, !.since_commit = 0]

(* The part log_write and note_pending share: everything queued is handed  *)
(* over and committed, and the record is spent if all of that succeeded.   *)
Spend(s, f) ==
    LET applied == ApplyOps(s, All, f)
    IN  IF applied.done /\ applied.s.writer /\ "commit" \notin f
        THEN ClearTranslog(SaveMeta(Commit(applied.s), f), f)
        ELSE applied.s

Spent(s, f) == LET applied == ApplyOps(s, All, f)
               IN  applied.done /\ applied.s.writer /\ "commit" \notin f

(* log_write.  The buffer may be full, and goes to the file first. *)
LogWrite(s, rec, f) ==
    LET room == IF "spill" \in f
                THEN [s EXCEPT !.file = @ \o s.buffer, !.buffer = <<>>] ELSE s
        logged == [room EXCEPT !.buffer = Append(@, rec), !.since_commit = @ + 1]
    IN  IF "record" \in f \/ ~ s.translog
        THEN [s EXCEPT !.translog_error = TRUE]
        ELSE IF logged.since_commit > scope.flush_at THEN Spend(logged, f) ELSE logged

(* flush_translog *)
FlushTranslog(s, force, f) ==
    LET flushed == [s EXCEPT !.file = @ \o s.buffer, !.buffer = <<>>]
    IN  IF ~ s.translog THEN s
        ELSE IF "flush" \in f THEN [s EXCEPT !.translog_error = TRUE]
        ELSE IF ~ force THEN flushed
        ELSE IF "force" \in f THEN [flushed EXCEPT !.translog_error = TRUE]
        ELSE [flushed EXCEPT !.forced = Len(flushed.file)]

(* Mutant: an answer does not wait for the buffer. *)
SyncTranslogLater(s, due, f) ==
    [s |-> [s EXCEPT !.translog_error = FALSE], done |-> ~ s.translog_error]

(* sync_translog, and whether it answered Ok; due: the interval of async   *)
(* durability has passed (nothing asks otherwise).                         *)
SyncTranslog(s, due, f) ==
    LET flushed == FlushTranslog(s, ~ scope.async \/ due, f)
    IN  [s |-> [flushed EXCEPT !.translog_error = FALSE], done |-> ~ flushed.translog_error]

(* note_pending *)
NotePending(s, id, write, f) ==
    LET noted == [s EXCEPT !.pending[id] = write, !.pending_bytes = @ + 1]
    IN  IF noted.pending_bytes <= scope.pending_max THEN noted
        ELSE IF Spent(noted, f)
        THEN [Spend(noted, f) EXCEPT !.pending = [d \in Doc |-> NoWrite], !.pending_bytes = 0]
        ELSE Spend(noted, f)

(* refresh_everything *)
Refresh(s, f) ==
    LET applied == ApplyOps(s, All, f)
        shown == [SaveMeta(Commit(applied.s), f) EXCEPT
                    !.pending = [d \in Doc |-> NoWrite], !.pending_bytes = 0]
    IN  IF ~ applied.done \/ ~ Commits(applied.s, f) THEN applied.s
        ELSE ClearTranslog(shown, f)

(* The states a stop in the middle of a refresh leaves on disk: committed, *)
(* the meta file written, the versions written, the translog not emptied.  *)
MidRefresh(s) ==
    LET applied == ApplyOps(s, All, {}).s
        committed == Commit(applied)
    IN  {committed, SaveMeta(committed, {}), AppendDocMetaLog(SaveMeta(committed, {}))}

(* Mutant: a shard's refresh drops what is kept for the others too. *)
RefreshShardForgetting(s, shard, f) ==
    LET applied == ApplyOps(s, shard, f)
        shown == [SaveMeta(Commit(applied.s), f) EXCEPT
                    !.pending = [d \in Doc |-> NoWrite], !.pending_bytes = 0]
    IN  IF ~ applied.done \/ ~ Commits(applied.s, f) THEN applied.s
        ELSE IF shown.deferred = <<>> THEN ClearTranslog(shown, f) ELSE shown

(* refresh_one_shard *)
RefreshShard(s, shard, f) ==
    LET applied == ApplyOps(s, shard, f)
        shown == [SaveMeta(Commit(applied.s), f) EXCEPT
                    !.pending = [d \in Doc |-> IF s.routing[d] = shard THEN NoWrite ELSE @[d]]]
        spent == IF shown.deferred = <<>> THEN ClearTranslog(shown, f) ELSE shown
    IN  IF ~ applied.done \/ ~ Commits(applied.s, f) THEN applied.s
        ELSE [spent EXCEPT !.pending_bytes = Cardinality({d \in Doc : spent.pending[d] # NoWrite})]

(* release_idle_writer *)
ReleaseIdleWriter(s, f) ==
    LET applied == ApplyOps(s, All, f)
        let_go == [Commit(applied.s) EXCEPT !.writer = FALSE, !.pending = [d \in Doc |-> NoWrite],
                                            !.pending_bytes = 0]
    IN  IF ~ s.writer THEN s
        ELSE IF ~ applied.done \/ "commit" \in f THEN applied.s
        ELSE ClearTranslog(SaveDocMeta(SaveMeta(let_go, f), f), f)

----------------------------------------------------------------------------
(* Writing a document. *)

VersionOf(s, id) == IF s.versions[id] = NoVersion THEN 1 ELSE s.versions[id].version

(* is_live; the table of ids only saves a lookup of the committed index. *)
IsLive(s, id) ==
    CASE s.pending[id] # NoWrite -> s.pending[id].live
      [] s.pending[id] = NoWrite /\ s.versions[id] # NoVersion -> s.versions[id].live
      [] OTHER -> \E d \in s.index : d.id = id

(* bump: the first write of a document keeps no entry. *)
Bump(s, id, live, existed) ==
    LET known == existed \/ s.versions[id] # NoVersion
        version == IF known THEN Larger(s.versions[id].version, 1) + 1 ELSE 1
    IN  [s EXCEPT !.seq_no = @ + 1,
                  !.meta_dirty = @ \cup {id},
                  !.versions[id] = IF known \/ ~ live
                                   THEN [version |-> version, live |-> live] ELSE @]

(* bump_to_seq, for a write replayed *)
BumpToSeq(s, rec) ==
    [s EXCEPT !.seq_no = Larger(@, rec.seq + 1),
              !.meta_dirty = @ \cup {rec.id},
              !.versions[rec.id] = [version |-> rec.version, live |-> rec.live]]

(* write_doc_uncounted, from the version on: the copy replaced and the new *)
(* one are queued, the write is recorded, and kept for realtime reads.     *)
Put(s, rec, existed, f) ==
    LET op(kind) == [kind |-> kind, id |-> rec.id, seq |-> rec.seq, route |-> rec.shard]
        cleared == IF existed THEN QueueOpFor(s, rec.id, op("Delete"), f) ELSE s
        queued == QueueOpFor(cleared, rec.id, op("Add"), f)
    IN  NotePending(LogWrite(queued, rec, f), rec.id, [seq |-> rec.seq, live |-> TRUE], f)

(* The same for a delete of a document that is there (delete_doc); after   *)
(* it the caller forgets the routing.                                      *)
Erase(s, rec, f) ==
    LET queued == QueueOpFor(s, rec.id, [kind |-> "Delete", id |-> rec.id, seq |-> rec.seq,
                                         route |-> rec.shard], f)
    IN  NotePending(LogWrite(queued, rec, f), rec.id, [seq |-> rec.seq, live |-> FALSE], f)

(* The record of the write the next state of s makes. *)
Record(s, id, live, shard) ==
    LET bumped == Bump(s, id, live, IsLive(s, id))
    IN  [id |-> id, seq |-> s.seq_no, version |-> VersionOf(bumped, id), live |-> live,
         shard |-> shard]

(* write_doc with a routing that leads to shard *)
IndexDoc(s, id, shard, f) ==
    LET existed == IsLive(s, id)
    IN  Put([Bump(s, id, TRUE, existed) EXCEPT !.routing[id] = shard],
            Record(s, id, TRUE, shard), existed, f)

(* delete_doc: one of a document that is not there takes a number only. *)
DeleteDoc(s, id, f) ==
    LET existed == IsLive(s, id)
        bumped == Bump(s, id, FALSE, existed)
    IN  [(IF existed THEN Erase(bumped, Record(s, id, FALSE, s.routing[id]), f) ELSE bumped)
            EXCEPT !.routing[id] = Home[id]]

(* One record of recover: the write it stands for is made again, which     *)
(* records it again; a delete is not recorded again.                       *)
Replay(s, rec, f) ==
    LET seen == [s EXCEPT !.seq_no = Larger(@, rec.seq)]
    IN  IF rec.live
        THEN Put(BumpToSeq([seen EXCEPT !.routing[rec.id] = rec.shard], rec), rec,
                 IsLive(s, rec.id), f)
        ELSE NotePending(QueueOpFor(BumpToSeq(seen, rec), rec.id,
                            [kind |-> "Delete", id |-> rec.id, seq |-> rec.seq,
                             route |-> s.routing[rec.id]], f),
                         rec.id, [seq |-> rec.seq, live |-> FALSE], f)

(* What a process finds when it opens the index: the committed documents   *)
(* with their routing, the versions, the number in _meta.json, and the     *)
(* first kept records of the translog.                                     *)
Reopen(s, kept) ==
    [NewIndex EXCEPT
        !.file = SubSeq(s.file, 1, kept), !.forced = kept,
        !.index = s.index, !.staged = s.index,
        !.meta_seq = s.meta_seq, !.seq_no = s.meta_seq,
        !.doc_meta = s.doc_meta, !.saved_versions = s.saved_versions, !.versions = s.doc_meta,
        !.routing = [d \in Doc |-> IF \E e \in s.index : e.id = d
                                   THEN (CHOOSE e \in s.index : e.id = d).shard ELSE Home[d]]]

----------------------------------------------------------------------------
(* Steps. *)

TypeOK ==
    /\ phase \in {"up", "opened", "replaying"}
    /\ idx.forced <= Len(idx.file)
    /\ Len(idx.buffer) <= idx.since_commit
    /\ acked \subseteq issued
    /\ \A r \in Request : open[r] \subseteq issued
    /\ phase # "up" => \A r \in Request : open[r] = {}

Init ==
    /\ scope \in Scopes
    /\ idx = NewIndex
    /\ phase = "up"
    /\ replay = <<>>
    /\ open = [r \in Request |-> {}]
    /\ issued = {} /\ acked = {}
    /\ faults = 0 /\ stops = 0

(* What may go wrong in one step. *)
FaultSets ==
    {f \in SUBSET FaultKinds :
        \E s \in Scopes : f \subseteq s.faults /\ Cardinality(f \ {"spill"}) <= s.max_faults}

(* f happens during a step. *)
Faulty(f) ==
    /\ f \subseteq scope.faults
    /\ faults + Cardinality(f \ {"spill"}) <= scope.max_faults
    /\ faults' = faults + Cardinality(f \ {"spill"})

RoutesOf(id) == IF id \in scope.routed THEN Shard ELSE {Home[id]}

(* What one item of a bulk, or one request, writes: the state after it and *)
(* the records of it.                                                      *)
Effects(id, f) ==
    {[s |-> IndexDoc(idx, id, shard, f), wrote |-> {Record(idx, id, TRUE, shard)}] :
        shard \in RoutesOf(id)}
    \cup {[s |-> DeleteDoc(idx, id, f),
           wrote |-> IF IsLive(idx, id) THEN {Record(idx, id, FALSE, idx.routing[id])} ELSE {}] :
              gone \in {id} \cap scope.deleted}

(* One item of bulk r, under the lock of the index. *)
BulkItem(r, id, f) ==
    /\ Faulty(f)
    /\ phase = "up" /\ idx.seq_no < scope.max_seq
    /\ Cardinality({q \in Request : open[q] # {}} \cup {r}) <= scope.bulks
    /\ \E e \in Effects(id, f) :
        /\ idx' = e.s
        /\ open' = [open EXCEPT ![r] = @ \cup e.wrote]
        /\ issued' = issued \cup e.wrote
    /\ UNCHANGED <<phase, replay, acked, stops, scope>>

(* The end of bulk r: the refresh it asked for, and the sync that answers  *)
(* for all of its items.                                                   *)
BulkEnd(r, refreshing, due, f) ==
    LET synced == SyncTranslog(IF refreshing THEN Refresh(idx, f) ELSE idx, due, f)
    IN  /\ Faulty(f)
        /\ phase = "up" /\ open[r] # {} /\ (due => scope.async)
        /\ idx' = synced.s
        /\ acked' = IF synced.done THEN acked \cup open[r] ELSE acked
        /\ open' = [open EXCEPT ![r] = {}]
        /\ UNCHANGED <<phase, replay, issued, stops, scope>>

(* A bulk refused at a later line: what it wrote stays, unanswered for. *)
BulkRefused(r) ==
    /\ phase = "up" /\ open[r] # {}
    /\ open' = [open EXCEPT ![r] = {}]
    /\ UNCHANGED <<idx, phase, replay, issued, acked, faults, stops, scope>>

(* A request that writes one document: written, synced and refreshed under *)
(* one taking of the lock (maybe_refresh).                                 *)
SingleWrite(id, refreshing, due, f) ==
    /\ Faulty(f)
    /\ phase = "up" /\ idx.seq_no < scope.max_seq /\ (due => scope.async)
    /\ \E e \in Effects(id, f) :
        LET shard == IF \E w \in e.wrote : w.live THEN e.s.routing[id] ELSE idx.routing[id]
            synced == SyncTranslog(e.s, due, f)
        IN  /\ idx' = IF synced.done /\ refreshing THEN RefreshShard(synced.s, shard, f)
                      ELSE synced.s
            /\ issued' = issued \cup e.wrote
            /\ acked' = IF synced.done THEN acked \cup e.wrote ELSE acked
    /\ UNCHANGED <<phase, replay, open, stops, scope>>

(* A refresh of the whole index, on a schedule or asked for. *)
RefreshAll(f) ==
    /\ Faulty(f) /\ phase = "up"
    /\ idx' = Refresh(idx, f)
    /\ UNCHANGED <<phase, replay, open, issued, acked, stops, scope>>

GoQuiet(f) ==
    /\ Faulty(f) /\ phase = "up"
    /\ idx' = ReleaseIdleWriter(idx, f)
    /\ UNCHANGED <<phase, replay, open, issued, acked, stops, scope>>

(* The process is gone and another opens the index. *)
Restarted(s, kept) ==
    /\ idx' = Reopen(s, kept)
    /\ phase' = "opened"
    /\ replay' = SubSeq(s.file, 1, kept)
    /\ open' = [r \in Request |-> {}]
    /\ stops' = stops + 1
    /\ UNCHANGED <<issued, acked, scope>>

(* A stop between two steps, or in the middle of a refresh.  It keeps what *)
(* was forced; without a loss of power it keeps what the file was given.   *)
Crash ==
    /\ stops < scope.max_stops
    /\ \E s \in {idx} \cup (IF scope.mid_refreshes /\ replay = <<>> THEN MidRefresh(idx) ELSE {}) :
        \E kept \in (IF scope.power_loss THEN s.forced ELSE Len(s.file)) .. Len(s.file) :
            Restarted(s, kept)
    /\ UNCHANGED faults

(* A stop asked for: save_state, then the process ends. *)
Shutdown(f) ==
    LET saved == SaveDocMeta(FlushTranslog(idx, TRUE, f), f)
    IN  /\ Faulty(f)
        /\ phase = "up" /\ stops < scope.max_stops
        /\ Restarted(saved, Len(saved.file))

(* recover: one record, or the refresh that ends it. *)
RecoverRecord(f) ==
    /\ Faulty(f)
    /\ phase # "up" /\ replay # <<>>
    /\ idx' = Replay(idx, Head(replay), f)
    /\ replay' = Tail(replay)
    /\ phase' = "replaying"
    /\ UNCHANGED <<open, issued, acked, stops, scope>>

RecoverEnd(f) ==
    /\ Faulty(f)
    /\ phase # "up" /\ replay = <<>>
    /\ idx' = IF phase = "replaying" THEN Refresh(idx, f) ELSE idx
    /\ phase' = "up"
    /\ UNCHANGED <<replay, open, issued, acked, stops, scope>>

Next ==
    \/ \E r \in Request : BulkRefused(r)
    \/ Crash
    \/ \E f \in FaultSets :
        \/ \E r \in Request, id \in Doc : BulkItem(r, id, f)
        \/ \E r \in Request, refreshing, due \in BOOLEAN : BulkEnd(r, refreshing, due, f)
        \/ \E id \in Doc, refreshing, due \in BOOLEAN : SingleWrite(id, refreshing, due, f)
        \/ RefreshAll(f)
        \/ GoQuiet(f)
        \/ Shutdown(f)
        \/ RecoverRecord(f)
        \/ RecoverEnd(f)

Spec == Init /\ [][Next]_vars

----------------------------------------------------------------------------
(* Properties. *)

(* A realtime read: the copy kept in memory, else the committed index. *)
Reads(id) ==
    IF idx.pending[id] # NoWrite
    THEN IF idx.pending[id].live THEN {idx.pending[id].seq} ELSE {}
    ELSE {d.seq : d \in {e \in idx.index : e.id = id}}

(* Whether reading id as r shows write w, or one made after it. *)
Shows(w, r) ==
    \E v \in issued : /\ v.id = w.id /\ v.seq >= w.seq
                      /\ r = IF v.live THEN {v.seq} ELSE {}

(* A write answered for is never lost: once the process is up, the last    *)
(* write of a document that was answered for, or one made after it, is     *)
(* what a refresh shows of it, across any number of refreshes, stops and   *)
(* replays of the translog (translog.rs, api/doc/mod.rs recover).          *)
AcknowledgedKept ==
    phase = "up" =>
        LET shown == Refresh(idx, {}).index
        IN  \A w \in acked : Shows(w, {d.seq : d \in {e \in shown : e.id = w.id}})

(* A read by id shows it at once, refreshed or not, for a document nobody  *)
(* moves to another shard (ids.rs, note_pending, refresh_one_shard).       *)
ReadsItsWrites ==
    phase = "up" => \A w \in acked : w.id \notin scope.routed => Shows(w, Reads(w.id))

(* The committed index never holds two documents of one id, whichever      *)
(* shards the id was routed to and whichever of them was refreshed         *)
(* (translog.rs queue_op_for).                                             *)
OneDocumentPerId ==
    \A d, e \in idx.index : d.id = e.id => d = e

(* The numbers a restart hands out are past every number a write was       *)
(* answered with (translog.rs, writer.rs save_meta).                       *)
NumbersNotReused ==
    phase = "up" => \A w \in acked : w.seq < idx.seq_no

(* The version of a document never reads lower than a write of it was      *)
(* answered with (writer.rs append_doc_meta_log).                          *)
VersionsKept ==
    phase = "up" => \A w \in acked : VersionOf(idx, w.id) >= w.version
=============================================================================
