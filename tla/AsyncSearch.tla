---------------------------- MODULE AsyncSearch ----------------------------
(***************************************************************************)
(* Asynchronous search on one node (src/src/api/async_search.rs): a search *)
(* is submitted, runs on a thread of its own, and its result is kept in    *)
(* memory until the submit has answered and on disk until its keep_alive   *)
(* runs out.                                                               *)
(*                                                                         *)
(* Five kinds of thread share SEARCHES, KEPT, FULL and the directory: the  *)
(* submits, the searches, a reader, a deleter and the sweep.  A step is    *)
(* what one thread does under one lock, or one write or removal of a file. *)
(* A result is its size; 0 stands for no expiry, no entry and no file.     *)
(* Requests come from the owner of the search, and the limits do not       *)
(* change.  The clock is the node's.                                       *)
(***************************************************************************)
EXTENDS Naturals, FiniteSets, Totals

CONSTANTS
    Search,      \* the searches that are submitted
    Owner,       \* the callers
    OwnerOf,     \* OwnerOf[s]: Submitted::owner
    Size,        \* Size[s]: the bytes of its result, written down
    KeepAsked,   \* the searches submitted with keep_on_completion
    PersistFailures,  \* persist_search_failures
    KeepAlive,   \* the keep_alive of a submit
    Longer,      \* the keep_alive a read may ask for
    NoSearch,    \* no search
    Scopes       \* what a behaviour may have in it, and the limits in force

(* A scope: node_ and user_concurrent_running_searches, node_ and          *)
(* user_retained_bytes, the searches that are submitted, the last tick of  *)
(* the clock, and the reads, deletes, failing writes and restarts to come. *)
ScopeType == [node_running : Nat, user_running : Nat, node_bytes : Nat, user_bytes : Nat,
              submits : SUBSET Search, time : Nat,
              reads : Nat, deletes : Nat, errors : Nat, crashes : Nat]

ASSUME AsyncSearchAssumption ==
    /\ IsFiniteSet(Search) /\ NoSearch \notin Search
    /\ OwnerOf \in [Search -> Owner] /\ Size \in [Search -> Nat]
    /\ KeepAsked \subseteq Search
    /\ PersistFailures \in BOOLEAN
    /\ KeepAlive \in Nat \ {0} /\ Longer \subseteq Nat \ {0}
    /\ Scopes \subseteq ScopeType

VARIABLES
    now,         \* now_millis()
    submit,      \* submit[s]: where the request that submits s is
    worker,      \* worker[s]: where the thread that runs s is
    searches,    \* SEARCHES
    finished,    \* the searches whose state.0 is no longer Running
    expiration,  \* expiration[s]: Submitted::expiration_millis
    loaded,      \* loaded[s]: the expiry keep() read
    deleted,     \* Submitted::deleted
    kept,        \* kept[s]: the expiry KEPT has for s
    disk,        \* disk[s]: the expiry in the file of s
    full,        \* FULL
    get, del, swp,  \* the reader, the deleter and the sweep
    promised,    \* history: promised[s], the expiry s was last written down with
    told,        \* history: told[s], the expiry a caller was last told
    acked,       \* history: the searches whose delete was acknowledged
    lost,        \* history: the searches a read missed while they were kept
    scope        \* the limits, and what is left of the bounds

memory == <<submit, worker, searches, finished, expiration, loaded, deleted>>
history == <<promised, told, acked, lost>>
vars == <<now, memory, kept, disk, full, get, del, swp, history, scope>>

Idle(t) == t.pc = "idle"
Nobody == [pc |-> "idle", id |-> NoSearch, has |-> FALSE]
Resting == [pc |-> "idle", now |-> 0, gone |-> {}]

(* One type invariant for the module. *)
TypeOK ==
    /\ now \in Nat \ {0}
    /\ submit \in [Search -> {"none", "admitted", "waiting", "answered", "refused", "cut"}]
    /\ worker \in [Search -> {"none", "searching", "reserving", "writing", "checking",
                              "forgetting", "unlinking", "finishing", "done", "cut"}]
    /\ searches \subseteq Search /\ finished \subseteq Search /\ deleted \subseteq Search
    /\ expiration \in [Search -> Nat] /\ loaded \in [Search -> Nat]
    /\ kept \in [Search -> Nat] /\ disk \in [Search -> Nat]
    /\ full \in [node : BOOLEAN, users : SUBSET Owner]
    /\ get \in [pc : {"idle", "seen", "missed", "listed", "read"},
                id : Search \cup {NoSearch}, has : BOOLEAN]
    /\ del \in [pc : {"idle", "looked", "marked", "taken", "unlinking"},
                id : Search \cup {NoSearch}, has : BOOLEAN]
    /\ \A t \in {get, del} : Idle(t) => t = Nobody
    /\ swp \in [pc : {"idle", "kept", "files"}, now : Nat, gone : SUBSET Search]
    /\ promised \in [Search -> Nat] /\ told \in [Search -> Nat]
    /\ acked \subseteq Search /\ lost \subseteq Search
    /\ scope \in ScopeType

Init ==
    /\ now = 1
    /\ submit = [s \in Search |-> "none"] /\ worker = [s \in Search |-> "none"]
    /\ searches = {} /\ finished = {} /\ deleted = {}
    /\ expiration = [s \in Search |-> 0] /\ loaded = [s \in Search |-> 0]
    /\ kept = [s \in Search |-> 0] /\ disk = [s \in Search |-> 0]
    /\ full = [node |-> FALSE, users |-> {}]
    /\ get = Nobody /\ del = Nobody /\ swp = Resting
    /\ promised = [s \in Search |-> 0] /\ told = [s \in Search |-> 0]
    /\ acked = {} /\ lost = {}
    /\ scope \in Scopes

----------------------------------------------------------------------------
(* The bytes kept, on the node and for one caller. *)
KeptIds == {s \in Search : kept[s] > 0}
Bytes(S) == Total(Size, S)
Of(o) == {s \in Search : OwnerOf[s] = o}

(* The searches in memory that count as running. *)
Running == searches \ finished

(* The search a caller finds in memory: visible(). *)
Visible(s) == s \in searches /\ expiration[s] > now

(* room_freed: a result of o was let go. *)
Freed(f, o) == [node |-> FALSE, users |-> f.users \ {o}]

----------------------------------------------------------------------------
(* A submit: the room left for results is looked at first, then the place  *)
(* among the running searches is taken under the lock of SEARCHES.         *)
Submit(s) ==
    /\ submit[s] = "none" /\ s \in scope.submits
    /\ LET o == OwnerOf[s]
           noRoom == \/ Bytes(KeptIds) >= scope.node_bytes \/ full.node
                     \/ Bytes(KeptIds \cap Of(o)) >= scope.user_bytes \/ o \in full.users
       IN submit' = [submit EXCEPT ![s] = IF s \in KeepAsked /\ noRoom
                                          THEN "refused" ELSE "admitted"]
    /\ UNCHANGED <<now, worker, searches, finished, expiration, loaded, deleted,
                   kept, disk, full, get, del, swp, history, scope>>

TooMany(s) ==
    \/ Cardinality(Running) >= scope.node_running
    \/ Cardinality(Running \cap Of(OwnerOf[s])) >= scope.user_running

Refuse(s) ==
    /\ submit[s] = "admitted" /\ TooMany(s)
    /\ submit' = [submit EXCEPT ![s] = "refused"]
    /\ UNCHANGED <<now, worker, searches, finished, expiration, loaded, deleted,
                   kept, disk, full, get, del, swp, history, scope>>

Start(s) ==
    /\ submit' = [submit EXCEPT ![s] = "waiting"]
    /\ worker' = [worker EXCEPT ![s] = "searching"]
    /\ searches' = searches \cup {s}
    /\ expiration' = [expiration EXCEPT ![s] = now + KeepAlive]
    /\ UNCHANGED <<now, finished, loaded, deleted, kept, disk, full, get, del, swp,
                   history, scope>>

RegisterUncounted(s) == submit[s] = "admitted" /\ Start(s)

Register(s) == submit[s] = "admitted" /\ ~TooMany(s) /\ Start(s)

AnswerLeaving(s) ==
    /\ submit[s] = "waiting"
    /\ submit' = [submit EXCEPT ![s] = "answered"]
    /\ told' = [told EXCEPT ![s] = expiration[s]]
    /\ UNCHANGED <<now, worker, searches, finished, expiration, loaded, deleted,
                   kept, disk, full, get, del, swp, promised, acked, lost, scope>>

(* The submit answers: the search finished, or the wait ran out.           *)
Answer(s) ==
    /\ submit[s] = "waiting"
    /\ submit' = [submit EXCEPT ![s] = "answered"]
    /\ searches' = IF s \in finished THEN searches \ {s} ELSE searches
    /\ told' = [told EXCEPT ![s] = expiration[s]]
    /\ UNCHANGED <<now, worker, finished, expiration, loaded, deleted, kept, disk,
                   full, get, del, swp, promised, acked, lost, scope>>

----------------------------------------------------------------------------
(* The thread of a search.  It goes on to its end whatever became of its   *)
(* task: the search does not look at the task's cancelled flag.            *)
Goes(s, place) == worker' = [worker EXCEPT ![s] = place]

(* The search ends, and keep() looks at whether its result is wanted.      *)
SearchEnds(s) ==
    /\ worker[s] = "searching"
    /\ \E ok \in BOOLEAN :
        IF \/ ~ok /\ ~PersistFailures
           \/ s \notin KeepAsked \/ s \in deleted \/ expiration[s] <= now
        THEN Goes(s, "finishing") /\ UNCHANGED loaded
        ELSE Goes(s, "reserving") /\ loaded' = [loaded EXCEPT ![s] = expiration[s]]
    /\ UNCHANGED <<now, submit, searches, finished, expiration, deleted, kept, disk,
                   full, get, del, swp, history, scope>>

(* keep(): the room is taken under the lock of KEPT, before the write.     *)
NodeOver(s) == Bytes(KeptIds) + Size[s] > scope.node_bytes
UserOver(s) == Bytes(KeptIds \cap Of(OwnerOf[s])) + Size[s] > scope.user_bytes

KeepReserveLoose(s) ==
    /\ worker[s] = "reserving"
    /\ kept' = [kept EXCEPT ![s] = loaded[s]]
    /\ Goes(s, "writing")
    /\ UNCHANGED <<now, submit, searches, finished, expiration, loaded, deleted,
                   disk, full, get, del, swp, history, scope>>

KeepReserve(s) ==
    /\ worker[s] = "reserving"
    /\ ~NodeOver(s) /\ ~UserOver(s)
    /\ kept' = [kept EXCEPT ![s] = loaded[s]]
    /\ Goes(s, "writing")
    /\ UNCHANGED <<now, submit, searches, finished, expiration, loaded, deleted,
                   disk, full, get, del, swp, history, scope>>

KeepNoRoom(s) ==
    /\ worker[s] = "reserving"
    /\ NodeOver(s) \/ UserOver(s)
    /\ full' = IF NodeOver(s) THEN [full EXCEPT !.node = TRUE]
               ELSE [full EXCEPT !.users = @ \cup {OwnerOf[s]}]
    /\ Goes(s, "finishing")
    /\ UNCHANGED <<now, submit, searches, finished, expiration, loaded, deleted, kept, disk,
                   get, del, swp, history, scope>>

(* keep(): the file is written, outside the lock.                          *)
KeepWrite(s) ==
    /\ worker[s] = "writing"
    /\ disk' = [disk EXCEPT ![s] = loaded[s]]
    /\ Goes(s, "checking")
    /\ UNCHANGED <<now, submit, searches, finished, expiration, loaded, deleted,
                   kept, full, get, del, swp, history, scope>>

KeepWriteFails(s) ==
    /\ worker[s] = "writing" /\ scope.errors > 0
    /\ kept' = [kept EXCEPT ![s] = 0]
    /\ scope' = [scope EXCEPT !.errors = @ - 1]
    /\ Goes(s, "finishing")
    /\ UNCHANGED <<now, submit, searches, finished, expiration, loaded, deleted, disk, full,
                   get, del, swp, history>>

KeepCheckBlind(s) ==
    /\ worker[s] = "checking"
    /\ promised' = [promised EXCEPT ![s] = loaded[s]]
    /\ Goes(s, "finishing")
    /\ UNCHANGED <<now, submit, searches, finished, expiration, loaded, deleted, kept, disk,
                   full, get, del, swp, told, acked, lost, scope>>

(* keep(): deleted while it was being written, or kept.                    *)
KeepCheck(s) ==
    /\ worker[s] = "checking"
    /\ IF s \in deleted
       THEN Goes(s, "forgetting") /\ UNCHANGED promised
       ELSE /\ Goes(s, "finishing")
            /\ promised' = [promised EXCEPT ![s] = loaded[s]]
    /\ UNCHANGED <<now, submit, searches, finished, expiration, loaded, deleted, kept, disk,
                   full, get, del, swp, told, acked, lost, scope>>

(* forget_kept(): the count first, then the room and the file, and those   *)
(* only when there was something to count.                                 *)
KeepForget(s) ==
    /\ worker[s] = "forgetting"
    /\ kept' = [kept EXCEPT ![s] = 0]
    /\ Goes(s, IF kept[s] > 0 THEN "unlinking" ELSE "finishing")
    /\ UNCHANGED <<now, submit, searches, finished, expiration, loaded, deleted,
                   disk, full, get, del, swp, history, scope>>

KeepUnlink(s) ==
    /\ worker[s] = "unlinking"
    /\ full' = Freed(full, OwnerOf[s])
    /\ disk' = [disk EXCEPT ![s] = 0]
    /\ Goes(s, "finishing")
    /\ UNCHANGED <<now, submit, searches, finished, expiration, loaded, deleted,
                   kept, get, del, swp, history, scope>>

FinishLeaving(s) ==
    /\ worker[s] = "finishing"
    /\ finished' = finished \cup {s}
    /\ Goes(s, "done")
    /\ UNCHANGED <<now, submit, searches, expiration, loaded, deleted, kept, disk,
                   full, get, del, swp, history, scope>>

(* The outcome is set, and the search let go of if its submit answered.    *)
Finish(s) ==
    /\ worker[s] = "finishing"
    /\ finished' = finished \cup {s}
    /\ searches' = IF submit[s] = "answered" THEN searches \ {s} ELSE searches
    /\ Goes(s, "done")
    /\ UNCHANGED <<now, submit, expiration, loaded, deleted, kept, disk, full, get,
                   del, swp, history, scope>>

----------------------------------------------------------------------------
(* For the history of reads: s is deleted, or about to be. *)
Going(s) == s \in deleted \cup acked \/ (~Idle(del) /\ del.id = s)

(* A read: memory first, then KEPT, then the file.                         *)
Get(s) ==
    /\ Idle(get) /\ scope.reads > 0 /\ submit[s] \notin {"none", "admitted", "refused"}
    /\ get' = [pc |-> IF Visible(s) THEN "seen" ELSE "missed", id |-> s,
               has |-> promised[s] > now /\ ~Going(s)]
    /\ scope' = [scope EXCEPT !.reads = @ - 1]
    /\ UNCHANGED <<now, memory, kept, disk, full, del, swp, history>>

(* It is in memory; reading it back may give it longer to live.            *)
GetSeen ==
    /\ get.pc = "seen"
    /\ \/ UNCHANGED expiration
       \/ \E k \in Longer : expiration' = [expiration EXCEPT ![get.id] = now + k]
    /\ told' = [told EXCEPT ![get.id] = expiration'[get.id]]
    /\ get' = Nobody
    /\ UNCHANGED <<now, submit, worker, searches, finished, loaded, deleted, kept,
                   disk, full, del, swp, promised, acked, lost, scope>>

(* It is answered that it is not there. *)
NotFound ==
    /\ lost' = IF get.has /\ promised[get.id] > now /\ ~Going(get.id)
               THEN lost \cup {get.id} ELSE lost
    /\ get' = Nobody

GetKept ==
    /\ get.pc = "missed"
    /\ IF kept[get.id] > now
       THEN get' = [get EXCEPT !.pc = "listed"] /\ UNCHANGED lost
       ELSE NotFound
    /\ UNCHANGED <<now, memory, kept, disk, full, del, swp, promised, told, acked, scope>>

GetFile ==
    /\ get.pc = "listed"
    /\ IF disk[get.id] > 0
       THEN get' = [get EXCEPT !.pc = "read"] /\ UNCHANGED <<kept, lost>>
       ELSE NotFound /\ kept' = [kept EXCEPT ![get.id] = 0]
    /\ UNCHANGED <<now, memory, disk, full, del, swp, promised, told, acked, scope>>

(* extend_kept(): a new expiry, in the count and in the file.              *)
Extend(s, e) ==
    IF kept[s] > 0
    THEN /\ kept' = [kept EXCEPT ![s] = e]
         /\ disk' = [disk EXCEPT ![s] = e]
         /\ promised' = [promised EXCEPT ![s] = IF @ > 0 THEN e ELSE 0]
    ELSE UNCHANGED <<kept, disk, promised>>

GetAnswer ==
    /\ get.pc = "read"
    /\ \/ UNCHANGED <<kept, disk, promised, told>>
       \/ \E k \in Longer : /\ Extend(get.id, now + k)
                            /\ told' = [told EXCEPT ![get.id] = now + k]
    /\ get' = Nobody
    /\ UNCHANGED <<now, memory, full, del, swp, acked, lost, scope>>

----------------------------------------------------------------------------
(* A delete: the search in memory is marked and taken out, then what was   *)
(* kept is forgotten.                                                      *)
Delete(s) ==
    /\ Idle(del) /\ scope.deletes > 0
    /\ submit[s] \notin {"none", "admitted", "refused"}
    /\ del' = [pc |-> IF Visible(s) THEN "looked" ELSE "taken", id |-> s, has |-> Visible(s)]
    /\ scope' = [scope EXCEPT !.deletes = @ - 1]
    /\ UNCHANGED <<now, memory, kept, disk, full, get, swp, history>>

DeleteMark ==
    /\ del.pc = "looked"
    /\ deleted' = deleted \cup {del.id}
    /\ del' = [del EXCEPT !.pc = "marked"]
    /\ UNCHANGED <<now, submit, worker, searches, finished, expiration, loaded, kept,
                   disk, full, get, swp, history, scope>>

DeleteTake ==
    /\ del.pc = "marked"
    /\ searches' = searches \ {del.id}
    /\ del' = [del EXCEPT !.pc = "taken"]
    /\ UNCHANGED <<now, submit, worker, finished, expiration, loaded, deleted, kept,
                   disk, full, get, swp, history, scope>>

DeleteForget ==
    /\ del.pc = "taken"
    /\ kept' = [kept EXCEPT ![del.id] = 0]
    /\ IF kept[del.id] > 0
       THEN del' = [del EXCEPT !.pc = "unlinking"] /\ UNCHANGED acked
       ELSE /\ del' = Nobody
            /\ acked' = IF del.has THEN acked \cup {del.id} ELSE acked
    /\ UNCHANGED <<now, memory, disk, full, get, swp, promised, told, lost, scope>>

DeleteUnlinkFull ==
    /\ del.pc = "unlinking"
    /\ disk' = [disk EXCEPT ![del.id] = 0]
    /\ acked' = acked \cup {del.id}
    /\ del' = Nobody
    /\ UNCHANGED <<now, memory, kept, full, get, swp, promised, told, lost, scope>>

DeleteUnlink ==
    /\ del.pc = "unlinking"
    /\ full' = Freed(full, OwnerOf[del.id])
    /\ disk' = [disk EXCEPT ![del.id] = 0]
    /\ acked' = acked \cup {del.id}
    /\ del' = Nobody
    /\ UNCHANGED <<now, memory, kept, get, swp, promised, told, lost, scope>>

----------------------------------------------------------------------------
(* The sweep: searches whose time ran out, then kept results whose time    *)
(* ran out, then their files.  One that finds nothing changes nothing, and *)
(* is left out.                                                            *)
Sweep ==
    /\ Idle(swp)
    /\ (\E s \in searches : expiration[s] <= now) \/ (\E s \in KeptIds : kept[s] <= now)
    /\ searches' = {s \in searches : expiration[s] > now}
    /\ swp' = [Resting EXCEPT !.pc = "kept", !.now = now]
    /\ UNCHANGED <<now, submit, worker, finished, expiration, loaded, deleted, kept,
                   disk, full, get, del, history, scope>>

SweepKept ==
    /\ swp.pc = "kept"
    /\ LET gone == {s \in KeptIds : kept[s] <= swp.now}
           owners == {OwnerOf[s] : s \in gone}
       IN /\ kept' = [s \in Search |-> IF s \in gone THEN 0 ELSE kept[s]]
          /\ full' = IF gone = {} THEN full
                     ELSE [node |-> FALSE, users |-> full.users \ owners]
          /\ swp' = [swp EXCEPT !.pc = "files", !.gone = gone]
    /\ UNCHANGED <<now, memory, disk, get, del, history, scope>>

SweepFiles ==
    /\ swp.pc = "files"
    /\ disk' = [s \in Search |-> IF s \in swp.gone THEN 0 ELSE disk[s]]
    /\ swp' = Resting
    /\ UNCHANGED <<now, memory, kept, full, get, del, history, scope>>

----------------------------------------------------------------------------
(* The node stops and starts: the threads and the memory are gone, and     *)
(* load_kept() counts the files whose time has not run out.                *)
Left(place) == IF place \in {"none", "refused", "answered", "done"} THEN place ELSE "cut"

RestartEmpty ==
    /\ scope.crashes > 0
    /\ scope' = [scope EXCEPT !.crashes = @ - 1]
    /\ submit' = [s \in Search |-> Left(submit[s])]
    /\ worker' = [s \in Search |-> Left(worker[s])]
    /\ searches' = {} /\ finished' = {} /\ deleted' = {}
    /\ kept' = [s \in Search |-> 0] /\ disk' = disk
    /\ full' = [node |-> FALSE, users |-> {}]
    /\ get' = Nobody /\ del' = Nobody /\ swp' = Resting
    /\ UNCHANGED <<now, expiration, loaded, history>>

Restart ==
    /\ scope.crashes > 0
    /\ scope' = [scope EXCEPT !.crashes = @ - 1]
    /\ submit' = [s \in Search |-> Left(submit[s])]
    /\ worker' = [s \in Search |-> Left(worker[s])]
    /\ searches' = {} /\ finished' = {} /\ deleted' = {}
    /\ disk' = [s \in Search |-> IF disk[s] > now THEN disk[s] ELSE 0]
    /\ kept' = disk'
    /\ full' = [node |-> FALSE, users |-> {}]
    /\ get' = Nobody /\ del' = Nobody /\ swp' = Resting
    /\ UNCHANGED <<now, expiration, loaded, history>>

Tick ==
    /\ now < scope.time
    /\ now' = now + 1
    /\ UNCHANGED <<memory, kept, disk, full, get, del, swp, history, scope>>

Request(s) == Submit(s) \/ Refuse(s) \/ Register(s) \/ Answer(s)

Thread(s) ==
    \/ SearchEnds(s) \/ KeepReserve(s) \/ KeepNoRoom(s) \/ KeepWrite(s) \/ KeepWriteFails(s)
    \/ KeepCheck(s) \/ KeepForget(s) \/ KeepUnlink(s) \/ Finish(s)

Reader == GetSeen \/ GetKept \/ GetFile \/ GetAnswer
Deleter == DeleteMark \/ DeleteTake \/ DeleteForget \/ DeleteUnlink
Sweeper == Sweep \/ SweepKept \/ SweepFiles

Next ==
    \/ \E s \in Search : Request(s) \/ Thread(s) \/ Get(s) \/ Delete(s)
    \/ Reader \/ Deleter \/ Sweeper \/ Restart \/ Tick

Spec == Init /\ [][Next]_vars

(* The threads that are running go on: a request and a search are run by   *)
(* the scheduler of the node until they end.                               *)
FairSpec == Spec /\ \A s \in Search : WF_vars(Register(s) \/ Refuse(s) \/ Answer(s))
                                      /\ WF_vars(Thread(s))

----------------------------------------------------------------------------
(* A node runs at most node_concurrent_running_searches searches that      *)
(* nobody deleted and whose time has not run out, and one caller at most   *)
(* user_concurrent_running_searches of them (submit_async_search): submits *)
(* at once, each past its look at the room, do not both take the last      *)
(* place.                                                                  *)
RunsAtMost ==
    LET busy == {s \in searches : worker[s] = "searching"}
    IN /\ Cardinality(busy) <= scope.node_running
       /\ \A o \in Owner : Cardinality(busy \cap Of(o)) <= scope.user_running

(* Results kept add up to at most the allowances: two searches that finish *)
(* at once do not both fit into the last of the room.                      *)
RoomHeld ==
    /\ Bytes(KeptIds) <= scope.node_bytes
    /\ \A o \in Owner : Bytes(KeptIds \cap Of(o)) <= scope.user_bytes

(* A caller is refused for a result that did not fit only while a result   *)
(* is kept that can be let go of, or is just being let go of.              *)
Freeing(o) ==
    \/ \E s \in Of(o) : worker[s] = "unlinking"
    \/ del.pc = "unlinking" /\ OwnerOf[del.id] = o

FullMeansKept ==
    /\ full.node => KeptIds # {} \/ \E o \in Owner : Freeing(o)
    /\ \A o \in full.users : KeptIds \cap Of(o) # {} \/ Freeing(o)

(* A search that has finished and whose submit has answered is not held in *)
(* memory: the two agree on which of them lets it go.                      *)
LetGo == \A s \in Search : s \in finished /\ submit[s] = "answered" => s \notin searches

(* Every search leaves memory, one way or the other.                       *)
Leaves == \A s \in Search : s \in searches ~> s \notin searches

(* A read that begins while a result is written down finds it, in memory   *)
(* or where it was kept, unless it is deleted or runs out meanwhile.       *)
ReadFinds == lost = {}

(* Deleted while it was being written: the delete wins.  Once the delete   *)
(* is acknowledged and the thread of the search is over, nothing is kept.  *)
DeleteWins ==
    \A s \in acked : worker[s] = "done" => kept[s] = 0

(* A caller who read a search back was told how long it lives: once it has *)
(* finished and its submit has answered, a result that was kept is there   *)
(* until then.                                                             *)
ToldHolds ==
    \A s \in finished :
        /\ submit[s] = "answered" /\ promised[s] > 0
        /\ told[s] > now /\ s \notin deleted \cup acked
        => kept[s] > now
============================================================================
