------------------------------- MODULE Walk -------------------------------
(***************************************************************************)
(* A reindex, an update or a delete by query sent off as a task            *)
(* (src/src/api/doc/by_query.rs), in the register of tasks                 *)
(* (src/src/tasks.rs), with the requests of the tasks API that look at it, *)
(* cancel it, change its rate or forget its record (src/src/api/tasks.rs). *)
(*                                                                         *)
(* A walk of one slice runs under its own task; one of several runs each   *)
(* slice under a child task.  A step is what one thread does between two   *)
(* locks or awaits.  A document is a batch it is written in; a rate is     *)
(* "slow" (the next batch waits) or "fast" (no limit).  A wait ends by its *)
(* timer, by a new rate or by a cancel.  tokio::sync::Notify is a permit.  *)
(***************************************************************************)
EXTENDS Naturals, FiniteSets

CONSTANTS
    Walker,      \* the task of the walk
    Slice,       \* slices, and the tasks they run under
    Batches,     \* how many batches a slice has
    FirstRate,   \* requests_per_second of the walk
    Scopes       \* which slices a walk has, and the requests to come about it

ScopeType == [slices : SUBSET Slice, cancels : Nat, rates : Nat, reads : Nat, deletes : Nat]

ASSUME WalkAssumption ==
    /\ IsFiniteSet(Slice) /\ Walker \notin Slice
    /\ Batches \in Nat /\ FirstRate \in {"slow", "fast"}
    /\ Scopes \subseteq {s \in ScopeType : s.slices # {}}

VARIABLES
    driver,    \* where drive() is
    at,        \* at[i]: where run_slice() of slice i is
    left,      \* left[i]: the batches slice i has left
    wrote,     \* wrote[i]: whether slice i has written a batch
    running,   \* RUNNING
    cancelled, \* the tasks that are cancelled
    doomed,    \* the children register() found the parent of cancelled
    permit,    \* permit[t]: the permit of Task::wake
    rate,      \* rate[i]: Throttle::rate
    due,       \* due[i]: Throttle::due, "none", "pending" or "reached"
    nudge,     \* nudge[i]: the permit of Progress::wake
    stored,    \* whether .tasks has the record of the walk
    cancel,    \* the request that cancels the walk
    look,      \* the request that reads the task
    forget,    \* the request that deletes the record
    asked,     \* history: the rate the last rethrottle answered for
    reached,   \* history: the tasks whose cancel() has returned
    missed,    \* history: whether a read did not find the task
    forgotten, \* history: whether the record was deleted
    scope      \* the slices of the walk, and the requests still to come

tasks == <<running, cancelled, permit>>
throttle == <<rate, due, nudge>>
requests == <<cancel, look, forget>>
history == <<asked, reached, missed, forgotten>>
vars == <<driver, at, left, wrote, doomed, tasks, throttle, stored, requests, history, scope>>

Task == Slice \cup {Walker}

(* The task a slice runs under. *)
TaskOf(i) == IF Cardinality(scope.slices) = 1 THEN Walker ELSE i

(* The tasks running under the walk: children(). *)
Children == running \ {Walker}

TypeOK ==
    /\ driver \in {"launched", "reading", "splitting", "joining", "keeping", "leaving", "over"}
    /\ at \in [Slice -> {"none", "checked", "turn", "loop", "about", "asleep", "go", "writing",
                         "ended"}]
    /\ left \in [Slice -> 0 .. Batches] /\ wrote \in [Slice -> BOOLEAN]
    /\ running \subseteq Task /\ cancelled \subseteq Task /\ doomed \subseteq Slice
    /\ permit \in [Task -> BOOLEAN]
    /\ rate \in [Slice -> {"slow", "fast"}] /\ due \in [Slice -> {"none", "pending", "reached"}]
    /\ nudge \in [Slice -> BOOLEAN]
    /\ stored \in BOOLEAN
    /\ cancel \in [pc : {"idle", "marked", "listed"}, todo : SUBSET Slice]
    /\ look \in {"idle", "missed"} /\ forget \in {"idle", "looked"}
    /\ asked \in {"none", "slow", "fast"} /\ reached \subseteq Task
    /\ missed \in BOOLEAN /\ forgotten \in BOOLEAN
    /\ scope \in ScopeType

(* launch() has registered the task, spawned drive() and answered its id.  *)
Init ==
    /\ scope \in Scopes
    /\ driver = "launched"
    /\ at = [i \in Slice |-> IF i \in scope.slices THEN "none" ELSE "ended"]
    /\ left = [i \in Slice |-> Batches] /\ wrote = [i \in Slice |-> FALSE]
    /\ running = {Walker} /\ cancelled = {} /\ doomed = {}
    /\ permit = [t \in Task |-> FALSE]
    /\ rate = [i \in Slice |-> FirstRate] /\ due = [i \in Slice |-> "none"]
    /\ nudge = [i \in Slice |-> FALSE]
    /\ stored = FALSE
    /\ cancel = [pc |-> "idle", todo |-> {}] /\ look = "idle" /\ forget = "idle"
    /\ asked = "none" /\ reached = {} /\ missed = FALSE /\ forgotten = FALSE

----------------------------------------------------------------------------
(* drive(): the work is attached to the task, then the documents are read. *)
Attach ==
    /\ driver = "launched"
    /\ driver' = "reading"
    /\ UNCHANGED <<at, left, wrote, doomed, tasks, throttle, stored, requests, history, scope>>

ReadFails ==
    /\ driver = "reading"
    /\ driver' = "keeping"
    /\ UNCHANGED <<at, left, wrote, doomed, tasks, throttle, stored, requests, history, scope>>

Read ==
    /\ driver = "reading"
    /\ IF Cardinality(scope.slices) = 1
       THEN /\ driver' = "joining"
            /\ at' = [i \in Slice |-> IF i \in scope.slices THEN "turn" ELSE at[i]]
       ELSE driver' = "splitting" /\ UNCHANGED at
    /\ UNCHANGED <<left, wrote, doomed, tasks, throttle, stored, requests, history, scope>>

(* register() of a child looks at its parent first, and takes the lock of  *)
(* RUNNING again to put the child on the list.                             *)
RegisterLook(i) ==
    /\ driver = "splitting" /\ at[i] = "none"
    /\ \A j \in Slice : at[j] # "checked"
    /\ doomed' = IF Walker \in running \cap cancelled THEN doomed \cup {i} ELSE doomed
    /\ at' = [at EXCEPT ![i] = "checked"]
    /\ UNCHANGED <<driver, left, wrote, tasks, throttle, stored, requests, history, scope>>

Register(i) ==
    /\ driver = "splitting" /\ at[i] = "checked"
    /\ running' = running \cup {i}
    /\ cancelled' = IF i \in doomed THEN cancelled \cup {i} ELSE cancelled
    /\ permit' = [permit EXCEPT ![i] = i \in doomed]
    /\ at' = [at EXCEPT ![i] = "turn"]
    /\ driver' = IF \E j \in Slice \ {i} : at[j] = "none" THEN driver ELSE "joining"
    /\ UNCHANGED <<left, wrote, doomed, throttle, stored, requests, history, scope>>

(* The slices are over; what became of the walk is kept in .tasks, and     *)
(* then the task is taken off the list.                                    *)
Join ==
    /\ driver = "joining" /\ \A i \in Slice : at[i] = "ended"
    /\ driver' = "keeping"
    /\ UNCHANGED <<at, left, wrote, doomed, tasks, throttle, stored, requests, history, scope>>

KeepDropping ==
    /\ driver = "keeping"
    /\ running' = running \ {Walker}
    /\ driver' = "leaving"
    /\ UNCHANGED <<at, left, wrote, doomed, cancelled, permit, throttle, stored, requests,
                   history, scope>>

KeepResult ==
    /\ driver = "keeping"
    /\ stored' = TRUE
    /\ driver' = "leaving"
    /\ UNCHANGED <<at, left, wrote, doomed, tasks, throttle, requests, history, scope>>

Drop ==
    /\ driver = "leaving"
    /\ running' = running \ {Walker}
    /\ driver' = "over"
    /\ UNCHANGED <<at, left, wrote, doomed, cancelled, permit, throttle, stored, requests,
                   history, scope>>

----------------------------------------------------------------------------
(* wait_turn(): the wait is worked out and set under one hold of the lock. *)
Turn(i) ==
    /\ at[i] = "turn"
    /\ due' = [due EXCEPT ![i] = IF rate[i] = "slow" /\ wrote[i] THEN "pending" ELSE @]
    /\ at' = [at EXCEPT ![i] = "loop"]
    /\ UNCHANGED <<driver, left, wrote, doomed, tasks, rate, nudge, stored, requests, history,
                   scope>>

Stop(i) ==
    /\ at' = [at EXCEPT ![i] = "ended"]
    /\ running' = IF TaskOf(i) = Walker THEN running ELSE running \ {i}

(* wait_turn(): one turn of the loop.                                      *)
Loop(i) ==
    /\ at[i] = "loop"
    /\ \/ /\ due[i] = "none" \/ (due[i] = "reached" /\ TaskOf(i) \notin cancelled)
          /\ at' = [at EXCEPT ![i] = "go"]
          /\ UNCHANGED <<due, running>>
       \/ /\ due[i] # "none" /\ TaskOf(i) \in cancelled
          /\ due' = [due EXCEPT ![i] = "none"]
          /\ Stop(i)
       \/ /\ due[i] = "pending" /\ TaskOf(i) \notin cancelled
          /\ at' = [at EXCEPT ![i] = "about"]
          /\ UNCHANGED <<due, running>>
    /\ UNCHANGED <<driver, left, wrote, doomed, cancelled, permit, rate, nudge, stored,
                   requests, history, scope>>

(* The select over the timer and the two permits is entered.               *)
Sleep(i) ==
    /\ at[i] = "about"
    /\ at' = [at EXCEPT ![i] = "asleep"]
    /\ UNCHANGED <<driver, left, wrote, doomed, tasks, throttle, stored, requests, history,
                   scope>>

(* A permit is there, of a new rate or of a cancel, and is taken.          *)
Woken(i) ==
    /\ at[i] = "asleep"
    /\ \/ nudge[i] /\ nudge' = [nudge EXCEPT ![i] = FALSE] /\ UNCHANGED permit
       \/ permit[TaskOf(i)] /\ permit' = [permit EXCEPT ![TaskOf(i)] = FALSE]
                            /\ UNCHANGED nudge
    /\ at' = [at EXCEPT ![i] = "loop"]
    /\ UNCHANGED <<driver, left, wrote, doomed, running, cancelled, rate, due, stored,
                   requests, history, scope>>

(* The wait is over, or a minute of it.                                    *)
TimerFires(i) ==
    /\ at[i] = "asleep"
    /\ at' = [at EXCEPT ![i] = "loop"]
    /\ \/ due' = [due EXCEPT ![i] = IF @ = "pending" THEN "reached" ELSE @]
       \/ UNCHANGED due
    /\ UNCHANGED <<driver, left, wrote, doomed, tasks, rate, nudge, stored, requests, history,
                   scope>>

(* wait_turn() answers, and the next batch begins unless the task was      *)
(* cancelled or there is none left.                                        *)
Go(i) ==
    /\ at[i] = "go"
    /\ due' = [due EXCEPT ![i] = "none"]
    /\ IF TaskOf(i) \in cancelled \/ left[i] = 0 THEN Stop(i)
       ELSE at' = [at EXCEPT ![i] = "writing"] /\ UNCHANGED running
    /\ UNCHANGED <<driver, left, wrote, doomed, cancelled, permit, rate, nudge, stored,
                   requests, history, scope>>

(* A batch is written and copied; something in it may stop the slice.      *)
WriteBatch(i) ==
    /\ at[i] = "writing"
    /\ left' = [left EXCEPT ![i] = @ - 1]
    /\ wrote' = [wrote EXCEPT ![i] = TRUE]
    /\ \/ Stop(i)
       \/ at' = [at EXCEPT ![i] = "turn"] /\ UNCHANGED running
    /\ UNCHANGED <<driver, doomed, cancelled, permit, throttle, stored, requests, history,
                   scope>>

----------------------------------------------------------------------------
(* mark_cancelled(): whoever waits is woken, and a permit is left for who  *)
(* is about to.                                                            *)
MarkWaiting(T) ==
    /\ cancelled' = cancelled \cup T
    /\ at' = [i \in Slice |-> IF TaskOf(i) \in T /\ at[i] = "asleep" THEN "loop" ELSE at[i]]
    /\ UNCHANGED permit

Mark(T) ==
    /\ cancelled' = cancelled \cup T
    /\ at' = [i \in Slice |-> IF TaskOf(i) \in T /\ at[i] = "asleep" THEN "loop" ELSE at[i]]
    /\ permit' = [t \in Task |-> permit[t] \/ t \in T]

(* cancel(): the task is marked, then its children are listed, then each   *)
(* of them is marked.                                                      *)
Cancel ==
    /\ cancel.pc = "idle" /\ scope.cancels > 0 /\ Walker \in running
    /\ Mark({Walker})
    /\ cancel' = [cancel EXCEPT !.pc = "marked"]
    /\ scope' = [scope EXCEPT !.cancels = @ - 1]
    /\ UNCHANGED <<driver, left, wrote, doomed, running, throttle, stored, look, forget, history>>

CancelList ==
    /\ cancel.pc = "marked"
    /\ cancel' = [pc |-> "listed", todo |-> Children]
    /\ UNCHANGED <<driver, at, left, wrote, doomed, tasks, throttle, stored, look, forget,
                   history, scope>>

CancelChild ==
    /\ cancel.pc = "listed"
    /\ \E i \in cancel.todo :
        /\ Mark({i})
        /\ cancel' = [cancel EXCEPT !.todo = @ \ {i}]
    /\ UNCHANGED <<driver, left, wrote, doomed, running, throttle, stored, look, forget,
                   history, scope>>

CancelDone ==
    /\ cancel.pc = "listed" /\ cancel.todo = {}
    /\ cancel' = [cancel EXCEPT !.pc = "idle"]
    /\ reached' = reached \cup {Walker}
    /\ UNCHANGED <<driver, at, left, wrote, doomed, tasks, throttle, stored, look, forget,
                   asked, missed, forgotten, scope>>

(* A slice is cancelled by its own id. *)
CancelSlice(i) ==
    /\ scope.cancels > 0 /\ i \in running
    /\ Mark({i})
    /\ scope' = [scope EXCEPT !.cancels = @ - 1]
    /\ UNCHANGED <<driver, left, wrote, doomed, running, throttle, stored, requests, history>>

(* set_rate(): a faster rate ends the wait under way, a slower one is for  *)
(* the next batch.                                                         *)
SetRateQuietly(S, r) ==
    /\ rate' = [i \in Slice |-> IF i \in S THEN r ELSE rate[i]]
    /\ due' = [i \in Slice |-> IF i \in S /\ r = "fast" /\ rate[i] = "slow"
                                  /\ due[i] = "pending" THEN "reached" ELSE due[i]]
    /\ UNCHANGED nudge

SetRate(S, r) ==
    /\ rate' = [i \in Slice |-> IF i \in S THEN r ELSE rate[i]]
    /\ due' = [i \in Slice |-> IF i \in S /\ r = "fast" /\ rate[i] = "slow"
                                  /\ due[i] = "pending" THEN "reached" ELSE due[i]]
    /\ nudge' = [i \in Slice |-> nudge[i] \/ i \in S]

(* _rethrottle: a task with no work attached yet ignores it; a sliced walk *)
(* shares the rate between the slices still running.                       *)
Rethrottle(r) ==
    /\ scope.rates > 0 /\ Walker \in running
    /\ IF driver = "launched" THEN UNCHANGED throttle
       ELSE SetRate({i \in Slice : at[i] # "ended"}, r)
    /\ asked' = r
    /\ scope' = [scope EXCEPT !.rates = @ - 1]
    /\ UNCHANGED <<driver, at, left, wrote, doomed, tasks, stored, requests, reached, missed,
                   forgotten>>

----------------------------------------------------------------------------
(* get_task(): the running tasks first, then .tasks.                       *)
Look ==
    /\ look = "idle" /\ scope.reads > 0
    /\ look' = IF Walker \in running THEN "idle" ELSE "missed"
    /\ scope' = [scope EXCEPT !.reads = @ - 1]
    /\ UNCHANGED <<driver, at, left, wrote, doomed, tasks, throttle, stored, cancel, forget,
                   history>>

LookStored ==
    /\ look = "missed"
    /\ look' = "idle"
    /\ missed' = (missed \/ ~(stored \/ forgotten))
    /\ UNCHANGED <<driver, at, left, wrote, doomed, tasks, throttle, stored, cancel, forget,
                   asked, reached, forgotten, scope>>

(* delete_task(): a running task is a conflict; then the record goes,      *)
(* unless a child still runs.                                              *)
ForgetLook ==
    /\ forget = "idle" /\ scope.deletes > 0
    /\ Walker \notin running /\ stored
    /\ forget' = "looked"
    /\ scope' = [scope EXCEPT !.deletes = @ - 1]
    /\ UNCHANGED <<driver, at, left, wrote, doomed, tasks, throttle, stored, cancel, look,
                   history>>

Forget ==
    /\ forget = "looked"
    /\ forget' = "idle"
    /\ IF Children = {} THEN stored' = FALSE /\ forgotten' = TRUE
       ELSE UNCHANGED <<stored, forgotten>>
    /\ UNCHANGED <<driver, at, left, wrote, doomed, tasks, throttle, cancel, look, asked,
                   reached, missed, scope>>

----------------------------------------------------------------------------
Drive == Attach \/ ReadFails \/ Read \/ Join \/ KeepResult \/ Drop
         \/ \E i \in Slice : RegisterLook(i) \/ Register(i)

(* A slice goes on, without its timer. *)
Awake(i) == Turn(i) \/ Loop(i) \/ Sleep(i) \/ Woken(i) \/ Go(i) \/ WriteBatch(i)

Cancelling == Cancel \/ CancelList \/ CancelChild \/ CancelDone

Next ==
    \/ Drive \/ Cancelling
    \/ \E i \in Slice : Awake(i) \/ TimerFires(i) \/ CancelSlice(i)
    \/ \E r \in {"slow", "fast"} : Rethrottle(r)
    \/ Look \/ LookStored \/ ForgetLook \/ Forget

Spec == Init /\ [][Next]_vars

(* The runtime goes on polling what is ready; a timer is not counted on,   *)
(* for a rate may ask for a wait without end.                              *)
FairSpec == Spec /\ \A i \in Slice : WF_vars(Awake(i))

----------------------------------------------------------------------------
(* A cancel and a lifted limit are not slept through (Task::wake,          *)
(* Progress::wake): a slice that sleeps has neither behind it, or has a    *)
(* permit that wakes it.                                                   *)
NotSleptThrough ==
    \A i \in Slice : at[i] = "asleep" =>
        /\ TaskOf(i) \in cancelled => permit[TaskOf(i)] \/ nudge[i]
        /\ due[i] = "reached" => nudge[i] \/ permit[TaskOf(i)]

(* A slice whose task is cancelled ends, however long its wait was, and so *)
(* does one whose limit is lifted, unless it is slowed down again.         *)
Unblocked ==
    \A i \in Slice :
        /\ at[i] # "none" /\ TaskOf(i) \in running \cap cancelled ~> at[i] = "ended"
        /\ at[i] \notin {"none", "checked"} /\ rate[i] = "fast"
               ~> at[i] = "ended" \/ rate[i] = "slow"

(* No batch begins under a task that is cancelled, beyond the one whose    *)
(* turn had come: a slice found cancelled writes nothing more.             *)
CancelledWritesNoMore ==
    [][\A i \in Slice : TaskOf(i) \in cancelled /\ at[i] # "writing" => at'[i] # "writing"]_vars

(* A walk that was sent off is found by its id, running or in .tasks.      *)
TaskFound == ~missed

----------------------------------------------------------------------------
(* Two things the comments say and the code does not do: see the README.   *)

(* Cancel a task and everything it started: once cancel() has returned, no *)
(* child runs on that is not cancelled.                                    *)
CancelReaches == Walker \in reached => Children \subseteq cancelled

(* A new rate is for the walk that runs: once a rethrottle has answered,   *)
(* the slices still running have it.                                       *)
RateTaken ==
    asked # "none" /\ Walker \in running =>
        \A i \in Slice : at[i] # "ended" => rate[i] = asked
============================================================================
