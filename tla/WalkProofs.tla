---------------------------- MODULE WalkProofs ----------------------------
(***************************************************************************)
(* No walk, of any number of slices and batches, sleeps through a cancel   *)
(* or a lifted limit, writes on once it was found cancelled, or is lost to *)
(* a reader who has its id.                                                *)
(***************************************************************************)
EXTENDS Walk, FiniteSetTheorems, TLAPS

(* Leaves that need arithmetic cite SMT; the others are left to Zenon. *)
USE Zenon

(* The slices a walk does not have never start, and a batch is begun only  *)
(* where one is left.                                                      *)
Shape ==
    /\ TypeOK
    /\ scope.slices # {} /\ \A i \in Slice \ scope.slices : at[i] = "ended"
    /\ \A i \in Slice : at[i] = "writing" => left[i] > 0

(* From the moment a slice has looked, a cancel or a limit lifted leaves a *)
(* permit for it, whether it is asleep yet or not.                         *)
Heard ==
    \A i \in Slice : at[i] \in {"about", "asleep"} =>
        /\ TaskOf(i) \in cancelled => permit[TaskOf(i)]
        /\ due[i] = "reached" => nudge[i]

(* The record is there before the task is off the list.                    *)
Recorded ==
    /\ driver # "over" => Walker \in running
    /\ driver \in {"leaving", "over"} \/ look = "missed" => stored \/ forgotten
    /\ ~missed

-----------------------------------------------------------------------------
(* Shape holds before the walk starts, ...                                  *)
LEMMA InitShape == Init => Shape
<1> SUFFICES ASSUME Init PROVE Shape
  OBVIOUS
<1>1. scope \in ScopeType /\ scope.slices # {}
  BY WalkAssumption DEF Init
<1>2. TypeOK
  <2>1. /\ left \in [Slice -> 0 .. Batches]
        /\ rate \in [Slice -> {"slow", "fast"}] /\ due \in [Slice -> {"none", "pending", "reached"}]
    BY WalkAssumption, SMT DEF Init
  <2>2. /\ wrote \in [Slice -> BOOLEAN] /\ permit \in [Task -> BOOLEAN]
        /\ nudge \in [Slice -> BOOLEAN]
    BY DEF Init
  <2>3. /\ running \subseteq Task /\ cancelled \subseteq Task /\ doomed \subseteq Slice
        /\ reached \subseteq Task
        /\ cancel \in [pc : {"idle", "marked", "listed"}, todo : SUBSET Slice]
    BY DEF Init, Task
  <2>4. at \in [Slice -> {"none", "checked", "turn", "loop", "about", "asleep", "go", "writing",
                         "ended"}]
    BY DEF Init
  <2> QED
    BY <1>1, <2>1, <2>2, <2>3, <2>4 DEF Init, TypeOK
<1> QED
  BY <1>1, <1>2 DEF Shape, Init

(* What a request that is counted leaves of the scope.                     *)
LEMMA CountedScope ==
    ASSUME scope \in ScopeType
    PROVE  /\ scope.cancels > 0 => [scope EXCEPT !.cancels = @ - 1] \in ScopeType
           /\ scope.rates > 0 => [scope EXCEPT !.rates = @ - 1] \in ScopeType
           /\ scope.reads > 0 => [scope EXCEPT !.reads = @ - 1] \in ScopeType
           /\ scope.deletes > 0 => [scope EXCEPT !.deletes = @ - 1] \in ScopeType
           /\ [scope EXCEPT !.cancels = @ - 1].slices = scope.slices
           /\ [scope EXCEPT !.rates = @ - 1].slices = scope.slices
           /\ [scope EXCEPT !.reads = @ - 1].slices = scope.slices
           /\ [scope EXCEPT !.deletes = @ - 1].slices = scope.slices
  BY SMT DEF ScopeType

(* ... is kept by the request that runs the walk, ...                       *)
LEMMA DriveShape == Shape /\ Drive => Shape'
<1> SUFFICES ASSUME Shape, Drive PROVE Shape'
  OBVIOUS
<1>0. WalkAssumption
  BY WalkAssumption
<1> USE DEF Shape, TypeOK, tasks, throttle, requests, history
<1>1. CASE Attach \/ ReadFails \/ Join \/ KeepResult
  <2>1. CASE Attach
    BY <2>1, SMT DEF Attach
  <2>2. CASE ReadFails
    BY <2>2, SMT DEF ReadFails
  <2>3. CASE Join
    BY <2>3, SMT DEF Join
  <2>4. CASE KeepResult
    BY <2>4, SMT DEF KeepResult
  <2> QED
    BY <1>1, <2>1, <2>2, <2>3, <2>4
<1>2. CASE Read
  BY <1>2, SMT DEF Read
<1>3. CASE Drop
  BY <1>3 DEF Drop
<1>4. ASSUME NEW i \in Slice, RegisterLook(i) PROVE Shape'
  BY <1>4 DEF RegisterLook
<1>5. ASSUME NEW i \in Slice, Register(i) PROVE Shape'
  BY <1>0, <1>5, SMT DEF Register, Task
<1> QED
  BY <1>1, <1>2, <1>3, <1>4, <1>5 DEF Drive

(* ... by a slice that goes on, its timer included, ...                     *)
LEMMA AwakeShape ==
    ASSUME Shape, NEW i \in Slice, Awake(i) \/ TimerFires(i)
    PROVE  Shape'
<1>0. Batches \in Nat /\ Walker \notin Slice
  BY WalkAssumption
<1> USE DEF Shape, TypeOK, tasks, throttle, requests, history
<1>1. CASE Turn(i)
  BY <1>1, SMT DEF Turn
<1>2. CASE Loop(i)
  BY <1>2, SMT DEF Loop, Stop
<1>3. CASE Sleep(i)
  BY <1>3, SMT DEF Sleep
<1>4. CASE Woken(i)
  <2>1. TaskOf(i) \in Task
    BY DEF TaskOf, Task
  <2>2. permit' \in [Task -> BOOLEAN] /\ nudge' \in [Slice -> BOOLEAN]
    BY <1>4, <2>1 DEF Woken
  <2>3. at' \in [Slice -> {"none", "checked", "turn", "loop", "about", "asleep", "go", "writing",
                         "ended"}]
        /\ at' = [at EXCEPT ![i] = "loop"] /\ at[i] = "asleep"
    BY <1>4 DEF Woken
  <2>4. UNCHANGED <<driver, left, wrote, doomed, running, cancelled, rate, due, stored,
                    requests, history, scope>>
    BY <1>4 DEF Woken
  <2> QED
    BY <2>2, <2>3, <2>4, SMT
<1>5. CASE Go(i)
  BY <1>0, <1>5, SMT DEF Go, Stop
<1>6. CASE WriteBatch(i)
  BY <1>0, <1>6, SMT DEF WriteBatch, Stop
<1>7. CASE TimerFires(i)
  BY <1>7, SMT DEF TimerFires
<1> QED
  BY <1>1, <1>2, <1>3, <1>4, <1>5, <1>6, <1>7 DEF Awake

(* ... by the requests that cancel, rethrottle, look and forget, ...        *)
LEMMA RequestShape ==
    ASSUME Shape,
           \/ Cancelling \/ (\E i \in Slice : CancelSlice(i))
           \/ (\E r \in {"slow", "fast"} : Rethrottle(r))
           \/ Look \/ LookStored \/ ForgetLook \/ Forget
    PROVE  Shape'
<1> USE DEF Shape, TypeOK, tasks, throttle, requests, history
<1>1. CASE Cancel
  BY <1>1, CountedScope, SMT DEF Cancel, Mark
<1>2. CASE CancelList
  BY <1>2 DEF CancelList, Children, Task
<1>3. CASE CancelChild
  BY <1>3, SMT DEF CancelChild, Mark, Task
<1>4. CASE CancelDone
  BY <1>4 DEF CancelDone, Task
<1>5. ASSUME NEW i \in Slice, CancelSlice(i) PROVE Shape'
  BY <1>5, CountedScope, SMT DEF CancelSlice, Mark, Task
<1>6. ASSUME NEW r \in {"slow", "fast"}, Rethrottle(r) PROVE Shape'
  <2>1. /\ rate' \in [Slice -> {"slow", "fast"}]
        /\ due' \in [Slice -> {"none", "pending", "reached"}]
    BY <1>6, SMT DEF Rethrottle, SetRate
  <2>2. nudge' \in [Slice -> BOOLEAN]
    BY <1>6 DEF Rethrottle, SetRate
  <2>3. scope' \in ScopeType /\ scope'.slices = scope.slices
    BY <1>6, CountedScope DEF Rethrottle
  <2> QED
    BY <1>6, <2>1, <2>2, <2>3, SMT DEF Rethrottle
<1>7. CASE Look
  BY <1>7, CountedScope, SMT DEF Look
<1>8. CASE LookStored
  BY <1>8, CountedScope, SMT DEF LookStored
<1>9. CASE ForgetLook
  BY <1>9, CountedScope, SMT DEF ForgetLook
<1>10. CASE Forget
  <2>1. /\ stored' \in BOOLEAN /\ forgotten' \in BOOLEAN
        /\ forget' = "idle"
        /\ UNCHANGED <<driver, at, left, wrote, doomed, tasks, throttle, cancel, look, asked,
                       reached, missed, scope>>
    <3>1. CASE Children = {}
      BY <1>10, <3>1 DEF Forget
    <3>2. CASE Children # {}
      BY <1>10, <3>2 DEF Forget
    <3> QED BY <3>1, <3>2
  <2> QED
    BY <2>1
<1> QED
  BY <1>1, <1>2, <1>3, <1>4, <1>5, <1>6, <1>7, <1>8, <1>9, <1>10 DEF Cancelling

(* ... and so by every step.                                                *)
LEMMA StepShape == Shape /\ [Next]_vars => Shape'
<1> SUFFICES ASSUME Shape, [Next]_vars PROVE Shape'
  OBVIOUS
<1>1. CASE UNCHANGED vars
  BY <1>1, SMT DEF vars, tasks, throttle, requests, history, Shape, TypeOK
<1> QED
  BY <1>1, DriveShape, AwakeShape, RequestShape DEF Next

-----------------------------------------------------------------------------
(* A task wakes one slice.                                                 *)
LEMMA OneSlicePerTask ==
    ASSUME Shape, NEW i \in Slice, NEW j \in Slice, at[i] # "ended", at[j] # "ended",
           TaskOf(i) = TaskOf(j)
    PROVE  i = j
<1>1. i \in scope.slices /\ j \in scope.slices
  BY DEF Shape
<1>2. CASE Cardinality(scope.slices) = 1
  <2>1. IsFiniteSet(scope.slices)
    BY WalkAssumption, FS_Subset DEF Shape, TypeOK, ScopeType
  <2>2. PICK x : scope.slices = {x}
    BY <1>2, <2>1, FS_Singleton
  <2> QED
    BY <1>1, <2>2
<1>3. CASE Cardinality(scope.slices) # 1
  BY <1>3 DEF TaskOf
<1> QED
  BY <1>2, <1>3

(* The task of a slice is its own or the walk's, and stays.                *)
LEMMA SameTask ==
    ASSUME scope'.slices = scope.slices
    PROVE  \A i : TaskOf(i)' = TaskOf(i)
  BY DEF TaskOf

(* mark_cancelled() leaves a permit.                                       *)
LEMMA MarkHeard ==
    ASSUME Shape, Heard, NEW T \in SUBSET Task, Mark(T), scope'.slices = scope.slices,
           UNCHANGED <<due, nudge>>
    PROVE  Heard'
<1> SUFFICES ASSUME NEW i \in Slice, at'[i] \in {"about", "asleep"}
             PROVE  /\ TaskOf(i) \in cancelled' => permit'[TaskOf(i)]
                    /\ due'[i] = "reached" => nudge'[i]
  BY SameTask DEF Heard
<1>1. at[i] = at'[i] /\ TaskOf(i) \in Task
  BY DEF Mark, TaskOf, Task
<1>2. permit'[TaskOf(i)] = (permit[TaskOf(i)] \/ TaskOf(i) \in T)
  BY <1>1 DEF Mark
<1> QED
  BY <1>1, <1>2 DEF Heard, Mark

(* No step takes the permit of a slice that is about to sleep.              *)
LEMMA StepHeard == Shape /\ Heard /\ [Next]_vars => Heard'
<1> SUFFICES ASSUME Shape, Heard, [Next]_vars PROVE Heard'
  OBVIOUS
<1>0. scope'.slices = scope.slices
  BY CountedScope DEF Shape, TypeOK, Next, vars, Drive, Attach, ReadFails, Read, Join, KeepResult,
     Drop, RegisterLook, Register, Awake, Turn, Loop, Sleep, Woken, Go, WriteBatch, TimerFires,
     Cancelling, Cancel, CancelList, CancelChild, CancelDone, CancelSlice, Rethrottle, Look,
     LookStored, ForgetLook, Forget
<1>1. \A i : TaskOf(i)' = TaskOf(i)
  BY <1>0, SameTask
<1> DEFINE Fine(i) == /\ TaskOf(i) \in cancelled' => permit'[TaskOf(i)]
                      /\ due'[i] = "reached" => nudge'[i]
<1>2. SUFFICES ASSUME NEW j \in Slice, at'[j] \in {"about", "asleep"} PROVE Fine(j)
  BY <1>1 DEF Heard
<1>3. ASSUME at[j] \in {"about", "asleep"}, UNCHANGED <<cancelled, permit, due, nudge>>
      PROVE  Fine(j)
  BY <1>3 DEF Heard
<1>4. CASE UNCHANGED vars
  BY <1>2, <1>3, <1>4 DEF vars, tasks, throttle
<1>5. CASE Attach \/ ReadFails \/ Read \/ Join \/ KeepResult \/ Drop
  BY <1>2, <1>3, <1>5, SMT
  DEF Attach, ReadFails, Read, Join, KeepResult, Drop, tasks, throttle, Shape, TypeOK
<1>6. ASSUME NEW i \in Slice, RegisterLook(i) PROVE Fine(j)
  BY <1>2, <1>3, <1>6 DEF RegisterLook, tasks, throttle, Shape, TypeOK
<1>7. ASSUME NEW i \in Slice, Register(i) PROVE Fine(j)
  <2>1. i # j /\ at[j] = at'[j]
    BY <1>2, <1>7 DEF Register, Shape, TypeOK
  <2>2. TaskOf(j) # i /\ TaskOf(j) \in Task
    BY <2>1, WalkAssumption DEF TaskOf, Task
  <2>3. permit'[TaskOf(j)] = permit[TaskOf(j)] /\ due' = due /\ nudge' = nudge
    BY <1>7, <2>2 DEF Register, throttle, Shape, TypeOK
  <2>4. TaskOf(j) \in cancelled' => TaskOf(j) \in cancelled
    BY <1>7, <2>2 DEF Register
  <2> QED
    BY <1>2, <2>1, <2>3, <2>4 DEF Heard
<1>8. ASSUME NEW i \in Slice, Turn(i) \/ Go(i) \/ WriteBatch(i) \/ TimerFires(i)
      PROVE  Fine(j)
  <2>1. i # j /\ at[j] = at'[j]
    BY <1>2, <1>8, SMT DEF Turn, Go, WriteBatch, TimerFires, Stop, Shape, TypeOK
  <2>2. due'[j] = due[j] /\ UNCHANGED <<cancelled, permit, nudge>>
    BY <1>8, <2>1 DEF Turn, Go, WriteBatch, TimerFires, tasks, throttle, Shape, TypeOK
  <2> QED
    BY <1>2, <2>1, <2>2 DEF Heard
<1>9. ASSUME NEW i \in Slice, Loop(i) PROVE Fine(j)
  <2>1. UNCHANGED <<cancelled, permit, nudge>>
    BY <1>9 DEF Loop
  <2>2. CASE i # j
    <3>1. at[j] = at'[j] /\ due'[j] = due[j]
      BY <1>9, <2>2 DEF Loop, Stop, Shape, TypeOK
    <3> QED
      BY <1>2, <2>1, <3>1 DEF Heard
  <2>3. CASE i = j
    <3>1. due'[j] = "pending" /\ TaskOf(j) \notin cancelled
      BY <1>2, <1>9, <2>3 DEF Loop, Stop, Shape, TypeOK
    <3> QED
      BY <2>1, <3>1
  <2> QED
    BY <2>2, <2>3
<1>10. ASSUME NEW i \in Slice, Sleep(i) PROVE Fine(j)
  <2>1. at[j] \in {"about", "asleep"}
    BY <1>2, <1>10 DEF Sleep, Shape, TypeOK
  <2> QED
    BY <1>3, <1>10, <2>1 DEF Sleep, tasks, throttle
<1>11. ASSUME NEW i \in Slice, Woken(i) PROVE Fine(j)
  <2>1. i # j /\ at[j] = at'[j] /\ at[i] = "asleep"
    BY <1>2, <1>11 DEF Woken, Shape, TypeOK
  <2>2. TaskOf(i) # TaskOf(j)
    BY <1>2, <2>1, OneSlicePerTask
  <2>3. permit'[TaskOf(j)] = permit[TaskOf(j)] /\ nudge'[j] = nudge[j]
    <3>1. TaskOf(j) \in Task
      BY DEF TaskOf, Task
    <3> QED
      BY <1>11, <2>1, <2>2, <3>1 DEF Woken, Shape, TypeOK
  <2>4. UNCHANGED <<cancelled, due>>
    BY <1>11 DEF Woken
  <2> QED
    BY <1>2, <2>1, <2>3, <2>4 DEF Heard
<1>12. ASSUME NEW T \in SUBSET Task, Mark(T), UNCHANGED throttle PROVE Fine(j)
  <2>1. Heard'
    BY <1>0, <1>12, MarkHeard DEF throttle
  <2> QED
    BY <1>1, <1>2, <2>1 DEF Heard
<1>13. CASE Cancel
  BY <1>12, <1>13 DEF Cancel, Task
<1>14. CASE CancelChild
  BY <1>12, <1>14 DEF CancelChild, Task, Shape, TypeOK
<1>15. ASSUME NEW i \in Slice, CancelSlice(i) PROVE Fine(j)
  BY <1>12, <1>15 DEF CancelSlice, Task
<1>16. ASSUME NEW r \in {"slow", "fast"}, Rethrottle(r) PROVE Fine(j)
  <2>1. at[j] = at'[j] /\ UNCHANGED <<cancelled, permit>>
    BY <1>16 DEF Rethrottle, tasks
  <2>2. CASE UNCHANGED throttle
    BY <1>2, <1>3, <2>1, <2>2 DEF throttle
  <2>3. CASE ~UNCHANGED throttle
    <3> DEFINE S == {i \in Slice : at[i] # "ended"}
    <3>1. SetRate(S, r) /\ j \in S
      BY <1>2, <1>16, <2>1, <2>3 DEF Rethrottle
    <3>2. nudge'[j] = (nudge[j] \/ j \in S)
      BY <3>1 DEF SetRate
    <3> QED
      BY <1>2, <2>1, <3>1, <3>2 DEF Heard
  <2> QED
    BY <2>2, <2>3
<1>17. CASE CancelList \/ CancelDone \/ Look \/ LookStored \/ ForgetLook \/ Forget
  BY <1>2, <1>3, <1>17 DEF CancelList, CancelDone, Look, LookStored, ForgetLook, Forget, tasks,
                           throttle
<1> QED
  BY <1>4, <1>5, <1>6, <1>7, <1>8, <1>9, <1>10, <1>11, <1>13, <1>14, <1>15, <1>16,
     <1>17 DEF Next, Drive, Awake, Cancelling

(* A cancel and a lifted limit are not slept through, by any of any number *)
(* of slices, wherever in a wait they find it (wait_turn, mark_cancelled,  *)
(* set_rate).                                                              *)
THEOREM WalkWakes == Spec => []NotSleptThrough
<1>1. Init => Heard
  BY DEF Init, Heard
<1>2. Heard => NotSleptThrough
  BY DEF Heard, NotSleptThrough
<1> QED
  BY <1>1, <1>2, InitShape, StepShape, StepHeard, PTL DEF Spec

-----------------------------------------------------------------------------
(* No step takes the task off the list without a record of it.              *)
LEMMA StepRecorded == Shape /\ Recorded /\ [Next]_vars => Recorded'
<1> SUFFICES ASSUME Shape, Recorded, [Next]_vars PROVE Recorded'
  OBVIOUS
<1>0. Walker \notin Slice
  BY WalkAssumption
<1> USE DEF Recorded, tasks, requests, history
<1>1. ASSUME UNCHANGED <<look, missed, stored, forgotten>>,
             Walker \in running => Walker \in running',
             driver' = driver \/ (driver' \notin {"leaving", "over"} /\ driver # "over")
      PROVE  Recorded'
  BY <1>1
<1>2. CASE UNCHANGED vars
  BY <1>1, <1>2 DEF vars
<1>3. CASE Attach \/ ReadFails \/ Read \/ Join
  BY <1>3, SMT DEF Attach, ReadFails, Read, Join
<1>4. CASE KeepResult \/ Drop
  BY <1>4, SMT DEF KeepResult, Drop
<1>5. ASSUME NEW i \in Slice, RegisterLook(i) \/ Register(i) PROVE Recorded'
  BY <1>5, SMT DEF RegisterLook, Register
<1>6. ASSUME NEW i \in Slice, Awake(i) \/ TimerFires(i) \/ CancelSlice(i) PROVE Recorded'
  <2>1. Walker \in running => Walker \in running'
    BY <1>0, <1>6 DEF Awake, Turn, Loop, Sleep, Woken, Go, WriteBatch, Stop, TimerFires,
                      CancelSlice
  <2>2. UNCHANGED <<driver, look, missed, stored, forgotten>>
    BY <1>6 DEF Awake, Turn, Loop, Sleep, Woken, Go, WriteBatch, TimerFires, CancelSlice
  <2> QED
    BY <1>1, <2>1, <2>2
<1>7. CASE Cancelling
  BY <1>1, <1>7 DEF Cancelling, Cancel, CancelList, CancelChild, CancelDone
<1>8. ASSUME NEW r \in {"slow", "fast"}, Rethrottle(r) PROVE Recorded'
  BY <1>1, <1>8 DEF Rethrottle
<1>9. CASE Look
  <2>1. look' = "missed" => driver = "over"
    BY <1>9 DEF Look
  <2> QED
    BY <1>9, <2>1 DEF Look
<1>10. CASE LookStored
  BY <1>10 DEF LookStored
<1>11. CASE ForgetLook \/ Forget
  BY <1>11, SMT DEF ForgetLook, Forget
<1> QED
  BY <1>2, <1>3, <1>4, <1>5, <1>6, <1>7, <1>8, <1>9, <1>10, <1>11 DEF Next, Drive

(* A walk is found by its id from the answer that names it until its       *)
(* record is deleted, however the reader and the end of the walk           *)
(* interleave: it is kept before it is taken off the list, and the reader  *)
(* looks in the other order (drive, get_task).                             *)
THEOREM WalkFound == Spec => []TaskFound
<1>1. Init => Recorded
  BY DEF Init, Recorded
<1>2. Recorded => TaskFound
  BY DEF Recorded, TaskFound
<1> QED
  BY <1>1, <1>2, InitShape, StepShape, StepRecorded, PTL DEF Spec

(* A slice begins no batch once its task is cancelled (run_slice).         *)
THEOREM CancelledStops == Spec => CancelledWritesNoMore
<1>1. ASSUME Shape, [Next]_vars, NEW i \in Slice, TaskOf(i) \in cancelled, at[i] # "writing"
      PROVE  at'[i] # "writing"
  <2> USE DEF Shape, TypeOK
  <2>1. CASE UNCHANGED vars
    BY <1>1, <2>1 DEF vars
  <2>2. CASE Drive
    BY <1>1, <2>2, SMT
    DEF Drive, Attach, ReadFails, Read, Join, KeepResult, Drop, RegisterLook, Register
  <2>3. ASSUME NEW j \in Slice, Awake(j) \/ TimerFires(j) PROVE at'[i] # "writing"
    BY <1>1, <2>3, SMT DEF Awake, Turn, Loop, Sleep, Woken, Go, WriteBatch, Stop, TimerFires
  <2>4. CASE Cancelling \/ (\E j \in Slice : CancelSlice(j))
    BY <1>1, <2>4, SMT
    DEF Cancelling, Cancel, CancelList, CancelChild, CancelDone, CancelSlice, Mark
  <2>5. CASE \/ (\E r \in {"slow", "fast"} : Rethrottle(r))
             \/ Look \/ LookStored \/ ForgetLook \/ Forget
    BY <1>1, <2>5 DEF Rethrottle, Look, LookStored, ForgetLook, Forget
  <2> QED
    BY <1>1, <2>1, <2>2, <2>3, <2>4, <2>5 DEF Next
<1>2. Shape /\ [Next]_vars =>
        [\A i \in Slice : TaskOf(i) \in cancelled /\ at[i] # "writing" => at'[i] # "writing"]_vars
  BY <1>1
<1> QED
  BY <1>2, InitShape, StepShape, PTL DEF Spec, CancelledWritesNoMore
=============================================================================
