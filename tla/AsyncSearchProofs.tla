------------------------ MODULE AsyncSearchProofs ------------------------
(***************************************************************************)
(* AsyncSearch for any number of searches, callers and limits: a search    *)
(* that is over leaves memory, no more searches run than may, and, while   *)
(* the node does not restart, a delete that was acknowledged wins over     *)
(* keep() and the results kept fit into the room for them.                 *)
(***************************************************************************)
EXTENDS AsyncSearch, FiniteSetTheorems, TLAPS

(* Leaves that need arithmetic cite SMT; the others are left to Zenon. *)
USE Zenon

(* What the proofs need of the types of the variables. *)
Shape ==
    /\ submit \in [Search -> {"none", "admitted", "waiting", "answered", "refused", "cut"}]
    /\ worker \in [Search -> {"none", "searching", "reserving", "writing", "checking",
                              "forgetting", "unlinking", "finishing", "done", "cut"}]
    /\ DOMAIN kept = Search
    /\ del \in [pc : {"idle", "looked", "marked", "taken", "unlinking"},
                id : Search \cup {NoSearch}, has : BOOLEAN]
    /\ scope \in ScopeType

(* Before a submit took its place there is nothing of its search; before   *)
(* its thread took room, nothing is kept.                                  *)
NotYet ==
    \A s \in Search :
        /\ submit[s] \in {"none", "admitted", "refused"} =>
               worker[s] = "none" /\ kept[s] = 0 /\ s \notin acked /\ del.id # s
        /\ worker[s] \in {"none", "searching", "reserving"} => kept[s] = 0

(* A delete that found the search in memory has marked it before it goes   *)
(* on to what was kept, and one that found a kept result has taken it out  *)
(* of the count, for good: the thread is past taking room.                 *)
Deleting ==
    /\ del.pc \in {"marked", "taken", "unlinking"} /\ del.has => del.id \in deleted
    /\ del.pc = "unlinking" =>
           /\ del.id \in Search /\ kept[del.id] = 0
           /\ worker[del.id] \notin {"none", "searching", "reserving"}
    /\ del.pc # "idle" => del.id \in Search

(* A search whose delete was acknowledged is marked, and the thread will   *)
(* look at the mark; or its result was taken out after it had been counted.*)
Acknowledged ==
    \A s \in acked :
        /\ s \in Search
        /\ \/ s \in deleted
           \/ worker[s] \notin {"none", "searching", "reserving"} /\ kept[s] = 0
        /\ kept[s] # 0 => worker[s] \in {"writing", "checking", "forgetting"}

IInv == Shape /\ NotYet /\ Deleting /\ Acknowledged

----------------------------------------------------------------------------
(* The initial state satisfies the inductive invariant. *)
LEMMA InitIInv == Init => IInv
BY AsyncSearchAssumption, SMT DEF Init, IInv, Shape, NotYet, Deleting, Acknowledged, Nobody

(* A scope that has one request, error or restart less is a scope. *)
LEMMA ScopeLess ==
    ASSUME NEW s \in ScopeType
    PROVE  /\ s.reads > 0 => [s EXCEPT !.reads = @ - 1] \in ScopeType
           /\ s.deletes > 0 => [s EXCEPT !.deletes = @ - 1] \in ScopeType
           /\ s.errors > 0 => [s EXCEPT !.errors = @ - 1] \in ScopeType
           /\ s.crashes > 0 => [s EXCEPT !.crashes = @ - 1] \in ScopeType
           /\ [s EXCEPT !.reads = @ - 1].crashes = s.crashes
           /\ [s EXCEPT !.deletes = @ - 1].crashes = s.crashes
           /\ [s EXCEPT !.errors = @ - 1].crashes = s.crashes
<1>1. \A n \in Nat : n > 0 => n - 1 \in Nat
  BY SMT
<1>2. s.reads \in Nat /\ s.deletes \in Nat /\ s.errors \in Nat /\ s.crashes \in Nat
  BY DEF ScopeType
<1> QED BY <1>1, <1>2 DEF ScopeType

(* Every step of a submit preserves it. *)
LEMMA RequestIInv ==
    ASSUME NEW s \in Search, IInv, Request(s)
    PROVE  IInv'
<1> USE DEF IInv, Shape, NotYet, Deleting, Acknowledged, memory, history
<1>1. CASE Submit(s)
  BY <1>1 DEF Submit
<1>2. CASE Refuse(s)
  BY <1>2 DEF Refuse
<1>3. CASE Register(s)
  BY <1>3 DEF Register, Start
<1>4. CASE Answer(s)
  BY <1>4 DEF Answer
<1> QED BY <1>1, <1>2, <1>3, <1>4 DEF Request

(* Every step of the thread of a search preserves it. *)
LEMMA ThreadIInv ==
    ASSUME NEW s \in Search, IInv, Thread(s)
    PROVE  IInv'
<1> USE DEF IInv, Shape, NotYet, Deleting, Acknowledged, memory, history
<1>1. CASE SearchEnds(s)
  BY <1>1, SMT DEF SearchEnds, Goes
<1>2. CASE KeepReserve(s)
  BY <1>2 DEF KeepReserve, Goes
<1>3. CASE KeepNoRoom(s)
  BY <1>3 DEF KeepNoRoom, Goes
<1>4. CASE KeepWrite(s)
  BY <1>4 DEF KeepWrite, Goes
<1>5. CASE KeepWriteFails(s)
  BY <1>5, ScopeLess DEF KeepWriteFails, Goes
<1>6. CASE KeepCheck(s)
  BY <1>6, SMT DEF KeepCheck, Goes
<1>7. CASE KeepForget(s)
  BY <1>7 DEF KeepForget, Goes
<1>8. CASE KeepUnlink(s)
  BY <1>8 DEF KeepUnlink, Goes
<1>9. CASE Finish(s)
  BY <1>9 DEF Finish, Goes
<1> QED BY <1>1, <1>2, <1>3, <1>4, <1>5, <1>6, <1>7, <1>8, <1>9 DEF Thread

(* Every step of the reader preserves it: an expiry is only ever changed   *)
(* where one is kept.                                                      *)
LEMMA ReaderIInv ==
    ASSUME IInv, Reader
    PROVE  IInv'
<1> USE DEF IInv, Shape, NotYet, Deleting, Acknowledged, memory, history
<1>1. CASE GetSeen
  BY <1>1 DEF GetSeen
<1>2. CASE GetKept
  BY <1>2 DEF GetKept, NotFound
<1>3. CASE GetFile
  BY <1>3, SMT DEF GetFile, NotFound
<1>4. CASE GetAnswer
  BY <1>4, SMT DEF GetAnswer, Extend
<1> QED BY <1>1, <1>2, <1>3, <1>4 DEF Reader

(* Every step of the deleter preserves it. *)
LEMMA DeleterIInv ==
    ASSUME IInv, Deleter
    PROVE  IInv'
<1> USE DEF IInv, Shape, NotYet, Deleting, Acknowledged, memory, history
<1>1. CASE DeleteMark
  BY <1>1, AsyncSearchAssumption DEF DeleteMark
<1>2. CASE DeleteTake
  BY <1>2, AsyncSearchAssumption DEF DeleteTake
<1>3. CASE DeleteForget
  <2> del.id \in Search /\ DOMAIN kept' = Search /\ kept'[del.id] = 0
    BY <1>3 DEF DeleteForget
  <2>1. CASE kept[del.id] > 0
    <3>1. del' = [del EXCEPT !.pc = "unlinking"] /\ acked' = acked
      BY <1>3, <2>1 DEF DeleteForget
    <3>2. kept[del.id] # 0
      BY <2>1, SMT
    <3> QED BY <1>3, <3>1, <3>2 DEF DeleteForget
  <2>2. CASE ~(kept[del.id] > 0)
    <3>1. del' = Nobody /\ (del.has => del.id \in deleted)
      BY <1>3, <2>2 DEF DeleteForget
    <3>2. \/ acked' = acked
          \/ acked' = acked \cup {del.id} /\ del.id \in deleted
      BY <1>3, <2>2, <3>1 DEF DeleteForget
    <3>3. del.id \notin {s \in Search : submit[s] \in {"none", "admitted", "refused"}}
      OBVIOUS
    <3> QED BY <1>3, <3>1, <3>2, <3>3, AsyncSearchAssumption, SMT DEF DeleteForget, Nobody
  <2> QED BY <2>1, <2>2
<1>4. CASE DeleteUnlink
  BY <1>4, AsyncSearchAssumption DEF DeleteUnlink, Nobody
<1> QED BY <1>1, <1>2, <1>3, <1>4 DEF Deleter

(* Every step of the sweep preserves it: it only takes entries away. *)
LEMMA SweeperIInv ==
    ASSUME IInv, Sweeper
    PROVE  IInv'
<1> USE DEF IInv, Shape, NotYet, Deleting, Acknowledged, memory, history
<1>1. CASE Sweep
  BY <1>1 DEF Sweep
<1>2. CASE SweepKept
  BY <1>2 DEF SweepKept
<1>3. CASE SweepFiles
  BY <1>3 DEF SweepFiles
<1> QED BY <1>1, <1>2, <1>3 DEF Sweeper

(* A read and a delete that begin, and the clock, preserve it. *)
LEMMA BeginIInv ==
    ASSUME IInv, Tick \/ \E s \in Search : Get(s) \/ Delete(s)
    PROVE  IInv'
<1> USE DEF IInv, Shape, NotYet, Deleting, Acknowledged, memory, history
<1>1. CASE Tick
  BY <1>1 DEF Tick
<1>2. ASSUME NEW s \in Search, Get(s) PROVE IInv'
  BY <1>2, ScopeLess DEF Get
<1>3. ASSUME NEW s \in Search, Delete(s) PROVE IInv'
  <2>1. \/ del' = [pc |-> "looked", id |-> s, has |-> TRUE]
        \/ del' = [pc |-> "taken", id |-> s, has |-> FALSE]
    BY <1>3 DEF Delete, Visible
  <2>2. Shape'
    <3>1. del' \in [pc : {"idle", "looked", "marked", "taken", "unlinking"},
                    id : Search \cup {NoSearch}, has : BOOLEAN]
      <4>1. CASE del' = [pc |-> "looked", id |-> s, has |-> TRUE]
        BY <4>1
      <4>2. CASE del' = [pc |-> "taken", id |-> s, has |-> FALSE]
        BY <4>2
      <4> QED BY <2>1, <4>1, <4>2
    <3>2. scope' \in ScopeType
      BY <1>3, ScopeLess DEF Delete
    <3> QED BY <1>3, <3>1, <3>2 DEF Delete
  <2>3. NotYet'
    BY <1>3, <2>1 DEF Delete
  <2>4. Deleting'
    BY <1>3, <2>1 DEF Delete
  <2>5. Acknowledged'
    BY <1>3 DEF Delete
  <2> QED BY <2>2, <2>3, <2>4, <2>5
<1> QED BY <1>1, <1>2, <1>3

(* "Deleted while it was being written: the delete wins" (keep): while the *)
(* node does not restart, a result whose delete was acknowledged is not    *)
(* kept once the thread of its search is over.                             *)
THEOREM DeleteWinsInMemory == (\A s \in Scopes : s.crashes = 0) => (Spec => []DeleteWins)
<1> SUFFICES ASSUME \A s \in Scopes : s.crashes = 0 PROVE Spec => []DeleteWins
  OBVIOUS
<1> DEFINE Inv == IInv /\ scope.crashes = 0
<1>1. Init => Inv
  BY InitIInv DEF Init
<1>2. Inv /\ [Next]_vars => Inv'
  <2> SUFFICES ASSUME Inv, [Next]_vars PROVE Inv'
    OBVIOUS
  <2>1. CASE UNCHANGED vars
    BY <2>1 DEF vars, IInv, Shape, NotYet, Deleting, Acknowledged, memory, history
  <2>2. ASSUME NEW s \in Search, Request(s) PROVE Inv'
    BY <2>2, RequestIInv DEF Request, Submit, Refuse, Register, Start, Answer
  <2>3. ASSUME NEW s \in Search, Thread(s) PROVE Inv'
    BY <2>3, ThreadIInv, ScopeLess DEF IInv, Shape, Thread, SearchEnds, KeepReserve, KeepNoRoom,
       KeepWrite, KeepWriteFails, KeepCheck, KeepForget, KeepUnlink, Finish
  <2>4. ASSUME NEW s \in Search, Get(s) \/ Delete(s) PROVE Inv'
    BY <2>4, BeginIInv, ScopeLess DEF IInv, Shape, Get, Delete
  <2>5. CASE Reader
    BY <2>5, ReaderIInv DEF Reader, GetSeen, GetKept, GetFile, GetAnswer
  <2>6. CASE Deleter
    BY <2>6, DeleterIInv DEF Deleter, DeleteMark, DeleteTake, DeleteForget, DeleteUnlink
  <2>7. CASE Sweeper
    BY <2>7, SweeperIInv DEF Sweeper, Sweep, SweepKept, SweepFiles
  <2>8. CASE Tick
    BY <2>8, BeginIInv DEF Tick
  <2>9. ~Restart
    BY SMT DEF Restart
  <2> QED BY <2>1, <2>2, <2>3, <2>4, <2>5, <2>6, <2>7, <2>8, <2>9 DEF Next
<1>3. Inv => DeleteWins
  BY DEF IInv, Acknowledged, DeleteWins
<1> QED BY <1>1, <1>2, <1>3, PTL DEF Spec

----------------------------------------------------------------------------
(* "The search finishing and the submit giving up on waiting agree on      *)
(* which of them lets the search go" (Submitted::state): one that finished *)
(* and was answered is not held in memory, restarts included.              *)
THEOREM SearchesLetGo == Spec => []LetGo
<1> DEFINE Inv == DOMAIN submit = Search /\ LetGo
<1>1. Init => Inv
  BY DEF Init, LetGo
<1>2. Inv /\ [Next]_vars => Inv'
  <2> SUFFICES ASSUME Inv, [Next]_vars PROVE Inv'
    OBVIOUS
  <2> USE DEF LetGo, memory
  <2>1. CASE UNCHANGED vars
    BY <2>1 DEF vars
  <2>2. ASSUME NEW s \in Search, Request(s) PROVE Inv'
    BY <2>2 DEF Request, Submit, Refuse, Register, Start, Answer
  <2>3. ASSUME NEW s \in Search, Thread(s) PROVE Inv'
    BY <2>3 DEF Thread, SearchEnds, KeepReserve, KeepNoRoom, KeepWrite, KeepWriteFails,
                KeepCheck, KeepForget, KeepUnlink, Finish
  <2>4. ASSUME NEW s \in Search, Get(s) \/ Delete(s) PROVE Inv'
    BY <2>4 DEF Get, Delete
  <2>5. CASE Reader
    BY <2>5 DEF Reader, GetSeen, GetKept, GetFile, GetAnswer
  <2>6. CASE Deleter
    BY <2>6 DEF Deleter, DeleteMark, DeleteTake, DeleteForget, DeleteUnlink
  <2>7. CASE Sweeper
    BY <2>7 DEF Sweeper, Sweep, SweepKept, SweepFiles
  <2>8. CASE Restart
    BY <2>8 DEF Restart
  <2>9. CASE Tick
    BY <2>9 DEF Tick
  <2> QED BY <2>1, <2>2, <2>3, <2>4, <2>5, <2>6, <2>7, <2>8, <2>9 DEF Next
<1>3. Inv => LetGo
  OBVIOUS
<1> QED BY <1>1, <1>2, <1>3, PTL DEF Spec
----------------------------------------------------------------------------
(* The searches RunsAtMost counts. *)
Busy == {s \in searches : worker[s] = "searching"}

(* A search whose thread is searching has not finished, and one whose      *)
(* submit has not taken its place has no thread: what is counted under the *)
(* lock of SEARCHES includes every busy search.                            *)
Places ==
    /\ DOMAIN submit = Search /\ DOMAIN worker = Search
    /\ searches \subseteq Search
    /\ \A s \in Search :
        /\ worker[s] = "searching" => s \notin finished
        /\ submit[s] \in {"none", "admitted"} => worker[s] = "none" /\ s \notin finished
    /\ scope \in ScopeType

(* The limits are numbers, and nothing that is counted changes them. *)
LEMMA LimitsStay ==
    ASSUME NEW s \in ScopeType
    PROVE  /\ s.node_running \in Nat /\ s.user_running \in Nat
           /\ \A t \in {[s EXCEPT !.reads = @ - 1], [s EXCEPT !.deletes = @ - 1],
                        [s EXCEPT !.errors = @ - 1], [s EXCEPT !.crashes = @ - 1]} :
                 t.node_running = s.node_running /\ t.user_running = s.user_running
BY DEF ScopeType

(* Subsets of the searches are counted by numbers. *)
LEMMA SearchSets ==
    ASSUME NEW S, S \subseteq Search
    PROVE  /\ IsFiniteSet(S) /\ Cardinality(S) \in Nat
           /\ \A R : R \subseteq S => Cardinality(R) \in Nat /\ Cardinality(R) <= Cardinality(S)
           /\ \A s : /\ Cardinality(S \cup {s}) \in Nat
                     /\ Cardinality(S \cup {s}) <= Cardinality(S) + 1
<1>1. IsFiniteSet(S)
  BY AsyncSearchAssumption, FS_Subset
<1>2. Cardinality(S) \in Nat
  BY <1>1, FS_CardinalityType
<1>3. ASSUME NEW R, R \subseteq S
      PROVE  Cardinality(R) \in Nat /\ Cardinality(R) <= Cardinality(S)
  BY <1>1, <1>3, FS_Subset, FS_CardinalityType
<1>4. ASSUME NEW s
      PROVE  Cardinality(S \cup {s}) \in Nat /\ Cardinality(S \cup {s}) <= Cardinality(S) + 1
  BY <1>1, <1>2, FS_AddElement, SMT
<1> QED BY <1>1, <1>2, <1>3, <1>4

(* A step that makes no search busy keeps the limits. *)
LEMMA NoMoreBusy ==
    ASSUME Places, RunsAtMost, Busy' \subseteq Busy,
           scope'.node_running = scope.node_running,
           scope'.user_running = scope.user_running
    PROVE  RunsAtMost'
<1>1. Busy \subseteq Search
  BY DEF Busy, Places
<1>2. Cardinality(Busy) <= scope.node_running
  BY DEF RunsAtMost, Busy
<1>3. \A o \in Owner : Cardinality(Busy \cap Of(o)) <= scope.user_running
  BY DEF RunsAtMost, Busy
<1>4. Cardinality(Busy') <= scope'.node_running
  BY <1>1, <1>2, SearchSets, LimitsStay, SMT DEF Places
<1>5. ASSUME NEW o \in Owner PROVE Cardinality(Busy' \cap Of(o)) <= scope'.user_running
  <2>1. Busy' \cap Of(o) \subseteq Busy \cap Of(o) /\ Busy \cap Of(o) \subseteq Search
    BY <1>1
  <2>2. /\ Cardinality(Busy' \cap Of(o)) \in Nat /\ Cardinality(Busy \cap Of(o)) \in Nat
        /\ Cardinality(Busy' \cap Of(o)) <= Cardinality(Busy \cap Of(o))
    BY <2>1, SearchSets
  <2>3. Cardinality(Busy \cap Of(o)) <= scope.user_running
    BY <1>3
  <2> QED BY <2>2, <2>3, LimitsStay, SMT DEF Places
<1>6. Busy' = {s \in searches' : worker'[s] = "searching"} /\ \A o : Of(o)' = Of(o)
  BY DEF Busy, Of
<1> QED BY <1>4, <1>5, <1>6 DEF RunsAtMost

(* A submit that takes a place had counted every busy search. *)
LEMMA RegisterCounts ==
    ASSUME Places, RunsAtMost, NEW s \in Search, Register(s)
    PROVE  RunsAtMost'
<1> DEFINE mine == Of(OwnerOf[s])
<1>1. Busy \subseteq Running /\ Running \subseteq Search /\ Busy \subseteq Search
  BY DEF Busy, Running, Places
<1>2. /\ Busy' = {t \in searches' : worker'[t] = "searching"} /\ \A o : Of(o)' = Of(o)
      /\ scope' = scope
  BY DEF Busy, Of, Register, Start
<1>3. Busy' = Busy \cup {s}
  BY DEF Busy, Register, Start, Places
<1>4. /\ Cardinality(Running) < scope.node_running
      /\ Cardinality(Running \cap mine) < scope.user_running
  <2>1. /\ ~(Cardinality(Running) >= scope.node_running)
        /\ ~(Cardinality(Running \cap mine) >= scope.user_running)
    BY DEF Register, TooMany
  <2>2. Cardinality(Running) \in Nat /\ Cardinality(Running \cap mine) \in Nat
    BY <1>1, SearchSets
  <2> QED BY <2>1, <2>2, LimitsStay, SMT DEF Places
<1>5. Cardinality(Busy') <= scope'.node_running
  <2>1. /\ Cardinality(Busy \cup {s}) \in Nat /\ Cardinality(Busy) \in Nat
        /\ Cardinality(Busy \cup {s}) <= Cardinality(Busy) + 1
    BY <1>1, SearchSets
  <2>2. Cardinality(Running) \in Nat /\ Cardinality(Busy) <= Cardinality(Running)
    BY <1>1, SearchSets
  <2>3. scope.node_running \in Nat
    BY LimitsStay DEF Places
  <2>4. Cardinality(Busy') = Cardinality(Busy \cup {s})
    BY <1>3
  <2> QED BY <1>2, <1>4, <2>1, <2>2, <2>3, <2>4, SMT
<1>6. ASSUME NEW o \in Owner PROVE Cardinality(Busy' \cap Of(o)) <= scope'.user_running
  <2>1. CASE o = OwnerOf[s]
    <3>1. Busy' \cap mine = (Busy \cap mine) \cup {s}
      BY <1>3 DEF Of
    <3>2. /\ Cardinality((Busy \cap mine) \cup {s}) \in Nat /\ Cardinality(Busy \cap mine) \in Nat
          /\ Cardinality((Busy \cap mine) \cup {s}) <= Cardinality(Busy \cap mine) + 1
      <4>1. Busy \cap mine \subseteq Search
        BY <1>1
      <4> QED BY <4>1, SearchSets
    <3>3. /\ Cardinality(Running \cap mine) \in Nat
          /\ Cardinality(Busy \cap mine) <= Cardinality(Running \cap mine)
      <4>1. Running \cap mine \subseteq Search /\ Busy \cap mine \subseteq Running \cap mine
        BY <1>1
      <4> QED BY <4>1, SearchSets
    <3>4. Cardinality(Busy' \cap Of(o)) = Cardinality((Busy \cap mine) \cup {s})
      BY <2>1, <3>1
    <3>5. scope.user_running \in Nat
      BY LimitsStay DEF Places
    <3> HIDE DEF mine
    <3> QED BY <1>2, <1>4, <3>2, <3>3, <3>4, <3>5, SMT
  <2>2. CASE o # OwnerOf[s]
    <3>1. Busy' \cap Of(o) = Busy \cap Of(o)
      BY <1>3, <2>2 DEF Of
    <3>2. Cardinality(Busy \cap Of(o)) <= scope.user_running
      BY DEF RunsAtMost, Busy
    <3> QED BY <1>2, <3>1, <3>2
  <2> QED BY <2>1, <2>2
<1> QED BY <1>2, <1>5, <1>6 DEF RunsAtMost

(* A node runs at most as many searches at once as it is allowed to, and   *)
(* so does a caller, whatever submits, deletes, expiries and restarts come *)
(* together: looking and taking the place are one step under the lock      *)
(* (submit_async_search).                                                  *)
THEOREM SearchesBounded == Spec => []RunsAtMost
<1> DEFINE Inv == Places /\ RunsAtMost
<1>1. Init => Inv
  <2> SUFFICES ASSUME Init PROVE Inv
    OBVIOUS
  <2>1. scope \in ScopeType
    BY AsyncSearchAssumption DEF Init
  <2>2. Places
    BY <2>1 DEF Init, Places
  <2>3. Cardinality({}) = 0
    BY FS_EmptySet
  <2>4. {s \in searches : worker[s] = "searching"} = {} /\ \A o \in Owner : {} \cap Of(o) = {}
    BY DEF Init
  <2> QED BY <2>2, <2>3, <2>4, LimitsStay, SMT DEF RunsAtMost, Places
<1>2. Inv /\ [Next]_vars => Inv'
  <2> SUFFICES ASSUME Inv, [Next]_vars PROVE Inv'
    OBVIOUS
  <2> USE DEF Places, Busy, memory
  <2>0. ASSUME NEW s \in Search, Register(s) PROVE Inv'
    <3>1. Places'
      BY <2>0 DEF Register, Start
    <3> QED BY <2>0, <3>1, RegisterCounts
  <2>1. CASE UNCHANGED vars
    BY <2>1, NoMoreBusy DEF vars
  <2>2. ASSUME NEW s \in Search, Submit(s) \/ Refuse(s) \/ Answer(s) PROVE Inv'
    BY <2>2, NoMoreBusy DEF Submit, Refuse, Answer
  <2>3. ASSUME NEW s \in Search, Thread(s) PROVE Inv'
    <3>1. CASE SearchEnds(s) \/ KeepCheck(s) \/ KeepForget(s)
      BY <2>3, <3>1, NoMoreBusy DEF SearchEnds, KeepCheck, KeepForget, Goes
    <3>2. CASE KeepReserve(s) \/ KeepNoRoom(s) \/ KeepWrite(s) \/ KeepUnlink(s)
      BY <2>3, <3>2, NoMoreBusy DEF KeepReserve, KeepNoRoom, KeepWrite, KeepUnlink, Goes
    <3>3. CASE KeepWriteFails(s)
      <4>1. /\ scope' \in ScopeType
            /\ scope'.node_running = scope.node_running
            /\ scope'.user_running = scope.user_running
        BY <3>3, ScopeLess, LimitsStay DEF KeepWriteFails
      <4>2. Places' /\ Busy' \subseteq Busy
        BY <3>3, <4>1 DEF KeepWriteFails, Goes
      <4> QED BY <4>1, <4>2, NoMoreBusy
    <3>4. CASE Finish(s)
      BY <2>3, <3>4, NoMoreBusy DEF Finish, Goes
    <3> QED BY <2>3, <3>1, <3>2, <3>3, <3>4 DEF Thread
  <2>4. ASSUME NEW s \in Search, Get(s) \/ Delete(s) PROVE Inv'
    <3>1. /\ scope' \in ScopeType
          /\ scope'.node_running = scope.node_running
          /\ scope'.user_running = scope.user_running
      <4>1. CASE Get(s)
        BY <4>1, ScopeLess, LimitsStay DEF Get
      <4>2. CASE Delete(s)
        BY <4>2, ScopeLess, LimitsStay DEF Delete
      <4> QED BY <2>4, <4>1, <4>2
    <3>2. Places' /\ Busy' = Busy
      BY <2>4, <3>1 DEF Get, Delete
    <3> QED BY <3>1, <3>2, NoMoreBusy
  <2>5. CASE Reader
    BY <2>5, NoMoreBusy DEF Reader, GetSeen, GetKept, GetFile, GetAnswer
  <2>6. CASE Deleter
    BY <2>6, NoMoreBusy DEF Deleter, DeleteMark, DeleteTake, DeleteForget, DeleteUnlink
  <2>7. CASE Sweeper
    BY <2>7, NoMoreBusy DEF Sweeper, Sweep, SweepKept, SweepFiles
  <2>8. CASE Restart
    <3>1. /\ scope' \in ScopeType
          /\ scope'.node_running = scope.node_running
          /\ scope'.user_running = scope.user_running
      BY <2>8, ScopeLess, LimitsStay DEF Restart
    <3>2. Places' /\ Busy' \subseteq Busy
      BY <2>8, <3>1 DEF Restart, Left
    <3> QED BY <3>1, <3>2, NoMoreBusy
  <2>9. CASE Tick
    BY <2>9, NoMoreBusy DEF Tick
  <2> QED BY <2>0, <2>1, <2>2, <2>3, <2>4, <2>5, <2>6, <2>7, <2>8, <2>9 DEF Next, Request
<1> QED BY <1>1, <1>2, PTL DEF Spec
----------------------------------------------------------------------------
(* The results kept, as long as the node does not restart: load_kept counts *)
(* files that were not counted any more, or not again, when it stopped.     *)
NoRestart == \A s \in Scopes : s.crashes = 0

Room == DOMAIN kept = Search /\ scope \in ScopeType /\ scope.crashes = 0 /\ RoomHeld

(* The allowances are numbers, and nothing that is kept changes them. *)
LEMMA AllowancesStay ==
    ASSUME NEW s \in ScopeType
    PROVE  /\ s.node_bytes \in Nat /\ s.user_bytes \in Nat
           /\ \A t \in {[s EXCEPT !.reads = @ - 1], [s EXCEPT !.deletes = @ - 1],
                        [s EXCEPT !.errors = @ - 1]} :
                 /\ t.node_bytes = s.node_bytes /\ t.user_bytes = s.user_bytes
                 /\ t.crashes = s.crashes
BY DEF ScopeType

(* Finitely many hold finitely many.                                       *)
LEMMA UnitsFinite ==
    ASSUME NEW h, NEW S, IsFiniteSet(S), \A x \in S : h[x] \in Nat
    PROVE  IsFiniteSet(Units(h, S))
<1> DEFINE F == [x \in S |-> {x} \X (1 .. h[x])]
           R == {{x} \X (1 .. h[x]) : x \in S}
<1>1. F \in Surjection(S, R)
  BY DEF Surjection
<1>2. IsFiniteSet(R)
  BY <1>1, FS_Surjection
<1>3. ASSUME NEW x \in S PROVE IsFiniteSet({x} \X (1 .. h[x]))
  <2>1. 1 \in Int /\ h[x] \in Int
    BY SMT
  <2>2. IsFiniteSet({x}) /\ IsFiniteSet(1 .. h[x])
    BY <2>1, FS_Singleton, FS_Interval
  <2> QED
    BY <2>2, FS_Product
<1>4. \A T \in R : IsFiniteSet(T)
  BY <1>3
<1> QED
  BY <1>2, <1>4, FS_UNION DEF Units

(* Results take up a number of bytes, fewer of them no more, and one more   *)
(* its size more at the most.                                               *)
LEMMA BytesOf ==
    ASSUME NEW S, S \subseteq Search
    PROVE  /\ Bytes(S) \in Nat
           /\ \A R : R \subseteq S => Bytes(R) \in Nat /\ Bytes(R) <= Bytes(S)
           /\ \A s \in Search : /\ Bytes(S \cup {s}) \in Nat /\ Size[s] \in Nat
                                /\ Bytes(S \cup {s}) <= Bytes(S) + Size[s]
<1>1. \A R : Bytes(R) = Cardinality(Units(Size, R))
  BY DEF Bytes, Total
<1>2. ASSUME NEW R, R \subseteq Search
      PROVE  IsFiniteSet(Units(Size, R)) /\ Bytes(R) \in Nat
  <2>1. IsFiniteSet(R) /\ \A s \in R : Size[s] \in Nat
    BY <1>2, AsyncSearchAssumption, FS_Subset
  <2>2. IsFiniteSet(Units(Size, R))
    BY <2>1, UnitsFinite
  <2> QED
    BY <1>1, <2>2, FS_CardinalityType
<1>3. ASSUME NEW R, R \subseteq S PROVE Bytes(R) \in Nat /\ Bytes(R) <= Bytes(S)
  <2>1. R \subseteq Search
    BY <1>3
  <2>2. Units(Size, R) \in SUBSET Units(Size, S)
    BY <1>3 DEF Units
  <2> QED
    BY <1>1, <1>2, <2>1, <2>2, FS_Subset
<1>4. ASSUME NEW s \in Search
      PROVE  /\ Bytes(S \cup {s}) \in Nat /\ Size[s] \in Nat
             /\ Bytes(S \cup {s}) <= Bytes(S) + Size[s]
  <2> DEFINE A == {s} \X (1 .. Size[s])
             B == Units(Size, S)
  <2>1. S \cup {s} \subseteq Search
    OBVIOUS
  <2>2. Bytes(S \cup {s}) \in Nat /\ IsFiniteSet(B) /\ Bytes(S) \in Nat
    BY <1>2, <2>1
  <2>3. Size[s] \in Nat
    BY AsyncSearchAssumption
  <2>4. IsFiniteSet(A) /\ Cardinality(A) = Size[s]
    <3>1. 1 \in Int /\ Size[s] \in Int
      BY <2>3, SMT
    <3>2. /\ IsFiniteSet(1 .. Size[s])
          /\ Cardinality(1 .. Size[s]) = IF 1 > Size[s] THEN 0 ELSE Size[s] - 1 + 1
      BY <3>1, FS_Interval
    <3>3. Cardinality(1 .. Size[s]) = Size[s]
      BY <2>3, <3>2, SMT
    <3>4. IsFiniteSet({s}) /\ Cardinality({s}) = 1
      BY FS_Singleton
    <3>5. IsFiniteSet(A) /\ Cardinality(A) = Cardinality({s}) * Cardinality(1 .. Size[s])
      BY <3>2, <3>4, FS_Product
    <3> QED
      BY <2>3, <3>3, <3>4, <3>5, SMT
  <2>5. Units(Size, S \cup {s}) = A \cup B
    BY DEF Units
  <2>6. Cardinality(A \cup B) = Cardinality(A) + Cardinality(B) - Cardinality(A \cap B)
    BY <2>2, <2>4, FS_Union
  <2>7. Cardinality(A \cap B) \in Nat
    BY <2>4, FS_Intersection, FS_CardinalityType
  <2>8. Bytes(S \cup {s}) = Cardinality(A \cup B) /\ Bytes(S) = Cardinality(B)
    BY <1>1, <2>5
  <2> HIDE DEF A, B
  <2> QED
    BY <2>2, <2>3, <2>4, <2>6, <2>7, <2>8, SMT
<1> QED
  BY <1>2, <1>3, <1>4

(* A step that keeps no further result leaves room enough. *)
LEMMA NoMoreKept ==
    ASSUME Room, KeptIds' \subseteq KeptIds, DOMAIN kept' = Search, scope' \in ScopeType,
           scope'.node_bytes = scope.node_bytes, scope'.user_bytes = scope.user_bytes,
           scope'.crashes = scope.crashes
    PROVE  Room'
<1>1. KeptIds \subseteq Search
  BY DEF KeptIds
<1>2. scope.node_bytes \in Nat /\ scope.user_bytes \in Nat
  BY AllowancesStay DEF Room
<1>3. Bytes(KeptIds') <= scope'.node_bytes
  <2>1. /\ Bytes(KeptIds) \in Nat /\ Bytes(KeptIds') \in Nat
        /\ Bytes(KeptIds') <= Bytes(KeptIds)
    BY <1>1, BytesOf
  <2>2. Bytes(KeptIds) <= scope.node_bytes
    BY DEF Room, RoomHeld
  <2> QED
    BY <1>2, <2>1, <2>2, SMT
<1>4. ASSUME NEW o \in Owner PROVE Bytes(KeptIds' \cap Of(o)) <= scope'.user_bytes
  <2>1. KeptIds \cap Of(o) \subseteq Search /\ KeptIds' \cap Of(o) \subseteq KeptIds \cap Of(o)
    BY <1>1
  <2>2. /\ Bytes(KeptIds \cap Of(o)) \in Nat /\ Bytes(KeptIds' \cap Of(o)) \in Nat
        /\ Bytes(KeptIds' \cap Of(o)) <= Bytes(KeptIds \cap Of(o))
    BY <2>1, BytesOf
  <2>3. Bytes(KeptIds \cap Of(o)) <= scope.user_bytes
    BY DEF Room, RoomHeld
  <2> QED
    BY <1>2, <2>2, <2>3, SMT
<1>5. RoomHeld'
  BY <1>3, <1>4 DEF RoomHeld
<1> QED
  BY <1>5 DEF Room

(* A result that is kept was found to fit, into the room of the node and   *)
(* that of its caller.                                                     *)
LEMMA KeptFits ==
    ASSUME Room, NEW s \in Search, KeepReserve(s)
    PROVE  Room'
<1> DEFINE mine == Of(OwnerOf[s])
<1>1. /\ KeptIds' \subseteq KeptIds \cup {s} /\ KeptIds \subseteq Search
      /\ DOMAIN kept' = Search /\ scope' = scope
  BY DEF KeepReserve, KeptIds, Room
<1>2. /\ scope.node_bytes \in Nat /\ scope.user_bytes \in Nat
  BY AllowancesStay DEF Room
<1>3. /\ ~(Bytes(KeptIds) + Size[s] > scope.node_bytes)
      /\ ~(Bytes(KeptIds \cap mine) + Size[s] > scope.user_bytes)
  BY DEF KeepReserve, NodeOver, UserOver
<1>4. Bytes(KeptIds') <= scope.node_bytes
  <2>1. KeptIds \cup {s} \subseteq Search
    BY <1>1
  <2>2. /\ Bytes(KeptIds) \in Nat /\ Size[s] \in Nat /\ Bytes(KeptIds \cup {s}) \in Nat
        /\ Bytes(KeptIds \cup {s}) <= Bytes(KeptIds) + Size[s]
    BY <1>1, BytesOf
  <2>3. Bytes(KeptIds') \in Nat /\ Bytes(KeptIds') <= Bytes(KeptIds \cup {s})
    BY <1>1, <2>1, BytesOf
  <2> QED
    BY <1>2, <1>3, <2>2, <2>3, SMT
<1>5. ASSUME NEW o \in Owner PROVE Bytes(KeptIds' \cap Of(o)) <= scope.user_bytes
  <2>1. CASE o = OwnerOf[s]
    <3> DEFINE was == KeptIds \cap mine
               is  == KeptIds' \cap mine
    <3>1. was \subseteq Search /\ was \cup {s} \subseteq Search /\ is \subseteq was \cup {s}
      BY <1>1 DEF Of
    <3> HIDE DEF was, is
    <3>2. /\ Bytes(was) \in Nat /\ Size[s] \in Nat /\ Bytes(was \cup {s}) \in Nat
          /\ Bytes(was \cup {s}) <= Bytes(was) + Size[s]
      BY <3>1, BytesOf
    <3>3. Bytes(is) \in Nat /\ Bytes(is) <= Bytes(was \cup {s})
      BY <3>1, BytesOf
    <3>4. ~(Bytes(was) + Size[s] > scope.user_bytes)
      BY <1>3 DEF was
    <3>5. Bytes(is) <= scope.user_bytes
      BY <1>2, <3>2, <3>3, <3>4, SMT
    <3> QED
      BY <2>1, <3>5 DEF is
  <2>2. CASE o # OwnerOf[s]
    <3>1. KeptIds' \cap Of(o) \subseteq KeptIds \cap Of(o) /\ KeptIds \cap Of(o) \subseteq Search
      BY <1>1, <2>2 DEF Of
    <3>2. /\ Bytes(KeptIds \cap Of(o)) \in Nat /\ Bytes(KeptIds' \cap Of(o)) \in Nat
          /\ Bytes(KeptIds' \cap Of(o)) <= Bytes(KeptIds \cap Of(o))
      BY <3>1, BytesOf
    <3>3. Bytes(KeptIds \cap Of(o)) <= scope.user_bytes
      BY DEF Room, RoomHeld
    <3> QED
      BY <1>2, <3>2, <3>3, SMT
  <2> QED
    BY <2>1, <2>2
<1>6. RoomHeld'
  BY <1>1, <1>4, <1>5 DEF RoomHeld
<1> QED
  BY <1>1, <1>6 DEF Room

(* While the node does not restart, the results kept take up no more than  *)
(* the allowance of the node, and those of a caller no more than theirs:   *)
(* room is looked for and taken in one step under the lock of KEPT (keep), *)
(* so searches that finish at once do not share the last of it.            *)
THEOREM RoomBounded == NoRestart => (Spec => []RoomHeld)
<1> SUFFICES ASSUME NoRestart PROVE Spec => []RoomHeld
  OBVIOUS
<1>1. Init => Room
  <2> SUFFICES ASSUME Init PROVE Room
    OBVIOUS
  <2>1. scope \in ScopeType /\ scope.crashes = 0
    BY AsyncSearchAssumption DEF Init, NoRestart
  <2>2. KeptIds = {} /\ DOMAIN kept = Search
    BY SMT DEF Init, KeptIds
  <2>3. Bytes({}) = 0
    <3>1. Units(Size, {}) = {}
      BY DEF Units
    <3> QED
      BY <3>1, FS_EmptySet DEF Bytes, Total
  <2>4. \A o \in Owner : KeptIds \cap Of(o) = {}
    BY <2>2
  <2> QED
    BY <2>1, <2>2, <2>3, <2>4, AllowancesStay, SMT DEF Room, RoomHeld
<1>2. Room /\ [Next]_vars => Room'
  <2> SUFFICES ASSUME Room, [Next]_vars PROVE Room'
    OBVIOUS
  <2> DEFINE Quiet ==
        /\ KeptIds' \subseteq KeptIds /\ DOMAIN kept' = Search /\ scope' \in ScopeType
        /\ scope'.node_bytes = scope.node_bytes /\ scope'.user_bytes = scope.user_bytes
        /\ scope'.crashes = scope.crashes
  <2>0. Quiet => Room'
    BY NoMoreKept
  <2>01. DOMAIN kept = Search /\ scope \in ScopeType /\ scope.crashes = 0
    BY DEF Room
  <2>02. kept' = kept /\ scope' = scope => Quiet
    BY <2>01 DEF KeptIds
  <2>03. ASSUME NEW s \in Search, kept' = [kept EXCEPT ![s] = 0]
         PROVE  KeptIds' \subseteq KeptIds /\ DOMAIN kept' = Search
    BY <2>01, <2>03, SMT DEF KeptIds
  <2>1. CASE UNCHANGED vars
    BY <2>0, <2>02, <2>1 DEF vars
  <2>2. ASSUME NEW s \in Search, Request(s) PROVE Room'
    BY <2>0, <2>02, <2>2 DEF Request, Submit, Refuse, Register, Start, Answer
  <2>3. ASSUME NEW s \in Search, Thread(s) PROVE Room'
    <3>1. CASE KeepReserve(s)
      BY <3>1, KeptFits
    <3>2. CASE KeepWriteFails(s)
      BY <2>0, <2>01, <2>03, <3>2, ScopeLess, AllowancesStay DEF KeepWriteFails
    <3>3. CASE KeepForget(s)
      BY <2>0, <2>01, <2>03, <3>3 DEF KeepForget
    <3>4. CASE \/ SearchEnds(s) \/ KeepNoRoom(s) \/ KeepWrite(s) \/ KeepCheck(s)
               \/ KeepUnlink(s) \/ Finish(s)
      BY <2>0, <2>02, <3>4
         DEF SearchEnds, KeepNoRoom, KeepWrite, KeepCheck, KeepUnlink, Finish
    <3> QED
      BY <2>3, <3>1, <3>2, <3>3, <3>4 DEF Thread
  <2>4. ASSUME NEW s \in Search, Get(s) \/ Delete(s) PROVE Room'
    <3>1. kept' = kept
      BY <2>4 DEF Get, Delete
    <3>2. scope' \in ScopeType /\ scope'.node_bytes = scope.node_bytes
          /\ scope'.user_bytes = scope.user_bytes /\ scope'.crashes = scope.crashes
      BY <2>01, <2>4, ScopeLess, AllowancesStay DEF Get, Delete
    <3> QED
      BY <2>0, <2>01, <3>1, <3>2 DEF KeptIds
  <2>5. CASE Reader
    <3>1. CASE GetSeen \/ GetKept
      BY <2>0, <2>02, <3>1 DEF GetSeen, GetKept
    <3>2. CASE GetFile
      BY <2>0, <2>01, <3>2, SMT DEF GetFile, KeptIds
    <3>3. CASE GetAnswer
      BY <2>0, <2>01, <3>3 DEF GetAnswer, Extend, KeptIds
    <3> QED
      BY <2>5, <3>1, <3>2, <3>3 DEF Reader
  <2>6. CASE Deleter
    <3>1. CASE DeleteForget
      BY <2>0, <2>01, <3>1, SMT DEF DeleteForget, KeptIds
    <3>2. CASE DeleteMark \/ DeleteTake \/ DeleteUnlink
      BY <2>0, <2>02, <3>2 DEF DeleteMark, DeleteTake, DeleteUnlink
    <3> QED
      BY <2>6, <3>1, <3>2 DEF Deleter
  <2>7. CASE Sweeper
    <3>1. CASE SweepKept
      BY <2>0, <2>01, <3>1 DEF SweepKept, KeptIds
    <3>2. CASE Sweep \/ SweepFiles
      BY <2>0, <2>02, <3>2 DEF Sweep, SweepFiles
    <3> QED
      BY <2>7, <3>1, <3>2 DEF Sweeper
  <2>8. CASE Tick
    BY <2>0, <2>02, <2>8 DEF Tick
  <2>9. ~Restart
    BY <2>01, SMT DEF Restart
  <2> QED
    BY <2>1, <2>2, <2>3, <2>4, <2>5, <2>6, <2>7, <2>8, <2>9 DEF Next
<1>3. Room => RoomHeld
  BY DEF Room
<1> QED
  BY <1>1, <1>2, <1>3, PTL DEF Spec
============================================================================
