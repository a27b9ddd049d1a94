--------------------------- MODULE RuntimeProofs ---------------------------
(***************************************************************************)
(* What the loop of a node promises, for any number of terms, versions,    *)
(* faults and crashes.                                                     *)
(***************************************************************************)
EXTENDS Runtime, TLAPS

(* Leaves that need arithmetic cite SMT; the others are left to Zenon. *)
USE Zenon

AtMost(a, b) == ~ Fresher(a, b)

(* Files that are nowhere ahead of others. *)
Behind(d, e) ==
    AtMost(d.committed, e.committed) /\ AtMost(d.accepted, e.accepted) /\ d.term <= e.term

(* A process started from later files is nowhere behind.                   *)
LEMMA LoadMonotone ==
    ASSUME NEW d \in Files, NEW e \in Files, Behind(d, e)
    PROVE  /\ Load(d).term <= Load(e).term
           /\ AtMost(Load(d).accepted, Load(e).accepted)
           /\ AtMost(Load(d).committed, Load(e).committed)
BY RuntimeAssumption, SMT DEF Behind, AtMost, Load, Fresher, Files, State

(* What a process starts from has the types of memory, and its term is not
   behind the state it accepted. *)
LEMMA LoadType ==
    ASSUME NEW d \in Files
    PROVE  /\ Load(d) \in Memory
           /\ Load(d).accepted.term <= Load(d).term
           /\ AtMost(Load(d).committed, Load(d).accepted)
BY RuntimeAssumption, SMT DEF AtMost, Load, Fresher, Files, State, Memory, Mode

(* An input may put out nothing. *)
LEMMA NothingType ==
    /\ Zero \in State /\ Nothing \in Outputs
    /\ [Nothing EXCEPT !.timers = {"candidate"}] \in Outputs
BY RuntimeAssumption, SMT DEF Zero, State, Nothing, Outputs, Mode

(* The first process starts with the right types. *)
LEMMA TypeInit == Init => TypeOK
<1> SUFFICES ASSUME Init PROVE TypeOK
  OBVIOUS
<1>1. Zero \in State /\ out \in Outputs
  BY NothingType DEF Init
<1>2. disk \in Files
  BY <1>1, RuntimeAssumption, SMT DEF Init, Files
<1>3. mem \in Memory
  BY <1>2, LoadType DEF Init
<1>4. sent \in [votes : SUBSET Vote, accepted : State, shown : State]
  BY <1>1 DEF Init
<1>5. timers \subseteq Mode /\ saving \in 0 .. 4 /\ crashes \in Nat /\ faults \in Nat
  BY SMT DEF Init
<1>6. mute \in BOOLEAN /\ broken \in BOOLEAN
  BY DEF Init
<1> QED
  BY <1>1, <1>2, <1>3, <1>4, <1>5, <1>6 DEF Init, TypeOK

(* An input leaves memory, entries and outputs with their types.           *)
LEMMA CommitsType ==
    ASSUME TypeOK, NEW s \in State
    PROVE  Commits(s).m \in Memory /\ Commits(s).d \in Files
BY DEF TypeOK, Commits, Memory, Files

(* One input keeps the types, if what it leaves has them. *)
LEMMA HandlesType ==
    ASSUME TypeOK, NEW m \in Memory, NEW d \in Files, NEW o \in Outputs, Handles(m, d, o),
           timers' \subseteq Mode
    PROVE  TypeOK'
<1>1. mem' \in Memory /\ durable' \in Files /\ out' \in Outputs /\ saving' \in 0 .. 4
  BY SMT DEF Handles
<1>2. /\ written' \in Files /\ disk' \in Files /\ forced' \in Files
      /\ sent' \in [votes : SUBSET Vote, accepted : State, shown : State]
      /\ crashes' \in Nat /\ faults' \in Nat
  BY DEF Handles, TypeOK, storage, counts
<1>3. mute' \in BOOLEAN /\ broken' \in BOOLEAN
  BY DEF Handles, TypeOK
<1> QED
  BY <1>1, <1>2, <1>3 DEF TypeOK

(* Every step keeps the types. *)
LEMMA TypeStep == TypeOK /\ [Next]_vars => TypeOK'
<1> SUFFICES ASSUME TypeOK, [Next]_vars PROVE TypeOK'
  OBVIOUS
<1>1. ASSUME NEW p \in Peer, NEW t \in 1 .. MaxTerm, OnStartJoin(p, t) PROVE TypeOK'
  <2> DEFINE m == [mem EXCEPT !.term = t, !.mode = "candidate"]
             o == [Nothing EXCEPT !.vote = {[term |-> t, to |-> p]}, !.timers = Arms(m)]
  <2>0. t \in 0 .. MaxTerm
    BY RuntimeAssumption, SMT
  <2>1. m \in Memory /\ [durable EXCEPT !.term = t] \in Files
    BY <2>0 DEF TypeOK, Memory, Mode, Files
  <2>2. Arms(m) \subseteq Mode
    BY <2>1 DEF Arms, Memory, Mode
  <2>3. {[term |-> t, to |-> p]} \subseteq Vote
    BY SMT DEF Vote
  <2>4. o \in Outputs
    BY <2>2, <2>3, NothingType DEF Outputs
  <2> QED
    BY <1>1, <2>1, <2>4, HandlesType DEF OnStartJoin, TypeOK
<1>2. ASSUME NEW s \in State, OnPublish(s) PROVE TypeOK'
  <2> DEFINE m == [mem EXCEPT !.accepted = s, !.mode = "follower"]
             o == [Nothing EXCEPT !.accepted = s, !.timers = Arms(m)]
  <2>1. m \in Memory /\ [durable EXCEPT !.accepted = s] \in Files
    BY DEF TypeOK, Memory, Mode, Files
  <2>2. Arms(m) \subseteq Mode
    BY <2>1 DEF Arms, Memory, Mode
  <2>3. o \in Outputs
    BY <2>2, NothingType DEF Outputs
  <2> QED
    BY <1>2, <2>1, <2>3, HandlesType DEF OnPublish, TypeOK
<1>3. ASSUME NEW s \in State, OnJoinResponse(s) PROVE TypeOK'
  <2> DEFINE m == [Commits(s).m EXCEPT !.mode = "follower"]
             o == [Nothing EXCEPT !.timers = Arms(m)]
  <2>1. m \in Memory /\ Commits(s).d \in Files
    BY CommitsType, SMT DEF Memory, Mode
  <2>2. Arms(m) \subseteq Mode
    BY <2>1 DEF Arms, Memory, Mode
  <2>3. o \in Outputs
    BY <2>2, NothingType DEF Outputs
  <2> QED
    BY <1>3, <2>1, <2>3, HandlesType DEF OnJoinResponse, TypeOK
<1>4. ASSUME OnCommit PROVE TypeOK'
  <2>1. mem.accepted \in State
    BY DEF TypeOK, Memory
  <2> QED
    BY <1>4, <2>1, CommitsType, NothingType, HandlesType DEF OnCommit, TypeOK
<1>5. ASSUME NEW t \in Mode, OnTimer(t) PROVE TypeOK'
  <2>1. timers' \subseteq Mode
    BY <1>5 DEF OnTimer, TypeOK
  <2>2. CASE t # mem.mode
    <3>1. Handles(mem, durable, Nothing)
      BY <1>5, <2>2 DEF OnTimer
    <3> QED
      BY <2>1, <3>1, NothingType, HandlesType DEF TypeOK
  <2>3. CASE t = mem.mode
    <3>1. PICK next \in {mem.mode, "candidate"} :
            Handles([mem EXCEPT !.mode = next], durable, [Nothing EXCEPT !.timers = {next}])
      BY <1>5, <2>3 DEF OnTimer
    <3>2. next \in Mode
      BY DEF TypeOK, Memory, Mode
    <3>3. [mem EXCEPT !.mode = next] \in Memory
      BY <3>2 DEF TypeOK, Memory
    <3>4. [Nothing EXCEPT !.timers = {next}] \in Outputs
      BY <3>2, NothingType DEF Outputs
    <3> QED
      BY <2>1, <3>1, <3>3, <3>4, HandlesType DEF TypeOK
  <2> QED
    BY <2>2, <2>3
<1>6. ASSUME Pass PROVE TypeOK'
  <2>1. saving' \in 0 .. 4
    BY <1>6, SMT DEF Pass, Keys
  <2>2. mute' \in BOOLEAN /\ broken' \in BOOLEAN
    BY <1>6 DEF Pass, TypeOK
  <2> QED
    BY <1>6, <2>1, <2>2 DEF Pass, TypeOK, storage, counts
<1>7. ASSUME NEW ok \in BOOLEAN, NEW sync \in BOOLEAN, Write(ok, sync) PROVE TypeOK'
  <2>1. saving \in {1, 2, 3} /\ Keys[saving] \in Key
    BY <1>7, SMT DEF Write, Keys, Key
  <2>2. saving' \in 0 .. 4
    BY <1>7, <2>1, SMT DEF Write
  <2>3. \A d \in Files, k \in Key : [d EXCEPT ![k] = durable[k]] \in Files
    BY DEF TypeOK, Files, Key
  <2>4. disk' \in Files /\ written' \in Files
    BY <1>7, <2>1, <2>3 DEF Write, TypeOK
  <2>5. \A d \in Files, e \in Files, k \in Key : [d EXCEPT ![k] = e[k]] \in Files
    BY DEF Files, Key
  <2>6. forced' \in Files
    BY <1>7, <2>1, <2>4, <2>5 DEF Write, TypeOK
  <2>7. mute' \in BOOLEAN /\ broken' \in BOOLEAN
    BY <1>7 DEF Write, TypeOK
  <2> QED
    BY <1>7, <2>2, <2>4, <2>6, <2>7 DEF Write, TypeOK, counts
<1>8. ASSUME Speak PROVE TypeOK'
  <2>1. out' \in Outputs /\ saving' \in 0 .. 4 /\ timers' \subseteq Mode
    BY <1>8, NothingType, SMT DEF Speak, TypeOK, Outputs
  <2>2. Said \in [votes : SUBSET Vote, accepted : State, shown : State]
    BY DEF Said, Freshest, TypeOK, Outputs, Memory
  <2>3. sent' \in [votes : SUBSET Vote, accepted : State, shown : State]
    BY <1>8, <2>2 DEF Speak, TypeOK
  <2>4. mute' \in BOOLEAN /\ broken' \in BOOLEAN
    BY <1>8 DEF Speak, TypeOK
  <2> QED
    BY <1>8, <2>1, <2>3, <2>4 DEF Speak, TypeOK, storage, counts
<1>9. ASSUME NEW d \in Files, Restart(d) PROVE TypeOK'
  <2>1. mem' \in Memory /\ out' \in Outputs
    BY <1>9, LoadType, NothingType DEF Restart
  <2>2. mute' \in BOOLEAN /\ broken' \in BOOLEAN
    BY <1>9 DEF Restart, TypeOK
  <2>3. saving' \in 0 .. 4 /\ timers' \subseteq Mode /\ crashes' \in Nat
    BY <1>9, SMT DEF Restart, TypeOK
  <2> QED
    BY <1>9, <2>1, <2>2, <2>3 DEF Restart, TypeOK
<1>10. ASSUME Breaks \/ Mends PROVE TypeOK'
  <2>1. mute' \in BOOLEAN /\ broken' \in BOOLEAN
    BY <1>10 DEF Breaks, Mends, TypeOK
  <2>2. faults' \in Nat /\ crashes' \in Nat
    BY <1>10, SMT DEF Breaks, Mends, TypeOK, counts
  <2> QED
    BY <1>10, <2>1, <2>2 DEF Breaks, Mends, TypeOK, storage
<1>11. ASSUME UNCHANGED vars PROVE TypeOK'
  <2>1. mute' \in BOOLEAN /\ broken' \in BOOLEAN
    BY <1>11 DEF vars, TypeOK
  <2> QED
    BY <1>11, <2>1 DEF vars, TypeOK
<1> QED
  BY <1>1, <1>2, <1>3, <1>4, <1>5, <1>6, <1>7, <1>8, <1>9, <1>10, <1>11
  DEF Next, Fires, Save, Mode, TypeOK

(* TypeOK holds in every state: handle, save_durable and load_durable put  *)
(* nothing else into memory, entries and files.                            *)
THEOREM RuntimeTypes == Spec => []TypeOK
BY TypeInit, TypeStep, PTL DEF Spec
----------------------------------------------------------------------------
(* The files are behind the entries, and the entries are what memory would *)
(* be loaded from: a node that fails to save, or stops between two files,  *)
(* is ahead of its disk and of nothing it said.                            *)

Saved ==
    /\ saving \in {2, 3} => written.committed = durable.committed
    /\ saving = 3 => written.accepted = durable.accepted
    /\ saving = 4 /\ ~ mute => written = durable

(* What is about to go out is in memory, and a vote in it is of a term no  *)
(* vote was sent in.                                                       *)
Pending ==
    /\ saving = 0 => out = Nothing
    /\ \A v \in out.vote : v.term <= mem.term /\ \A w \in sent.votes : w.term < v.term
    /\ \A v, w \in out.vote : v = w
    /\ AtMost(out.accepted, mem.accepted)

Loaded ==
    /\ mem.term = Load(durable).term /\ mem.accepted = Load(durable).accepted
    /\ mem.committed = durable.committed

IInv ==
    /\ TypeOK
    /\ forced = disk
    /\ Behind(written, disk) /\ Behind(disk, durable)
    /\ Loaded /\ Saved /\ Pending
    /\ Stands(disk) /\ OneVote

(* The order of states is one.                                             *)
LEMMA Order ==
    /\ \A a \in State : AtMost(a, a)
    /\ \A a, b \in State : AtMost(a, b) /\ AtMost(b, a) => a = b
    /\ \A a, b, c \in State : AtMost(a, b) /\ AtMost(b, c) => AtMost(a, c)
BY RuntimeAssumption, SMT DEF AtMost, Fresher, State

(* So is the order of files. *)
LEMMA BehindOrder ==
    /\ \A d \in Files : Behind(d, d)
    /\ \A d, e \in Files : Behind(d, e) /\ Behind(e, d) => d = e
    /\ \A d, e, f \in Files : Behind(d, e) /\ Behind(e, f) => Behind(d, f)
<1>1. \A d \in Files : Behind(d, d)
  BY Order, RuntimeAssumption, SMT DEF Behind, Files
<1>2. ASSUME NEW d \in Files, NEW e \in Files, Behind(d, e), Behind(e, d) PROVE d = e
  <2>1. d.committed = e.committed /\ d.accepted = e.accepted
    BY <1>2, Order DEF Behind, Files
  <2>2. d.term = e.term
    BY <1>2, RuntimeAssumption, SMT DEF Behind, Files
  <2> QED
    BY <2>1, <2>2, SMT DEF Files
<1>3. ASSUME NEW d \in Files, NEW e \in Files, NEW f \in Files, Behind(d, e), Behind(e, f)
      PROVE  Behind(d, f)
  <2>1. AtMost(d.committed, f.committed) /\ AtMost(d.accepted, f.accepted)
    BY <1>3, Order DEF Behind, Files
  <2>2. d.term <= f.term
    BY <1>3, RuntimeAssumption, SMT DEF Behind, Files
  <2> QED
    BY <2>1, <2>2 DEF Behind
<1> QED
  BY <1>1, <1>2, <1>3

(* An input that moves memory and entries forward together, and puts out   *)
(* what is in memory, keeps the invariant.                                 *)
LEMMA HandlesKeeps ==
    ASSUME IInv, TypeOK', NEW m, NEW d \in Files, NEW o, Handles(m, d, o),
           Behind(durable, d),
           m.term = Load(d).term, m.accepted = Load(d).accepted, m.committed = d.committed,
           \A v \in o.vote : v.term <= m.term /\ \A w \in sent.votes : w.term < v.term,
           \A v, w \in o.vote : v = w,
           AtMost(o.accepted, m.accepted)
    PROVE  IInv'
<1>1. /\ mem' = m /\ durable' = d /\ out' = o /\ saving' = 1 /\ sent' = sent
      /\ written' = written /\ disk' = disk /\ forced' = forced
  BY DEF Handles, storage
<1>2. Behind(disk', durable')
  BY <1>1, BehindOrder DEF IInv, TypeOK
<1>3. Loaded' /\ Saved' /\ Pending'
  BY <1>1, SMT DEF Loaded, Saved, Pending
<1>4. Stands(disk)' /\ OneVote'
  BY <1>1 DEF IInv, Stands, OneVote
<1> QED
  BY <1>1, <1>2, <1>3, <1>4 DEF IInv

(* Memory is where the entries are, ahead of all that was sent. *)
LEMMA MemoryAhead ==
    ASSUME IInv
    PROVE  /\ mem.accepted.term <= mem.term
           /\ AtMost(mem.committed, mem.accepted)
           /\ \A v \in sent.votes : v.term <= mem.term
<1>1. /\ Load(durable) \in Memory /\ Load(disk) \in Memory
      /\ Load(durable).accepted.term <= Load(durable).term
      /\ AtMost(Load(durable).committed, Load(durable).accepted)
  BY LoadType DEF IInv, TypeOK
<1>2. Load(durable).committed = durable.committed
  BY DEF Load
<1>3. Load(disk).term <= Load(durable).term
  BY LoadMonotone DEF IInv, TypeOK
<1>4. ASSUME NEW v \in sent.votes PROVE v.term <= mem.term
  <2>1. v.term \in Nat /\ v.term <= Load(disk).term
    BY RuntimeAssumption, SMT DEF IInv, TypeOK, Vote, Stands
  <2>2. Load(disk).term \in Nat /\ Load(durable).term \in Nat
    BY <1>1, RuntimeAssumption, SMT DEF Memory
  <2> QED
    BY <1>3, <2>1, <2>2, SMT DEF IInv, Loaded
<1> QED
  BY <1>1, <1>2, <1>4 DEF IInv, Loaded

(* An input that leaves the promises alone. *)
LEMMA QuietKeeps ==
    ASSUME IInv, TypeOK', NEW m, NEW d \in Files, NEW o, Handles(m, d, o), Behind(durable, d),
           m.term = Load(d).term, m.accepted = Load(d).accepted, m.committed = d.committed,
           m.accepted \in State, o.vote = {}, o.accepted = Zero
    PROVE  IInv'
<1>1. AtMost(o.accepted, m.accepted)
  BY RuntimeAssumption, SMT DEF AtMost, Fresher, Zero, State
<1> QED
  BY <1>1, HandlesKeeps

(* What apply_committed leaves in the entries is what it leaves in memory. *)
LEMMA CommitsLoaded ==
    ASSUME IInv, NEW s \in State, s.term = mem.term
    PROVE  /\ Behind(durable, Commits(s).d)
           /\ Commits(s).m.term = Load(Commits(s).d).term
           /\ Commits(s).m.accepted = Load(Commits(s).d).accepted
           /\ Commits(s).m.committed = Commits(s).d.committed
<1>1. CASE ~ Fresher(s, mem.committed)
  BY <1>1, BehindOrder DEF Commits, IInv, TypeOK, Loaded
<1>2. CASE Fresher(s, mem.committed) /\ Fresher(s, mem.accepted)
  <2> DEFINE d == [durable EXCEPT !.committed = s, !.accepted = s]
             m == [mem EXCEPT !.committed = s, !.accepted = s]
  <2>1. Commits(s).d = d /\ Commits(s).m = m
    BY <1>2 DEF Commits
  <2>2. /\ d.committed = s /\ d.accepted = s /\ d.term = durable.term
        /\ m.term = mem.term /\ m.accepted = s /\ m.committed = s
    BY DEF IInv, TypeOK, Files, Memory
  <2>3. Behind(durable, d)
    BY <1>2, <2>2, RuntimeAssumption, SMT
    DEF Behind, AtMost, Fresher, IInv, TypeOK, Loaded, Load, Files, State
  <2>4. Load(d).accepted = s
    BY <2>2 DEF Load
  <2>5. durable.term <= mem.term
    BY RuntimeAssumption, SMT DEF IInv, Loaded, Load, TypeOK, Files, State
  <2>6. Load(d).term = mem.term
    BY <2>2, <2>5, RuntimeAssumption, SMT DEF Load, IInv, TypeOK, Files, State, Memory
  <2> QED
    BY <2>1, <2>2, <2>3, <2>4, <2>6
<1>3. CASE Fresher(s, mem.committed) /\ ~ Fresher(s, mem.accepted)
  <2> DEFINE d == [durable EXCEPT !.committed = s]
             m == [mem EXCEPT !.committed = s]
  <2>1. Commits(s).d = d /\ Commits(s).m = m
    BY <1>3 DEF Commits, IInv, TypeOK, Files, Memory
  <2>2. /\ d.committed = s /\ d.accepted = durable.accepted /\ d.term = durable.term
        /\ m.term = mem.term /\ m.accepted = mem.accepted /\ m.committed = s
    BY DEF IInv, TypeOK, Files, Memory
  <2>3. AtMost(durable.committed, s)
    BY <1>3, RuntimeAssumption, SMT DEF AtMost, Fresher, IInv, TypeOK, Loaded, Files, State
  <2>4. Behind(durable, d)
    BY <2>2, <2>3, BehindOrder, Order, RuntimeAssumption DEF Behind, IInv, TypeOK, Files
  <2>5. mem.accepted.term <= mem.term
    BY MemoryAhead
  <2>6. mem.accepted = durable.accepted
    BY <1>3, RuntimeAssumption DEF IInv, Loaded, Load, TypeOK, Files, State, Fresher
  <2>7. Load(d).accepted = mem.accepted
    <3>1. CASE Fresher(durable.accepted, s)
      BY <2>2, <2>6, <3>1 DEF Load
    <3>2. CASE ~ Fresher(durable.accepted, s)
      <4>1. durable.accepted = s
        BY <1>3, <2>6, <3>2, Order DEF AtMost, IInv, TypeOK, Memory
      <4> QED
        BY <2>2, <2>6, <4>1 DEF Load
    <3> QED
      BY <3>1, <3>2
  <2>8. Load(d).term = mem.term
    BY <2>2, <2>6, <2>7, RuntimeAssumption DEF Load, IInv, Loaded, TypeOK, Files, State, Memory
  <2> QED
    BY <2>1, <2>2, <2>4, <2>7, <2>8
<1> QED
  BY <1>1, <1>2, <1>3

(* START_JOIN: a vote is for a term above all that were voted in. *)
LEMMA StartJoinKeeps ==
    ASSUME IInv, TypeOK', NEW p \in Peer, NEW t \in 1 .. MaxTerm, OnStartJoin(p, t)
    PROVE  IInv'
<1> DEFINE m == [mem EXCEPT !.term = t, !.mode = "candidate"]
           d == [durable EXCEPT !.term = t]
           o == [Nothing EXCEPT !.vote = {[term |-> t, to |-> p]}, !.timers = Arms(m)]
<1>1. Handles(m, d, o) /\ t > mem.term
  BY DEF OnStartJoin
<1>2. /\ m.term = t /\ m.accepted = mem.accepted /\ m.committed = mem.committed
      /\ d.term = t /\ d.accepted = durable.accepted /\ d.committed = durable.committed
      /\ o.vote = {[term |-> t, to |-> p]} /\ o.accepted = Zero
  BY DEF IInv, TypeOK, Memory, Files, Nothing
<1>3. d \in Files
  BY <1>1 DEF Handles, TypeOK
<1>4. durable.term <= mem.term /\ mem.accepted.term <= mem.term /\ mem.term \in Nat
  BY MemoryAhead, RuntimeAssumption, SMT DEF IInv, Loaded, Load, TypeOK, Files, State, Memory
<1>5. Behind(durable, d)
  BY <1>1, <1>2, <1>4, Order, RuntimeAssumption, SMT DEF Behind, IInv, TypeOK, Files
<1>6. Load(d).accepted = m.accepted
  BY <1>2 DEF Load, IInv, Loaded
<1>7. Load(d).term = m.term
  BY <1>1, <1>2, <1>4, <1>6, RuntimeAssumption, SMT DEF Load, IInv, TypeOK, Memory, State
<1>8. \A w \in sent.votes : w.term < t
  <2> TAKE w \in sent.votes
  <2>1. w.term <= mem.term /\ w.term \in Nat
    BY MemoryAhead, RuntimeAssumption, SMT DEF IInv, TypeOK, Vote
  <2> QED
    BY <1>1, <1>4, <2>1, SMT
<1>9. \A v \in o.vote : v.term <= m.term /\ \A w \in sent.votes : w.term < v.term
  BY <1>2, <1>8, SMT
<1>10. AtMost(o.accepted, m.accepted)
  BY <1>2, RuntimeAssumption, SMT DEF AtMost, Fresher, Zero, IInv, TypeOK, Memory, State
<1>11. m.committed = d.committed
  BY <1>2 DEF IInv, Loaded
<1>12. \A v, w \in o.vote : v = w
  BY <1>2
<1> HIDE DEF m, d, o
<1> QED
  BY <1>1, <1>3, <1>5, <1>6, <1>7, <1>9, <1>10, <1>11, <1>12, HandlesKeeps

(* PUBLISH: what is accepted is above all that was. *)
LEMMA PublishKeeps ==
    ASSUME IInv, TypeOK', NEW s \in State, OnPublish(s)
    PROVE  IInv'
<1> DEFINE m == [mem EXCEPT !.accepted = s, !.mode = "follower"]
           d == [durable EXCEPT !.accepted = s]
           o == [Nothing EXCEPT !.accepted = s, !.timers = Arms(m)]
<1>1. /\ Handles(m, d, o) /\ s.term = mem.term
      /\ s.term = mem.accepted.term => s.version > mem.accepted.version
  BY DEF OnPublish
<1>2. /\ m.term = mem.term /\ m.accepted = s /\ m.committed = mem.committed
      /\ d.term = durable.term /\ d.accepted = s /\ d.committed = durable.committed
      /\ o.vote = {} /\ o.accepted = s
  BY DEF IInv, TypeOK, Memory, Files, Nothing
<1>3. d \in Files
  BY <1>1 DEF Handles, TypeOK
<1>4. /\ durable.term <= mem.term /\ mem.term \in Nat /\ mem.accepted.term <= mem.term
      /\ AtMost(mem.committed, mem.accepted)
  BY MemoryAhead, RuntimeAssumption, SMT DEF IInv, Loaded, Load, TypeOK, Files, State, Memory
<1>5. Fresher(s, mem.accepted)
  BY <1>1, <1>4, RuntimeAssumption, SMT DEF Fresher, IInv, TypeOK, Memory, State
<1>6. Fresher(s, durable.committed)
  BY <1>4, <1>5, RuntimeAssumption, SMT
  DEF Fresher, AtMost, IInv, TypeOK, Loaded, Memory, Files, State
<1>7. AtMost(durable.accepted, s)
  BY <1>5, <1>6, RuntimeAssumption, SMT
  DEF AtMost, Fresher, IInv, Loaded, Load, TypeOK, Files, State
<1>8. Behind(durable, d)
  BY <1>2, <1>7, Order, RuntimeAssumption, SMT DEF Behind, IInv, TypeOK, Files
<1>9. Load(d).accepted = s
  BY <1>2, <1>6 DEF Load
<1>10. Load(d).term = mem.term
  BY <1>1, <1>2, <1>4, <1>9, RuntimeAssumption, SMT DEF Load, IInv, TypeOK, Files, State
<1>11. AtMost(o.accepted, m.accepted)
  BY <1>2, Order
<1>12. m.committed = d.committed
  BY <1>2 DEF IInv, Loaded
<1> HIDE DEF m, d, o
<1> QED
  BY <1>1, <1>2, <1>3, <1>8, <1>9, <1>10, <1>11, <1>12, HandlesKeeps

(* COMMIT and the answer to a join: apply_committed, in a term of this node. *)
LEMMA CommitKeeps ==
    ASSUME IInv, TypeOK', NEW s \in State, s.term = mem.term, NEW m, NEW o,
           Handles(m, Commits(s).d, o), o.vote = {}, o.accepted = Zero,
           m.term = Commits(s).m.term, m.accepted = Commits(s).m.accepted,
           m.committed = Commits(s).m.committed
    PROVE  IInv'
<1>1. Commits(s).m \in Memory /\ Commits(s).d \in Files
  BY CommitsType DEF IInv
<1>2. m.accepted \in State
  BY <1>1 DEF Memory
<1> QED
  BY <1>1, <1>2, CommitsLoaded, QuietKeeps

(* Later files stand by what earlier ones stood by. *)
LEMMA StandsOn ==
    ASSUME TypeOK, NEW d \in Files, NEW e \in Files, Behind(d, e), Stands(d)
    PROVE  Stands(e)
<1>1. /\ Load(d) \in Memory /\ Load(e) \in Memory
      /\ Load(d).term <= Load(e).term
      /\ AtMost(Load(d).accepted, Load(e).accepted)
      /\ AtMost(Load(d).committed, Load(e).committed)
  BY LoadType, LoadMonotone
<1>2. \A v \in sent.votes : Load(e).term >= v.term
  <2> TAKE v \in sent.votes
  <2>1. v.term \in Nat /\ Load(d).term >= v.term
    BY SMT DEF TypeOK, Vote, Stands
  <2> QED
    BY <1>1, <2>1, RuntimeAssumption, SMT DEF Memory
<1>3. AtMost(sent.accepted, Load(e).accepted)
  <2>1. AtMost(sent.accepted, Load(d).accepted)
    BY DEF Stands, AtMost
  <2> QED
    BY <1>1, <2>1, Order DEF Memory, TypeOK
<1>4. AtMost(sent.shown, Load(e).committed)
  <2>1. AtMost(sent.shown, Load(d).committed)
    BY DEF Stands, AtMost
  <2> QED
    BY <1>1, <2>1, Order DEF Memory, TypeOK
<1> QED
  BY <1>2, <1>3, <1>4 DEF Stands, AtMost

(* write_atomic: a file moves from where it was to where its entry is. *)
LEMMA WriteKeeps ==
    ASSUME IInv, TypeOK', Silent = FALSE,
           NEW ok \in BOOLEAN, NEW sync \in BOOLEAN, Write(ok, sync)
    PROVE  IInv'
<1> DEFINE k == Keys[saving]
           d == [disk EXCEPT ![k] = durable[k]]
           w == [written EXCEPT ![k] = durable[k]]
<1>1. /\ saving \in {1, 2, 3} /\ k \in Key
      /\ saving = 1 => k = "committed"
      /\ saving = 2 => k = "accepted"
      /\ saving = 3 => k = "term"
  BY SMT DEF Write, Keys, Key
<1>2. /\ mem' = mem /\ durable' = durable /\ out' = out /\ sent' = sent
      /\ disk' = d \/ disk' = disk
      /\ ok => disk' = d /\ written' = w /\ saving' = saving + 1
      /\ ~ ok => written' = written /\ saving' = 4 /\ mute'
  BY DEF Write
<1>3. forced' = disk'
  BY <1>1 DEF Write, IInv, TypeOK, Files, Key
<1>4. /\ disk \in Files /\ written \in Files /\ durable \in Files
      /\ Behind(written, disk) /\ Behind(disk, durable)
  BY DEF IInv, TypeOK
<1>5. d \in Files /\ w \in Files
  BY <1>1, <1>4 DEF Files, Key
<1>6. Behind(disk, d) /\ Behind(d, durable)
  BY <1>1, <1>4, Order, RuntimeAssumption, SMT DEF Behind, Files, Key
<1>7. Behind(w, d) /\ Behind(written, d)
  BY <1>1, <1>4, Order, BehindOrder, <1>5, <1>6, RuntimeAssumption DEF Behind, Files, Key
<1>8. Behind(written', disk') /\ Behind(disk', durable') /\ Behind(disk, disk')
  BY <1>2, <1>4, <1>6, <1>7, BehindOrder
<1>9. disk' \in Files
  BY DEF TypeOK
<1>10. Stands(disk')
  BY <1>4, <1>8, <1>9, StandsOn DEF IInv
<1>11. Stands(disk)' /\ OneVote' /\ Loaded' /\ Pending'
  BY <1>1, <1>2, <1>10, SMT DEF Stands, OneVote, Loaded, Pending, IInv
<1>12. Saved'
  <2>1. CASE ~ ok
    BY <1>2, <2>1, SMT DEF Saved
  <2>2. CASE ok
    <3>1. saving = 1 => w.committed = durable.committed
      BY <1>1, <1>4 DEF Files
    <3>2. saving = 2 => w.committed = durable.committed /\ w.accepted = durable.accepted
      BY <1>1, <1>4 DEF Files, Saved, IInv
    <3>3. saving = 3 => w = durable
      <4>1. saving = 3 => /\ w.committed = durable.committed /\ w.accepted = durable.accepted
                          /\ w.term = durable.term
        BY <1>1, <1>4 DEF Files, Saved, IInv
      <4> QED
        BY <1>4, <1>5, <4>1 DEF Files
    <3>4. /\ saving' \in {2, 3} => written'.committed = durable'.committed
          /\ saving' = 3 => written'.accepted = durable'.accepted
          /\ saving' = 4 => written' = durable'
      <4> HIDE DEF w
      <4> QED
        BY <1>1, <1>2, <2>2, <3>1, <3>2, <3>3, SMT
    <3> QED
      BY <3>4 DEF Saved
  <2> QED
    BY <2>1, <2>2
<1> QED
  BY <1>3, <1>8, <1>11, <1>12 DEF IInv

(* A file that is as it should be. *)
LEMMA PassKeeps == ASSUME IInv, TypeOK', Pass PROVE IInv'
<1>1. /\ saving \in {1, 2, 3} /\ saving' = saving + 1
      /\ saving = 1 => written.committed = durable.committed
      /\ saving = 2 => written.accepted = durable.accepted
      /\ saving = 3 => written.term = durable.term
  BY SMT DEF Pass, Keys
<1>2. UNCHANGED <<mem, durable, written, disk, forced, out, sent, mute>>
  BY DEF Pass, storage
<1>3. Saved'
  BY <1>1, <1>2, SMT DEF Saved, IInv, TypeOK, Files
<1>4. Loaded' /\ Pending' /\ Stands(disk)' /\ OneVote'
  BY <1>1, <1>2, SMT DEF IInv, Loaded, Pending, Stands, OneVote
<1> QED
  BY <1>2, <1>3, <1>4 DEF IInv

(* The outputs of a save that went through are all on disk. *)
LEMMA SpeakKeeps == ASSUME IInv, TypeOK', Speak PROVE IInv'
<1>1. /\ saving = 4 /\ saving' = 0 /\ out' = Nothing
      /\ UNCHANGED <<mem, durable, written, disk, forced, mute>>
      /\ sent' = IF mute THEN sent ELSE Said
  BY DEF Speak, storage
<1>2. Loaded' /\ Saved'
  BY <1>1, SMT DEF IInv, Loaded, Saved
<1>3. Pending'
  <2>1. AtMost(Zero, mem.accepted)
    BY RuntimeAssumption, SMT DEF AtMost, Fresher, Zero, IInv, TypeOK, Memory, State
  <2> QED
    BY <1>1, <2>1 DEF Pending, Nothing
<1>4. Stands(disk)' /\ OneVote'
  <2>1. CASE mute
    BY <1>1, <2>1 DEF IInv, Stands, OneVote
  <2>2. CASE ~ mute
    <3>1. disk = durable
      BY <1>1, <2>2, BehindOrder, SMT DEF IInv, Saved, TypeOK
    <3>2. /\ mem.term = Load(disk).term /\ mem.accepted = Load(disk).accepted
          /\ mem.committed = Load(disk).committed
      BY <3>1 DEF IInv, Loaded, Load
    <3>3. /\ sent'.votes = sent.votes \cup out.vote
          /\ sent'.accepted = Freshest(out.accepted, sent.accepted)
          /\ sent'.shown = Freshest(mem.committed, sent.shown)
      BY <1>1, <2>2 DEF Said
    <3>4. \A v \in sent'.votes : Load(disk).term >= v.term
      <4> TAKE v \in sent'.votes
      <4>1. v.term \in Nat /\ Load(disk).term \in Nat
        BY LoadType, RuntimeAssumption, SMT DEF TypeOK, IInv, Vote, Memory
      <4>2. CASE v \in sent.votes
        BY <4>2 DEF IInv, Stands
      <4>3. CASE v \in out.vote
        BY <3>2, <4>1, <4>3 DEF IInv, Pending
      <4> QED
        BY <3>3, <4>2, <4>3
    <3>5. AtMost(sent'.accepted, Load(disk).accepted)
      BY <3>2, <3>3 DEF Freshest, IInv, Stands, Pending, AtMost
    <3>6. AtMost(sent'.shown, Load(disk).committed)
      <4>1. AtMost(mem.committed, mem.committed)
        BY Order DEF IInv, TypeOK, Memory
      <4> QED
        BY <3>2, <3>3, <4>1 DEF Freshest, IInv, Stands, AtMost
    <3>7. OneVote'
      <4> SUFFICES ASSUME NEW v \in sent'.votes, NEW w \in sent'.votes, v.term = w.term
                   PROVE  v.to = w.to
        BY DEF OneVote
      <4>1. v.term \in Nat /\ w.term \in Nat
        BY RuntimeAssumption, SMT DEF TypeOK, Vote
      <4>2. CASE v \in sent.votes /\ w \in sent.votes
        BY <4>2 DEF IInv, OneVote
      <4>3. CASE v \in out.vote /\ w \in out.vote
        BY <4>3 DEF IInv, Pending
      <4>4. CASE v \in out.vote /\ w \in sent.votes
        BY <4>1, <4>4, SMT DEF IInv, Pending
      <4>5. CASE v \in sent.votes /\ w \in out.vote
        BY <4>1, <4>5, SMT DEF IInv, Pending
      <4> QED
        BY <3>3, <4>2, <4>3, <4>4, <4>5
    <3> QED
      BY <1>1, <3>4, <3>5, <3>6, <3>7 DEF Stands, AtMost
  <2> QED
    BY <2>1, <2>2
<1> QED
  BY <1>1, <1>2, <1>3, <1>4 DEF IInv

(* A new process is where its files are, ahead of all that was sent. *)
LEMMA RestartKeeps ==
    ASSUME IInv, TypeOK', NEW d \in Files, d = disk, Restart(d)
    PROVE  IInv'
<1>1. /\ disk' = d /\ forced' = d /\ written' = d /\ durable' = d /\ mem' = Load(d)
      /\ saving' = 1 /\ sent' = sent
      /\ out'.vote = {} /\ out'.accepted = Zero
  BY DEF Restart, Nothing
<1>2. Behind(d, d) /\ Load(d).committed = d.committed
  BY BehindOrder DEF Load
<1>3. AtMost(Zero, Load(d).accepted)
  BY LoadType, RuntimeAssumption, SMT DEF AtMost, Fresher, Zero, Memory, State
<1>4. Loaded' /\ Saved' /\ Pending'
  BY <1>1, <1>2, <1>3, SMT DEF Loaded, Saved, Pending
<1>5. Stands(disk)' /\ OneVote'
  BY <1>1 DEF IInv, Stands, OneVote
<1> QED
  BY <1>1, <1>2, <1>4, <1>5 DEF IInv

(* The first process. *)
LEMMA IInvInit == Init => IInv
<1> SUFFICES ASSUME Init PROVE IInv
  OBVIOUS
<1>1. TypeOK /\ Zero \in State
  BY TypeInit, NothingType
<1>2. Behind(disk, disk) /\ disk \in Files
  BY <1>1, BehindOrder DEF TypeOK
<1>3. /\ disk.committed = Zero /\ disk.accepted = Zero /\ durable = disk /\ written = disk
      /\ forced = disk /\ saving = 1 /\ mem = Load(disk)
      /\ out.vote = {} /\ out.accepted = Zero
      /\ sent.votes = {} /\ sent.accepted = Zero /\ sent.shown = Zero
  BY DEF Init, Nothing
<1>4. AtMost(Zero, Zero) /\ Load(disk).accepted = Zero /\ Load(disk).committed = Zero
  BY <1>1, <1>3, Order DEF Load
<1>5. Loaded /\ Saved /\ Pending
  BY <1>3, <1>4, SMT DEF Loaded, Saved, Pending
<1>6. Stands(disk) /\ OneVote
  BY <1>3, <1>4 DEF Stands, OneVote, AtMost
<1> QED
  BY <1>1, <1>2, <1>3, <1>5, <1>6 DEF IInv

(* Every step of the loop. *)
LEMMA IInvStep == ASSUME Silent = FALSE PROVE IInv /\ [Next]_vars => IInv'
<1> SUFFICES ASSUME IInv, [Next]_vars PROVE IInv'
  OBVIOUS
<1>0. TypeOK /\ TypeOK'
  BY TypeStep DEF IInv
<1>1. ASSUME NEW p \in Peer, NEW t \in 1 .. MaxTerm, OnStartJoin(p, t) PROVE IInv'
  BY <1>0, <1>1, StartJoinKeeps
<1>2. ASSUME NEW s \in State, OnPublish(s) PROVE IInv'
  BY <1>0, <1>2, PublishKeeps
<1>3. ASSUME NEW s \in State, OnJoinResponse(s) PROVE IInv'
  <2> DEFINE m == [Commits(s).m EXCEPT !.mode = "follower"]
             o == [Nothing EXCEPT !.timers = Arms(m)]
  <2>1. Handles(m, Commits(s).d, o) /\ s.term = mem.term
    BY <1>3 DEF OnJoinResponse
  <2>2. o.vote = {} /\ o.accepted = Zero
    BY DEF Nothing
  <2>3. /\ m.term = Commits(s).m.term /\ m.accepted = Commits(s).m.accepted
        /\ m.committed = Commits(s).m.committed
    BY <1>0, CommitsType, SMT DEF Memory
  <2> HIDE DEF m, o
  <2> QED
    BY <1>0, <2>1, <2>2, <2>3, CommitKeeps
<1>4. ASSUME OnCommit PROVE IInv'
  <2>1. /\ mem.accepted \in State /\ mem.accepted.term = mem.term
        /\ Handles(Commits(mem.accepted).m, Commits(mem.accepted).d, Nothing)
    BY <1>0, <1>4 DEF TypeOK, Memory, OnCommit
  <2>2. Nothing.vote = {} /\ Nothing.accepted = Zero
    BY DEF Nothing
  <2> QED
    BY <1>0, <2>1, <2>2, CommitKeeps
<1>5. ASSUME NEW t \in Mode, OnTimer(t) PROVE IInv'
  <2>1. PICK m \in Memory, o \in Outputs :
          /\ Handles(m, durable, o) /\ o.vote = {} /\ o.accepted = Zero
          /\ m.term = mem.term /\ m.accepted = mem.accepted /\ m.committed = mem.committed
    <3>1. CASE t # mem.mode
      <4>1. Handles(mem, durable, Nothing) /\ Nothing.vote = {} /\ Nothing.accepted = Zero
        BY <1>5, <3>1 DEF OnTimer, Nothing
      <4> QED
        BY <1>0, <4>1, NothingType DEF TypeOK
    <3>2. CASE t = mem.mode
      <4>1. PICK next \in {mem.mode, "candidate"} :
              Handles([mem EXCEPT !.mode = next], durable, [Nothing EXCEPT !.timers = {next}])
        BY <1>5, <3>2 DEF OnTimer
      <4> DEFINE m == [mem EXCEPT !.mode = next]
                 o == [Nothing EXCEPT !.timers = {next}]
      <4>2. next \in Mode
        BY <1>0 DEF TypeOK, Memory, Mode
      <4>3. m \in Memory /\ o \in Outputs
        BY <1>0, <4>2, NothingType DEF TypeOK, Memory, Outputs
      <4>4. /\ o.vote = {} /\ o.accepted = Zero
            /\ m.term = mem.term /\ m.accepted = mem.accepted /\ m.committed = mem.committed
        BY <1>0 DEF Nothing, TypeOK, Memory
      <4>5. Handles(m, durable, o)
        BY <4>1
      <4> HIDE DEF m, o
      <4> QED
        BY <4>3, <4>4, <4>5
    <3> QED
      BY <3>1, <3>2
  <2>2. durable \in Files /\ Behind(durable, durable)
    BY <1>0, BehindOrder DEF TypeOK
  <2>3. m.accepted \in State
    BY DEF Memory
  <2> QED
    BY <1>0, <2>1, <2>2, <2>3, QuietKeeps DEF IInv, Loaded
<1>6. ASSUME Pass PROVE IInv'
  BY <1>0, <1>6, PassKeeps
<1>7. ASSUME NEW ok \in BOOLEAN, NEW sync \in BOOLEAN, Write(ok, sync) PROVE IInv'
  BY <1>0, <1>7, WriteKeeps
<1>8. ASSUME Speak PROVE IInv'
  BY <1>0, <1>8, SpeakKeeps
<1>9. ASSUME Restart(disk) \/ Restart(forced) PROVE IInv'
  <2>1. Restart(disk) /\ disk \in Files
    BY <1>0, <1>9 DEF IInv, TypeOK
  <2> QED
    BY <1>0, <2>1, RestartKeeps
<1>10. ASSUME Breaks \/ Mends \/ UNCHANGED vars PROVE IInv'
  <2>1. UNCHANGED <<mem, durable, written, disk, forced, out, sent, saving, mute>>
    BY <1>10 DEF Breaks, Mends, vars, storage
  <2>2. Loaded' /\ Pending' /\ Stands(disk)' /\ OneVote' /\ Saved'
    BY <2>1 DEF IInv, Loaded, Pending, Stands, OneVote, Saved
  <2> QED
    BY <1>0, <2>1, <2>2 DEF IInv
<1> QED
  BY <1>1, <1>2, <1>3, <1>4, <1>5, <1>6, <1>7, <1>8, <1>9, <1>10 DEF Next, Fires, Save, Mode

(* What a node said survives a stop at any step of its loop, as long as    *)
(* the sync of a directory does not fail unseen (save_durable comes before *)
(* the outputs, load_durable takes up any prefix of the keys).             *)
THEOREM PromisesAreKept == ASSUME Silent = FALSE PROVE Spec => []PromisesKept
<1>1. IInv => PromisesKept
  BY DEF IInv, PromisesKept
<1>2. IInv /\ [Next]_vars => IInv'
  BY IInvStep
<1> QED
  BY <1>1, <1>2, IInvInit, PTL DEF Spec

(* One vote in a term, over all the processes a node has been, although    *)
(* for whom it voted is not on disk (on_start_join, saw_term).             *)
THEOREM VotesOnce == ASSUME Silent = FALSE PROVE Spec => []OneVote
<1>1. IInv => OneVote
  BY DEF IInv
<1>2. IInv /\ [Next]_vars => IInv'
  BY IInvStep
<1> QED
  BY <1>1, <1>2, IInvInit, PTL DEF Spec
=============================================================================
