------------------------------ MODULE Runtime ------------------------------
(***************************************************************************)
(* The loop that runs a node's coordinator (src/src/cluster/runtime.rs):   *)
(* it hands over one input, writes what changed to disk one file at a      *)
(* time, and only then sends what came out.  A save that fails leaves the  *)
(* node ahead of its disk and mute; its timers bring it back.              *)
(*                                                                         *)
(* What the coordinator does with an input is reduced to what it persists, *)
(* promises and arms; Coordination has the rest.  A cluster state is its   *)
(* term and version.                                                       *)
(***************************************************************************)
EXTENDS Integers, Sequences, FiniteSets

CONSTANTS
    Peer,               \* nodes that ask this one for its vote
    MaxTerm, MaxVersion, MaxCrashes, MaxFaults, \* bounds
    Silent              \* whether the sync of a directory may fail

ASSUME RuntimeAssumption ==
    /\ {MaxTerm, MaxVersion, MaxCrashes, MaxFaults} \subseteq Nat
    /\ Silent \in BOOLEAN

VARIABLES
    mem,      \* the coordinator: current_term, accepted, committed, mode
    durable,  \* the entries it has asked to keep
    written,  \* what the loop believes is on disk
    disk,     \* what a new process would read
    forced,   \* what would be left if the machine stopped
    out,      \* outputs of the input in hand: a vote, a state accepted, timers
    saving,   \* the key to be saved next; 0: no input in hand
    mute,     \* the last save failed
    sent,     \* what went out: votes, the freshest state accepted and the freshest shown
    timers,   \* armed
    broken,   \* writes fail for now
    crashes, faults

vars == <<mem, durable, written, disk, forced, out, saving, mute, sent, timers, broken,
          crashes, faults>>
storage == <<written, disk, forced>>
counts == <<crashes, faults>>

State == [term : 0 .. MaxTerm, version : 0 .. MaxVersion]
Zero == [term |-> 0, version |-> 0]
Nothing == [vote |-> {}, accepted |-> Zero, timers |-> {}]

(* DURABLE_KEYS, in the order they are written *)
Keys == <<"committed", "accepted", "term">>
Key == {"committed", "accepted", "term"}

Fresher(a, b) == a.term > b.term \/ (a.term = b.term /\ a.version > b.version)

(* load_durable and Input::Start: what a process makes of the files. *)
Load(d) ==
    LET accepted == IF Fresher(d.accepted, d.committed) THEN d.accepted ELSE d.committed
    IN  [term |-> IF d.term > accepted.term THEN d.term ELSE accepted.term,
         accepted |-> accepted, committed |-> d.committed, mode |-> "candidate"]

----------------------------------------------------------------------------
(* handle: one input.  Every mode keeps one timer going: discovery or the  *)
(* check of the manager.                                                   *)

Handles(m, d, o) ==
    /\ saving = 0 /\ saving' = 1
    /\ mem' = m /\ durable' = d /\ out' = o
    /\ UNCHANGED <<storage, mute, sent, broken, counts>>

Arms(m) == IF m.mode = mem.mode THEN {} ELSE {m.mode}

(* START_JOIN: move to the term, and vote for who asked. *)
OnStartJoin(p, t) ==
    LET m == [mem EXCEPT !.term = t, !.mode = "candidate"] IN
    /\ t > mem.term
    /\ Handles(m, [durable EXCEPT !.term = t],
               [Nothing EXCEPT !.vote = {[term |-> t, to |-> p]}, !.timers = Arms(m)])
    /\ UNCHANGED timers

(* PUBLISH: a state of this term, newer than the one accepted. *)
OnPublish(s) ==
    LET m == [mem EXCEPT !.accepted = s, !.mode = "follower"] IN
    /\ s.term = mem.term /\ (s.term = mem.accepted.term => s.version > mem.accepted.version)
    /\ Handles(m, [durable EXCEPT !.accepted = s],
               [Nothing EXCEPT !.accepted = s, !.timers = Arms(m)])
    /\ UNCHANGED timers

(* apply_committed *)
Commits(s) ==
    IF ~ Fresher(s, mem.committed) THEN [m |-> mem, d |-> durable]
    ELSE LET newer == Fresher(s, mem.accepted) IN
         [m |-> [mem EXCEPT !.committed = s, !.accepted = IF newer THEN s ELSE @],
          d |-> [durable EXCEPT !.committed = s, !.accepted = IF newer THEN s ELSE @]]

(* COMMIT of the state accepted in this term. *)
OnCommit ==
    /\ mem.accepted.term = mem.term
    /\ Handles(Commits(mem.accepted).m, Commits(mem.accepted).d, Nothing)
    /\ UNCHANGED timers

(* The answer to a join: the manager's committed state. *)
OnJoinResponse(s) ==
    LET m == [Commits(s).m EXCEPT !.mode = "follower"] IN
    /\ s.term = mem.term
    /\ Handles(m, Commits(s).d, [Nothing EXCEPT !.timers = Arms(m)])
    /\ UNCHANGED timers

(* A timer that fires in its mode asks around, and is armed again; a       *)
(* follower that misses its manager starts to look for another.            *)
OnTimer(t) ==
    /\ t \in timers /\ timers' = timers \ {t}
    /\ \E next \in {mem.mode, "candidate"} :
         IF t # mem.mode THEN Handles(mem, durable, Nothing)
         ELSE Handles([mem EXCEPT !.mode = next], durable, [Nothing EXCEPT !.timers = {next}])

----------------------------------------------------------------------------
(* save_durable, a key at a time: one that is as it was is passed over, a  *)
(* write that fails may have replaced the file or not and ends the save.   *)
Pass ==
    /\ saving \in DOMAIN Keys /\ written[Keys[saving]] = durable[Keys[saving]]
    /\ saving' = saving + 1
    /\ UNCHANGED <<mem, durable, storage, out, mute, sent, timers, broken, counts>>

(* Mutant: a file counts as written before it is. *)
WriteFirst(ok, sync) ==
    LET k == Keys[saving] IN
    /\ saving \in DOMAIN Keys /\ written[k] # durable[k] /\ ok = ~ broken
    /\ written' = [written EXCEPT ![k] = durable[k]]
    /\ disk' = IF ok THEN [disk EXCEPT ![k] = durable[k]] ELSE disk
    /\ forced' = disk'
    /\ saving' = IF ok THEN saving + 1 ELSE 4
    /\ mute' = ~ ok
    /\ UNCHANGED <<mem, durable, out, sent, timers, broken, counts>>

(* write_atomic: the file is synced, renamed, and its directory synced;    *)
(* what the last of these says is not looked at                            *)
Write(ok, sync) ==
    LET k == Keys[saving] IN
    /\ saving \in DOMAIN Keys /\ written[k] # durable[k] /\ ok = ~ broken
    /\ sync \/ Silent
    /\ disk' = [disk EXCEPT ![k] = durable[k]] \/ (~ ok /\ disk' = disk)
    /\ written' = IF ok THEN [written EXCEPT ![k] = durable[k]] ELSE written
    /\ forced' = IF sync THEN [forced EXCEPT ![k] = disk'[k]] ELSE forced
    /\ saving' = IF ok THEN saving + 1 ELSE 4
    /\ mute' = ~ ok
    /\ UNCHANGED <<mem, durable, out, sent, timers, broken, counts>>

Freshest(a, b) == IF Fresher(a, b) THEN a ELSE b

(* What is out once the outputs are, with shared.state, which everyone on  *)
(* the node reads.                                                         *)
Said == [votes |-> sent.votes \cup out.vote, accepted |-> Freshest(out.accepted, sent.accepted),
         shown |-> Freshest(mem.committed, sent.shown)]

(* Mutant: a node that could not write speaks. *)
SpeakAnyway ==
    /\ saving = 4 /\ saving' = 0 /\ out' = Nothing
    /\ timers' = timers \cup out.timers
    /\ sent' = Said
    /\ UNCHANGED <<mem, durable, storage, mute, broken, counts>>

(* Mutant: a node that could not write forgets its timers too. *)
SpeakOrForget ==
    /\ saving = 4 /\ saving' = 0 /\ out' = Nothing
    /\ timers' = IF mute THEN timers ELSE timers \cup out.timers
    /\ sent' = IF mute THEN sent ELSE Said
    /\ UNCHANGED <<mem, durable, storage, mute, broken, counts>>

(* The outputs: a node that could not write only arms its timers. *)
Speak ==
    /\ saving = 4 /\ saving' = 0 /\ out' = Nothing
    /\ timers' = timers \cup out.timers
    /\ sent' = IF mute THEN sent ELSE Said
    /\ UNCHANGED <<mem, durable, storage, mute, broken, counts>>

----------------------------------------------------------------------------
(* The process stops, at any step, and starts again from the files; when   *)
(* the machine stops with it, from what was forced.                        *)
Restart(d) ==
    /\ crashes < MaxCrashes /\ crashes' = crashes + 1
    /\ disk' = d /\ forced' = d /\ written' = d /\ durable' = d
    /\ mem' = Load(d)
    /\ out' = [Nothing EXCEPT !.timers = {"candidate"}]
    /\ saving' = 1 /\ mute' = FALSE /\ timers' = {}
    /\ UNCHANGED <<sent, broken, faults>>

Breaks ==
    /\ ~ broken /\ faults < MaxFaults
    /\ broken' = TRUE /\ faults' = faults + 1
    /\ UNCHANGED <<mem, durable, storage, out, saving, mute, sent, timers, crashes>>

Mends ==
    /\ broken /\ broken' = FALSE
    /\ UNCHANGED <<mem, durable, storage, out, saving, mute, sent, timers, counts>>

Init ==
    /\ disk = [committed |-> Zero, accepted |-> Zero, term |-> 0]
    /\ forced = disk /\ written = disk /\ durable = disk
    /\ mem = Load(disk)
    /\ out = [Nothing EXCEPT !.timers = {"candidate"}]
    /\ saving = 1 /\ mute = FALSE /\ timers = {}
    /\ sent = [votes |-> {}, accepted |-> Zero, shown |-> Zero] /\ broken = FALSE /\ crashes = 0 /\ faults = 0

Fires == \E t \in {"candidate", "follower"} : OnTimer(t)

Save == Pass \/ \E ok, sync \in BOOLEAN : Write(ok, sync)

Next ==
    \/ \E p \in Peer, t \in 1 .. MaxTerm : OnStartJoin(p, t)
    \/ \E s \in State : s.term > 0 /\ s.version > 0 /\ (OnPublish(s) \/ OnJoinResponse(s))
    \/ OnCommit
    \/ Fires \/ Save \/ Speak
    \/ Restart(disk) \/ Restart(forced) \/ Breaks \/ Mends

(* The loop goes on, and timers fire. *)
Fairness == WF_vars(Save) /\ WF_vars(Speak) /\ WF_vars(Fires)

Spec == Init /\ [][Next]_vars
FairSpec == Spec /\ Fairness
----------------------------------------------------------------------------
Vote == [term : 1 .. MaxTerm, to : Peer]
Files == [committed : State, accepted : State, term : 0 .. MaxTerm]
Mode == {"candidate", "follower"}
Memory == [term : 0 .. MaxTerm, accepted : State, committed : State, mode : Mode]
Outputs == [vote : SUBSET Vote, accepted : State, timers : SUBSET Mode]

(* Types: the files, the entries and the outputs are what handle makes.    *)
TypeOK ==
    /\ mem \in Memory
    /\ durable \in Files /\ written \in Files /\ disk \in Files /\ forced \in Files
    /\ out \in Outputs
    /\ sent \in [votes : SUBSET Vote, accepted : State, shown : State]
    /\ timers \subseteq Mode
    /\ saving \in 0 .. 4 /\ mute \in BOOLEAN /\ broken \in BOOLEAN
    /\ crashes \in Nat /\ faults \in Nat

(* Whether a process that starts from the files d stands by all that went out. *)
Stands(d) ==
    /\ \A v \in sent.votes : Load(d).term >= v.term
    /\ ~ Fresher(sent.accepted, Load(d).accepted)
    /\ ~ Fresher(sent.shown, Load(d).committed)

(* What a node has said, and the state it shows, it would say again if it  *)
(* or its machine stopped now, whichever files the last save got to: the   *)
(* saves come before the outputs, in an order load_durable can take up     *)
(* anywhere (save_durable, the loop of start, write_atomic).               *)
PromisesKept == Stands(disk) /\ Stands(forced)

(* A node votes for one node in a term, over any number of processes: the  *)
(* term it has voted in is on disk before the vote goes out, although for  *)
(* whom it voted is nowhere (on_start_join, save_durable).                 *)
OneVote ==
    \A v, w \in sent.votes : v.term = w.term => v.to = w.to

(* A node whose disk works again speaks again, without being spoken to:    *)
(* the timers of an input whose save failed are armed all the same (the    *)
(* loop of start).                                                         *)
SpeaksAgain == <>[](~ broken) => []<>(~ mute)
=============================================================================
