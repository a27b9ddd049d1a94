---------------------------- MODULE Coordination ----------------------------
(***************************************************************************)
(* Cluster coordination: src/src/cluster/coordinator.rs.                   *)
(*                                                                         *)
(* Every node runs one Coordinator.  Coordinators elect a cluster manager  *)
(* for a term, the manager publishes cluster states, a state is committed  *)
(* once a quorum of both voting configurations it carries has accepted it, *)
(* and the voting configuration follows the nodes that join and leave.     *)
(*                                                                         *)
(* The code handles one input at a time (Coordinator::handle) and the      *)
(* runtime saves what is durable before it sends what the handler put out, *)
(* so a handler is one step: it turns the node's record into the next one  *)
(* and collects what it sends in the field out.  The operators below are   *)
(* the methods of Coordinator, each from a record to a record, and Step    *)
(* delivers the result.                                                    *)
(*                                                                         *)
(* msgs only grows: a message in it may be delivered at any later time,    *)
(* any number of times, in any order, or never.                            *)
(***************************************************************************)
EXTENDS Integers, FiniteSets

CONSTANTS
    Node,           \* the nodes
    Id,             \* Id[n]: the place of n's id in the order of ids
    Eligible,       \* the nodes that are cluster-manager eligible
    InitialConfig,  \* cluster.initial_cluster_manager_nodes
    AutoShrink,     \* cluster.auto_shrink_voting_configuration
    ExclusionSets,  \* the voting exclusions an operator may ask for
    LateAnswers,    \* may an answer to a process reach the one that replaced it
    None,           \* Rust's None
    MaxTerm,        \* bound: terms an election may start
    Scopes          \* the bounds and environments to look at (see Budgets)

ASSUME NodeAssumption ==
    /\ IsFiniteSet(Node)
    /\ Id \in [Node -> Nat]
    /\ \A n, m \in Node : Id[n] = Id[m] => n = m
    /\ None \notin Node
ASSUME ConfigAssumption ==
    /\ Eligible \subseteq Node
    /\ InitialConfig \subseteq Eligible
    /\ AutoShrink \in BOOLEAN
    /\ LateAnswers \in BOOLEAN
    /\ ExclusionSets \subseteq SUBSET Node
    /\ {} \in ExclusionSets

(* What the environment of a behaviour may do, and how far it goes.         *)
Budgets ==
    [leaving : SUBSET Node,    \* the nodes that may leave or stop answering checks
     excluding : SUBSET (SUBSET Node), \* the members of ExclusionSets asked for
     standing : SUBSET Node,   \* the nodes whose election timer may fire
     answered : SUBSET Node,   \* the nodes the answers to whose joins are not lost
     refusing : SUBSET Node,   \* the nodes whose refusals of a state are not lost
     term : Nat,               \* the last term an election may start
     version : Nat,            \* the last version a manager may publish
     changed : Nat,            \* the version up to which metadata changes
     restarts : Nat]           \* the restarts left, all nodes together

ASSUME BoundAssumption ==
    /\ MaxTerm \in Nat
    /\ Scopes \subseteq Budgets

VARIABLES
    node,      \* node[n]: the Coordinator of node n
    msgs,      \* everything ever sent, and the notes of elections and commits
    budget     \* what may still happen

vars == <<node, msgs, budget>>

-----------------------------------------------------------------------------
(* The cluster state, as far as coordination looks at it.  A state is named *)
(* by the term, manager and version it was published under (state_uuid);    *)
(* lineage holds the names of the states it was built from and its own:     *)
(* next() clones the state before it, so this is the content it carries on. *)

Name(term, manager, version) ==
    [term |-> term, manager |-> manager, version |-> version]

Names == [term : Nat, manager : Node, version : Nat]

ClusterState ==
    [term : Nat, version : Nat, manager : Node \cup {None}, nodes : SUBSET Node,
     last_committed_config : SUBSET Node, last_accepted_config : SUBSET Node,
     lineage : SUBSET Names]

EmptyState ==
    [term |-> 0, version |-> 0, manager |-> None, nodes |-> {},
     last_committed_config |-> {}, last_accepted_config |-> {}, lineage |-> {}]

NextState(s) == [s EXCEPT !.version = @ + 1]

(* (term, version) ordering of states. *)
Fresher(aTerm, aVersion, bTerm, bVersion) ==
    aTerm > bTerm \/ (aTerm = bTerm /\ aVersion > bVersion)

FresherState(a, b) == Fresher(a.term, a.version, b.term, b.version)

\* Mutant: half the configuration, rounded down, is enough.
HasQuorumRoundedDown(config, votes) ==
    config # {} /\ Cardinality(config \cap votes) >= Cardinality(config) \div 2

HasQuorum(config, votes) ==
    /\ config # {}
    /\ Cardinality(config \cap votes) * 2 > Cardinality(config)

\* Mutant: only the committed configuration is asked.
ElectionQuorumOfCommitted(s, votes) == HasQuorum(s.last_committed_config, votes)

ElectionQuorum(s, votes) ==
    /\ HasQuorum(s.last_committed_config, votes)
    /\ HasQuorum(s.last_accepted_config, votes)

-----------------------------------------------------------------------------
(* What nodes send.  A Join here is one that carries a vote.  A vote is     *)
(* sent again while its sender looks for a manager (join_body, last_join):  *)
(* that is the first one delivered again, less strict about what its sender *)
(* has accepted since.  Joins without a vote, checks and refusals carry     *)
(* nothing the receiver could not learn from what is kept here, and are     *)
(* actions of their own further down.                                       *)
(* LeaderNote and CommitNote are the notes "leader term=" and "committed t  *)
(* v" that the simulation tests read.                                       *)

Messages ==
    [type : {"StartJoin"}, from : Node, term : Nat]
    \cup [type : {"Join"}, from : Node, to : Node, term : Nat,
          accepted_term : Nat, accepted_version : Nat]
    \cup [type : {"JoinResponse"}, from : Node, to : Node, state : ClusterState]
    \cup [type : {"Publish"}, from : Node, run : Nat, rid : Nat, state : ClusterState]
    \cup [type : {"PublishResponse"}, from : Node, to : Node, run : Nat, rid : Nat,
          term : Nat, version : Nat]
    \cup [type : {"Commit"}, from : Node, to : Node, term : Nat, version : Nat]
    \cup [type : {"LeaderNote"}, from : Node, term : Nat]
    \cup [type : {"CommitNote"}, from : Node, state : ClusterState]

StartJoin(n, term) == [type |-> "StartJoin", from |-> n, term |-> term]
JoinVote(n, to, r) ==
    [type |-> "Join", from |-> n, to |-> to, term |-> r.term,
     accepted_term |-> r.accepted.term, accepted_version |-> r.accepted.version]
JoinResponse(n, to, s) ==
    [type |-> "JoinResponse", from |-> n, to |-> to, state |-> s]
CommitRequest(n, to, term, version) ==
    [type |-> "Commit", from |-> n, to |-> to, term |-> term, version |-> version]

(* One Coordinator.  run tells the processes of a node apart: it is the     *)
(* ephemeral id of the node, a new one for every start.                     *)
Publication == [state : ClusterState, rid : Nat, acked : SUBSET Node]

NodeState ==
    [term : Nat, mode : {"Candidate", "Leader", "Follower"}, leader : Node \cup {None},
     accepted : ClusterState, committed : ClusterState,
     join_votes : SUBSET Node,
     publishing : Publication \cup {None}, waiting_joins : SUBSET Node,
     pending_removals : SUBSET Node, lagging : SUBSET Node, republish_wanted : BOOLEAN,
     exclusions : SUBSET Node, next_request : Nat, run : Nat,
     out : SUBSET Messages]

ASSUME NoneAssumption == None \notin Publication

-----------------------------------------------------------------------------
(* Being a candidate.                                                       *)

BecomeCandidate(r) ==
    [r EXCEPT !.mode = "Candidate", !.leader = None, !.publishing = None]

\* Mutant: a node that moves to a later term keeps its role.
SawTermInRole(r, term) ==
    IF term <= r.term THEN r ELSE [r EXCEPT !.term = term, !.join_votes = {}]

SawTerm(r, term) ==
    IF term <= r.term THEN r
    ELSE LET moved == [r EXCEPT !.term = term, !.join_votes = {}]
         IN  IF r.mode # "Candidate" THEN BecomeCandidate(moved) ELSE moved

(* The first voting configuration, once every node named for it is known.   *)
CanBootstrap(n, r) == r.accepted.last_accepted_config = {} /\ n \in InitialConfig

SetConfig(s) ==
    [s EXCEPT !.last_accepted_config = InitialConfig,
              !.last_committed_config = InitialConfig]

Bootstrapped(r) ==
    [r EXCEPT !.accepted = SetConfig(@), !.committed = SetConfig(@)]

-----------------------------------------------------------------------------
(* Being the manager.                                                       *)

Odd(k) == IF k % 2 = 0 /\ k > 0 THEN k - 1 ELSE k

AtLeast(a, b) == IF a > b THEN a ELSE b

\* Mutant: no minimum, the configuration follows the live nodes.
ReconfigureWithoutMinimum(s, exclusions) ==
    LET current == s.last_committed_config
        live    == (s.nodes \cap Eligible) \ exclusions
        kept    == current \ exclusions
        target  == Odd(Cardinality(live))
        rank(x) == IF x \notin live THEN 2 ELSE IF x \in current THEN 0 ELSE 1
        before(x, y) == rank(x) < rank(y) \/ (rank(x) = rank(y) /\ Id[x] < Id[y])
        pool    == live \cup kept
        new     == {x \in pool : Cardinality({y \in pool : before(y, x)}) < target}
    IN  IF HasQuorum(new, live) THEN new ELSE current

(* The configuration the nodes call for: members that are alive first, then *)
(* live nodes that are not members, then members that are not alive, each   *)
(* by id, as many as the target asks for.                                   *)
Reconfigure(s, exclusions) ==
    LET current == s.last_committed_config
        live    == (s.nodes \cap Eligible) \ exclusions
        kept    == current \ exclusions
        minimum == IF AutoShrink THEN IF Cardinality(kept) < 3 THEN 1 ELSE 3
                                 ELSE Cardinality(kept)
        target  == AtLeast(Odd(Cardinality(live)), minimum)
        rank(x) == IF x \notin live THEN 2 ELSE IF x \in current THEN 0 ELSE 1
        before(x, y) == rank(x) < rank(y) \/ (rank(x) = rank(y) /\ Id[x] < Id[y])
        pool    == live \cup kept
        new     == {x \in pool : Cardinality({y \in pool : before(y, x)}) < target}
    IN  IF HasQuorum(new, live) THEN new ELSE current

(* publish, up to the check whether this node's own word is a quorum.       *)
Send(n, r, s) ==
    LET state == [s EXCEPT !.term = r.term, !.manager = n,
                           !.lineage = @ \cup {Name(r.term, n, s.version)}]
    IN  [r EXCEPT !.publishing = [state |-> state, rid |-> r.next_request, acked |-> {n}],
                  !.accepted = state,
                  !.next_request = @ + 1,
                  !.out = @ \cup {[type |-> "Publish", from |-> n, run |-> r.run,
                                   rid |-> r.next_request, state |-> state]}]

ApplyCommitted(r, s) ==
    IF ~FresherState(s, r.committed) THEN r
    ELSE LET state == [s EXCEPT !.last_committed_config = s.last_accepted_config]
         IN  [r EXCEPT !.accepted = IF FresherState(state, @) THEN state ELSE @,
                       !.committed = state]

(* commit_publication, up to the next publication.                          *)
Commit(n, r) ==
    LET p == r.publishing
        told == (p.state.nodes \cap p.acked) \ {n}
        sent == {CommitRequest(n, m, p.state.term, p.state.version) : m \in told}
                \cup {[type |-> "CommitNote", from |-> n, state |-> p.state]}
    IN  ApplyCommitted([r EXCEPT !.publishing = None, !.lagging = p.state.nodes \ p.acked,
                                 !.out = @ \cup sent], p.state)

(* next_publication at a manager with nothing in flight, up to the check in *)
(* publish.                                                                 *)
Build(n, r) ==
    LET joined  == r.committed.nodes \cup r.waiting_joins
        s       == [NextState(r.committed) EXCEPT !.nodes = joined \ r.pending_removals]
        config  == Reconfigure(s, r.exclusions)
        changed == \/ r.waiting_joins # {}
                   \/ r.republish_wanted
                   \/ joined \cap r.pending_removals # {}
                   \/ config # s.last_accepted_config
        taken   == [r EXCEPT !.waiting_joins = {}, !.pending_removals = {}]
    IN  IF ~changed THEN taken
        ELSE Send(n, [taken EXCEPT !.republish_wanted = FALSE],
                     [s EXCEPT !.last_accepted_config = config])

\* Mutant: a commit does not look for what waited meanwhile.
RoundWithoutNext(n, r) ==
    IF r.publishing # None /\ ElectionQuorum(r.publishing.state, r.publishing.acked)
    THEN Commit(n, r) ELSE r

(* publish commits at once when this node alone is a quorum, and then there *)
(* may be something more to publish: the calls publish ->                   *)
(* commit_publication -> next_publication -> publish, as often as they can  *)
(* go round.  Three rounds are enough (NothingLeftToCommit).                *)
Round(n, r) ==
    IF r.publishing # None /\ ElectionQuorum(r.publishing.state, r.publishing.acked)
    THEN Build(n, Commit(n, r)) ELSE r

Settle(n, r) == Round(n, Round(n, Round(n, r)))

NextPublication(n, r) ==
    IF r.mode # "Leader" \/ r.publishing # None THEN r ELSE Settle(n, Build(n, r))

BecomeLeader(n, r) ==
    LET s == [NextState(r.accepted) EXCEPT !.nodes = @ \cup r.join_votes \cup {n}]
        leading == [r EXCEPT !.mode = "Leader", !.leader = n, !.join_votes = {},
                             !.lagging = {}, !.out = @ \cup {[type |-> "LeaderNote", from |-> n,
                                              term |-> r.term]}]
    IN  Settle(n, Send(n, leading, s))

(* A join at a manager: answered with the committed state if that has the   *)
(* node, in this very process of it, and the node is not lagging; put into  *)
(* the next state if not.                                                   *)
JoinAtLeader(n, r, from, sameProcess) ==
    LET heard == [r EXCEPT !.pending_removals = @ \ {from}]
    IN  IF from \in r.committed.nodes \ r.lagging /\ sameProcess
        THEN [heard EXCEPT !.out = @ \cup {JoinResponse(n, m, r.committed) :
                                               m \in {from} \cap budget.answered}]
        ELSE NextPublication(n, [heard EXCEPT !.lagging = @ \ {from},
                                              !.waiting_joins = @ \cup {from}])

\* Mutant: a vote of an earlier term counts.
OnJoinOfAnyTerm(n, was, from, term, acceptedTerm, acceptedVersion, sameProcess) ==
    LET r     == SawTerm(was, term)
        voted == [r EXCEPT !.join_votes = @ \cup {from}]
    IN  IF \/ r.mode # "Candidate"
           \/ Fresher(acceptedTerm, acceptedVersion, r.accepted.term, r.accepted.version)
        THEN r
        ELSE IF n \in Eligible /\ ElectionQuorum(r.accepted, voted.join_votes \cup {n})
             THEN BecomeLeader(n, voted) ELSE voted

\* Mutant: the vote of a node that accepted a fresher state counts.
OnJoinOfFresher(n, was, from, term, acceptedTerm, acceptedVersion, sameProcess) ==
    LET r     == SawTerm(was, term)
        voted == [r EXCEPT !.join_votes = @ \cup {from}]
    IN  IF term < r.term \/ r.mode # "Candidate" THEN r
        ELSE IF n \in Eligible /\ ElectionQuorum(r.accepted, voted.join_votes \cup {n})
             THEN BecomeLeader(n, voted) ELSE voted

(* on_join, for a join that carries a vote.                                 *)
OnJoin(n, was, from, term, acceptedTerm, acceptedVersion, sameProcess) ==
    LET r     == SawTerm(was, term)
        voted == [r EXCEPT !.join_votes = @ \cup {from}]
    IN  IF \/ term < r.term
           \/ Fresher(acceptedTerm, acceptedVersion, r.accepted.term, r.accepted.version)
        THEN r
        ELSE CASE r.mode = "Candidate" ->
                    IF n \in Eligible /\ ElectionQuorum(r.accepted, voted.join_votes \cup {n})
                    THEN BecomeLeader(n, voted) ELSE voted
               [] r.mode = "Leader" ->
                    IF from = n THEN r ELSE JoinAtLeader(n, r, from, sameProcess)
               [] OTHER -> r

(* on_start_join: one vote per node and term.                               *)
OnStartJoin(n, was, from, term) ==
    LET r == SawTerm(was, term)
    IN  IF from = n
        THEN OnJoin(n, r, n, term, r.accepted.term, r.accepted.version, TRUE)
        ELSE [r EXCEPT !.out = @ \cup {JoinVote(n, from, r)}]

-----------------------------------------------------------------------------
(* A process starts from what is on disk.                                   *)

\* Mutant: what was accepted and not committed is not read back.
StartFromCommitted(n, term, accepted, committed, run) ==
    LET r == [term |-> AtLeast(term, committed.term), mode |-> "Candidate", leader |-> None,
              accepted |-> committed, committed |-> committed,
              join_votes |-> {}, publishing |-> None,
              waiting_joins |-> {}, pending_removals |-> {}, lagging |-> {},
              republish_wanted |-> FALSE,
              exclusions |-> {}, next_request |-> 1, run |-> run, out |-> {}]
    IN  IF CanBootstrap(n, r) /\ InitialConfig = {n} THEN Bootstrapped(r) ELSE r

Start(n, term, accepted, committed, run) ==
    LET kept == IF FresherState(accepted, committed) THEN accepted ELSE committed
        r == [term |-> AtLeast(term, kept.term), mode |-> "Candidate", leader |-> None,
              accepted |-> kept, committed |-> committed,
              join_votes |-> {}, publishing |-> None,
              waiting_joins |-> {}, pending_removals |-> {}, lagging |-> {},
              republish_wanted |-> FALSE,
              exclusions |-> {}, next_request |-> 1, run |-> run, out |-> {}]
    IN  IF CanBootstrap(n, r) /\ InitialConfig = {n} THEN Bootstrapped(r) ELSE r

Init ==
    /\ node = [n \in Node |-> Start(n, 0, EmptyState, EmptyState, 0)]
    /\ msgs = {}
    /\ budget \in Scopes

(* The end of a handler: the record is the node's, what it sent is sent.    *)
Step(n, r) ==
    /\ r.accepted.version <= budget.version
    /\ node' = [node EXCEPT ![n] = [r EXCEPT !.out = {}]]
    /\ msgs' = msgs \cup r.out
    /\ UNCHANGED budget

Sent(type) == {m \in msgs : m.type = type}

(* The terms nodes are or were in: what a refusal or a check may name.      *)
Terms == {m.term : m \in Sent("StartJoin")}

-----------------------------------------------------------------------------
(* Actions: timers.                                                         *)

(* Timer(T_DISCOVER) and Peer: the named nodes are all known.               *)
Bootstrap(n) ==
    /\ CanBootstrap(n, node[n])
    /\ Step(n, Bootstrapped(node[n]))

(* Timer(T_ELECTION) or the last answer of a pre-vote round.  Who answered  *)
(* the round, and the highest term it heard of, are left open.              *)
StartElection(n, term) ==
    /\ node[n].mode = "Candidate"
    /\ n \in Eligible \cap budget.standing
    /\ node[n].accepted.last_accepted_config # {}
    /\ term > node[n].term /\ term <= budget.term
    /\ \A t \in 1 .. term - 1 : t <= node[n].term \/ \E u \in Terms : u >= t
    /\ LET r == [node[n] EXCEPT !.out = {StartJoin(n, term)}]
       IN  Step(n, OnStartJoin(n, r, n, term))

\* Mutant: a publication that timed out is dropped, the manager stays.
PublishTimeoutStaying(n) ==
    /\ node[n].mode = "Leader"
    /\ node[n].publishing # None
    /\ Step(n, [node[n] EXCEPT !.publishing = None])

PublishTimeout(n) ==
    /\ node[n].mode = "Leader"
    /\ node[n].publishing # None
    /\ Step(n, BecomeCandidate(node[n]))

(* Timer(T_FOLLOWER_CHECK): nodes that missed too many checks are removed.  *)
FollowerCheckTimer(n, gone) ==
    /\ node[n].mode = "Leader"
    /\ gone \subseteq (node[n].accepted.nodes \cap budget.leaving) \ {n}
    /\ Step(n, NextPublication(n, [node[n] EXCEPT !.pending_removals = @ \cup gone]))

(* Timer(T_LEADER_CHECK) with no retries left, or the followed node's       *)
(* refusal of a check in this term.                                         *)
LoseLeader(n) ==
    /\ node[n].mode = "Follower"
    /\ Step(n, BecomeCandidate(node[n]))

(* Timer(T_METADATA): metadata or exclusions moved.  Timer(T_ALLOCATE),     *)
(* METADATA_REPORT, REROUTE and shard events ask for a publication alike.   *)
Republish(n, exclusions) ==
    /\ node[n].mode = "Leader"
    /\ node[n].accepted.version < budget.changed /\ exclusions \in budget.excluding
    /\ Step(n, NextPublication(n, [node[n] EXCEPT !.republish_wanted = TRUE,
                                                  !.exclusions = exclusions]))

Restart(n) ==
    /\ budget.restarts > 0
    /\ node' = [node EXCEPT ![n] = Start(n, @.term, @.accepted, @.committed, @.run + 1)]
    /\ budget' = [budget EXCEPT !.restarts = @ - 1]
    /\ UNCHANGED msgs

-----------------------------------------------------------------------------
(* Actions: messages.                                                       *)

OnStartJoinRequest(n, m) ==
    /\ m.type = "StartJoin"
    /\ m.from # n
    /\ m.term > node[n].term
    /\ Step(n, OnStartJoin(n, node[n], m.from, m.term))

(* Is the process that sent a join the one the committed state lists?  That *)
(* it is not takes a restart of the node; which of its processes is listed  *)
(* is left open.                                                            *)
MayBeSame(from) == IF node[from].run = 0 THEN {TRUE} ELSE BOOLEAN

OnJoinRequest(n, m) ==
    /\ m.type = "Join"
    /\ m.to = n
    /\ \E same \in MayBeSame(m.from) :
          Step(n, OnJoin(n, node[n], m.from, m.term, m.accepted_term, m.accepted_version,
                         same))

(* A join without a vote reaches a manager of the same term.                *)
OnVotelessJoin(n, from) ==
    /\ node[n].mode = "Leader"
    /\ from # n
    /\ node[from].term >= node[n].term
    /\ \E same \in MayBeSame(from) : Step(n, JoinAtLeader(n, node[n], from, same))

(* The manager's answer to a join: its committed state.                     *)
OnJoinResponse(n, m) ==
    /\ m.type = "JoinResponse"
    /\ m.to = n
    /\ m.state.term = node[n].term
    /\ Step(n, ApplyCommitted([node[n] EXCEPT !.mode = "Follower", !.leader = m.from],
                              m.state))

OnPublishRequest(n, m) ==
    /\ m.type = "Publish"
    /\ n \in m.state.nodes \ {m.from}
    /\ m.state.term = node[n].term
    /\ ~(m.state.term = node[n].accepted.term /\ m.state.version <= node[n].accepted.version)
    /\ Step(n, [node[n] EXCEPT
                  !.accepted = m.state, !.mode = "Follower", !.leader = m.state.manager,
                  !.out = {[type |-> "PublishResponse", from |-> n, to |-> m.from,
                            run |-> m.run, rid |-> m.rid,
                            term |-> m.state.term, version |-> m.state.version]}])

\* Mutant: an answer to an earlier publication counts.
OnPublishResponseToAny(n, m) ==
    /\ m.type = "PublishResponse"
    /\ m.to = n
    /\ m.run = node[n].run
    /\ node[n].mode = "Leader"
    /\ node[n].publishing # None
    /\ Step(n, Settle(n, [node[n] EXCEPT !.publishing.acked = @ \cup {m.from}]))

OnPublishResponse(n, m) ==
    LET r == node[n]
        counted == [r EXCEPT !.publishing.acked = @ \cup {m.from}]
        told    == CommitRequest(n, m.from, m.term, m.version)
        matches == r.publishing # None /\ r.publishing.rid = m.rid
        late    == /\ r.publishing = None
                   /\ m.term = r.committed.term
                   /\ m.version = r.committed.version
                   /\ m.from \in r.committed.nodes
    IN  /\ m.type = "PublishResponse"
        /\ m.to = n
        /\ m.run = r.run \/ LateAnswers
        /\ r.mode = "Leader"
        /\ \/ matches /\ Step(n, Settle(n, counted))
           \/ late /\ Step(n, [r EXCEPT !.lagging = @ \ {m.from}, !.out = {told}])

(* A node refused the publication, some time since it was sent: it had not  *)
(* reached the term, or had the state already.  A refusal that names a      *)
(* later term is HearTerm; what it adds to lagging is cleared before that   *)
(* is read again.                                                           *)
OnPublishRefused(n, m, from) ==
    /\ m.type = "Publish"
    /\ m.from = n
    /\ m.run = node[n].run \/ LateAnswers
    /\ from \in (m.state.nodes \cap budget.refusing) \ {n}
    /\ node[n].mode = "Leader"
    /\ Step(n, [node[n] EXCEPT !.lagging = @ \cup {from}])

OnCommitRequest(n, m) ==
    /\ m.type = "Commit"
    /\ m.to = n
    /\ m.term = node[n].term
    /\ m.term = node[n].accepted.term
    /\ m.version = node[n].accepted.version
    /\ Step(n, ApplyCommitted(node[n], node[n].accepted))

(* A manager of the node's term, or of a later one, checks on the nodes it  *)
(* published to.                                                            *)
OnFollowerCheck(n, m) ==
    LET r == SawTerm(node[n], m.state.term)
    IN  /\ m.type = "Publish"
        /\ n \in m.state.nodes \ {m.from}
        /\ m.state.term >= node[n].term
        /\ Step(n, IF r.mode = "Candidate"
                   THEN [r EXCEPT !.mode = "Follower", !.leader = m.from] ELSE r)

(* A refusal, or a join of a later term, names a term this node has not     *)
(* reached.                                                                 *)
HearTerm(n, term) ==
    /\ term > node[n].term
    /\ Step(n, SawTerm(node[n], term))

Leave(n, from) ==
    /\ node[n].mode = "Leader"
    /\ from \in budget.leaving \ {n}
    /\ Step(n, NextPublication(n, [node[n] EXCEPT !.pending_removals = @ \cup {from}]))

-----------------------------------------------------------------------------

Timer(n) ==
    \/ Bootstrap(n)
    \/ \E term \in 1 .. MaxTerm : StartElection(n, term)
    \/ PublishTimeout(n)
    \/ \E gone \in SUBSET Node : FollowerCheckTimer(n, gone)
    \/ LoseLeader(n)
    \/ \E exclusions \in ExclusionSets : Republish(n, exclusions)
    \/ Restart(n)

Receive(n) ==
    \/ \E m \in msgs : OnStartJoinRequest(n, m)
    \/ \E m \in msgs : OnJoinRequest(n, m)
    \/ \E from \in Node : OnVotelessJoin(n, from)
    \/ \E m \in msgs : OnJoinResponse(n, m)
    \/ \E m \in msgs : OnPublishRequest(n, m)
    \/ \E m \in msgs : OnPublishResponse(n, m)
    \/ \E m \in msgs, from \in Node : OnPublishRefused(n, m, from)
    \/ \E m \in msgs : OnCommitRequest(n, m)
    \/ \E m \in msgs : OnFollowerCheck(n, m)
    \/ \E term \in Terms : HearTerm(n, term)
    \/ \E from \in Node : Leave(n, from)

Next == \E n \in Node : Timer(n) \/ Receive(n)

Spec == Init /\ [][Next]_vars

-----------------------------------------------------------------------------
(* Properties.                                                              *)

(* Every node's record and every message has the shape the code gives it,  *)
(* and no handler ends with something left to send.                         *)
TypeOK ==
    /\ node \in [Node -> NodeState]
    /\ \A n \in Node : node[n].out = {}
    /\ msgs \subseteq Messages
    /\ budget \in Budgets

(* "Every term is only ever led by one node" (coordinator.rs:31): whatever  *)
(* votes are delayed, repeated or cast by nodes that restarted since.       *)
OneLeaderPerTerm ==
    \A e, f \in Sent("LeaderNote") : e.term = f.term => e.from = f.from

(* What nodes committed, now or earlier. *)
Committed == {node[n].committed : n \in Node}
             \cup {[m.state EXCEPT !.last_committed_config = m.state.last_accepted_config] :
                      m \in Sent("CommitNote")}

(* "two nodes that committed the same term and version committed the same   *)
(* state" (coordinator.rs:31).                                              *)
SameStateCommitted ==
    \A c, d \in Committed :
        c.term = d.term /\ c.version = d.version /\ c.lineage # {} => c = d

(* A committed state is built on every state committed before it: a manager *)
(* elected later starts from an accepted state, and no election loses what  *)
(* an earlier manager committed.                                            *)
NoCommitLost ==
    \A c, d \in Committed : c.lineage \subseteq d.lineage \/ d.lineage \subseteq c.lineage

(* "commit once a quorum of both configurations has accepted" (publish):    *)
(* a quorum of the nodes holds the committed state, in what it accepted     *)
(* last or in what that was built on, from the commit on.                   *)
CommitHeldByQuorum ==
    \A m \in Sent("CommitNote") :
        ElectionQuorum(m.state, {n \in Node :
            Name(m.state.term, m.state.manager, m.state.version) \in node[n].accepted.lineage})

(* commit_publication and next_publication call each other until a          *)
(* publication waits for others: no manager rests with a publication its    *)
(* answers already are a quorum for.                                        *)
NothingLeftToCommit ==
    \A n \in Node : node[n].publishing # None =>
        ~ElectionQuorum(node[n].publishing.state, node[n].publishing.acked)

(* The committed states c and d with none committed between them.           *)
Consecutive(c, d) ==
    /\ c.lineage \subseteq d.lineage /\ c.lineage # d.lineage
    /\ \A e \in Committed :
        c.lineage \subseteq e.lineage /\ e.lineage \subseteq d.lineage =>
            e.lineage \in {c.lineage, d.lineage}

(* "it changes one step at a time, each step committed by a quorum of the   *)
(* configuration before it and the one after" (coordinator.rs:24), whatever *)
(* the configurations a state itself carries say: reconfigure starts from   *)
(* the committed state, become_leader from the accepted one.                *)
ChangedByBothQuorums ==
    \A c, d \in Committed :
        Consecutive(c, d) /\ c.last_accepted_config # {} =>
            LET holders == {n \in Node : d.lineage \subseteq node[n].accepted.lineage}
            IN  /\ HasQuorum(c.last_accepted_config, holders)
                /\ HasQuorum(d.last_accepted_config, holders)

(* "never below three unless nodes are excluded" (coordinator.rs:24): when  *)
(* members leave, the configuration keeps them rather than go below three,  *)
(* from the first published state on and whoever publishes.                 *)
NeverBelowThree ==
    AutoShrink /\ budget.excluding = {{}} =>
        \A c, d \in Committed :
            /\ c.lineage \subseteq d.lineage /\ d.lineage # {}
            /\ Cardinality(c.last_accepted_config) >= 3
            => Cardinality(d.last_accepted_config) >= 3

(* next_publication publishes while there is "a voting configuration to     *)
(* improve": a manager with nothing in flight has nothing left to improve,  *)
(* whatever joined, left or was excluded while earlier states were in       *)
(* flight.                                                                  *)
ConfigurationSettled ==
    \A n \in Node : node[n].mode = "Leader" /\ node[n].publishing = None =>
        /\ node[n].committed.last_accepted_config =
              Reconfigure(node[n].committed, node[n].exclusions)
        /\ node[n].waiting_joins = {}
        /\ node[n].committed.nodes \cap node[n].pending_removals = {}

(* next_publication builds on the committed state and becomes_leader on the *)
(* accepted one: a manager with nothing in flight has committed what it     *)
(* accepted, so the state it builds next takes up both.                     *)
ManagerBuildsOnWhatItAccepted ==
    \A n \in Node : node[n].mode = "Leader" /\ node[n].publishing = None =>
        node[n].committed.lineage = node[n].accepted.lineage

(* A follower follows the node elected for its term: joins, checks and      *)
(* publications that arrive late never have it follow another.              *)
FollowsTheElected ==
    \A n \in Node : node[n].mode = "Follower" =>
        \E m \in Sent("LeaderNote") : m.from = node[n].leader /\ m.term = node[n].term

(* What a node committed is never taken back, and neither is what it        *)
(* accepted, a restart included: both only move to fresher states.          *)
NothingGoesBack ==
    [][\A n \in Node :
        /\ node[n].committed.lineage \subseteq node'[n].committed.lineage
        /\ ~FresherState(node[n].accepted, node'[n].accepted)
        /\ node[n].term <= node'[n].term]_vars
=============================================================================
