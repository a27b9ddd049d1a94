------------------------------ MODULE Election ------------------------------
(***************************************************************************)
(* How a cluster comes back to a manager (coordinator.rs): a node that     *)
(* lost its manager looks for another, asks for pre-votes, stands, and the *)
(* others join whoever was elected.                                        *)
(*                                                                         *)
(* Coordination keeps only the outcome of discovery and of the pre-vote    *)
(* round; here they are modelled message by message, and what a manager    *)
(* publishes is reduced to the term it is published in.                    *)
(*                                                                         *)
(* There is one place per kind of message, sender and receiver: sending    *)
(* again replaces what has not arrived.  A node that is down loses what is *)
(* sent to it.                                                             *)
(***************************************************************************)
EXTENDS Integers, FiniteSets

CONSTANTS
    Node,            \* the voting configuration, all of them manager-eligible
    None,
    FirstTerms,      \* the terms the nodes may be in when the model starts
    FirstStates,     \* the terms of the states they may have accepted
    MaxTerm,         \* bound: no election for a later term is started
    Away,            \* the nodes that are down when the model starts
    Scopes           \* the mishaps to look at (see ScopeType)

ScopeType ==
    [suspicions : Nat,     \* bound: managers taken for lost that are not
     timeouts : Nat,       \* bound: publications that time out before they are answered
     returning : BOOLEAN]  \* do the nodes that are down come back

ASSUME BoundsAssumption ==
    /\ Cardinality(Node) > 1 /\ 2 * Cardinality(Away) < Cardinality(Node)
    /\ FirstTerms \subseteq Nat /\ FirstStates \subseteq Nat
    /\ MaxTerm \in Nat /\ Scopes \subseteq ScopeType

VARIABLES
    node,        \* the Coordinator of each node
    msgs,        \* messages on their way
    scope,       \* the member of Scopes this behaviour is in
    suspicions,
    timeouts

vars == <<node, msgs, scope, suspicions, timeouts>>

Terms == 0 .. MaxTerm
Kinds == {"PreVote", "PreVoteAnswer", "PreVoteRefusal", "StartJoin", "Join",
          "JoinError", "JoinResponse", "Publish", "PublishAck"}

HasQuorum(votes) == 2 * Cardinality(votes) > Cardinality(Node)

Highest(a, b) == IF a >= b THEN a ELSE b

(* A process as it starts from its disk, a candidate at once. *)
Start(term, accepted) ==
    [mode |-> "Candidate", leader |-> None, term |-> term, accepted |-> accepted,
     max_term_seen |-> term, leader_hint |-> None, asking |-> FALSE, prevotes |-> {},
     join_votes |-> {}, last_join |-> None,
     publishing |-> FALSE, acked |-> {}, lagging |-> {}, waiting_joins |-> {}]

Absent(term, accepted) == [Start(term, accepted) EXCEPT !.mode = "Down"]

Up(n) == node[n].mode # "Down"

(* One manager, and every node that is up follows it in its term.          *)
Settled ==
    \E l \in Node :
        /\ node[l].mode = "Leader" /\ ~node[l].publishing
        /\ \A n \in Node \ {l} :
             Up(n) => /\ node[n].mode = "Follower" /\ node[n].leader = l
                      /\ node[n].term = node[l].term

(* When processes come back or are suspected wrongly in the model.    *)
Quiet == Settled /\ msgs = {}

-----------------------------------------------------------------------------
(* Sending and receiving.                                                  *)

Message(kind, from, to, term) ==
    [kind |-> kind, from |-> from, to |-> to, term |-> term,
     accepted |-> 0, leader |-> None, vote |-> FALSE]

ToAll(kind, n, term) == {Message(kind, n, p, term) : p \in Node \ {n}}

Join(n, r, to) ==
    [Message("Join", n, to, r.term) EXCEPT !.accepted = r.accepted, !.vote = r.last_join = to]

JoinError(n, r, to, leader) == [Message("JoinError", n, to, r.term) EXCEPT !.leader = leader]

SamePlace(m, k) == m.kind = k.kind /\ m.from = k.from /\ m.to = k.to

(* Node n goes on as r and sends out; the messages in gone are done with.  *)
Step(n, r, out, gone) ==
    /\ node' = [node EXCEPT ![n] = r]
    /\ msgs' = {m \in msgs \ gone : ~\E k \in out : SamePlace(m, k)}
               \cup {k \in out : Up(k.to)}

(* Answers to a pre-vote round or to a publication that is over count for  *)
(* nothing: their request ids no longer match.                             *)
AnswersTo(n, kind) == {m \in msgs : m.to = n /\ m.kind = kind}

-----------------------------------------------------------------------------
(* What handlers share: each takes a process and gives the process.        *)

BecomeCandidate(r) ==
    [r EXCEPT !.mode = "Candidate", !.leader = None, !.leader_hint = None,
              !.publishing = FALSE, !.acked = {}]

Follow(r, leader) ==
    [r EXCEPT !.mode = "Follower", !.leader = leader, !.leader_hint = leader]

SawTerm(r, term) ==
    LET seen == [r EXCEPT !.max_term_seen = Highest(@, term)]
        next == [seen EXCEPT !.term = term, !.join_votes = {}, !.last_join = None]
    IN  IF term <= r.term THEN seen
        ELSE IF r.mode = "Candidate" THEN next ELSE BecomeCandidate(next)

(* publish: a new state for everyone, this node's answer is its own.       *)
Publish(n, r) ==
    [r EXCEPT !.publishing = TRUE, !.acked = {n}, !.accepted = r.term]

BecomeLeader(n, r) ==
    Publish(n, [r EXCEPT !.mode = "Leader", !.leader = n, !.leader_hint = n,
                         !.lagging = {}, !.join_votes = {}])

StartElection(n, r) ==
    LET term  == Highest(r.max_term_seen, r.term) + 1
        moved == SawTerm([r EXCEPT !.asking = FALSE, !.prevotes = {}], term)
    IN  [moved EXCEPT !.last_join = n, !.join_votes = {n}]

-----------------------------------------------------------------------------
(* Timers.                                                                 *)

LeaderNamedBy(p) ==
    IF node[p].mode = "Candidate" THEN node[p].leader_hint ELSE node[p].leader

(* Timer(T_DISCOVER): the manager named last round has to be named again.  *)
(* Asking the peers and hearing from one of them is one step.              *)
Discover(n, p) ==
    LET l    == LeaderNamedBy(p)
        told == [node[n] EXCEPT !.leader_hint = IF l = n THEN None ELSE l]
    IN  /\ node[n].mode = "Candidate"
        /\ p # n /\ Up(p)
        /\ Step(n, told, IF told.leader_hint = None THEN {} ELSE {Join(n, told, l)}, {})
        /\ UNCHANGED <<scope, suspicions, timeouts>>

\* Mutant: a node that has been told of a manager waits for it.
ElectionTimerHoping(n) ==
    LET r == [node[n] EXCEPT !.asking = TRUE, !.prevotes = {}]
    IN  /\ r.mode = "Candidate" /\ r.leader_hint = None
        /\ ~\E m \in msgs : \/ m.from = n /\ m.kind = "PreVote"
                            \/ m.to = n /\ m.kind = "PreVoteAnswer"
        /\ Step(n, r, ToAll("PreVote", n, r.term), {})
        /\ UNCHANGED <<scope, suspicions, timeouts>>

(* Timer(T_ELECTION): a pre-vote round.  The delay is longer than a round. *)
ElectionTimer(n) ==
    LET r    == [node[n] EXCEPT !.asking = TRUE, !.prevotes = {}]
        join == IF r.leader_hint = None THEN {} ELSE {Join(n, r, r.leader_hint)}
    IN  /\ r.mode = "Candidate"
        /\ ~\E m \in msgs : \/ m.from = n /\ m.kind = "PreVote"
                            \/ m.to = n /\ m.kind = "PreVoteAnswer"
        /\ Step(n, r, join \cup ToAll("PreVote", n, r.term), {})
        /\ UNCHANGED <<scope, suspicions, timeouts>>

(* Timer(T_FOLLOWER_CHECK): the check of one node, and its answer, are one *)
(* step.                                                                   *)
FollowerCheck(n, p) ==
    LET r     == node[n]
        heard == SawTerm(node[p], r.term)
        goes  == IF heard.mode = "Candidate" THEN Follow(heard, n) ELSE heard
    IN  /\ r.mode = "Leader"
        /\ p # n /\ Up(p)
        /\ node' = IF r.term < node[p].term
                   THEN [node EXCEPT ![n] = SawTerm(r, node[p].term)]
                   ELSE [node EXCEPT ![p] = goes]
        /\ UNCHANGED <<msgs, scope, suspicions, timeouts>>

(* Timer(T_LEADER_CHECK), answered by a node that is no manager.           *)
LeaderCheckRefused(n) ==
    LET r == node[n]
        l == node[r.leader]
        heard == SawTerm(r, l.term)
    IN  /\ r.mode = "Follower"
        /\ l.mode \notin {"Leader", "Down"}
        /\ Step(n, IF heard.mode = "Follower" THEN BecomeCandidate(heard) ELSE heard, {}, {})
        /\ UNCHANGED <<scope, suspicions, timeouts>>

(* Timer(T_LEADER_CHECK), unanswered once too often: the manager is gone,  *)
(* or is taken for it.                                                     *)
LeaderCheckMissed(n) ==
    /\ node[n].mode = "Follower"
    /\ Up(node[n].leader) => Quiet /\ suspicions < scope.suspicions
    /\ suspicions' = IF Up(node[n].leader) THEN suspicions + 1 ELSE suspicions
    /\ Step(n, BecomeCandidate(node[n]), {}, {})
    /\ UNCHANGED <<scope, timeouts>>

(* Timer(T_PUBLISH): no quorum in time.                                    *)
PublishTimeout(n) ==
    LET awaited == \E m \in msgs : \/ m.from = n /\ m.kind = "Publish"
                                   \/ m.to = n /\ m.kind = "PublishAck"
    IN  /\ node[n].mode = "Leader" /\ node[n].publishing
        /\ awaited => timeouts < scope.timeouts
        /\ timeouts' = IF awaited THEN timeouts + 1 ELSE timeouts
        /\ Step(n, BecomeCandidate(node[n]), {}, {})
        /\ UNCHANGED <<scope, suspicions>>

Restart(n) ==
    /\ scope.returning /\ Quiet /\ ~Up(n)
    /\ Step(n, Start(node[n].term, node[n].accepted), {}, {})
    /\ UNCHANGED <<scope, suspicions, timeouts>>
-----------------------------------------------------------------------------
(* Messages.  A handler gives the process and what it sends.               *)

\* Mutant: a node with a manager encourages another.
OnPreVoteEncouraging(n, r, m) ==
    <<[r EXCEPT !.max_term_seen = Highest(@, m.term)],
      {[Message("PreVoteAnswer", n, m.from, r.term) EXCEPT !.accepted = r.accepted]}>>

(* "a node with a manager does not encourage another": but its manager, if *)
(* it stands again.                                                        *)
OnPreVote(n, r, m) ==
    LET seen == [r EXCEPT !.max_term_seen = Highest(@, m.term)]
    IN  IF r.leader \in {None, m.from}
        THEN <<seen, {[Message("PreVoteAnswer", n, m.from, r.term) EXCEPT !.accepted = r.accepted]}>>
        ELSE <<seen, {[Message("PreVoteRefusal", n, m.from, r.term) EXCEPT !.leader = r.leader]}>>

OnPreVoteAnswer(n, r, m) ==
    LET seen    == [r EXCEPT !.max_term_seen = Highest(@, m.term)]
        counted == [seen EXCEPT !.prevotes = @ \cup {m.from}]
        stands  == StartElection(n, counted)
    IN  IF r.mode # "Candidate" \/ ~r.asking THEN <<r, {}>>
        ELSE IF m.accepted > r.accepted THEN <<seen, {}>>
        ELSE IF HasQuorum(counted.prevotes \cup {n})
        THEN <<stands, ToAll("StartJoin", n, stands.term)>>
        ELSE <<counted, {}>>

OnPreVoteRefusal(n, r, m) ==
    LET seen == [r EXCEPT !.max_term_seen = Highest(@, m.term)]
        told == [seen EXCEPT !.leader_hint = m.leader]
    IN  IF m.leader # n /\ r.mode = "Candidate" THEN <<told, {Join(n, told, m.leader)}>>
        ELSE <<seen, {}>>

OnStartJoin(n, r, m) ==
    LET voted == [SawTerm(r, m.term) EXCEPT !.last_join = m.from]
    IN  IF m.term <= r.term THEN <<r, {}>> ELSE <<voted, {Join(n, voted, m.from)}>>

(* A join that reaches a manager: answered with the committed state, or    *)
(* with the next publication.                                              *)
JoinAtLeader(n, r, from) ==
    LET waits == [r EXCEPT !.lagging = @ \ {from}, !.waiting_joins = @ \cup {from}]
    IN  IF ~r.publishing /\ from \notin r.lagging
        THEN <<r, {Message("JoinResponse", n, from, r.term)}>>
        ELSE IF r.publishing THEN <<waits, {}>>
        ELSE <<Publish(n, [waits EXCEPT !.waiting_joins = {}]), ToAll("Publish", n, r.term)>>

OnJoin(n, old, m) ==
    LET r       == SawTerm(old, m.term)
        counted == [r EXCEPT !.join_votes = @ \cup {m.from}]
    IN  IF m.term < r.term
        THEN <<r, {IF r.mode = "Leader" THEN Message("StartJoin", n, m.from, r.term)
                   ELSE JoinError(n, r, m.from, r.leader)}>>
        ELSE IF m.accepted > r.accepted THEN <<r, {JoinError(n, r, m.from, None)}>>
        ELSE CASE r.mode = "Follower" -> <<r, {JoinError(n, r, m.from, r.leader)}>>
               [] r.mode = "Leader" -> JoinAtLeader(n, r, m.from)
               [] r.mode = "Candidate" ->
                    IF ~m.vote THEN <<r, {}>>
                    ELSE IF HasQuorum(counted.join_votes \cup {n})
                    THEN <<BecomeLeader(n, counted), ToAll("Publish", n, r.term)>>
                    ELSE <<counted, {}>>

OnJoinError(n, old, m) ==
    LET r    == SawTerm(old, m.term)
        told == [r EXCEPT !.leader_hint = m.leader]
    IN  IF m.leader \notin {None, n}
        THEN IF r.mode = "Candidate" /\ r.leader_hint # m.leader
             THEN <<told, {Join(n, told, m.leader)}>> ELSE <<r, {}>>
        ELSE <<[r EXCEPT !.leader_hint = IF @ = m.from THEN None ELSE @], {}>>

OnJoinResponse(n, r, m) == <<IF m.term = r.term THEN Follow(r, m.from) ELSE r, {}>>

(* A refusal names the term, as the answer to the next check does.         *)
OnPublish(n, r, m) ==
    IF m.term # r.term THEN <<r, {}>>
    ELSE <<[Follow(r, m.from) EXCEPT !.accepted = m.term],
           {Message("PublishAck", n, m.from, m.term)}>>

(* commit_publication, and next_publication when joins wait.               *)
OnPublishAck(n, r, m) ==
    LET counted == [r EXCEPT !.acked = @ \cup {m.from}]
        done    == [counted EXCEPT !.publishing = FALSE, !.acked = {},
                                   !.lagging = Node \ counted.acked]
    IN  CASE r.mode # "Leader" \/ m.term # r.term -> <<r, {}>>
          [] r.mode = "Leader" /\ m.term = r.term /\ ~r.publishing ->
                <<[r EXCEPT !.lagging = @ \ {m.from}], {}>>
          [] OTHER ->
                IF ~HasQuorum(counted.acked) THEN <<counted, {}>>
                ELSE IF r.waiting_joins = {} THEN <<done, {}>>
                ELSE <<Publish(n, [done EXCEPT !.waiting_joins = {}]),
                       ToAll("Publish", n, r.term)>>

On(n, r, m) ==
    CASE m.kind = "PreVote"        -> OnPreVote(n, r, m)
      [] m.kind = "PreVoteAnswer"  -> OnPreVoteAnswer(n, r, m)
      [] m.kind = "PreVoteRefusal" -> OnPreVoteRefusal(n, r, m)
      [] m.kind = "StartJoin"      -> OnStartJoin(n, r, m)
      [] m.kind = "Join"           -> OnJoin(n, r, m)
      [] m.kind = "JoinError"      -> OnJoinError(n, r, m)
      [] m.kind = "JoinResponse"   -> OnJoinResponse(n, r, m)
      [] m.kind = "Publish"        -> OnPublish(n, r, m)
      [] m.kind = "PublishAck"     -> OnPublishAck(n, r, m)

(* A message arrives.  A publication that starts leaves the answers to the *)
(* one before it behind.                                                   *)
Receive(n, m) ==
    LET done == On(n, node[n], m)
    IN  /\ m \in msgs /\ m.to = n /\ Up(n)
        /\ Step(n, done[1], done[2],
                {m} \cup IF \E k \in done[2] : k.kind = "Publish"
                         THEN AnswersTo(n, "PublishAck") ELSE {})
        /\ UNCHANGED <<scope, suspicions, timeouts>>

-----------------------------------------------------------------------------

(* The nodes that are up have no manager, or follow one that is gone: each *)
(* has the term and the state its disk has.                                *)
Init ==
    \E l \in Away \cup {None} :
        /\ node \in [Node -> {Start(t, a) : t \in FirstTerms, a \in FirstStates}
                             \cup {Follow(Start(t, a), l) : t \in FirstTerms, a \in FirstStates}
                             \cup {Absent(t, a) : t \in FirstTerms, a \in FirstStates}]
        /\ \A n \in Node :
             /\ node[n].accepted <= node[n].term
             /\ (node[n].mode = "Down") = (n \in Away)
             /\ node[n].mode = "Follower" =>
                  l # None /\ node[l].term = node[n].term /\ node[l].accepted = node[n].term
        /\ msgs = {}
        /\ scope \in Scopes /\ suspicions = 0 /\ timeouts = 0

(* Elections that cross use up terms; the model stops at the last one.     *)
AtBound == \E n \in Node : MaxTerm \in {node[n].term, node[n].max_term_seen}

Timer(n) ==
    \/ \E p \in Node : Discover(n, p)
    \/ ElectionTimer(n)
    \/ \E p \in Node : FollowerCheck(n, p)
    \/ LeaderCheckRefused(n)
    \/ LeaderCheckMissed(n)
    \/ PublishTimeout(n)

Deliver(kind, n) == \E m \in msgs : m.kind = kind /\ Receive(n, m)

Next ==
    /\ ~AtBound
    /\ \E n \in Node :
         \/ Timer(n)
         \/ \E kind \in Kinds : Deliver(kind, n)
         \/ Restart(n)

Spec == Init /\ [][Next]_vars

(* Timers fire again and again, a check of a node that is gone or leads no *)
(* more fails in the end, and messages of a kind arrive.  Nothing makes a  *)
(* node come back or suspect wrongly.                                      *)
Fairness ==
    \A n \in Node :
        /\ WF_vars(ElectionTimer(n))
        /\ \A p \in Node : WF_vars(Discover(n, p)) /\ WF_vars(FollowerCheck(n, p))
        /\ WF_vars(LeaderCheckRefused(n))
        /\ WF_vars(LeaderCheckMissed(n) /\ suspicions' = suspicions)
        /\ WF_vars(PublishTimeout(n) /\ timeouts' = timeouts)
        /\ \A kind \in Kinds : WF_vars(Deliver(kind, n))

FairSpec == Spec /\ Fairness

-----------------------------------------------------------------------------
(* Properties.                                                             *)

Process ==
    [mode : {"Candidate", "Leader", "Follower", "Down"}, leader : Node \cup {None},
     term : Terms, accepted : Terms, max_term_seen : Terms, leader_hint : Node \cup {None},
     asking : BOOLEAN, prevotes : SUBSET Node, join_votes : SUBSET Node,
     last_join : Node \cup {None}, publishing : BOOLEAN, acked : SUBSET Node,
     lagging : SUBSET Node, waiting_joins : SUBSET Node]

(* Every field of a Coordinator keeps its type, and become_candidate, as   *)
(* everything that changes the mode, leaves it fitting the rest: only a    *)
(* manager has a publication in flight.                                    *)
TypeOK ==
    /\ node \in [Node -> Process]
    /\ \A n \in Node :
         /\ node[n].publishing => node[n].mode = "Leader"
         /\ CASE node[n].mode = "Leader" -> node[n].leader = n
              [] node[n].mode = "Follower" -> node[n].leader \in Node \ {n}
              [] OTHER -> node[n].leader = None
    /\ msgs \subseteq [kind : Kinds, from : Node, to : Node, term : Terms, accepted : Terms,
                       leader : Node \cup {None}, vote : BOOLEAN]
    /\ suspicions \in 0 .. scope.suspicions /\ timeouts \in 0 .. scope.timeouts

(* A node that takes its manager for lost when it is not, and one that     *)
(* comes back, do not unseat it: nobody who has a manager gives a pre-vote *)
(* (PRE_VOTE), so the manager goes on leading and no later term is begun.  *)
Undisturbed ==
    suspicions > 0 /\ timeouts = 0 =>
        \E l \in Node : /\ node[l].mode = "Leader"
                        /\ \A n \in Node : node[n].term <= node[l].term

(* A cluster with a quorum of its nodes up does not stay without a         *)
(* manager: as long as elections do not cross each other, every node that  *)
(* is up ends up following one manager, whatever hints, refusals, terms    *)
(* and accepted states the nodes meet on the way (prevote, discover,       *)
(* on_join, the leader and follower checks).                               *)
Settles == <>[](Settled \/ AtBound)
=============================================================================
