------------------------- MODULE FixedConfiguration -------------------------
(***************************************************************************)
(* Coordination of a cluster whose voting configuration has no reason to   *)
(* change: the manager-eligible nodes are the ones it was bootstrapped     *)
(* with, none is excluded, and shrinking (when it is on) stops at three.   *)
(***************************************************************************)
EXTENDS Coordination

ASSUME FixedAssumption ==
    /\ InitialConfig # {}
    /\ Eligible = InitialConfig
    /\ ExclusionSets = {{}}
    /\ AutoShrink => Cardinality(InitialConfig) \in {1, 3}

-----------------------------------------------------------------------------
(* What makes a term have one manager.  Each property is one link of the    *)
(* argument; together with TypeOK they are inductive.                       *)

(* A vote of node v for node n in a term: n's own is its start_join.        *)
Voted(v, n, term) ==
    \/ v = n /\ StartJoin(n, term) \in msgs
    \/ \E m \in Sent("Join") : m.from = v /\ m.to = n /\ m.term = term

(* A state carries the bootstrapped configuration twice, or none at all     *)
(* while nothing was published to its node.                                 *)
Configured(s) ==
    /\ s.last_accepted_config = s.last_committed_config
    /\ s.last_accepted_config \in {{}, InitialConfig}
    /\ s.term > 0 => s.last_accepted_config = InitialConfig

(* reconfigure keeps the configuration: every state accepted, committed, in *)
(* flight or published has it, and what a manager builds its next state on  *)
(* has it too, so reconfigure is never asked to replace an empty one.       *)
ConfigurationKept ==
    /\ \A n \in Node :
        /\ Configured(node[n].accepted)
        /\ Configured(node[n].committed)
        /\ ~FresherState(node[n].committed, node[n].accepted)
        /\ node[n].accepted.term <= node[n].term
        /\ node[n].exclusions = {}
        /\ node[n].mode = "Leader" =>
              /\ node[n].accepted.term = node[n].term
              /\ node[n].term > 0
              /\ IF node[n].publishing = None
                 THEN node[n].committed.last_accepted_config = InitialConfig
                 ELSE node[n].publishing.state = node[n].accepted
    /\ \A m \in Sent("Publish") \cup Sent("CommitNote") \cup Sent("JoinResponse") :
        Configured(m.state)

(* on_start_join moves to the term before it votes: no node votes twice in  *)
(* a term, for another node or for itself, and none votes in a term nobody  *)
(* stands in, a restart that forgets the vote included.                     *)
OneVotePerTerm ==
    /\ \A m \in Sent("StartJoin") : m.term > 0 /\ m.term <= node[m.from].term
    /\ \A m \in Sent("Join") :
        /\ m.from # m.to
        /\ m.term <= node[m.from].term
        /\ StartJoin(m.to, m.term) \in msgs
        /\ StartJoin(m.from, m.term) \notin msgs
        /\ \A k \in Sent("Join") : k.from = m.from /\ k.term = m.term => k.to = m.to

(* The votes a candidate holds were cast for it, in the term it is in:      *)
(* saw_term forgets the ones of earlier terms.                              *)
VotesAreCurrent ==
    \A n \in Node : \A v \in node[n].join_votes : Voted(v, n, node[n].term)

(* Who became the manager of a term had a quorum of votes for it.           *)
ElectedByQuorum ==
    \A m \in Sent("LeaderNote") :
        \E votes \in SUBSET Node :
            /\ HasQuorum(InitialConfig, votes)
            /\ \A v \in votes : Voted(v, m.from, m.term)

ElectionInv ==
    /\ ConfigurationKept
    /\ OneVotePerTerm
    /\ VotesAreCurrent
    /\ ElectedByQuorum

-----------------------------------------------------------------------------
(* What makes the committed states one log.  The links are stated of the    *)
(* records N of the nodes and the messages M, so that they can be followed  *)
(* through the calls of a handler; CommitInv states them of a state.        *)

Of(M, type) == {m \in M : m.type = type}

(* The states some manager published. *)
Published(M) == {m.state : m \in Of(M, "Publish")}

(* The state of a node that nothing was published to. *)
Blank(s) == s.term = 0 /\ s.version = 0 /\ s.lineage = {}

Leads(M, n, term) == \E e \in Of(M, "LeaderNote") : e.from = n /\ e.term = term

Noted(M, s) == \E c \in Of(M, "CommitNote") : c.state = s

(* Node q has accepted the published state s: it is the manager's own, or   *)
(* the manager was told.                                                    *)
Accepts(M, q, s) ==
    \/ q = s.manager
    \/ \E a \in Of(M, "PublishResponse") :
          a.from = q /\ a.term = s.term /\ a.version = s.version

(* The published state s can no longer be committed: a quorum has gone on   *)
(* to later terms without it.                                               *)
Dead(N, M, s) ==
    \E Q \in SUBSET Node :
        /\ HasQuorum(InitialConfig, Q)
        /\ \A q \in Q : N[q].term > s.term /\ ~Accepts(M, q, s)

(* The names of the states s was built from, and its own: one for every     *)
(* version up to its own, in terms that do not go down.                     *)
Descended(s) ==
    /\ IsFiniteSet(s.lineage) /\ Cardinality(s.lineage) = s.version
    /\ Name(s.term, s.manager, s.version) \in s.lineage
    /\ {x.version : x \in s.lineage} = 1 .. s.version
    /\ \A x, y \in s.lineage : x.version = y.version => x = y
    /\ \A x \in s.lineage : x.term <= s.term
    /\ \A x, y \in s.lineage : x.version <= y.version => x.term <= y.term

(* A manager publishes in the term it was elected for, under a request id   *)
(* its process did not use before, and has accepted what it published.      *)
PublishedByElected(N, M, p) ==
    /\ p.state.manager = p.from
    /\ p.state.term > 0 /\ p.state.version > 0
    /\ Descended(p.state)
    /\ Leads(M, p.from, p.state.term)
    /\ ~FresherState(p.state, N[p.from].accepted)
    /\ p.run <= N[p.from].run
    /\ p.run = N[p.from].run => p.rid < N[p.from].next_request

(* A request id of a process, and a term and version, name one state.       *)
PublishedOnce(M) ==
    \A p, k \in Of(M, "Publish") :
        \/ p.from = k.from /\ p.run = k.run /\ p.rid = k.rid
        \/ p.state.term = k.state.term /\ p.state.version = k.state.version
        => p.state = k.state

(* What a node accepted was published to it, and what it committed was      *)
(* committed by a manager.                                                  *)
TakenFromManagers(M, r) ==
    /\ Blank(r.accepted) \/ r.accepted \in Published(M)
    /\ Blank(r.committed) \/ Noted(M, r.committed)

(* A manager was elected; what it has in flight is what it accepted last,   *)
(* counted for the nodes that accepted it, and otherwise it has committed   *)
(* that.  A follower follows a node that was elected.                       *)
InFlight(M, n, r) ==
    /\ r.publishing.state = r.accepted
    /\ \E p \in Of(M, "Publish") :
          p.from = n /\ p.run = r.run /\ p.rid = r.publishing.rid /\ p.state = r.accepted
    /\ ~LateAnswers => \A q \in r.publishing.acked : Accepts(M, q, r.accepted)

RoleKept(M, n, r) ==
    /\ r.mode = "Follower" => Leads(M, r.leader, r.term)
    /\ r.mode = "Leader" =>
         /\ Leads(M, n, r.term)
         /\ IF r.publishing = None THEN r.committed = r.accepted ELSE InFlight(M, n, r)

(* A candidate counts the votes of nodes that accepted no more than it has. *)
VotesCounted(M, n, r) ==
    \A v \in r.join_votes :
        \/ v = n
        \/ \E j \in Of(M, "Join") :
              /\ j.from = v /\ j.term = r.term
              /\ ~Fresher(j.accepted_term, j.accepted_version,
                          r.accepted.term, r.accepted.version)

(* An answer to a publication names it, and its sender has accepted it.     *)
AnswerTrue(N, M, a) ==
    /\ ~Fresher(a.term, a.version, N[a.from].accepted.term, N[a.from].accepted.version)
    /\ \E p \in Of(M, "Publish") :
          /\ p.from = a.to /\ p.run = a.run /\ p.rid = a.rid
          /\ p.state.term = a.term /\ p.state.version = a.version

(* A manager commits what it published once a quorum has accepted it, and   *)
(* asks others to commit nothing else.                                      *)
CommitTrue(M, c) ==
    /\ c.state \in Published(M)
    /\ ~LateAnswers => \E Q \in SUBSET Node :
          HasQuorum(InitialConfig, Q) /\ \A q \in Q : Accepts(M, q, c.state)

RequestTrue(M, r) ==
    \E c \in Of(M, "CommitNote") : c.state.term = r.term /\ c.state.version = r.version

(* The answer to a join carries a state committed in the manager's term or  *)
(* an earlier one, and goes to a node that has reached this term.           *)
JoinAnswered(N, M, m) ==
    /\ Blank(m.state) \/ Noted(M, m.state)
    /\ \E e \in Of(M, "LeaderNote") :
          e.from = m.from /\ m.state.term <= e.term /\ e.term <= N[m.to].term

(* A vote tells of everything its sender accepted in earlier terms.         *)
VoteTells(N, M, j) ==
    /\ j.term <= N[j.from].term
    /\ \A s \in Published(M) :
         s.term < j.term /\ Accepts(M, j.from, s) =>
             ~Fresher(s.term, s.version, j.accepted_term, j.accepted_version)

(* The voters of an elected manager are in its term or past it.             *)
VotersMoved(N, e) ==
    \E Q \in SUBSET Node :
        HasQuorum(InitialConfig, Q) /\ \A q \in Q : N[q].term >= e.term

(* A published state is built on every state published before it that can   *)
(* still be committed.                                                      *)
BuiltOn(N, M) ==
    \A s, u \in Published(M) :
        /\ s.term < u.term => s.lineage \subseteq u.lineage \/ Dead(N, M, s)
        /\ s.term = u.term /\ s.version <= u.version => s.lineage \subseteq u.lineage

(* One of the committed states was built on all the others.                 *)
NewestCommit(M) ==
    ~LateAnswers /\ Of(M, "CommitNote") # {} =>
        \E c \in Of(M, "CommitNote") : \A d \in Of(M, "CommitNote") :
            d.state.lineage \subseteq c.state.lineage

Consistent(N, M) ==
    /\ \A n \in Node : /\ TakenFromManagers(M, N[n])
                       /\ RoleKept(M, n, N[n])
                       /\ VotesCounted(M, n, N[n])
    /\ \A p \in Of(M, "Publish") : PublishedByElected(N, M, p)
    /\ \A a \in Of(M, "PublishResponse") : AnswerTrue(N, M, a)
    /\ \A c \in Of(M, "CommitNote") : CommitTrue(M, c)
    /\ \A r \in Of(M, "Commit") : RequestTrue(M, r)
    /\ \A m \in Of(M, "JoinResponse") : JoinAnswered(N, M, m)
    /\ \A j \in Of(M, "Join") : VoteTells(N, M, j)
    /\ \A e \in Of(M, "LeaderNote") : VotersMoved(N, e)
    /\ PublishedOnce(M)
    /\ BuiltOn(N, M)
    /\ NewestCommit(M)

(* The inductive invariant behind the log of committed states (publish,     *)
(* commit_publication, apply_committed, on_join, become_leader).            *)
CommitInv == Consistent(node, msgs)
=============================================================================
