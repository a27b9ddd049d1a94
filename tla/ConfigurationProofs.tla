------------------------ MODULE ConfigurationProofs ------------------------
(***************************************************************************)
(* For a voting configuration of any size that changes in any way: a       *)
(* manager with nothing in flight has nothing left to take into the next   *)
(* state, and no better configuration to propose; and a configuration of   *)
(* three or more does not go below three unless nodes are excluded.        *)
(***************************************************************************)
EXTENDS Coordination, FiniteSetTheorems, WellFoundedInduction, TLAPS

(* Leaves that need arithmetic cite SMT; the others are left to Zenon. *)
USE Zenon

(* A state that was published carries a configuration, ...                  *)
HasConfig(s) ==
    /\ s \in ClusterState
    /\ s.version = 0 => s.term = 0 /\ s.lineage = {}
    /\ s.version > 0 => s.last_accepted_config # {}

(* ... and one that was committed carries it twice.                         *)
HasBoth(s) == HasConfig(s) /\ s.last_committed_config = s.last_accepted_config

Fine(M) ==
    \A m \in M : /\ m \in Messages
                 /\ m.type = "Publish" => HasConfig(m.state)
                 /\ m.type = "JoinResponse" => HasBoth(m.state)

(* No later state is committed than accepted, and none is of a later term   *)
(* than the node's.                                                         *)
InOrder(r) ==
    /\ HasConfig(r.accepted) /\ HasBoth(r.committed)
    /\ r.accepted.term <= r.term
    /\ ~FresherState(r.committed, r.accepted)

(* What was accepted and not committed is fresher than what was committed.  *)
Covered(r) ==
    FresherState(r.accepted, r.committed) \/ r.committed.lineage = r.accepted.lineage

(* A record in the middle of a handler.  A manager has published; what it   *)
(* has in flight is what it accepted last, and otherwise it has committed   *)
(* that.                                                                    *)
Fit(r) ==
    /\ r \in NodeState
    /\ InOrder(r)
    /\ Fine(r.out)
    /\ r.mode = "Leader" =>
          /\ r.accepted.version > 0
          /\ Covered(r)
          /\ IF r.publishing = None THEN ~FresherState(r.accepted, r.committed)
                                    ELSE r.publishing.state = r.accepted

(* What ConfigurationSettled says of a node.                                *)
Settled(r) ==
    r.mode = "Leader" /\ r.publishing = None =>
        /\ r.committed.last_accepted_config = Reconfigure(r.committed, r.exclusions)
        /\ r.waiting_joins = {}
        /\ r.committed.nodes \cap r.pending_removals = {}

(* What NothingLeftToCommit says of a node.                                 *)
Rest(r) ==
    r.publishing # None => ~ElectionQuorum(r.publishing.state, r.publishing.acked)

Inv ==
    /\ TypeOK
    /\ Fine(msgs)
    /\ \A n \in Node : Fit(node[n]) /\ Settled(node[n]) /\ Rest(node[n])

-----------------------------------------------------------------------------
(* reconfigure looks at the nodes and the committed configuration of a      *)
(* state, and at nothing else.                                              *)
LEMMA ReconfigureSame ==
    ASSUME NEW s, NEW t, NEW exclusions, s.nodes = t.nodes,
           s.last_committed_config = t.last_committed_config
    PROVE  Reconfigure(s, exclusions) = Reconfigure(t, exclusions)
<1> DEFINE R(current, nodes) ==
      LET live    == (nodes \cap Eligible) \ exclusions
          kept    == current \ exclusions
          minimum == IF AutoShrink THEN IF Cardinality(kept) < 3 THEN 1 ELSE 3
                                   ELSE Cardinality(kept)
          target  == AtLeast(Odd(Cardinality(live)), minimum)
          rank(x) == IF x \notin live THEN 2 ELSE IF x \in current THEN 0 ELSE 1
          before(x, y) == rank(x) < rank(y) \/ (rank(x) = rank(y) /\ Id[x] < Id[y])
          pool    == live \cup kept
          new     == {x \in pool : Cardinality({y \in pool : before(y, x)}) < target}
      IN  IF HasQuorum(new, live) THEN new ELSE current
<1>1. /\ Reconfigure(s, exclusions) = R(s.last_committed_config, s.nodes)
      /\ Reconfigure(t, exclusions) = R(t.last_committed_config, t.nodes)
  BY DEF Reconfigure
<1> HIDE DEF R
<1> QED
  BY <1>1

(* It answers with nodes, and with some if there was a configuration: the   *)
(* new one has a quorum alive, or the old one stays.                        *)
LEMMA ReconfigureType ==
    ASSUME NEW s \in ClusterState, NEW exclusions
    PROVE  /\ Reconfigure(s, exclusions) \in SUBSET Node
           /\ s.last_committed_config # {} => Reconfigure(s, exclusions) # {}
<1> DEFINE live == (s.nodes \cap Eligible) \ exclusions
           pool == live \cup (s.last_committed_config \ exclusions)
<1>1. \E new \in SUBSET pool :
         Reconfigure(s, exclusions) =
             IF HasQuorum(new, live) THEN new ELSE s.last_committed_config
  BY DEF Reconfigure
<1>2. pool \subseteq Node /\ s.last_committed_config \subseteq Node
  BY DEF ClusterState
<1> HIDE DEF pool, live
<1> QED
  BY <1>1, <1>2 DEF HasQuorum

(* next: a later version, and all else carried on.                          *)
LEMMA NextStateIs ==
    ASSUME NEW s \in ClusterState
    PROVE  /\ NextState(s) \in ClusterState /\ NextState(s).version = s.version + 1
           /\ NextState(s).nodes = s.nodes
           /\ NextState(s).last_committed_config = s.last_committed_config
           /\ NextState(s).last_accepted_config = s.last_accepted_config
BY SMT DEF NextState, ClusterState

(* become_candidate and saw_term end whatever a manager has in flight.      *)
LEMMA BecomeCandidateFit ==
    ASSUME NEW r, Fit(r)
    PROVE  /\ Fit(BecomeCandidate(r)) /\ Settled(BecomeCandidate(r))
           /\ BecomeCandidate(r).mode = "Candidate" /\ Rest(BecomeCandidate(r))
<1> DEFINE q == BecomeCandidate(r)
<1>1. q \in NodeState
  BY DEF Fit, BecomeCandidate, NodeState
<1>2. /\ q.mode = "Candidate" /\ q.accepted = r.accepted /\ q.committed = r.committed
      /\ q.out = r.out /\ q.term = r.term /\ q.publishing = None
  BY DEF Fit, BecomeCandidate, NodeState
<1> QED
  BY <1>1, <1>2 DEF Fit, InOrder, Settled, Rest

(* A node that moves to a later term leads nothing any more.                *)
LEMMA SawTermFit ==
    ASSUME NEW r, Fit(r), Settled(r), NEW term \in Nat
    PROVE  /\ Fit(SawTerm(r, term)) /\ Settled(SawTerm(r, term))
           /\ SawTerm(r, term) = r \/ SawTerm(r, term).mode = "Candidate"
           /\ SawTerm(r, term).term >= term
           /\ Rest(r) => Rest(SawTerm(r, term))
<1> DEFINE moved == [r EXCEPT !.term = term, !.join_votes = {}]
<1>0. r.term \in Nat /\ r.accepted.term \in Nat
  BY DEF Fit, NodeState, ClusterState
<1>1. moved \in NodeState
  BY DEF Fit, NodeState
<1>2. /\ moved.mode = r.mode /\ moved.accepted = r.accepted /\ moved.committed = r.committed
      /\ moved.out = r.out /\ moved.publishing = r.publishing /\ moved.term = term
  BY DEF Fit, NodeState
<1>3. term > r.term => Fit(moved)
  BY <1>0, <1>1, <1>2, SMT DEF Fit, InOrder, Covered
<1>4. (r.mode = "Candidate" => Settled(moved)) /\ (Rest(r) => Rest(moved))
  BY <1>2 DEF Settled, Rest
<1>5. \/ SawTerm(r, term) = r /\ term <= r.term
      \/ SawTerm(r, term) = moved /\ r.mode = "Candidate" /\ term > r.term
      \/ SawTerm(r, term) = BecomeCandidate(moved) /\ term > r.term
  BY <1>0, SMT DEF SawTerm
<1>6. BecomeCandidate(moved).term = moved.term
  BY <1>1 DEF BecomeCandidate, NodeState
<1> HIDE DEF moved
<1> QED
  BY <1>0, <1>2, <1>3, <1>4, <1>5, <1>6, BecomeCandidateFit, SMT

(* bootstrap: only a node without a configuration takes up the first one,   *)
(* and a manager has one.                                                   *)
LEMMA BootstrappedFit ==
    ASSUME NEW r, Fit(r), NEW n, CanBootstrap(n, r)
    PROVE  /\ Fit(Bootstrapped(r)) /\ Settled(Bootstrapped(r))
           /\ Rest(r) => Rest(Bootstrapped(r))
<1> DEFINE q == Bootstrapped(r)
           a == SetConfig(r.accepted)
           c == SetConfig(r.committed)
<1>1. r \in NodeState /\ HasConfig(r.accepted) /\ HasBoth(r.committed)
  BY DEF Fit, InOrder
<1>2. InitialConfig # {} /\ InitialConfig \subseteq Node
  BY ConfigAssumption DEF CanBootstrap
<1>3. /\ HasConfig(a) /\ HasBoth(c)
      /\ a.term = r.accepted.term /\ a.version = r.accepted.version
      /\ c.term = r.committed.term /\ c.version = r.committed.version
  BY <1>1, <1>2 DEF HasConfig, HasBoth, SetConfig, ClusterState
<1>4. r.mode # "Leader"
  <2>1. r.accepted.version \in Nat
    BY <1>1 DEF HasConfig, ClusterState
  <2> QED
    BY <1>1, <2>1 DEF Fit, HasConfig, CanBootstrap
<1>5. q = [r EXCEPT !.accepted = a, !.committed = c]
  BY <1>1 DEF Bootstrapped, NodeState
<1> HIDE DEF a, c, q
<1>6. q \in NodeState
  BY <1>1, <1>3, <1>5 DEF NodeState, HasConfig, HasBoth
<1>7. /\ q.mode = r.mode /\ q.accepted = a /\ q.committed = c /\ q.out = r.out
      /\ q.term = r.term /\ q.publishing = r.publishing
  BY <1>1, <1>5 DEF NodeState
<1>8. Fit(q) /\ Settled(q) /\ (Rest(r) => Rest(q))
  BY <1>3, <1>4, <1>6, <1>7 DEF Fit, InOrder, FresherState, Settled, Rest
<1> QED
  BY <1>8 DEF q

(* publish: the manager has accepted what it has in flight.                 *)
LEMMA SendFit ==
    ASSUME NEW n \in Node, NEW r \in NodeState, NEW s \in ClusterState, Fine(r.out),
           HasBoth(r.committed), s.version > 0, s.last_accepted_config # {},
           Fresher(r.term, s.version, r.committed.term, r.committed.version)
    PROVE  /\ Fit(Send(n, r, s)) /\ Settled(Send(n, r, s))
           /\ Send(n, r, s).mode = r.mode
<1> DEFINE state == [s EXCEPT !.term = r.term, !.manager = n,
                              !.lineage = @ \cup {Name(r.term, n, s.version)}]
           p == [state |-> state, rid |-> r.next_request, acked |-> {n}]
           m == [type |-> "Publish", from |-> n, run |-> r.run, rid |-> r.next_request,
                 state |-> state]
           q == Send(n, r, s)
<1>1. /\ r.term \in Nat /\ r.next_request \in Nat /\ r.run \in Nat /\ s.version \in Nat
      /\ s.lineage \subseteq Names
      /\ r.committed.term \in Nat /\ r.committed.version \in Nat
  BY DEF NodeState, ClusterState
<1>2. Name(r.term, n, s.version) \in Names
  BY <1>1 DEF Name, Names
<1>3. /\ state \in ClusterState /\ state.version = s.version /\ state.term = r.term
      /\ state.last_accepted_config = s.last_accepted_config
  BY <1>1, <1>2 DEF ClusterState
<1>4. HasConfig(state)
  BY <1>1, <1>3, SMT DEF HasConfig
<1>5. q = [r EXCEPT !.publishing = p, !.accepted = state, !.next_request = @ + 1,
                    !.out = @ \cup {m}]
  BY DEF Send
<1> HIDE DEF state
<1>6. p \in Publication /\ p # None /\ p.state = state
  BY <1>1, <1>3, NoneAssumption, SMT DEF Publication
<1>7. m \in Messages /\ m.type = "Publish" /\ m.state = state
  BY <1>1, <1>3 DEF Messages
<1> HIDE DEF p, m, q
<1>8. q \in NodeState
  <2>1. r.out \cup {m} \in SUBSET Messages /\ r.next_request + 1 \in Nat
    BY <1>1, <1>7, SMT DEF NodeState
  <2> QED
    BY <1>3, <1>5, <1>6, <2>1 DEF NodeState
<1>9. /\ q.mode = r.mode /\ q.accepted = state /\ q.committed = r.committed
      /\ q.publishing = p /\ q.out = r.out \cup {m} /\ q.term = r.term
  BY <1>5 DEF NodeState
<1>10. Fine(q.out)
  BY <1>4, <1>7, <1>9 DEF Fine
<1>11. InOrder(q) /\ Covered(q)
  BY <1>1, <1>3, <1>4, <1>9, SMT DEF InOrder, Covered, FresherState, Fresher
<1>12. Fit(q) /\ Settled(q)
  BY <1>3, <1>6, <1>8, <1>9, <1>10, <1>11 DEF Fit, Settled
<1> QED
  BY <1>9, <1>12 DEF q

(* apply_committed, where the state was published.                          *)
LEMMA ApplyCommittedIs ==
    ASSUME NEW r \in NodeState, InOrder(r), NEW s, HasConfig(s), s.term <= r.term
    PROVE  LET q == ApplyCommitted(r, s)
           IN  /\ q \in NodeState /\ InOrder(q)
               /\ q.mode = r.mode /\ q.publishing = r.publishing /\ q.out = r.out
               /\ ~FresherState(s, q.committed)
               /\ IF FresherState(s, r.committed) THEN q.committed.lineage = s.lineage
                                                  ELSE q = r
               /\ s = r.accepted => q.accepted = r.accepted
<1> DEFINE q     == ApplyCommitted(r, s)
           state == [s EXCEPT !.last_committed_config = s.last_accepted_config]
           taken == IF FresherState(state, r.accepted) THEN state ELSE r.accepted
<1>0. /\ s.term \in Nat /\ s.version \in Nat
      /\ r.accepted \in ClusterState /\ r.committed \in ClusterState
      /\ r.committed.term \in Nat /\ r.committed.version \in Nat
      /\ r.accepted.term \in Nat /\ r.accepted.version \in Nat
  BY DEF HasConfig, ClusterState, NodeState
<1>1. CASE ~FresherState(s, r.committed)
  BY <1>1 DEF ApplyCommitted
<1>2. CASE FresherState(s, r.committed)
  <2>1. /\ state \in ClusterState /\ state.term = s.term /\ state.version = s.version
        /\ state.last_accepted_config = s.last_accepted_config
        /\ state.last_committed_config = s.last_accepted_config
        /\ state.lineage = s.lineage
    BY DEF HasConfig, ClusterState
  <2>2. HasConfig(state) /\ HasBoth(state)
    BY <2>1 DEF HasConfig, HasBoth
  <2>3. q = [r EXCEPT !.accepted = taken, !.committed = state]
    BY <1>2 DEF ApplyCommitted
  <2>4. ~FresherState(s, state) /\ (s = r.accepted => ~FresherState(state, r.accepted))
    BY <1>0, <2>1, SMT DEF FresherState, Fresher
  <2> HIDE DEF state
  <2>5. /\ HasConfig(taken) /\ taken \in ClusterState
        /\ s = r.accepted => taken = r.accepted
        /\ taken.term <= r.term /\ ~FresherState(state, taken)
    BY <1>0, <2>1, <2>2, <2>4 DEF InOrder, FresherState, Fresher
  <2> HIDE DEF taken, q
  <2>6. q \in NodeState
    BY <2>1, <2>3, <2>5 DEF NodeState
  <2>7. /\ q.accepted = taken /\ q.committed = state
        /\ q.mode = r.mode /\ q.publishing = r.publishing /\ q.out = r.out
        /\ q.term = r.term
    BY <2>3 DEF NodeState
  <2>8. InOrder(q)
    BY <2>2, <2>5, <2>7 DEF InOrder
  <2>9. /\ q \in NodeState /\ InOrder(q)
        /\ q.mode = r.mode /\ q.publishing = r.publishing /\ q.out = r.out
        /\ ~FresherState(s, q.committed)
        /\ q.committed.lineage = s.lineage
        /\ s = r.accepted => q.accepted = r.accepted
    BY <2>1, <2>4, <2>5, <2>6, <2>7, <2>8
  <2> QED
    BY <1>2, <2>9 DEF q
<1> QED
  BY <1>1, <1>2

(* commit_publication leaves a manager with nothing in flight, that has     *)
(* committed what it accepted last.                                         *)
LEMMA CommitFit ==
    ASSUME NEW n \in Node, NEW r, Fit(r), r.mode = "Leader", r.publishing # None
    PROVE  /\ Fit(Commit(n, r))
           /\ Commit(n, r).mode = "Leader" /\ Commit(n, r).publishing = None
<1> DEFINE p    == r.publishing
           told == (p.state.nodes \cap p.acked) \ {n}
           sent == {CommitRequest(n, m, p.state.term, p.state.version) : m \in told}
                   \cup {[type |-> "CommitNote", from |-> n, state |-> p.state]}
           c    == [r EXCEPT !.publishing = None, !.lagging = p.state.nodes \ p.acked,
                             !.out = @ \cup sent]
           q    == ApplyCommitted(c, p.state)
<1>1. /\ r \in NodeState /\ InOrder(r) /\ Fine(r.out) /\ Covered(r)
      /\ p.state = r.accepted /\ r.accepted.version > 0
  BY DEF Fit
<1>2. /\ p.state \in ClusterState /\ p.acked \subseteq Node /\ p.state.nodes \subseteq Node
      /\ p.state.term \in Nat /\ p.state.version \in Nat
  BY <1>1 DEF NodeState, Publication, ClusterState
<1>3. \A m \in sent : m \in Messages /\ m.type \in {"Commit", "CommitNote"}
  BY <1>2, SMT DEF CommitRequest, Messages
<1>4. Fine(r.out \cup sent)
  BY <1>1, <1>3 DEF Fine
<1> HIDE DEF sent
<1>5. c \in NodeState
  <2>1. r.out \cup sent \in SUBSET Messages /\ p.state.nodes \ p.acked \in SUBSET Node
    BY <1>1, <1>2, <1>3 DEF NodeState
  <2> QED
    BY <1>1, <2>1 DEF NodeState
<1>6. /\ c.accepted = r.accepted /\ c.committed = r.committed /\ c.mode = "Leader"
      /\ c.publishing = None /\ c.out = r.out \cup sent /\ c.term = r.term
  BY <1>1 DEF NodeState
<1>7. Commit(n, r) = q
  BY DEF Commit, sent
<1> HIDE DEF c
<1>8. InOrder(c) /\ HasConfig(p.state) /\ p.state.term <= c.term /\ p.state = c.accepted
  BY <1>1, <1>6 DEF InOrder
<1> HIDE DEF p
<1>9. /\ q \in NodeState /\ InOrder(q)
      /\ q.mode = c.mode /\ q.publishing = c.publishing /\ q.out = c.out
      /\ ~FresherState(p.state, q.committed) /\ q.accepted = c.accepted
      /\ IF FresherState(p.state, c.committed) THEN q.committed.lineage = p.state.lineage
                                               ELSE q = c
  BY <1>5, <1>8, ApplyCommittedIs
<1> HIDE DEF q
<1>10. Covered(q)
  BY <1>1, <1>6, <1>8, <1>9 DEF Covered
<1> QED
  BY <1>1, <1>4, <1>6, <1>7, <1>8, <1>9, <1>10 DEF Fit

(* next_publication at a manager with nothing in flight: either there is    *)
(* nothing to take into the next state, or that is in flight now.           *)
LEMMA BuildFit ==
    ASSUME NEW n \in Node, NEW r, Fit(r), r.mode = "Leader", r.publishing = None
    PROVE  Fit(Build(n, r)) /\ Settled(Build(n, r)) /\ Build(n, r).mode = "Leader"
<1> DEFINE joined  == r.committed.nodes \cup r.waiting_joins
           s       == [NextState(r.committed) EXCEPT !.nodes = joined \ r.pending_removals]
           config  == Reconfigure(s, r.exclusions)
           changed == \/ r.waiting_joins # {}
                      \/ r.republish_wanted
                      \/ joined \cap r.pending_removals # {}
                      \/ config # s.last_accepted_config
           taken   == [r EXCEPT !.waiting_joins = {}, !.pending_removals = {}]
           asked   == [taken EXCEPT !.republish_wanted = FALSE]
           next    == [s EXCEPT !.last_accepted_config = config]
<1>1. /\ r \in NodeState /\ InOrder(r) /\ Fine(r.out) /\ Covered(r)
      /\ HasConfig(r.accepted) /\ HasBoth(r.committed)
      /\ r.accepted.version > 0 /\ ~FresherState(r.accepted, r.committed)
      /\ r.accepted \in ClusterState /\ r.committed \in ClusterState
  BY DEF Fit, InOrder, NodeState
<1>2. /\ r.committed.version > 0 /\ r.committed.term <= r.term
      /\ r.committed.version \in Nat /\ r.committed.term \in Nat /\ r.term \in Nat
  BY <1>1, SMT DEF HasConfig, InOrder, ClusterState, NodeState, FresherState, Fresher
<1>3. /\ s \in ClusterState /\ s.version = r.committed.version + 1
      /\ s.nodes = joined \ r.pending_removals
      /\ s.last_committed_config = r.committed.last_committed_config
      /\ s.last_accepted_config = r.committed.last_accepted_config
  <2>1. joined \ r.pending_removals \in SUBSET Node
    BY <1>1 DEF NodeState, ClusterState
  <2> DEFINE f == NextState(r.committed)
  <2>2. /\ f \in ClusterState /\ f.version = r.committed.version + 1
        /\ f.last_committed_config = r.committed.last_committed_config
        /\ f.last_accepted_config = r.committed.last_accepted_config
    BY <1>1, <1>2, NextStateIs
  <2> HIDE DEF joined, f
  <2>3. s = [f EXCEPT !.nodes = joined \ r.pending_removals]
    BY DEF f
  <2> HIDE DEF s
  <2> QED
    BY <2>1, <2>2, <2>3 DEF ClusterState
<1>4. /\ taken \in NodeState /\ taken.mode = "Leader" /\ taken.publishing = None
      /\ taken.waiting_joins = {} /\ taken.pending_removals = {}
      /\ taken.accepted = r.accepted /\ taken.committed = r.committed /\ taken.out = r.out
      /\ taken.exclusions = r.exclusions /\ taken.term = r.term
  BY <1>1 DEF NodeState
<1>5. /\ asked \in NodeState /\ asked.mode = "Leader"
      /\ asked.committed = r.committed /\ asked.out = r.out /\ asked.term = r.term
  BY <1>1, <1>4 DEF NodeState
<1>6. Build(n, r) = IF ~changed THEN taken ELSE Send(n, asked, next)
  BY DEF Build
<1> HIDE DEF s, taken, asked
<1>7. CASE ~changed
  <2>1. s.nodes = r.committed.nodes
    BY <1>3, <1>7
  <2>2. r.committed.last_accepted_config = Reconfigure(r.committed, r.exclusions)
    BY <1>3, <1>7, <2>1, ReconfigureSame, SMT
  <2> QED
    BY <1>1, <1>4, <1>6, <1>7, <2>2 DEF Fit, InOrder, Covered, Settled
<1>8. CASE changed
  <2>1. config \in SUBSET Node /\ config # {}
    BY <1>1, <1>2, <1>3, ReconfigureType DEF HasBoth, HasConfig
  <2> HIDE DEF config, changed
  <2>2. /\ next \in ClusterState /\ next.version = r.committed.version + 1
        /\ next.last_accepted_config # {}
    BY <1>3, <2>1 DEF ClusterState
  <2> HIDE DEF next
  <2>3. /\ next.version > 0
        /\ Fresher(asked.term, next.version, asked.committed.term, asked.committed.version)
    BY <1>2, <1>5, <2>2, SMT DEF Fresher
  <2> QED
    BY <1>1, <1>5, <1>6, <1>8, <2>2, <2>3, SendFit, SMT
<1> QED
  BY <1>7, <1>8

(* The calls publish -> commit_publication -> next_publication, as often as *)
(* they go round, end with nothing left to improve.                         *)
LEMMA SettleFit ==
    ASSUME NEW n \in Node, NEW r, Fit(r), Settled(r), r.mode = "Leader"
    PROVE  Fit(Settle(n, r)) /\ Settled(Settle(n, r)) /\ Settle(n, r).mode = "Leader"
<1>1. ASSUME NEW q, Fit(q), Settled(q), q.mode = "Leader"
      PROVE  Fit(Round(n, q)) /\ Settled(Round(n, q)) /\ Round(n, q).mode = "Leader"
  BY <1>1, CommitFit, BuildFit DEF Round
<1> QED
  BY <1>1 DEF Settle

(* A node that is a quorum of a configuration by itself is all there is of  *)
(* it.                                                                      *)
LEMMA SoleVoter ==
    ASSUME NEW config \in SUBSET Node, NEW n \in Node, HasQuorum(config, {n})
    PROVE  config = {n}
<1>1. IsFiniteSet(config) /\ Cardinality(config) \in Nat
  BY NodeAssumption, FS_Subset, FS_CardinalityType
<1>2. config \cap {n} \subseteq {n} /\ IsFiniteSet({n}) /\ Cardinality({n}) = 1
  BY FS_Singleton
<1>3. Cardinality(config \cap {n}) \in Nat /\ Cardinality(config \cap {n}) <= 1
  BY <1>2, FS_Subset, FS_CardinalityType
<1>4. Cardinality(config) <= 1 /\ config # {}
  BY <1>1, <1>3, SMT DEF HasQuorum
<1>5. Cardinality(config) = 1
  BY <1>1, <1>4, FS_EmptySet, SMT
<1>6. PICK x : config = {x}
  BY <1>1, <1>5, FS_Singleton
<1>7. config \cap {n} # {}
  BY <1>3, <1>4, <1>5, FS_EmptySet, SMT DEF HasQuorum
<1> QED
  BY <1>6, <1>7

(* A manager that commits what it has just built, by its own word alone,    *)
(* has nothing to build next: it took up all that waited, and reconfigure   *)
(* answers as before.                                                       *)
LEMMA BuildAgain ==
    ASSUME NEW n \in Node, NEW r, Fit(r), r.mode = "Leader", r.publishing = None,
           ~Rest(Build(n, r))
    PROVE  Build(n, Commit(n, Build(n, r))).publishing = None
<1> DEFINE joined  == r.committed.nodes \cup r.waiting_joins
           s       == [NextState(r.committed) EXCEPT !.nodes = joined \ r.pending_removals]
           config  == Reconfigure(s, r.exclusions)
           taken   == [r EXCEPT !.waiting_joins = {}, !.pending_removals = {}]
           asked   == [taken EXCEPT !.republish_wanted = FALSE]
           next    == [s EXCEPT !.last_accepted_config = config]
           state   == [next EXCEPT !.term = asked.term, !.manager = n,
                                   !.lineage = @ \cup {Name(asked.term, n, next.version)}]
           a       == Build(n, r)
<1>1. /\ r \in NodeState /\ InOrder(r) /\ r.committed \in ClusterState
      /\ r.committed.version \in Nat /\ r.committed.term \in Nat
      /\ r.term \in Nat /\ r.committed.term <= r.term
  <2>1. r \in NodeState /\ InOrder(r) /\ r.committed \in ClusterState
    BY DEF Fit, NodeState
  <2>2. r.accepted.term <= r.term /\ ~FresherState(r.committed, r.accepted)
    BY <2>1 DEF InOrder
  <2> QED
    BY <2>1, <2>2, SMT DEF ClusterState, NodeState, FresherState, Fresher
<1>2. /\ s \in ClusterState /\ s.version = r.committed.version + 1
      /\ s.last_committed_config = r.committed.last_committed_config
  <2>1. joined \ r.pending_removals \in SUBSET Node
    BY <1>1 DEF NodeState, ClusterState
  <2> DEFINE f == NextState(r.committed)
  <2>2. /\ f \in ClusterState /\ f.version = r.committed.version + 1
        /\ f.last_committed_config = r.committed.last_committed_config
    BY <1>1, NextStateIs
  <2> HIDE DEF joined, f
  <2>3. s = [f EXCEPT !.nodes = joined \ r.pending_removals]
    BY DEF f
  <2> HIDE DEF s
  <2> QED
    BY <2>1, <2>2, <2>3 DEF ClusterState
<1>3. /\ asked \in NodeState /\ asked.mode = "Leader" /\ asked.term = r.term
      /\ asked.committed = r.committed /\ asked.exclusions = r.exclusions
      /\ asked.waiting_joins = {} /\ asked.pending_removals = {}
      /\ asked.republish_wanted = FALSE
      /\ taken.publishing = None
  BY <1>1 DEF NodeState
<1>4. a = taken \/ a = Send(n, asked, next)
  BY DEF Build
<1>5. a = Send(n, asked, next)
  BY <1>3, <1>4 DEF Rest
<1>6. config \in SUBSET Node
  BY <1>2, ReconfigureType
<1> HIDE DEF s, config, asked, taken
<1>7. /\ next \in ClusterState /\ next.version = s.version /\ next.nodes = s.nodes
      /\ next.last_committed_config = s.last_committed_config
      /\ next.last_accepted_config = config
  BY <1>2, <1>6 DEF ClusterState
<1> HIDE DEF next
<1>8. /\ state \in ClusterState /\ state.term = r.term /\ state.version = next.version
      /\ state.nodes = next.nodes /\ state.last_accepted_config = config
      /\ state.last_committed_config = next.last_committed_config
  <2>1. Name(asked.term, n, next.version) \in Names
    BY <1>1, <1>3, <1>7 DEF Name, Names, ClusterState
  <2> QED
    BY <1>1, <1>3, <1>7, <2>1 DEF ClusterState
<1> DEFINE p == [state |-> state, rid |-> asked.next_request, acked |-> {n}]
           m == [type |-> "Publish", from |-> n, run |-> asked.run,
                 rid |-> asked.next_request, state |-> state]
<1>9. a = [asked EXCEPT !.publishing = p, !.accepted = state, !.next_request = @ + 1,
                        !.out = @ \cup {m}]
  BY <1>5 DEF Send
<1> HIDE DEF state, m
<1>10. p.state = state /\ p.acked = {n}
  OBVIOUS
<1> HIDE DEF p, a
<1>11. /\ a.publishing = p /\ a.committed = r.committed /\ a.exclusions = r.exclusions
       /\ a.waiting_joins = {} /\ a.pending_removals = {} /\ a.republish_wanted = FALSE
  BY <1>3, <1>9 DEF NodeState
<1>12. config = {n} /\ s.last_committed_config = {n}
  <2>1. ElectionQuorum(state, {n})
    BY <1>10, <1>11 DEF Rest, a
  <2>2. HasQuorum(config, {n}) /\ HasQuorum(s.last_committed_config, {n})
    BY <1>7, <1>8, <2>1 DEF ElectionQuorum
  <2>3. s.last_committed_config \in SUBSET Node
    BY <1>2 DEF ClusterState
  <2> QED
    BY <1>6, <2>2, <2>3, SoleVoter
<1> DEFINE d == Commit(n, a)
           c == [state EXCEPT !.last_committed_config = state.last_accepted_config]
<1>13. FresherState(state, r.committed)
  BY <1>1, <1>2, <1>7, <1>8, SMT DEF FresherState, Fresher
<1>14. /\ c.nodes = s.nodes /\ c.last_committed_config = {n} /\ c.last_accepted_config = {n}
       /\ c \in ClusterState
  BY <1>7, <1>8, <1>12 DEF ClusterState
<1>15. a \in NodeState /\ Fit(a) /\ a.mode = "Leader" /\ a.publishing # None
  <2>1. Fit(a) /\ a.mode = "Leader"
    BY BuildFit DEF a
  <2> QED
    BY <2>1 DEF Fit, Rest, a
<1> DEFINE told == (p.state.nodes \cap p.acked) \ {n}
           sent == {CommitRequest(n, x, p.state.term, p.state.version) : x \in told}
                   \cup {[type |-> "CommitNote", from |-> n, state |-> p.state]}
           e    == [a EXCEPT !.publishing = None, !.lagging = p.state.nodes \ p.acked,
                             !.out = @ \cup sent]
           acc  == IF FresherState(c, e.accepted) THEN c ELSE e.accepted
<1>16. d = ApplyCommitted(e, state)
  BY <1>10, <1>11 DEF Commit
<1> HIDE DEF sent
<1>17. /\ e.committed = r.committed /\ e.exclusions = r.exclusions /\ e.waiting_joins = {}
       /\ e.pending_removals = {} /\ e.republish_wanted = FALSE /\ e.publishing = None
       /\ DOMAIN e = DOMAIN a
  BY <1>11, <1>15 DEF NodeState
<1> HIDE DEF e, d
<1>18. d = [e EXCEPT !.accepted = acc, !.committed = c]
  BY <1>13, <1>16, <1>17 DEF ApplyCommitted, c
<1> HIDE DEF acc, c
<1>19. /\ d.committed = c /\ d.exclusions = r.exclusions /\ d.waiting_joins = {}
       /\ d.pending_removals = {} /\ d.republish_wanted = FALSE /\ d.publishing = None
       /\ DOMAIN d = DOMAIN a
  BY <1>15, <1>17, <1>18 DEF NodeState
<1> DEFINE t == [NextState(c) EXCEPT !.nodes = (c.nodes \cup {}) \ {}]
<1>20. /\ t.nodes = s.nodes /\ t.last_committed_config = {n} /\ t.last_accepted_config = {n}
  BY <1>14 DEF NextState, ClusterState
<1> HIDE DEF t
<1>21. Build(n, d) = [d EXCEPT !.waiting_joins = {}, !.pending_removals = {}]
  <2>1. Reconfigure(t, r.exclusions) = {n}
    <3>1. t.last_committed_config = s.last_committed_config
      BY <1>12, <1>20
    <3> QED
      BY <1>12, <1>20, <3>1, ReconfigureSame, SMT DEF config
  <2> DEFINE all  == d.committed.nodes \cup d.waiting_joins
             u    == [NextState(d.committed) EXCEPT !.nodes = all \ d.pending_removals]
             more == \/ d.waiting_joins # {}
                     \/ d.republish_wanted
                     \/ all \cap d.pending_removals # {}
                     \/ Reconfigure(u, d.exclusions) # u.last_accepted_config
  <2>2. ~more => Build(n, d) = [d EXCEPT !.waiting_joins = {}, !.pending_removals = {}]
    BY DEF Build
  <2>3. u = t
    BY <1>19 DEF t
  <2> HIDE DEF u
  <2>4. Reconfigure(u, d.exclusions) = u.last_accepted_config
    BY <1>19, <1>20, <2>1, <2>3
  <2>5. ~more
    BY <1>19, <2>4
  <2> QED
    BY <2>2, <2>5
<1>22. Build(n, d).publishing = None
  BY <1>15, <1>19, <1>21 DEF NodeState
<1> QED
  BY <1>22 DEF d, a

(* The calls of publish, commit_publication and next_publication on each    *)
(* other end after two rounds, whatever the answers have come to before.    *)
LEMMA SettleRest ==
    ASSUME NEW n \in Node, NEW r, Fit(r), r.mode = "Leader"
    PROVE  Rest(Settle(n, r))
<1>1. ASSUME NEW q PROVE Rest(q) => Round(n, q) = q
  BY DEF Rest, Round
<1>2. ASSUME NEW q PROVE ~Rest(q) => q.publishing # None /\ Round(n, q) = Build(n, Commit(n, q))
  BY DEF Rest, Round
<1>3. CASE Rest(r)
  BY <1>1, <1>3 DEF Settle
<1>4. CASE ~Rest(r)
  <2> DEFINE k == Commit(n, r)
             a == Build(n, k)
  <2>1. Fit(k) /\ k.mode = "Leader" /\ k.publishing = None
    BY <1>2, <1>4, CommitFit
  <2>2. Round(n, r) = a
    BY <1>2, <1>4
  <2> HIDE DEF k
  <2>3. CASE Rest(a)
    BY <1>1, <2>2, <2>3 DEF Settle
  <2>4. CASE ~Rest(a)
    <3> DEFINE b == Build(n, Commit(n, a))
    <3>1. b.publishing = None
      BY <2>1, <2>4, BuildAgain
    <3>2. Round(n, a) = b
      BY <1>2, <2>4
    <3> HIDE DEF b
    <3>3. Rest(b)
      BY <3>1 DEF Rest
    <3> QED
      BY <1>1, <2>2, <3>2, <3>3 DEF Settle
  <2> QED
    BY <2>3, <2>4
<1> QED
  BY <1>3, <1>4

(* next_publication, called in any mode.                                    *)
LEMMA NextPublicationFit ==
    ASSUME NEW n \in Node, NEW r, Fit(r)
    PROVE  /\ Fit(NextPublication(n, r)) /\ Settled(NextPublication(n, r))
           /\ Rest(r) => Rest(NextPublication(n, r))
<1>1. CASE r.mode # "Leader" \/ r.publishing # None
  BY <1>1 DEF NextPublication, Settled
<1>2. CASE r.mode = "Leader" /\ r.publishing = None
  BY <1>2, BuildFit, SettleFit, SettleRest DEF NextPublication
<1> QED
  BY <1>1, <1>2

(* become_leader: the new manager was elected by a quorum of its accepted   *)
(* configuration, so it has one.                                            *)
LEMMA BecomeLeaderFit ==
    ASSUME NEW n \in Node, NEW r, Fit(r), r.accepted.last_accepted_config # {}
    PROVE  /\ Fit(BecomeLeader(n, r)) /\ Settled(BecomeLeader(n, r))
           /\ Rest(BecomeLeader(n, r))
<1> DEFINE s == [NextState(r.accepted) EXCEPT !.nodes = @ \cup r.join_votes \cup {n}]
           note == [type |-> "LeaderNote", from |-> n, term |-> r.term]
           leading == [r EXCEPT !.mode = "Leader", !.leader = n, !.join_votes = {},
                                !.lagging = {}, !.out = @ \cup {note}]
<1>1. /\ r \in NodeState /\ InOrder(r) /\ HasBoth(r.committed) /\ Fine(r.out)
      /\ r.accepted \in ClusterState
  BY DEF Fit, InOrder, NodeState
<1>2. s \in ClusterState /\ s.version = r.accepted.version + 1 /\ s.last_accepted_config # {}
  <2>1. r.accepted.nodes \cup r.join_votes \cup {n} \in SUBSET Node
    BY <1>1 DEF NodeState, ClusterState
  <2> DEFINE f == NextState(r.accepted)
  <2>2. /\ f \in ClusterState /\ f.version = r.accepted.version + 1 /\ f.nodes = r.accepted.nodes
        /\ f.last_accepted_config = r.accepted.last_accepted_config
    BY <1>1, NextStateIs
  <2> HIDE DEF f
  <2>3. s = [f EXCEPT !.nodes = r.accepted.nodes \cup r.join_votes \cup {n}]
    BY <2>2 DEF f
  <2> HIDE DEF s
  <2> QED
    BY <2>1, <2>2, <2>3 DEF ClusterState
<1>3. note \in Messages /\ note.type = "LeaderNote"
  BY <1>1 DEF Messages, NodeState
<1> HIDE DEF s, note
<1>4. leading \in NodeState
  <2>1. r.out \cup {note} \in SUBSET Messages
    BY <1>1, <1>3 DEF NodeState
  <2> QED
    BY <1>1, <2>1 DEF NodeState
<1>5. /\ leading.mode = "Leader" /\ leading.committed = r.committed
      /\ leading.out = r.out \cup {note} /\ leading.term = r.term
  BY <1>1 DEF NodeState
<1>6. Fine(leading.out)
  BY <1>1, <1>3, <1>5 DEF Fine
<1>7. BecomeLeader(n, r) = Settle(n, Send(n, leading, s))
  BY DEF BecomeLeader, s, note
<1> HIDE DEF leading
<1>8. /\ s.version > 0
      /\ Fresher(leading.term, s.version, leading.committed.term, leading.committed.version)
  BY <1>1, <1>2, <1>5, SMT DEF InOrder, FresherState, Fresher, NodeState, ClusterState
<1>9. /\ Fit(Send(n, leading, s)) /\ Settled(Send(n, leading, s))
      /\ Send(n, leading, s).mode = "Leader"
  BY <1>1, <1>2, <1>4, <1>5, <1>6, <1>8, SendFit
<1> QED
  BY <1>7, <1>9, SettleFit, SettleRest

(* A join at a manager is answered, or taken into the next state.           *)
LEMMA JoinAtLeaderFit ==
    ASSUME NEW n \in Node, NEW r, Fit(r), Settled(r), NEW from \in Node,
           NEW sameProcess
    PROVE  /\ Fit(JoinAtLeader(n, r, from, sameProcess))
           /\ Settled(JoinAtLeader(n, r, from, sameProcess))
           /\ Rest(r) => Rest(JoinAtLeader(n, r, from, sameProcess))
<1> DEFINE heard   == [r EXCEPT !.pending_removals = @ \ {from}]
           sent    == {JoinResponse(n, m, r.committed) : m \in {from} \cap budget.answered}
           replied == [heard EXCEPT !.out = @ \cup sent]
           asked   == [heard EXCEPT !.lagging = @ \ {from}, !.waiting_joins = @ \cup {from}]
<1>1. /\ r \in NodeState /\ HasBoth(r.committed) /\ Fine(r.out)
      /\ r.committed \in ClusterState
  BY DEF Fit, InOrder, NodeState
<1>2. \A m \in sent : m \in Messages /\ m.type = "JoinResponse" /\ m.state = r.committed
  BY <1>1, SMT DEF JoinResponse, Messages
<1>3. Fine(r.out \cup sent)
  BY <1>1, <1>2 DEF Fine
<1> HIDE DEF sent
<1>4. /\ heard \in NodeState /\ heard.out = r.out
      /\ heard.pending_removals = r.pending_removals \ {from}
      /\ heard.term = r.term /\ heard.mode = r.mode /\ heard.accepted = r.accepted
      /\ heard.committed = r.committed /\ heard.publishing = r.publishing
      /\ heard.waiting_joins = r.waiting_joins /\ heard.exclusions = r.exclusions
  BY <1>1 DEF NodeState
<1> HIDE DEF heard
<1>5. /\ replied \in NodeState /\ replied.out = r.out \cup sent
      /\ replied.pending_removals = r.pending_removals \ {from}
      /\ replied.term = r.term /\ replied.mode = r.mode /\ replied.accepted = r.accepted
      /\ replied.committed = r.committed /\ replied.publishing = r.publishing
      /\ replied.waiting_joins = r.waiting_joins /\ replied.exclusions = r.exclusions
  <2>1. r.out \cup sent \in SUBSET Messages
    BY <1>1, <1>2 DEF NodeState
  <2> QED
    BY <1>4, <2>1 DEF NodeState
<1>6. /\ asked \in NodeState /\ asked.out = r.out
      /\ asked.term = r.term /\ asked.mode = r.mode /\ asked.accepted = r.accepted
      /\ asked.committed = r.committed /\ asked.publishing = r.publishing
  BY <1>4 DEF NodeState
<1>7. \/ JoinAtLeader(n, r, from, sameProcess) = replied
      \/ JoinAtLeader(n, r, from, sameProcess) = NextPublication(n, asked)
  BY DEF JoinAtLeader, heard, sent
<1> HIDE DEF replied, asked
<1>8. Fit(replied) /\ Settled(replied) /\ (Rest(r) => Rest(replied))
  BY <1>3, <1>5 DEF Fit, InOrder, Covered, Settled, Rest
<1>9. Fit(asked) /\ (Rest(r) => Rest(asked))
  BY <1>1, <1>6 DEF Fit, InOrder, Covered, Rest
<1> QED
  BY <1>7, <1>8, <1>9, NextPublicationFit

(* on_join: a vote, a vote that makes a manager, or a join at one.          *)
LEMMA OnJoinFit ==
    ASSUME NEW n \in Node, NEW was, Fit(was), Settled(was), NEW from \in Node,
           NEW term \in Nat, NEW acceptedTerm, NEW acceptedVersion, NEW same
    PROVE  LET q == OnJoin(n, was, from, term, acceptedTerm, acceptedVersion, same)
           IN  Fit(q) /\ Settled(q) /\ (Rest(was) => Rest(q))
<1> DEFINE r     == SawTerm(was, term)
           voted == [r EXCEPT !.join_votes = @ \cup {from}]
           q     == OnJoin(n, was, from, term, acceptedTerm, acceptedVersion, same)
<1>1. Fit(r) /\ Settled(r) /\ (Rest(was) => Rest(r))
  BY SawTermFit
<1>2. \/ q = r
      \/ q = voted /\ r.mode = "Candidate"
      \/ q = BecomeLeader(n, voted) /\ r.mode = "Candidate" /\ r.accepted.last_accepted_config # {}
      \/ q = JoinAtLeader(n, r, from, same)
  BY DEF OnJoin, ElectionQuorum, HasQuorum
<1> HIDE DEF r, q
<1>3. /\ voted \in NodeState /\ voted.mode = r.mode /\ voted.term = r.term
      /\ voted.accepted = r.accepted /\ voted.committed = r.committed
      /\ voted.out = r.out /\ voted.publishing = r.publishing
  BY <1>1 DEF Fit, NodeState
<1> HIDE DEF voted
<1>4. /\ r.mode = "Candidate" => Fit(voted) /\ Settled(voted)
      /\ Rest(r) => Rest(voted)
  BY <1>1, <1>3 DEF Fit, InOrder, Settled, Rest
<1>5. Fit(q) /\ Settled(q) /\ (Rest(was) => Rest(q))
  BY <1>1, <1>2, <1>3, <1>4, BecomeLeaderFit, JoinAtLeaderFit
<1> QED
  BY <1>5 DEF q

(* on_start_join: the node moves to the term and votes.                     *)
LEMMA OnStartJoinFit ==
    ASSUME NEW n \in Node, NEW was, Fit(was), Settled(was), NEW from \in Node,
           NEW term \in Nat
    PROVE  /\ Fit(OnStartJoin(n, was, from, term)) /\ Settled(OnStartJoin(n, was, from, term))
           /\ Rest(was) => Rest(OnStartJoin(n, was, from, term))
<1> DEFINE r     == SawTerm(was, term)
           vote  == JoinVote(n, from, r)
           voted == [r EXCEPT !.out = @ \cup {vote}]
<1>1. Fit(r) /\ Settled(r) /\ (Rest(was) => Rest(r))
  BY SawTermFit
<1>2. \/ OnStartJoin(n, was, from, term) = voted
      \/ OnStartJoin(n, was, from, term) =
            OnJoin(n, r, n, term, r.accepted.term, r.accepted.version, TRUE)
  BY DEF OnStartJoin
<1> HIDE DEF r
<1>3. vote \in Messages /\ vote.type = "Join"
  BY <1>1 DEF Fit, NodeState, ClusterState, JoinVote, Messages
<1> HIDE DEF vote
<1>4. /\ voted \in NodeState /\ voted.out = r.out \cup {vote}
      /\ voted.term = r.term /\ voted.mode = r.mode /\ voted.accepted = r.accepted
      /\ voted.committed = r.committed /\ voted.publishing = r.publishing
      /\ voted.waiting_joins = r.waiting_joins /\ voted.exclusions = r.exclusions
      /\ voted.pending_removals = r.pending_removals
  <2>1. r.out \cup {vote} \in SUBSET Messages
    BY <1>1, <1>3 DEF Fit, NodeState
  <2> QED
    BY <1>1, <2>1 DEF Fit, NodeState
<1> HIDE DEF voted
<1>5. Fine(voted.out)
  BY <1>1, <1>3, <1>4 DEF Fine, Fit
<1>6. Fit(voted) /\ Settled(voted) /\ (Rest(r) => Rest(voted))
  BY <1>1, <1>4, <1>5 DEF Fit, InOrder, Covered, Settled, Rest
<1> QED
  BY <1>1, <1>2, <1>6, OnJoinFit

(* A process starts from the fresher of the two states on disk.             *)
LEMMA StartFit ==
    ASSUME NEW n \in Node, NEW term \in Nat, NEW accepted, NEW committed, NEW run \in Nat,
           HasConfig(accepted), HasBoth(committed)
    PROVE  LET q == Start(n, term, accepted, committed, run)
           IN  Fit(q) /\ Settled(q) /\ Rest(q) /\ q.out = {}
<1> DEFINE kept == IF FresherState(accepted, committed) THEN accepted ELSE committed
           t == AtLeast(term, kept.term)
           r == [term |-> t, mode |-> "Candidate", leader |-> None,
                 accepted |-> kept, committed |-> committed,
                 join_votes |-> {}, publishing |-> None,
                 waiting_joins |-> {}, pending_removals |-> {}, lagging |-> {},
                 republish_wanted |-> FALSE,
                 exclusions |-> {}, next_request |-> 1, run |-> run, out |-> {}]
<1>1. /\ accepted \in ClusterState /\ committed \in ClusterState
      /\ accepted.term \in Nat /\ accepted.version \in Nat
      /\ committed.term \in Nat /\ committed.version \in Nat
  BY DEF HasConfig, HasBoth, ClusterState
<1>2. /\ kept \in ClusterState /\ kept.term \in Nat /\ HasConfig(kept)
      /\ ~FresherState(committed, kept)
  BY <1>1, SMT DEF HasBoth, FresherState, Fresher
<1> HIDE DEF kept
<1>3. t \in Nat /\ kept.term <= t
  BY <1>2, SMT DEF AtLeast
<1> HIDE DEF t
<1>4. r \in NodeState
  BY <1>1, <1>2, <1>3 DEF NodeState
<1>5. /\ r.accepted = kept /\ r.committed = committed /\ r.mode = "Candidate"
      /\ r.out = {} /\ r.term = t /\ r.publishing = None
  OBVIOUS
<1>6. \/ Start(n, term, accepted, committed, run) = r
      \/ CanBootstrap(n, r) /\ Start(n, term, accepted, committed, run) = Bootstrapped(r)
  BY DEF Start, kept, t
<1>7. Bootstrapped(r).out = r.out
  BY <1>4 DEF Bootstrapped, NodeState
<1> HIDE DEF r
<1>8. Fit(r) /\ Settled(r) /\ Rest(r)
  BY <1>2, <1>3, <1>4, <1>5 DEF Fit, InOrder, Fine, Settled, Rest
<1> QED
  BY <1>5, <1>6, <1>7, <1>8, BootstrappedFit

(* The end of a handler.                                                    *)
LEMMA StepKeeps ==
    ASSUME Inv, NEW n \in Node, NEW q, Fit(q), Settled(q), Rest(q),
           Step(n, q)
    PROVE  Inv'
<1> DEFINE r == [q EXCEPT !.out = {}]
<1>1. /\ node \in [Node -> NodeState] /\ node' = [node EXCEPT ![n] = r]
      /\ msgs' = msgs \cup q.out /\ budget' = budget
  BY DEF Inv, TypeOK, Step
<1>2. /\ r \in NodeState /\ r.out = {}
      /\ r.term = q.term /\ r.mode = q.mode /\ r.accepted = q.accepted
      /\ r.committed = q.committed /\ r.publishing = q.publishing
      /\ r.waiting_joins = q.waiting_joins /\ r.exclusions = q.exclusions
      /\ r.pending_removals = q.pending_removals
  BY DEF Fit, NodeState
<1>3. Fit(r) /\ Settled(r) /\ Rest(r)
  BY <1>2 DEF Fit, InOrder, Covered, Fine, Settled, Rest
<1> HIDE DEF r
<1>4. TypeOK'
  BY <1>1, <1>2 DEF Inv, TypeOK, Fit, NodeState
<1>5. Fine(msgs')
  BY <1>1 DEF Inv, Fine, Fit
<1>6. \A m \in Node : Fit(node'[m]) /\ Settled(node'[m]) /\ Rest(node'[m])
  BY <1>1, <1>3 DEF Inv
<1> QED
  BY <1>4, <1>5, <1>6 DEF Inv, Fine, Fit, Settled, Rest

-----------------------------------------------------------------------------
(* The steps.                                                               *)

LEMMA InitInv == Init => Inv
<1> SUFFICES ASSUME Init PROVE Inv
  OBVIOUS
<1>1. /\ EmptyState \in ClusterState /\ EmptyState.version = 0 /\ EmptyState.term = 0
      /\ EmptyState.lineage = {}
      /\ EmptyState.last_committed_config = EmptyState.last_accepted_config
  BY DEF EmptyState, ClusterState
<1>2. HasConfig(EmptyState) /\ HasBoth(EmptyState)
  BY <1>1, SMT DEF HasConfig, HasBoth
<1> DEFINE first(n) == Start(n, 0, EmptyState, EmptyState, 0)
<1>3. node = [n \in Node |-> first(n)] /\ msgs = {} /\ budget \in Scopes
  BY DEF Init
<1>4. \A n \in Node : Fit(first(n)) /\ Settled(first(n)) /\ Rest(first(n)) /\ first(n).out = {}
  BY <1>2, StartFit
<1> HIDE DEF first
<1>5. TypeOK
  BY <1>3, <1>4, BoundAssumption DEF TypeOK, Fit
<1> QED
  BY <1>3, <1>4, <1>5 DEF Inv, Fine

(* Nodes that left, or missed too many checks, go with the next state.      *)
LEMMA RemovalKeeps ==
    ASSUME Inv, NEW n \in Node, NEW gone \in SUBSET Node,
           Step(n, NextPublication(n, [node[n] EXCEPT !.pending_removals = @ \cup gone]))
    PROVE  Inv'
<1> DEFINE r == [node[n] EXCEPT !.pending_removals = @ \cup gone]
<1>1. node[n] \in NodeState /\ Fit(node[n]) /\ Rest(node[n])
  BY DEF Inv, TypeOK
<1>2. /\ r \in NodeState /\ r.out = node[n].out
      /\ r.term = node[n].term /\ r.mode = node[n].mode /\ r.accepted = node[n].accepted
      /\ r.committed = node[n].committed /\ r.publishing = node[n].publishing
  BY <1>1 DEF NodeState
<1>3. Fit(r) /\ Rest(r)
  BY <1>1, <1>2 DEF Fit, InOrder, Covered, Rest
<1> QED
  BY <1>3, NextPublicationFit, StepKeeps

(* Timers keep the invariant, ...                                           *)
LEMMA TimerKeeps ==
    ASSUME Inv, NEW n \in Node, Timer(n)
    PROVE  Inv'
<1>0. /\ node \in [Node -> NodeState] /\ node[n] \in NodeState /\ node[n].out = {}
      /\ Fit(node[n]) /\ Settled(node[n]) /\ Rest(node[n]) /\ budget \in Budgets
  BY DEF Inv, TypeOK
<1>1. CASE Bootstrap(n)
  BY <1>0, <1>1, BootstrappedFit, StepKeeps DEF Bootstrap
<1>2. ASSUME NEW term \in 1 .. MaxTerm, StartElection(n, term)
      PROVE  Inv'
  <2> DEFINE call == StartJoin(n, term)
             r    == [node[n] EXCEPT !.out = {call}]
  <2>1. call \in Messages /\ call.type = "StartJoin" /\ term \in Nat
    BY BoundAssumption, SMT DEF StartJoin, Messages
  <2>2. Step(n, OnStartJoin(n, r, n, term))
    BY <1>2 DEF StartElection
  <2> HIDE DEF call
  <2>3. /\ r \in NodeState /\ r.out = {call}
        /\ r.term = node[n].term /\ r.mode = node[n].mode /\ r.accepted = node[n].accepted
        /\ r.committed = node[n].committed /\ r.publishing = node[n].publishing
        /\ r.waiting_joins = node[n].waiting_joins /\ r.exclusions = node[n].exclusions
        /\ r.pending_removals = node[n].pending_removals
    BY <1>0, <2>1 DEF NodeState
  <2> HIDE DEF r
  <2>4. Fit(r) /\ Settled(r) /\ Rest(r)
    BY <1>0, <2>1, <2>3 DEF Fit, InOrder, Covered, Fine, Settled, Rest
  <2> QED
    BY <2>1, <2>2, <2>4, OnStartJoinFit, StepKeeps
<1>3. CASE PublishTimeout(n)
  BY <1>0, <1>3, BecomeCandidateFit, StepKeeps DEF PublishTimeout
<1>4. ASSUME NEW gone \in SUBSET Node, FollowerCheckTimer(n, gone)
      PROVE  Inv'
  BY <1>0, <1>4, RemovalKeeps DEF FollowerCheckTimer
<1>5. CASE LoseLeader(n)
  BY <1>0, <1>5, BecomeCandidateFit, StepKeeps DEF LoseLeader
<1>6. ASSUME NEW exclusions \in ExclusionSets, Republish(n, exclusions)
      PROVE  Inv'
  <2> DEFINE r == [node[n] EXCEPT !.republish_wanted = TRUE, !.exclusions = exclusions]
  <2>1. exclusions \in SUBSET Node
    BY ConfigAssumption
  <2>2. Step(n, NextPublication(n, r))
    BY <1>6 DEF Republish
  <2>3. /\ r \in NodeState /\ r.out = node[n].out
        /\ r.term = node[n].term /\ r.mode = node[n].mode /\ r.accepted = node[n].accepted
        /\ r.committed = node[n].committed /\ r.publishing = node[n].publishing
    BY <1>0, <2>1 DEF NodeState
  <2> HIDE DEF r
  <2>4. Fit(r) /\ Rest(r)
    BY <1>0, <2>3 DEF Fit, InOrder, Covered, Rest
  <2> QED
    BY <2>2, <2>4, NextPublicationFit, StepKeeps
<1>7. CASE Restart(n)
  <2> DEFINE r == node[n]
             q == Start(n, r.term, r.accepted, r.committed, r.run + 1)
  <2>1. r.term \in Nat /\ r.run + 1 \in Nat /\ HasConfig(r.accepted) /\ HasBoth(r.committed)
    BY <1>0, SMT DEF Fit, InOrder, NodeState
  <2>2. Fit(q) /\ Settled(q) /\ Rest(q) /\ q.out = {}
    BY <2>1, StartFit
  <2>3. node' = [node EXCEPT ![n] = q] /\ msgs' = msgs
    BY <1>7 DEF Restart
  <2>4. budget' \in Budgets
    BY <1>0, <1>7, SMT DEF Restart, Budgets
  <2> HIDE DEF q
  <2>5. TypeOK'
    BY <1>0, <2>2, <2>3, <2>4 DEF Inv, TypeOK, Fit
  <2>6. \A m \in Node : Fit(node'[m]) /\ Settled(node'[m]) /\ Rest(node'[m])
    BY <1>0, <2>2, <2>3 DEF Inv
  <2> QED
    BY <2>3, <2>5, <2>6 DEF Inv, Fine, Fit, Settled, Rest
<1> QED
  BY <1>1, <1>2, <1>3, <1>4, <1>5, <1>6, <1>7 DEF Timer

(* ... and messages keep it.                                                *)
LEMMA ReceiveKeeps ==
    ASSUME Inv, NEW n \in Node, Receive(n)
    PROVE  Inv'
<1>0. /\ node \in [Node -> NodeState] /\ node[n] \in NodeState /\ node[n].out = {}
      /\ Fit(node[n]) /\ Settled(node[n]) /\ Rest(node[n]) /\ InOrder(node[n]) /\ budget \in Budgets
      /\ Fine(msgs) /\ msgs \subseteq Messages
      /\ node[n].term \in Nat /\ node[n].accepted \in ClusterState
  BY DEF Inv, TypeOK, Fit, NodeState
<1>1. ASSUME NEW m \in msgs, OnStartJoinRequest(n, m)
      PROVE  Inv'
  <2>1. m.from \in Node /\ m.term \in Nat
    BY <1>0, <1>1 DEF OnStartJoinRequest, Messages
  <2> QED
    BY <1>0, <1>1, <2>1, OnStartJoinFit, StepKeeps DEF OnStartJoinRequest
<1>2. ASSUME NEW m \in msgs, OnJoinRequest(n, m)
      PROVE  Inv'
  <2>1. m.from \in Node /\ m.term \in Nat
    BY <1>0, <1>2 DEF OnJoinRequest, Messages
  <2> QED
    BY <1>0, <1>2, <2>1, OnJoinFit, StepKeeps DEF OnJoinRequest
<1>3. ASSUME NEW from \in Node, OnVotelessJoin(n, from)
      PROVE  Inv'
  BY <1>0, <1>3, JoinAtLeaderFit, StepKeeps DEF OnVotelessJoin
<1>4. ASSUME NEW m \in msgs, OnJoinResponse(n, m)
      PROVE  Inv'
  <2> DEFINE r == [node[n] EXCEPT !.mode = "Follower", !.leader = m.from]
             q == ApplyCommitted(r, m.state)
  <2>1. m.from \in Node /\ HasConfig(m.state) /\ m.state.term = node[n].term
    BY <1>0, <1>4 DEF OnJoinResponse, Messages, Fine, HasBoth
  <2>2. /\ r \in NodeState /\ r.mode = "Follower" /\ r.term = node[n].term
        /\ r.accepted = node[n].accepted /\ r.committed = node[n].committed
        /\ r.out = node[n].out /\ r.publishing = node[n].publishing
    BY <1>0, <2>1 DEF NodeState
  <2>3. Step(n, q)
    BY <1>4 DEF OnJoinResponse
  <2> HIDE DEF r
  <2>4. InOrder(r) /\ m.state.term <= r.term
    BY <1>0, <2>1, <2>2, SMT DEF InOrder
  <2>5. /\ q \in NodeState /\ InOrder(q) /\ q.mode = "Follower" /\ q.out = node[n].out
        /\ q.publishing = node[n].publishing
    BY <2>1, <2>2, <2>4, ApplyCommittedIs
  <2> HIDE DEF q
  <2>6. Fit(q) /\ Settled(q) /\ Rest(q)
    BY <1>0, <2>5 DEF Fit, Settled, Rest
  <2> QED
    BY <2>3, <2>6, StepKeeps
<1>5. ASSUME NEW m \in msgs, OnPublishRequest(n, m)
      PROVE  Inv'
  <2> DEFINE answer == [type |-> "PublishResponse", from |-> n, to |-> m.from,
                        run |-> m.run, rid |-> m.rid,
                        term |-> m.state.term, version |-> m.state.version]
             q == [node[n] EXCEPT !.accepted = m.state, !.mode = "Follower",
                                  !.leader = m.state.manager, !.out = {answer}]
  <2>1. /\ m.from \in Node /\ m.run \in Nat /\ m.rid \in Nat /\ m.state \in ClusterState
        /\ HasConfig(m.state)
    BY <1>0, <1>5 DEF OnPublishRequest, Messages, Fine
  <2>2. /\ m.state.term = node[n].term
        /\ ~(m.state.term = node[n].accepted.term /\ m.state.version <= node[n].accepted.version)
        /\ Step(n, q)
    BY <1>5 DEF OnPublishRequest
  <2>3. answer \in Messages /\ answer.type = "PublishResponse"
    BY <2>1 DEF Messages, ClusterState
  <2> HIDE DEF answer
  <2>4. /\ q \in NodeState /\ q.mode = "Follower" /\ q.out = {answer}
        /\ q.term = node[n].term /\ q.accepted = m.state /\ q.committed = node[n].committed
        /\ q.publishing = node[n].publishing
    <3>1. m.state.manager \in Node \cup {None}
      BY <2>1 DEF ClusterState
    <3> QED
      BY <1>0, <2>1, <2>3, <3>1 DEF NodeState
  <2> HIDE DEF q
  <2>5. InOrder(q)
    <3>1. /\ node[n].committed \in ClusterState
          /\ node[n].accepted.term <= node[n].term
          /\ ~FresherState(node[n].committed, node[n].accepted)
      BY <1>0 DEF InOrder, HasBoth, HasConfig
    <3>2. ~FresherState(node[n].committed, m.state) /\ m.state.term <= node[n].term
      BY <1>0, <2>1, <2>2, <3>1, SMT DEF FresherState, Fresher, ClusterState
    <3> QED
      BY <1>0, <2>1, <2>4, <3>2 DEF InOrder
  <2>6. Fit(q) /\ Settled(q) /\ Rest(q)
    BY <1>0, <2>3, <2>4, <2>5 DEF Fit, Fine, Settled, Rest
  <2> QED
    BY <2>2, <2>6, StepKeeps
<1>6. ASSUME NEW m \in msgs, OnPublishResponse(n, m)
      PROVE  Inv'
  <2>0. m.from \in Node /\ m.term \in Nat /\ m.version \in Nat /\ node[n].mode = "Leader"
    BY <1>0, <1>6 DEF OnPublishResponse, Messages
  <2> DEFINE counted == [node[n] EXCEPT !.publishing.acked = @ \cup {m.from}]
             told    == CommitRequest(n, m.from, m.term, m.version)
             late    == [node[n] EXCEPT !.lagging = @ \ {m.from}, !.out = {told}]
  <2>1. CASE node[n].publishing # None /\ Step(n, Settle(n, counted))
    <3> DEFINE p == [node[n].publishing EXCEPT !.acked = @ \cup {m.from}]
    <3>1. node[n].publishing \in Publication
      BY <1>0, <2>1 DEF NodeState
    <3>2. /\ p \in Publication /\ p # None /\ p.state = node[n].publishing.state
      BY <2>0, <3>1, NoneAssumption, SMT DEF Publication
    <3>3. counted = [node[n] EXCEPT !.publishing = p]
      BY <1>0, <3>1 DEF NodeState
    <3> HIDE DEF p, counted
    <3>4. /\ counted \in NodeState /\ counted.out = node[n].out /\ counted.publishing = p
          /\ counted.term = node[n].term /\ counted.mode = "Leader"
          /\ counted.accepted = node[n].accepted /\ counted.committed = node[n].committed
      BY <1>0, <2>0, <3>2, <3>3 DEF NodeState
    <3>5. Fit(counted) /\ Settled(counted)
      BY <1>0, <2>0, <2>1, <3>2, <3>4 DEF Fit, InOrder, Covered, Settled
    <3> QED
      BY <2>1, <3>4, <3>5, SettleFit, SettleRest, StepKeeps
  <2>2. CASE Step(n, late)
    <3>1. told \in Messages /\ told.type = "Commit"
      BY <2>0 DEF CommitRequest, Messages
    <3> HIDE DEF told
    <3>2. /\ late \in NodeState /\ late.out = {told}
          /\ late.term = node[n].term /\ late.mode = node[n].mode
          /\ late.accepted = node[n].accepted /\ late.committed = node[n].committed
          /\ late.publishing = node[n].publishing
          /\ late.waiting_joins = node[n].waiting_joins
          /\ late.exclusions = node[n].exclusions
          /\ late.pending_removals = node[n].pending_removals
      BY <1>0, <3>1 DEF NodeState
    <3> HIDE DEF late
    <3>3. Fit(late) /\ Settled(late) /\ Rest(late)
      BY <1>0, <3>1, <3>2 DEF Fit, InOrder, Covered, Fine, Settled, Rest
    <3> QED
      BY <2>2, <3>3, StepKeeps
  <2> QED
    BY <1>6, <2>1, <2>2 DEF OnPublishResponse
<1>7. ASSUME NEW m \in msgs, NEW from \in Node, OnPublishRefused(n, m, from)
      PROVE  Inv'
  <2> DEFINE q == [node[n] EXCEPT !.lagging = @ \cup {from}]
  <2>1. Step(n, q)
    BY <1>7 DEF OnPublishRefused
  <2>2. /\ q \in NodeState /\ q.out = node[n].out
        /\ q.term = node[n].term /\ q.mode = node[n].mode /\ q.accepted = node[n].accepted
        /\ q.committed = node[n].committed /\ q.publishing = node[n].publishing
        /\ q.waiting_joins = node[n].waiting_joins /\ q.exclusions = node[n].exclusions
        /\ q.pending_removals = node[n].pending_removals
    BY <1>0 DEF NodeState
  <2> HIDE DEF q
  <2>3. Fit(q) /\ Settled(q) /\ Rest(q)
    BY <1>0, <2>2 DEF Fit, InOrder, Covered, Settled, Rest
  <2> QED
    BY <2>1, <2>3, StepKeeps
<1>8. ASSUME NEW m \in msgs, OnCommitRequest(n, m)
      PROVE  Inv'
  <2> DEFINE r == node[n]
             q == ApplyCommitted(r, r.accepted)
  <2>1. Step(n, q) /\ HasConfig(r.accepted) /\ r.accepted.term <= r.term
    BY <1>0, <1>8 DEF OnCommitRequest, InOrder
  <2>2. /\ q \in NodeState /\ InOrder(q)
        /\ q.mode = r.mode /\ q.publishing = r.publishing /\ q.out = r.out
        /\ q.accepted = r.accepted /\ ~FresherState(r.accepted, q.committed)
        /\ IF FresherState(r.accepted, r.committed) THEN q.committed.lineage = r.accepted.lineage
                                                   ELSE q = r
    BY <1>0, <2>1, ApplyCommittedIs
  <2> HIDE DEF q
  <2>3. Fit(q) /\ Settled(q) /\ Rest(q)
    <3>1. CASE q = r
      BY <1>0, <3>1
    <3>2. CASE FresherState(r.accepted, r.committed)
      BY <1>0, <2>2, <3>2 DEF Fit, Covered, Settled, Rest
    <3> QED
      BY <2>2, <3>1, <3>2
  <2> QED
    BY <2>1, <2>3, StepKeeps
<1>9. ASSUME NEW m \in msgs, OnFollowerCheck(n, m)
      PROVE  Inv'
  <2> DEFINE r == SawTerm(node[n], m.state.term)
             q == [r EXCEPT !.mode = "Follower", !.leader = m.from]
  <2>1. m.from \in Node /\ m.state.term \in Nat
    BY <1>0, <1>9 DEF OnFollowerCheck, Messages, ClusterState
  <2>2. Fit(r) /\ Settled(r) /\ Rest(r)
    BY <1>0, <2>1, SawTermFit
  <2>3. Step(n, q) \/ Step(n, r)
    BY <1>9 DEF OnFollowerCheck
  <2> HIDE DEF r
  <2>4. /\ q \in NodeState /\ q.mode = "Follower" /\ q.term = r.term
        /\ q.accepted = r.accepted /\ q.committed = r.committed /\ q.out = r.out
        /\ q.publishing = r.publishing
    BY <2>1, <2>2 DEF Fit, NodeState
  <2> HIDE DEF q
  <2>5. Fit(q) /\ Settled(q) /\ Rest(q)
    BY <2>2, <2>4 DEF Fit, InOrder, Settled, Rest
  <2> QED
    BY <2>2, <2>3, <2>5, StepKeeps
<1>10. ASSUME NEW term \in Terms, HearTerm(n, term)
       PROVE  Inv'
  <2>1. term \in Nat
    BY <1>0 DEF Terms, Sent, Messages
  <2> QED
    BY <1>0, <1>10, <2>1, SawTermFit, StepKeeps DEF HearTerm
<1>11. ASSUME NEW from \in Node, Leave(n, from)
       PROVE  Inv'
  <2>1. {from} \in SUBSET Node
    OBVIOUS
  <2> QED
    BY <1>11, <2>1, RemovalKeeps DEF Leave
<1> QED
  BY <1>1, <1>2, <1>3, <1>4, <1>5, <1>6, <1>7, <1>8, <1>9, <1>10, <1>11 DEF Receive

(* The invariant holds in every behaviour of the coordinators: for any      *)
(* configuration and exclusions, and whatever is lost, repeated or          *)
(* restarted.                                                               *)
THEOREM InvAlways == Spec => []Inv
<1>1. Inv /\ [Next]_vars => Inv'
  <2> SUFFICES ASSUME Inv, [Next]_vars PROVE Inv'
    OBVIOUS
  <2>1. CASE UNCHANGED vars
    BY <2>1 DEF Inv, TypeOK, Fine, Fit, InOrder, Covered, Settled, Rest, vars
  <2>2. CASE Next
    BY <2>2, TimerKeeps, ReceiveKeeps DEF Next
  <2> QED
    BY <2>1, <2>2
<1> QED
  BY InitInv, <1>1, PTL DEF Spec

-----------------------------------------------------------------------------
(* Whatever joins, leaves, is excluded or restarts: when next_publication   *)
(* has left a manager with nothing in flight, no node waits to join or to   *)
(* be removed, and reconfigure has nothing to improve.                      *)
THEOREM SettledWhenIdle == Spec => []ConfigurationSettled
<1>1. Inv => ConfigurationSettled
  BY DEF Inv, Settled, ConfigurationSettled
<1> QED
  BY <1>1, InvAlways, PTL

(* next_publication builds on the committed state, and it takes up all its  *)
(* manager has accepted, under any configuration and with answers to        *)
(* earlier processes counted.                                               *)
THEOREM BuildsOnAccepted == Spec => []ManagerBuildsOnWhatItAccepted
<1>1. Inv => ManagerBuildsOnWhatItAccepted
  BY DEF Inv, Fit, Covered, ManagerBuildsOnWhatItAccepted
<1> QED
  BY <1>1, InvAlways, PTL

(* commit_publication and next_publication have called each other as often  *)
(* as they go round: no manager, and no node that was one, is left with a   *)
(* publication that a quorum has answered.  So the rounds that SettleRest   *)
(* finds to be enough, and the three of Settle, are all there are.          *)
THEOREM RoundsEnough == Spec => []NothingLeftToCommit
<1>1. Inv => NothingLeftToCommit
  BY DEF Inv, Rest, NothingLeftToCommit
<1> QED
  BY <1>1, InvAlways, PTL

-----------------------------------------------------------------------------
(* A set of numbers that is not empty has a smallest one.                  *)
LEMMA LeastNat ==
    ASSUME NEW T \in SUBSET Nat, T # {}
    PROVE  \E x \in T : \A y \in T : x <= y
<1> DEFINE R == {ss \in Nat \X Nat : ss[1] < ss[2]}
<1>1. IsWellFoundedOn(R, Nat)
  BY NatLessThanWellFounded DEF OpToRel
<1> HIDE DEF R
<1>2. \E x \in T : \A y \in T : ~ (<<y, x>> \in R)
  BY <1>1, WFMin
<1>3. \A x, y \in Nat : x < y => <<x, y>> \in R
  BY DEF R
<1>4. PICK x \in T : \A y \in T : ~ (<<y, x>> \in R)
  BY <1>2
<1>5. ASSUME NEW y \in T PROVE x <= y
  <2>1. x \in Nat /\ y \in Nat
    OBVIOUS
  <2>2. ~(y < x)
    BY <1>3, <1>4, <2>1
  <2> QED
    BY <2>1, <2>2, SMT
<1> QED
  BY <1>5

(* reconfigure takes nodes by rank, and by id among those of a rank.        *)
Ahead(rank, y, x) == rank[y] < rank[x] \/ (rank[y] = rank[x] /\ Id[y] < Id[x])

(* Some node comes first.                                                   *)
LEMMA SomeFirst ==
    ASSUME NEW P \in SUBSET Node, NEW rank \in [P -> Nat], NEW S \in SUBSET P, S # {}
    PROVE  \E x \in S : \A y \in S : ~Ahead(rank, y, x)
<1> DEFINE ranks == {rank[x] : x \in S}
<1>1. PICK k \in ranks : \A j \in ranks : k <= j
  <2>1. ranks \in SUBSET Nat /\ ranks # {}
    OBVIOUS
  <2> HIDE DEF ranks
  <2> QED BY <2>1, LeastNat
<1> DEFINE top == {x \in S : rank[x] = k}
           ids == {Id[x] : x \in top}
<1>2. PICK i \in ids : \A j \in ids : i <= j
  <2>1. ids \in SUBSET Nat
    <3>1. \A x \in Node : Id[x] \in Nat
      BY NodeAssumption
    <3> QED BY <3>1
  <2>2. PICK x \in S : rank[x] = k
    BY <1>1
  <2>3. Id[x] \in ids
    BY <2>2
  <2> HIDE DEF ids
  <2> QED BY <2>1, <2>3, LeastNat
<1>3. PICK x \in top : Id[x] = i
  OBVIOUS
<1>4. ASSUME NEW y \in S, Ahead(rank, y, x) PROVE FALSE
  <2>1. rank[y] \in Nat /\ rank[x] = k /\ k \in Nat /\ k <= rank[y]
    BY <1>1, <1>3
  <2>2. rank[y] = k /\ Id[y] < Id[x]
    BY <1>4, <2>1, SMT DEF Ahead
  <2>3. Id[y] \in Nat /\ Id[x] \in Nat
    BY NodeAssumption
  <2>4. i <= Id[y]
    BY <1>2, <2>2
  <2> QED BY <1>3, <2>2, <2>3, <2>4, SMT
<1> QED BY <1>3, <1>4

(* Of three nodes or more, three have fewer than three ahead of them.       *)
LEMMA FirstThree ==
    ASSUME NEW P \in SUBSET Node, NEW rank \in [P -> Nat], Cardinality(P) >= 3,
           NEW target \in Nat, target >= 3
    PROVE  Cardinality({x \in P : Cardinality({y \in P : Ahead(rank, y, x)}) < target}) >= 3
<1> DEFINE before(x) == {y \in P : Ahead(rank, y, x)}
           new == {x \in P : Cardinality(before(x)) < target}
<1>0. IsFiniteSet(P) /\ Cardinality(P) \in Nat
  BY NodeAssumption, FS_Subset, FS_CardinalityType
<1>1. PICK x \in P : \A y \in P : ~Ahead(rank, y, x)
  <2>1. P # {}
    BY <1>0, FS_EmptySet, SMT
  <2> QED BY <2>1, SomeFirst
<1> DEFINE P1 == P \ {x}
<1>2. IsFiniteSet(P1) /\ Cardinality(P1) >= 2
  <2>1. IsFiniteSet(P1) /\ Cardinality(P1) = Cardinality(P) - 1
    BY <1>0, FS_RemoveElement
  <2> HIDE DEF P1
  <2> QED BY <1>0, <2>1, SMT
<1>3. PICK y \in P1 : \A z \in P1 : ~Ahead(rank, z, y)
  <2>1. P1 # {}
    BY <1>2, FS_EmptySet, SMT
  <2>2. P1 \in SUBSET P
    OBVIOUS
  <2> HIDE DEF P1
  <2> QED BY <2>1, <2>2, SomeFirst
<1> DEFINE P2 == P1 \ {y}
<1>4. IsFiniteSet(P2) /\ Cardinality(P2) >= 1
  <2>1. Cardinality(P1) \in Nat
    BY <1>2, FS_CardinalityType
  <2> HIDE DEF P1
  <2>2. IsFiniteSet(P2) /\ Cardinality(P2) = Cardinality(P1) - 1
    BY <1>2, <1>3, FS_RemoveElement
  <2> HIDE DEF P2
  <2> QED BY <1>2, <2>1, <2>2, SMT
<1>5. PICK z \in P2 : \A w \in P2 : ~Ahead(rank, w, z)
  <2>1. P2 # {}
    BY <1>4, FS_EmptySet, SMT
  <2>2. P2 \in SUBSET P
    OBVIOUS
  <2> HIDE DEF P2
  <2> QED BY <2>1, <2>2, SomeFirst
<1>6. x \in P /\ y \in P /\ z \in P /\ x # y /\ x # z /\ y # z
  BY <1>1, <1>3, <1>5
<1>7. before(x) = {} /\ before(y) \subseteq {x} /\ before(z) \subseteq {x, y}
  BY <1>1, <1>3, <1>5
<1>8. /\ IsFiniteSet({x}) /\ Cardinality({x}) = 1
      /\ IsFiniteSet({x, y}) /\ Cardinality({x, y}) = 2
      /\ IsFiniteSet({x, y, z}) /\ Cardinality({x, y, z}) = 3
  <2>1. {x, y} = {x} \cup {y} /\ {x, y, z} = {x, y} \cup {z}
    OBVIOUS
  <2>2. IsFiniteSet({x}) /\ Cardinality({x}) = 1
    BY FS_Singleton
  <2>3. IsFiniteSet({x} \cup {y}) /\ Cardinality({x} \cup {y}) = 1 + 1
    BY <1>6, <2>2, FS_AddElement
  <2>4. IsFiniteSet({x, y}) /\ Cardinality({x, y}) = 2
    BY <2>1, <2>3, SMT
  <2>5. y \notin {x} /\ z \notin {x, y}
    BY <1>6
  <2>6. IsFiniteSet({x, y} \cup {z}) /\ Cardinality({x, y} \cup {z}) = 2 + 1
    BY <2>4, <2>5, FS_AddElement
  <2> QED BY <2>1, <2>2, <2>4, <2>6, SMT
<1>9. \A v \in {x, y, z} : Cardinality(before(v)) < target
  <2>1. Cardinality(before(x)) = 0
    BY <1>7, FS_EmptySet
  <2>5. before(y) \in SUBSET {x} /\ before(z) \in SUBSET {x, y}
    BY <1>7
  <2> HIDE DEF before
  <2>6. /\ IsFiniteSet(before(y)) /\ Cardinality(before(y)) <= Cardinality({x})
        /\ IsFiniteSet(before(z)) /\ Cardinality(before(z)) <= Cardinality({x, y})
    BY <1>8, <2>5, FS_Subset
  <2>2. IsFiniteSet(before(y)) /\ Cardinality(before(y)) <= 1
    BY <1>8, <2>6
  <2>3. IsFiniteSet(before(z)) /\ Cardinality(before(z)) <= 2
    BY <1>8, <2>6
  <2>4. Cardinality(before(y)) \in Nat /\ Cardinality(before(z)) \in Nat
    BY <2>2, <2>3, FS_CardinalityType
  <2> QED BY <2>1, <2>2, <2>3, <2>4, SMT
<1>10. {x, y, z} \in SUBSET new /\ new \in SUBSET P
  BY <1>6, <1>9
<1> HIDE DEF new
<1>11. IsFiniteSet(new) /\ Cardinality(new) \in Nat
  BY <1>0, <1>10, FS_Subset, FS_CardinalityType
<1>12. Cardinality({x, y, z}) <= Cardinality(new)
  BY <1>10, <1>11, FS_Subset
<1> QED BY <1>8, <1>11, <1>12, SMT DEF new

(* reconfigure does not go below three when nobody is excluded.             *)
LEMMA ReconfigureKeepsThree ==
    ASSUME NEW s \in ClusterState, AutoShrink,
           Cardinality(s.last_committed_config) >= 3
    PROVE  Cardinality(Reconfigure(s, {})) >= 3
<1> DEFINE current == s.last_committed_config
           live    == s.nodes \cap Eligible
           pool    == live \cup current
           target  == AtLeast(Odd(Cardinality(live)), 3)
           rank    == [x \in pool |-> IF x \notin live THEN 2 ELSE IF x \in current THEN 0 ELSE 1]
           new     == {x \in pool : Cardinality({y \in pool : Ahead(rank, y, x)}) < target}
<1>1. Reconfigure(s, {}) = IF HasQuorum(new, live) THEN new ELSE current
  <2> DEFINE rnk(x) == IF x \notin live THEN 2 ELSE IF x \in current THEN 0 ELSE 1
             before(x, y) == rnk(x) < rnk(y) \/ (rnk(x) = rnk(y) /\ Id[x] < Id[y])
             nw == {x \in pool : Cardinality({y \in pool : before(y, x)}) < target}
  <2>0. ~(Cardinality(current) < 3)
    <3>1. IsFiniteSet(current)
      BY NodeAssumption, FS_Subset DEF ClusterState
    <3> QED BY <3>1, FS_CardinalityType, SMT
  <2>1. Reconfigure(s, {}) = IF HasQuorum(nw, live) THEN nw ELSE current
    <3>1. (s.nodes \cap Eligible) \ {} = live /\ current \ {} = current
      OBVIOUS
    <3> QED BY <2>0, <3>1, SMT DEF Reconfigure
  <2>2. ASSUME NEW x \in pool PROVE {y \in pool : before(y, x)} = {y \in pool : Ahead(rank, y, x)}
    <3>1. \A y \in pool : rank[y] = rnk(y)
      OBVIOUS
    <3> HIDE DEF rank, rnk, pool
    <3> QED BY <3>1 DEF Ahead
  <2>3. nw = new
    <3> HIDE DEF before, rank, pool, target
    <3> QED BY <2>2
  <2> HIDE DEF nw, new
  <2> QED BY <2>1, <2>3
<1>2. pool \in SUBSET Node /\ current \in SUBSET pool /\ live \in SUBSET Node
  BY ConfigAssumption DEF ClusterState
<1>3. rank \in [pool -> Nat]
  OBVIOUS
<1>4. Cardinality(pool) >= 3
  <2>1. IsFiniteSet(pool)
    BY <1>2, NodeAssumption, FS_Subset
  <2>2. IsFiniteSet(current) /\ Cardinality(current) <= Cardinality(pool)
    BY <1>2, <2>1, FS_Subset
  <2> HIDE DEF pool, current
  <2> QED BY <2>1, <2>2, FS_CardinalityType, SMT DEF current
<1>5. target \in Nat /\ target >= 3
  <2>1. Cardinality(live) \in Nat
    BY <1>2, NodeAssumption, FS_Subset, FS_CardinalityType
  <2> HIDE DEF live
  <2> QED BY <2>1, SMT DEF AtLeast, Odd
<1> HIDE DEF pool, rank, target
<1>6. Cardinality(new) >= 3
  BY <1>2, <1>3, <1>4, <1>5, FirstThree
<1> HIDE DEF new
<1> QED BY <1>1, <1>6

-----------------------------------------------------------------------------
(* What a state carries on from the one it was built on: its lineage, and   *)
(* a configuration.                                                         *)
Trait(s) == <<s.lineage, s.last_accepted_config>>

(* Before anything was published, a node has no configuration or the first. *)
Roots == {<<{}, {}>>, <<{}, InitialConfig>>}

(* T holds the traits of all states there ever were: none that others were  *)
(* built on has three members or more unless those have.                    *)
Kin(T) ==
    /\ Roots \subseteq T
    /\ \A c \in T : c[1] = {} => c \in Roots
    /\ \A c, d \in T : c[1] \subseteq d[1] /\ d[1] # {} /\ Cardinality(c[2]) >= 3 =>
          Cardinality(d[2]) >= 3

(* A name that node n gave is not ahead of what n has accepted since, so n  *)
(* gives no name twice.                                                     *)
OwnNames(T, n, r) ==
    \A c \in T : \A x \in c[1] : x.manager = n =>
        /\ x.term \in Nat /\ x.version \in Nat
        /\ x.term <= r.term
        /\ x.term = r.term => r.accepted.term = r.term /\ x.version <= r.accepted.version

(* The states of a record, and of messages, are among them.                 *)
Within(T, r) == Trait(r.accepted) \in T /\ Trait(r.committed) \in T

Among(T, M) ==
    \A m \in M : m.type \in {"Publish", "JoinResponse", "CommitNote"} => Trait(m.state) \in T

(* In the middle of a handler of n.                                         *)
Family(T, n, r) ==
    /\ Kin(T)
    /\ Among(T, msgs)
    /\ \A m \in Node \ {n} :
          Within(T, node[m]) /\ OwnNames(T, m, node[m]) /\ node[m].exclusions = {}
    /\ Within(T, r) /\ OwnNames(T, n, r) /\ Among(T, r.out)
    /\ r.exclusions = {}

Related(n, r) == \E T : Family(T, n, r)

(* Between two handlers.                                                    *)
FamilyInv ==
    AutoShrink /\ budget.excluding = {{}} =>
        \E T : /\ Kin(T) /\ Among(T, msgs)
               /\ \A n \in Node :
                     Within(T, node[n]) /\ OwnNames(T, n, node[n]) /\ node[n].exclusions = {}

(* A handler that moved on to no new state.                                 *)
LEMMA FamilyStays ==
    ASSUME NEW T, NEW n, NEW r \in NodeState, NEW q \in NodeState, Family(T, n, r),
           r.accepted.term <= r.term, q.accepted.term <= q.term,
           r.term <= q.term, ~FresherState(r.accepted, q.accepted),
           Within(T, q), Among(T, q.out), q.exclusions = r.exclusions
    PROVE  Family(T, n, q)
<1>1. /\ r.term \in Nat /\ q.term \in Nat
      /\ r.accepted.term \in Nat /\ q.accepted.term \in Nat
      /\ r.accepted.version \in Nat /\ q.accepted.version \in Nat
  BY DEF NodeState, ClusterState
<1>2. ASSUME NEW c \in T, NEW x \in c[1], x.manager = n
      PROVE  /\ x.term \in Nat /\ x.version \in Nat
             /\ x.term <= q.term
             /\ x.term = q.term => q.accepted.term = q.term /\ x.version <= q.accepted.version
  <2>1. /\ x.term \in Nat /\ x.version \in Nat
        /\ x.term <= r.term
        /\ x.term = r.term => r.accepted.term = r.term /\ x.version <= r.accepted.version
    BY <1>2 DEF Family, OwnNames
  <2> QED
    BY <1>1, <2>1, SMT DEF FresherState, Fresher
<1> QED
  BY <1>2 DEF Family, OwnNames

(* One that left what the node has accepted and committed alone.            *)
LEMMA FamilyAlike ==
    ASSUME NEW T, NEW n, NEW r \in NodeState, NEW q \in NodeState, Family(T, n, r),
           r.accepted.term <= r.term, r.term <= q.term,
           q.accepted = r.accepted, q.committed = r.committed,
           Among(T, q.out), q.exclusions = r.exclusions
    PROVE  Family(T, n, q)
<1>1. /\ r.term \in Nat /\ q.term \in Nat
      /\ r.accepted.term \in Nat /\ r.accepted.version \in Nat
  BY DEF NodeState, ClusterState
<1>2. q.accepted.term <= q.term /\ ~FresherState(r.accepted, q.accepted)
  BY <1>1, SMT DEF FresherState, Fresher
<1>3. Within(T, q)
  BY DEF Family, Within
<1> QED
  BY <1>2, <1>3, FamilyStays, SMT

(* publish gives the state a name that no state has in its lineage.         *)
LEMMA FreshName ==
    ASSUME NEW T, NEW n \in Node, NEW r \in NodeState, OwnNames(T, n, r), NEW c \in T
    PROVE  Name(r.term, n, r.accepted.version + 1) \notin c[1]
<1> DEFINE x == Name(r.term, n, r.accepted.version + 1)
<1>1. x.manager = n /\ x.term = r.term /\ x.version = r.accepted.version + 1
  BY DEF Name
<1>2. r.accepted.version \in Nat
  BY DEF NodeState, ClusterState
<1> HIDE DEF x
<1>3. x \in c[1] => x.version <= r.accepted.version
  BY <1>1 DEF OwnNames
<1> QED
  BY <1>1, <1>2, <1>3, SMT DEF x

(* What publish adds to the states there were.                              *)
LEMMA KinGrows ==
    ASSUME NEW T, Kin(T), NEW lineage, NEW base, <<lineage, base>> \in T, base # {},
           NEW config, Cardinality(base) >= 3 => Cardinality(config) >= 3,
           NEW x, \A c \in T : x \notin c[1]
    PROVE  Kin(T \cup {<<lineage \cup {x}, config>>})
<1> DEFINE t == <<lineage \cup {x}, config>>
           b == <<lineage, base>>
<1>1. t[1] = lineage \cup {x} /\ t[2] = config /\ t[1] # {} /\ b[1] = lineage /\ b[2] = base
  OBVIOUS
<1> HIDE DEF t, b
<1>2. b \in T
  BY DEF b
<1>3. ASSUME NEW c \in T, c[1] \subseteq t[1], Cardinality(c[2]) >= 3
      PROVE  Cardinality(t[2]) >= 3
  <2>1. c[1] \subseteq b[1]
    BY <1>1, <1>3
  <2>2. CASE b[1] # {}
    BY <1>1, <1>2, <1>3, <2>1, <2>2 DEF Kin
  <2>3. CASE b[1] = {}
    <3>1. c[1] = {} /\ c \in Roots /\ b \in Roots
      BY <1>2, <2>1, <2>3 DEF Kin
    <3>2. c[2] \in {{}, InitialConfig} /\ b[2] \in {{}, InitialConfig}
      BY <3>1, SMT DEF Roots
    <3>3. c[2] # {}
      <4>1. Cardinality({}) = 0
        BY FS_EmptySet
      <4>2. ~(Cardinality({}) >= 3)
        BY <4>1, SMT
      <4> QED BY <1>3, <4>2
    <3> QED
      BY <1>1, <1>3, <3>2, <3>3
  <2> QED
    BY <2>2, <2>3
<1>4. \A d \in T : ~(t[1] \subseteq d[1])
  BY <1>1
<1>5. ASSUME NEW c \in T \cup {t}, NEW d \in T \cup {t},
             c[1] \subseteq d[1], d[1] # {}, Cardinality(c[2]) >= 3
      PROVE  Cardinality(d[2]) >= 3
  BY <1>3, <1>4, <1>5 DEF Kin
<1>6. Kin(T \cup {t})
  BY <1>1, <1>5 DEF Kin
<1> QED
  BY <1>6 DEF t

(* publish, of a state built on one of the family, with a configuration     *)
(* that is not below three unless that one's is.                            *)
LEMMA SendFamily ==
    ASSUME NEW n \in Node, NEW r \in NodeState, Related(n, r), r.accepted.term <= r.term,
           NEW s \in ClusterState, s.version = r.accepted.version + 1,
           NEW b, b \in {r.accepted, r.committed}, b.lineage = s.lineage,
           b.last_accepted_config # {},
           Cardinality(b.last_accepted_config) >= 3 =>
               Cardinality(s.last_accepted_config) >= 3
    PROVE  Related(n, Send(n, r, s))
<1> DEFINE x == Name(r.term, n, s.version)
           state == [s EXCEPT !.term = r.term, !.manager = n, !.lineage = @ \cup {x}]
           p == [state |-> state, rid |-> r.next_request, acked |-> {n}]
           m == [type |-> "Publish", from |-> n, run |-> r.run, rid |-> r.next_request,
                 state |-> state]
           q == Send(n, r, s)
           t == <<s.lineage \cup {x}, s.last_accepted_config>>
<1>1. PICK T : Family(T, n, r)
  BY DEF Related
<1>2. /\ r.term \in Nat /\ s.version \in Nat /\ r.accepted.version \in Nat
      /\ r.accepted.term \in Nat
  BY DEF NodeState, ClusterState
<1>3. x.manager = n /\ x.term = r.term /\ x.version = s.version
  BY DEF Name
<1>4. \A c \in T : x \notin c[1]
  BY <1>1, FreshName DEF Family
<1>5. /\ state.version = s.version /\ state.term = r.term
      /\ state.last_accepted_config = s.last_accepted_config
      /\ state.lineage = s.lineage \cup {x}
  BY DEF ClusterState
<1>6. Trait(state) = t
  BY <1>5 DEF Trait
<1>7. q = [r EXCEPT !.publishing = p, !.accepted = state, !.next_request = @ + 1,
                    !.out = @ \cup {m}]
  BY DEF Send
<1>8. m.type = "Publish" /\ m.state = state
  OBVIOUS
<1> HIDE DEF state, p, m, x, q
<1>9. /\ q.accepted = state /\ q.committed = r.committed /\ q.term = r.term
      /\ q.out = r.out \cup {m} /\ q.exclusions = r.exclusions
  BY <1>7 DEF NodeState
<1>10. <<s.lineage, b.last_accepted_config>> \in T
  BY <1>1 DEF Family, Within, Trait
<1>11. Kin(T \cup {t})
  BY <1>1, <1>4, <1>10, KinGrows DEF Family
<1>12. \A y \in t[1] : y = x \/ \E c \in T : y \in c[1]
  BY <1>10
<1> DEFINE T2 == T \cup {t}
<1> HIDE DEF t
<1>13. ASSUME NEW k \in Node \ {n}
       PROVE  Within(T2, node[k]) /\ OwnNames(T2, k, node[k]) /\ node[k].exclusions = {}
  <2>1. Within(T, node[k]) /\ OwnNames(T, k, node[k]) /\ node[k].exclusions = {}
    BY <1>1 DEF Family
  <2> QED
    BY <1>3, <1>12, <2>1 DEF Within, OwnNames
<1>14. OwnNames(T2, n, q)
  <2>1. ASSUME NEW c \in T2, NEW y \in c[1], y.manager = n
        PROVE  /\ y.term \in Nat /\ y.version \in Nat
               /\ y.term <= q.term
               /\ y.term = q.term => q.accepted.term = q.term /\ y.version <= q.accepted.version
    <3>1. CASE y = x
      BY <1>2, <1>3, <1>5, <1>9, <3>1, SMT
    <3>2. CASE y # x
      <4>1. PICK d \in T : y \in d[1]
        BY <1>12, <2>1, <3>2
      <4>2. /\ y.term \in Nat /\ y.version \in Nat /\ y.term <= r.term
            /\ y.term = r.term => y.version <= r.accepted.version
        BY <1>1, <2>1, <4>1 DEF Family, OwnNames
      <4> QED
        BY <1>2, <1>5, <1>9, <4>2, SMT
    <3> QED
      BY <3>1, <3>2
  <2> QED
    BY <2>1 DEF OwnNames
<1>15. Within(T2, q) /\ Among(T2, q.out) /\ Among(T2, msgs) /\ q.exclusions = {}
  BY <1>1, <1>6, <1>8, <1>9 DEF Family, Within, Among
<1>16. Family(T2, n, q)
  BY <1>11, <1>13, <1>14, <1>15 DEF Family
<1> QED
  BY <1>16 DEF Related, q

(* apply_committed, of a state of the family.                               *)
LEMMA ApplyCommittedFamily ==
    ASSUME NEW T, NEW n, NEW r \in NodeState, InOrder(r), Family(T, n, r), NEW s,
           HasConfig(s), s.term <= r.term, Trait(s) \in T
    PROVE  Family(T, n, ApplyCommitted(r, s))
<1> DEFINE state == [s EXCEPT !.last_committed_config = s.last_accepted_config]
           taken == IF FresherState(state, r.accepted) THEN state ELSE r.accepted
           q     == ApplyCommitted(r, s)
<1>1. CASE ~FresherState(s, r.committed)
  BY <1>1 DEF ApplyCommitted
<1>2. CASE FresherState(s, r.committed)
  <2>1. q = [r EXCEPT !.accepted = taken, !.committed = state]
    BY <1>2 DEF ApplyCommitted
  <2>2. Trait(state) = Trait(s) /\ state \in ClusterState
    BY DEF HasConfig, ClusterState, Trait
  <2>3. Trait(taken) \in T /\ ~FresherState(r.accepted, taken)
    <3>1. /\ r.accepted.term \in Nat /\ r.accepted.version \in Nat
          /\ state.term \in Nat /\ state.version \in Nat
      BY <2>2 DEF NodeState, ClusterState
    <3>2. ~FresherState(r.accepted, taken)
      <4> HIDE DEF state
      <4> QED BY <3>1, SMT DEF FresherState, Fresher
    <3> HIDE DEF state
    <3> QED BY <2>2, <3>2 DEF Family, Within
  <2> HIDE DEF state, taken
  <2>4. /\ q.accepted = taken /\ q.committed = state /\ q.term = r.term
        /\ q.out = r.out /\ q.exclusions = r.exclusions
    BY <2>1 DEF NodeState
  <2>5. q \in NodeState /\ InOrder(q)
    BY ApplyCommittedIs
  <2> HIDE DEF q
  <2>6. /\ r.accepted.term <= r.term /\ q.accepted.term <= q.term /\ r.term <= q.term
    <3>1. r.term \in Nat
      BY DEF NodeState
    <3> QED BY <2>4, <2>5, <3>1, SMT DEF InOrder
  <2>7. Within(T, q) /\ Among(T, q.out)
    BY <2>2, <2>3, <2>4 DEF Within, Among, Family
  <2>8. Family(T, n, q)
    BY <2>3, <2>4, <2>5, <2>6, <2>7, FamilyStays, SMT
  <2> QED
    BY <2>8 DEF q
<1> QED
  BY <1>1, <1>2

(* commit_publication notes and commits what the manager has accepted.      *)
LEMMA CommitFamily ==
    ASSUME NEW n \in Node, NEW r, Fit(r), r.mode = "Leader", r.publishing # None,
           Related(n, r)
    PROVE  Related(n, Commit(n, r))
<1> DEFINE p    == r.publishing
           told == (p.state.nodes \cap p.acked) \ {n}
           sent == {CommitRequest(n, m, p.state.term, p.state.version) : m \in told}
                   \cup {[type |-> "CommitNote", from |-> n, state |-> p.state]}
           c    == [r EXCEPT !.publishing = None, !.lagging = p.state.nodes \ p.acked,
                             !.out = @ \cup sent]
<1>1. /\ r \in NodeState /\ InOrder(r) /\ p.state = r.accepted
      /\ HasConfig(r.accepted) /\ r.accepted.term <= r.term
  BY DEF Fit, InOrder
<1>2. PICK T : Family(T, n, r)
  BY DEF Related
<1>3. \A m \in sent : /\ m \in Messages
                      /\ m.type \in {"Commit", "CommitNote"}
                      /\ m.type = "CommitNote" => m.state = r.accepted
  <2>1. /\ p.state \in ClusterState /\ p.acked \subseteq Node /\ p.state.nodes \subseteq Node
        /\ p.state.term \in Nat /\ p.state.version \in Nat
    BY <1>1 DEF NodeState, Publication, ClusterState
  <2> QED
    BY <1>1, <2>1, SMT DEF CommitRequest, Messages
<1> HIDE DEF sent
<1>4. c \in NodeState
  <2>1. r.out \cup sent \in SUBSET Messages /\ p.state.nodes \ p.acked \in SUBSET Node
    BY <1>1, <1>3 DEF NodeState, Publication, ClusterState
  <2> QED
    BY <1>1, <2>1 DEF NodeState
<1>5. /\ c.accepted = r.accepted /\ c.committed = r.committed /\ c.out = r.out \cup sent
      /\ c.term = r.term /\ c.exclusions = r.exclusions
  BY <1>1 DEF NodeState
<1>6. Commit(n, r) = ApplyCommitted(c, p.state)
  BY DEF Commit, sent
<1> HIDE DEF c
<1>7. Among(T, c.out)
  BY <1>2, <1>3, <1>5 DEF Family, Among, Within
<1>8. r.term <= c.term
  BY <1>1, <1>5, SMT DEF NodeState
<1>9. Family(T, n, c)
  BY <1>1, <1>2, <1>4, <1>5, <1>7, <1>8, FamilyAlike
<1>10. InOrder(c) /\ p.state.term <= c.term /\ Trait(p.state) \in T
  BY <1>1, <1>2, <1>5 DEF InOrder, Family, Within
<1>11. Family(T, n, ApplyCommitted(c, p.state))
  BY <1>1, <1>4, <1>9, <1>10, ApplyCommittedFamily, SMT
<1> QED
  BY <1>6, <1>11 DEF Related

(* A handler that left what the node has accepted and committed alone, and  *)
(* sent at most that.                                                       *)
LEMMA RelatedAlike ==
    ASSUME NEW n, NEW r \in NodeState, NEW q \in NodeState, Related(n, r),
           r.accepted.term <= r.term, r.term <= q.term,
           q.accepted = r.accepted, q.committed = r.committed, q.exclusions = r.exclusions,
           \A m \in q.out : \/ m \in r.out
                            \/ m.type \notin {"Publish", "JoinResponse", "CommitNote"}
                            \/ m.state = r.committed
    PROVE  Related(n, q)
<1>1. PICK T : Family(T, n, r)
  BY DEF Related
<1>2. Among(T, q.out)
  BY <1>1 DEF Family, Among, Within
<1> QED
  BY <1>1, <1>2, FamilyAlike DEF Related

(* become_candidate leaves the states of the node alone, ...                *)
LEMMA BecomeCandidateRelated ==
    ASSUME NEW n, NEW r, Fit(r), Related(n, r)
    PROVE  Related(n, BecomeCandidate(r))
<1> DEFINE q == BecomeCandidate(r)
<1>1. /\ r \in NodeState /\ r.accepted.term <= r.term /\ q \in NodeState
  BY BecomeCandidateFit DEF Fit, InOrder
<1>2. /\ q.accepted = r.accepted /\ q.committed = r.committed /\ q.out = r.out
      /\ q.term = r.term /\ q.exclusions = r.exclusions
  BY <1>1 DEF BecomeCandidate, NodeState
<1> HIDE DEF q
<1>3. r.term <= q.term
  BY <1>1, <1>2, SMT DEF NodeState
<1>4. Related(n, q)
  BY <1>1, <1>2, <1>3, RelatedAlike
<1> QED
  BY <1>4 DEF q

(* ... and so does saw_term.                                                *)
LEMMA SawTermRelated ==
    ASSUME NEW n, NEW r, Fit(r), Settled(r), NEW term \in Nat, Related(n, r)
    PROVE  Related(n, SawTerm(r, term))
<1> DEFINE moved == [r EXCEPT !.term = term, !.join_votes = {}]
           q == SawTerm(r, term)
<1>1. /\ r \in NodeState /\ r.accepted.term <= r.term /\ q \in NodeState
  BY SawTermFit DEF Fit, InOrder
<1>2. q = r \/ (term > r.term /\ (q = moved \/ q = BecomeCandidate(moved)))
  <2>1. r.term \in Nat
    BY <1>1 DEF NodeState
  <2> QED
    BY <2>1, SMT DEF SawTerm
<1>3. CASE q = r
  BY <1>3
<1>4. CASE term > r.term /\ (q = moved \/ q = BecomeCandidate(moved))
  <2>1. /\ q.accepted = r.accepted /\ q.committed = r.committed /\ q.out = r.out
        /\ q.term = term /\ q.exclusions = r.exclusions
    <3>1. /\ moved \in NodeState
          /\ moved.accepted = r.accepted /\ moved.committed = r.committed
          /\ moved.out = r.out /\ moved.term = term /\ moved.exclusions = r.exclusions
      BY <1>1 DEF NodeState
    <3> HIDE DEF moved, q
    <3> QED
      BY <1>4, <3>1 DEF BecomeCandidate, NodeState
  <2> HIDE DEF q
  <2>2. r.term <= q.term
    BY <1>1, <1>4, <2>1, SMT DEF NodeState
  <2> QED
    BY <1>1, <2>1, <2>2, RelatedAlike DEF q
<1> QED
  BY <1>2, <1>3, <1>4

(* bootstrap: a node that has no configuration has no state of any lineage. *)
LEMMA BootstrappedRelated ==
    ASSUME NEW n \in Node, NEW r, Fit(r), CanBootstrap(n, r), Related(n, r)
    PROVE  Related(n, Bootstrapped(r))
<1> DEFINE q == Bootstrapped(r)
           a == SetConfig(r.accepted)
           c == SetConfig(r.committed)
<1>1. /\ r \in NodeState /\ HasConfig(r.accepted) /\ HasBoth(r.committed)
      /\ r.accepted.term <= r.term /\ q \in NodeState /\ q.accepted.term <= q.term
      /\ ~FresherState(r.committed, r.accepted)
  BY BootstrappedFit DEF Fit, InOrder
<1>2. /\ r.accepted.term \in Nat /\ r.accepted.version \in Nat
      /\ r.committed.term \in Nat /\ r.committed.version \in Nat /\ r.term \in Nat
  BY <1>1 DEF NodeState, ClusterState
<1>3. r.accepted.version = 0 /\ r.committed.version = 0
  BY <1>1, <1>2, SMT DEF HasBoth, HasConfig, CanBootstrap, FresherState, Fresher
<1>4. r.accepted.lineage = {} /\ r.committed.lineage = {}
  BY <1>1, <1>3 DEF HasBoth, HasConfig
<1>5. /\ Trait(a) = <<{}, InitialConfig>> /\ Trait(c) = <<{}, InitialConfig>>
      /\ a.term = r.accepted.term /\ a.version = r.accepted.version
  BY <1>1, <1>4 DEF HasBoth, HasConfig, SetConfig, ClusterState, Trait
<1>6. q = [r EXCEPT !.accepted = a, !.committed = c]
  BY <1>1 DEF Bootstrapped, NodeState
<1> HIDE DEF a, c, q
<1>7. /\ q.accepted = a /\ q.committed = c /\ q.out = r.out /\ q.term = r.term
      /\ q.exclusions = r.exclusions
  BY <1>1, <1>6 DEF NodeState
<1>8. PICK T : Family(T, n, r)
  BY DEF Related
<1>9. Within(T, q) /\ Among(T, q.out)
  BY <1>5, <1>7, <1>8 DEF Family, Kin, Roots, Within
<1>10. r.term <= q.term /\ ~FresherState(r.accepted, q.accepted)
  BY <1>2, <1>5, <1>7, SMT DEF FresherState, Fresher
<1>11. Family(T, n, q)
  BY <1>1, <1>7, <1>8, <1>9, <1>10, FamilyStays
<1> QED
  BY <1>11 DEF Related, q

(* next_publication: the state is built on the committed one, which has the *)
(* version of what the manager accepted, and reconfigure keeps three.       *)
LEMMA BuildRelated ==
    ASSUME NEW n \in Node, NEW r, Fit(r), r.mode = "Leader", r.publishing = None,
           Related(n, r), AutoShrink
    PROVE  Related(n, Build(n, r))
<1> DEFINE joined  == r.committed.nodes \cup r.waiting_joins
           s       == [NextState(r.committed) EXCEPT !.nodes = joined \ r.pending_removals]
           config  == Reconfigure(s, r.exclusions)
           taken   == [r EXCEPT !.waiting_joins = {}, !.pending_removals = {}]
           asked   == [taken EXCEPT !.republish_wanted = FALSE]
           next    == [s EXCEPT !.last_accepted_config = config]
<1>1. /\ r \in NodeState /\ InOrder(r) /\ r.accepted.term <= r.term
      /\ HasBoth(r.committed) /\ HasConfig(r.committed)
      /\ r.accepted.version > 0 /\ ~FresherState(r.accepted, r.committed)
      /\ ~FresherState(r.committed, r.accepted)
      /\ r.accepted \in ClusterState /\ r.committed \in ClusterState
  BY DEF Fit, InOrder, HasBoth, NodeState
<1>2. /\ r.committed.version = r.accepted.version
      /\ r.committed.version > 0 /\ r.committed.version \in Nat /\ r.term \in Nat
  BY <1>1, SMT DEF ClusterState, NodeState, FresherState, Fresher
<1>3. /\ s \in ClusterState /\ s.version = r.committed.version + 1
      /\ s.last_committed_config = r.committed.last_committed_config
      /\ s.lineage = r.committed.lineage
  <2>1. joined \ r.pending_removals \in SUBSET Node
    BY <1>1 DEF NodeState, ClusterState
  <2> DEFINE f == NextState(r.committed)
  <2>2. /\ f \in ClusterState /\ f.version = r.committed.version + 1
        /\ f.last_committed_config = r.committed.last_committed_config
    BY <1>1, <1>2, NextStateIs
  <2>3. f.lineage = r.committed.lineage
    BY <1>1 DEF NextState, ClusterState
  <2> HIDE DEF joined, f
  <2>4. s = [f EXCEPT !.nodes = joined \ r.pending_removals]
    BY DEF f
  <2> HIDE DEF s
  <2> QED
    BY <2>1, <2>2, <2>3, <2>4 DEF ClusterState
<1>4. /\ taken \in NodeState /\ taken.out = r.out
      /\ taken.accepted = r.accepted /\ taken.committed = r.committed
      /\ taken.exclusions = r.exclusions /\ taken.term = r.term
  BY <1>1 DEF NodeState
<1>5. /\ asked \in NodeState /\ asked.out = r.out
      /\ asked.accepted = r.accepted /\ asked.committed = r.committed
      /\ asked.exclusions = r.exclusions /\ asked.term = r.term
  BY <1>1, <1>4 DEF NodeState
<1>6. Build(n, r) = taken \/ Build(n, r) = Send(n, asked, next)
  BY DEF Build
<1> HIDE DEF s, taken, asked
<1>7. Related(n, taken) /\ Related(n, asked)
  <2>1. r.term <= taken.term /\ r.term <= asked.term
    BY <1>2, <1>4, <1>5, SMT
  <2> QED
    BY <1>1, <1>4, <1>5, <2>1, RelatedAlike
<1>8. r.exclusions = {}
  BY DEF Related, Family
<1>9. r.committed.last_accepted_config # {}
  BY <1>1, <1>2 DEF HasConfig
<1>10. /\ config \in SUBSET Node
       /\ Cardinality(r.committed.last_accepted_config) >= 3 => Cardinality(config) >= 3
  BY <1>1, <1>3, <1>8, ReconfigureType, ReconfigureKeepsThree DEF HasBoth
<1> HIDE DEF config
<1>11. /\ next \in ClusterState /\ next.version = s.version /\ next.lineage = s.lineage
       /\ next.last_accepted_config = config
  BY <1>3, <1>10 DEF ClusterState
<1> HIDE DEF next
<1>12. Related(n, Send(n, asked, next))
  <2>1. next.version = asked.accepted.version + 1 /\ asked.accepted.term <= asked.term
    BY <1>1, <1>2, <1>3, <1>5, <1>11
  <2>2. /\ r.committed \in {asked.accepted, asked.committed}
        /\ r.committed.lineage = next.lineage
        /\ Cardinality(r.committed.last_accepted_config) >= 3 =>
              Cardinality(next.last_accepted_config) >= 3
    BY <1>3, <1>5, <1>10, <1>11
  <2> QED
    BY <1>5, <1>7, <1>9, <1>11, <2>1, <2>2, SendFamily
<1> QED
  BY <1>6, <1>7, <1>12

(* publish -> commit_publication -> next_publication, round by round.       *)
LEMMA SettleRelated ==
    ASSUME NEW n \in Node, NEW r, Fit(r), Settled(r), r.mode = "Leader", Related(n, r),
           AutoShrink
    PROVE  Related(n, Settle(n, r))
<1>1. ASSUME NEW q, Fit(q), Settled(q), q.mode = "Leader", Related(n, q)
      PROVE  /\ Fit(Round(n, q)) /\ Settled(Round(n, q)) /\ Round(n, q).mode = "Leader"
             /\ Related(n, Round(n, q))
  <2>1. CASE Round(n, q) = q
    BY <1>1, <2>1
  <2>2. CASE q.publishing # None /\ Round(n, q) = Build(n, Commit(n, q))
    <3>1. /\ Fit(Commit(n, q)) /\ Commit(n, q).mode = "Leader"
          /\ Commit(n, q).publishing = None
      BY <1>1, <2>2, CommitFit
    <3>2. Related(n, Commit(n, q))
      BY <1>1, <2>2, CommitFamily
    <3> QED
      BY <2>2, <3>1, <3>2, BuildFit, BuildRelated
  <2> QED
    BY <2>1, <2>2 DEF Round
<1> QED
  BY <1>1 DEF Settle

(* next_publication, called in any mode.                                    *)
LEMMA NextPublicationRelated ==
    ASSUME NEW n \in Node, NEW r, Fit(r), Related(n, r), AutoShrink
    PROVE  Related(n, NextPublication(n, r))
<1>1. CASE r.mode # "Leader" \/ r.publishing # None
  BY <1>1 DEF NextPublication
<1>2. CASE r.mode = "Leader" /\ r.publishing = None
  BY <1>2, BuildFit, BuildRelated, SettleRelated DEF NextPublication
<1> QED
  BY <1>1, <1>2

(* become_leader: the state is built on the accepted one, and keeps its     *)
(* configuration.                                                           *)
LEMMA BecomeLeaderRelated ==
    ASSUME NEW n \in Node, NEW r, Fit(r), r.accepted.last_accepted_config # {},
           Related(n, r), AutoShrink
    PROVE  Related(n, BecomeLeader(n, r))
<1> DEFINE s == [NextState(r.accepted) EXCEPT !.nodes = @ \cup r.join_votes \cup {n}]
           note == [type |-> "LeaderNote", from |-> n, term |-> r.term]
           leading == [r EXCEPT !.mode = "Leader", !.leader = n, !.join_votes = {},
                                !.lagging = {}, !.out = @ \cup {note}]
<1>1. /\ r \in NodeState /\ InOrder(r) /\ HasBoth(r.committed) /\ Fine(r.out)
      /\ r.accepted \in ClusterState /\ r.accepted.term <= r.term
  BY DEF Fit, InOrder, NodeState
<1>2. /\ s \in ClusterState /\ s.version = r.accepted.version + 1
      /\ s.last_accepted_config = r.accepted.last_accepted_config
      /\ s.lineage = r.accepted.lineage
  <2>1. r.accepted.nodes \cup r.join_votes \cup {n} \in SUBSET Node
    BY <1>1 DEF NodeState, ClusterState
  <2> DEFINE f == NextState(r.accepted)
  <2>2. /\ f \in ClusterState /\ f.version = r.accepted.version + 1
        /\ f.nodes = r.accepted.nodes
        /\ f.last_accepted_config = r.accepted.last_accepted_config
    BY <1>1, NextStateIs
  <2>3. f.lineage = r.accepted.lineage
    BY <1>1 DEF NextState, ClusterState
  <2> HIDE DEF f
  <2>4. s = [f EXCEPT !.nodes = r.accepted.nodes \cup r.join_votes \cup {n}]
    BY <2>2 DEF f
  <2> HIDE DEF s
  <2> QED
    BY <2>1, <2>2, <2>3, <2>4 DEF ClusterState
<1>3. note \in Messages /\ note.type = "LeaderNote"
  BY <1>1 DEF Messages, NodeState
<1> HIDE DEF s, note
<1>4. leading \in NodeState
  <2>1. r.out \cup {note} \in SUBSET Messages
    BY <1>1, <1>3 DEF NodeState
  <2> QED
    BY <1>1, <2>1 DEF NodeState
<1>5. /\ leading.mode = "Leader" /\ leading.accepted = r.accepted
      /\ leading.committed = r.committed /\ leading.exclusions = r.exclusions
      /\ leading.out = r.out \cup {note} /\ leading.term = r.term
  BY <1>1 DEF NodeState
<1>6. Fine(leading.out)
  BY <1>1, <1>3, <1>5 DEF Fine
<1>7. BecomeLeader(n, r) = Settle(n, Send(n, leading, s))
  BY DEF BecomeLeader, s, note
<1> HIDE DEF leading
<1>8. /\ s.version > 0
      /\ Fresher(leading.term, s.version, leading.committed.term, leading.committed.version)
  BY <1>1, <1>2, <1>5, SMT DEF InOrder, FresherState, Fresher, NodeState, ClusterState
<1>9. /\ Fit(Send(n, leading, s)) /\ Settled(Send(n, leading, s))
      /\ Send(n, leading, s).mode = "Leader"
  BY <1>1, <1>2, <1>4, <1>5, <1>6, <1>8, SendFit
<1>10. Related(n, leading)
  <2>1. r.term <= leading.term
    BY <1>1, <1>5, SMT DEF NodeState
  <2> QED
    BY <1>1, <1>3, <1>4, <1>5, <2>1, RelatedAlike
<1>11. Related(n, Send(n, leading, s))
  BY <1>1, <1>2, <1>4, <1>5, <1>10, SendFamily
<1> QED
  BY <1>7, <1>9, <1>11, SettleRelated

(* A join is answered with the committed state, or taken into the next one. *)
LEMMA JoinAtLeaderRelated ==
    ASSUME NEW n \in Node, NEW r, Fit(r), NEW from \in Node, NEW sameProcess,
           Related(n, r), AutoShrink
    PROVE  Related(n, JoinAtLeader(n, r, from, sameProcess))
<1> DEFINE heard   == [r EXCEPT !.pending_removals = @ \ {from}]
           sent    == {JoinResponse(n, m, r.committed) : m \in {from} \cap budget.answered}
           replied == [heard EXCEPT !.out = @ \cup sent]
           asked   == [heard EXCEPT !.lagging = @ \ {from}, !.waiting_joins = @ \cup {from}]
<1>1. /\ r \in NodeState /\ r.committed \in ClusterState /\ r.accepted.term <= r.term
      /\ r.term \in Nat
  BY DEF Fit, InOrder, NodeState
<1>2. \A m \in sent : m \in Messages /\ m.state = r.committed
  BY <1>1, SMT DEF JoinResponse, Messages
<1> HIDE DEF sent
<1>3. /\ heard \in NodeState /\ heard.out = r.out
      /\ heard.term = r.term /\ heard.mode = r.mode /\ heard.accepted = r.accepted
      /\ heard.committed = r.committed /\ heard.publishing = r.publishing
      /\ heard.exclusions = r.exclusions
  BY <1>1 DEF NodeState
<1> HIDE DEF heard
<1>4. /\ replied \in NodeState /\ replied.out = r.out \cup sent
      /\ replied.term = r.term /\ replied.accepted = r.accepted
      /\ replied.committed = r.committed /\ replied.exclusions = r.exclusions
  <2>1. r.out \cup sent \in SUBSET Messages
    BY <1>1, <1>2 DEF NodeState
  <2> QED
    BY <1>3, <2>1 DEF NodeState
<1>5. /\ asked \in NodeState /\ asked.out = r.out
      /\ asked.term = r.term /\ asked.mode = r.mode /\ asked.accepted = r.accepted
      /\ asked.committed = r.committed /\ asked.publishing = r.publishing
      /\ asked.exclusions = r.exclusions
  BY <1>3 DEF NodeState
<1>6. \/ JoinAtLeader(n, r, from, sameProcess) = replied
      \/ JoinAtLeader(n, r, from, sameProcess) = NextPublication(n, asked)
  BY DEF JoinAtLeader, heard, sent
<1> HIDE DEF replied, asked
<1>7. r.term <= replied.term /\ r.term <= asked.term
  BY <1>1, <1>4, <1>5, SMT
<1>8. Related(n, replied)
  BY <1>1, <1>2, <1>4, <1>7, RelatedAlike
<1>9. Related(n, asked)
  BY <1>1, <1>5, <1>7, RelatedAlike
<1>10. Fit(asked)
  BY <1>1, <1>5 DEF Fit, InOrder, Covered
<1> QED
  BY <1>6, <1>8, <1>9, <1>10, NextPublicationRelated

(* on_join: a vote, a vote that makes a manager, or a join at one.          *)
LEMMA OnJoinRelated ==
    ASSUME NEW n \in Node, NEW was, Fit(was), Settled(was), NEW from \in Node,
           NEW term \in Nat, NEW acceptedTerm, NEW acceptedVersion, NEW same,
           Related(n, was), AutoShrink
    PROVE  Related(n, OnJoin(n, was, from, term, acceptedTerm, acceptedVersion, same))
<1> DEFINE r     == SawTerm(was, term)
           voted == [r EXCEPT !.join_votes = @ \cup {from}]
           q     == OnJoin(n, was, from, term, acceptedTerm, acceptedVersion, same)
<1>1. Fit(r) /\ Settled(r) /\ Related(n, r)
  BY SawTermFit, SawTermRelated
<1>2. \/ q = r
      \/ q = voted /\ r.mode = "Candidate"
      \/ q = BecomeLeader(n, voted) /\ r.mode = "Candidate" /\ r.accepted.last_accepted_config # {}
      \/ q = JoinAtLeader(n, r, from, same)
  BY DEF OnJoin, ElectionQuorum, HasQuorum
<1> HIDE DEF r, q
<1>3. /\ r \in NodeState /\ r.accepted.term <= r.term /\ r.term \in Nat
  BY <1>1 DEF Fit, InOrder, NodeState
<1>4. /\ voted \in NodeState /\ voted.mode = r.mode /\ voted.term = r.term
      /\ voted.accepted = r.accepted /\ voted.committed = r.committed
      /\ voted.out = r.out /\ voted.publishing = r.publishing
      /\ voted.exclusions = r.exclusions
  BY <1>3 DEF NodeState
<1> HIDE DEF voted
<1>5. r.mode = "Candidate" => Fit(voted)
  BY <1>1, <1>4 DEF Fit, InOrder
<1>6. Related(n, voted)
  <2>1. r.term <= voted.term
    BY <1>3, <1>4, SMT
  <2> QED
    BY <1>1, <1>3, <1>4, <2>1, RelatedAlike
<1>7. r.mode = "Candidate" /\ r.accepted.last_accepted_config # {} =>
         Related(n, BecomeLeader(n, voted))
  BY <1>4, <1>5, <1>6, BecomeLeaderRelated
<1>8. Related(n, JoinAtLeader(n, r, from, same))
  BY <1>1, JoinAtLeaderRelated
<1>9. Related(n, q)
  BY <1>1, <1>2, <1>6, <1>7, <1>8
<1> QED
  BY <1>9 DEF q

(* on_start_join: the node moves to the term and votes.                     *)
LEMMA OnStartJoinRelated ==
    ASSUME NEW n \in Node, NEW was, Fit(was), Settled(was), NEW from \in Node,
           NEW term \in Nat, Related(n, was), AutoShrink
    PROVE  Related(n, OnStartJoin(n, was, from, term))
<1> DEFINE r     == SawTerm(was, term)
           vote  == JoinVote(n, from, r)
           voted == [r EXCEPT !.out = @ \cup {vote}]
<1>1. Fit(r) /\ Settled(r) /\ Related(n, r)
  BY SawTermFit, SawTermRelated
<1>2. \/ OnStartJoin(n, was, from, term) = voted
      \/ OnStartJoin(n, was, from, term) =
            OnJoin(n, r, n, term, r.accepted.term, r.accepted.version, TRUE)
  BY DEF OnStartJoin
<1> HIDE DEF r
<1>3. vote \in Messages /\ vote.type = "Join"
  BY <1>1 DEF Fit, NodeState, ClusterState, JoinVote, Messages
<1> HIDE DEF vote
<1>4. /\ r \in NodeState /\ r.accepted.term <= r.term /\ r.term \in Nat
  BY <1>1 DEF Fit, InOrder, NodeState
<1>5. /\ voted \in NodeState /\ voted.out = r.out \cup {vote}
      /\ voted.term = r.term /\ voted.accepted = r.accepted
      /\ voted.committed = r.committed /\ voted.exclusions = r.exclusions
  <2>1. r.out \cup {vote} \in SUBSET Messages
    BY <1>3, <1>4 DEF NodeState
  <2> QED
    BY <1>4, <2>1 DEF NodeState
<1> HIDE DEF voted
<1>6. Related(n, voted)
  <2>1. r.term <= voted.term
    BY <1>4, <1>5, SMT
  <2> QED
    BY <1>1, <1>3, <1>4, <1>5, <2>1, RelatedAlike
<1>7. Related(n, OnJoin(n, r, n, term, r.accepted.term, r.accepted.version, TRUE))
  BY <1>1, OnJoinRelated
<1> QED
  BY <1>2, <1>6, <1>7

(* A process starts from the fresher of the two states on disk.             *)
LEMMA StartRelated ==
    ASSUME NEW n \in Node, NEW r, Fit(r), Related(n, r), NEW run \in Nat
    PROVE  Related(n, Start(n, r.term, r.accepted, r.committed, run))
<1> DEFINE kept == IF FresherState(r.accepted, r.committed) THEN r.accepted ELSE r.committed
           t == AtLeast(r.term, kept.term)
           q == [term |-> t, mode |-> "Candidate", leader |-> None,
                 accepted |-> kept, committed |-> r.committed,
                 join_votes |-> {}, publishing |-> None,
                 waiting_joins |-> {}, pending_removals |-> {}, lagging |-> {},
                 republish_wanted |-> FALSE,
                 exclusions |-> {}, next_request |-> 1, run |-> run, out |-> {}]
<1>1. /\ r \in NodeState /\ r.accepted \in ClusterState /\ r.committed \in ClusterState
      /\ HasConfig(r.accepted) /\ HasBoth(r.committed)
      /\ r.accepted.term <= r.term /\ ~FresherState(r.committed, r.accepted)
      /\ r.accepted.term \in Nat /\ r.accepted.version \in Nat
      /\ r.committed.term \in Nat /\ r.committed.version \in Nat /\ r.term \in Nat
  BY DEF Fit, InOrder, NodeState, ClusterState
<1>2. /\ kept \in ClusterState /\ kept.term \in Nat /\ HasConfig(kept)
      /\ ~FresherState(r.committed, kept) /\ ~FresherState(r.accepted, kept)
      /\ kept \in {r.accepted, r.committed}
  BY <1>1, SMT DEF HasBoth, FresherState, Fresher
<1> HIDE DEF kept
<1>3. t \in Nat /\ kept.term <= t /\ r.term <= t
  BY <1>1, <1>2, SMT DEF AtLeast
<1> HIDE DEF t
<1>4. q \in NodeState
  BY <1>1, <1>2, <1>3 DEF NodeState
<1>5. /\ q.accepted = kept /\ q.committed = r.committed /\ q.mode = "Candidate"
      /\ q.out = {} /\ q.term = t /\ q.exclusions = {}
  OBVIOUS
<1>6. \/ Start(n, r.term, r.accepted, r.committed, run) = q
      \/ /\ CanBootstrap(n, q)
         /\ Start(n, r.term, r.accepted, r.committed, run) = Bootstrapped(q)
  BY DEF Start, kept, t
<1> HIDE DEF q
<1>7. Fit(q)
  BY <1>1, <1>2, <1>3, <1>4, <1>5 DEF Fit, InOrder, Fine
<1>8. PICK T : Family(T, n, r)
  BY DEF Related
<1>9. Within(T, q) /\ Among(T, q.out) /\ q.exclusions = r.exclusions
  BY <1>2, <1>5, <1>8 DEF Family, Within, Among
<1>10. Family(T, n, q)
  BY <1>1, <1>2, <1>3, <1>4, <1>5, <1>8, <1>9, FamilyStays
<1>11. Related(n, q)
  BY <1>10 DEF Related
<1> QED
  BY <1>6, <1>7, <1>11, BootstrappedRelated

(* The end of a handler, and its beginning.                                 *)
LEMMA StepFamily ==
    ASSUME Inv, NEW n \in Node, NEW q, Fit(q), Related(n, q), Step(n, q)
    PROVE  FamilyInv'
<1> DEFINE r == [q EXCEPT !.out = {}]
<1>1. /\ node \in [Node -> NodeState] /\ node' = [node EXCEPT ![n] = r]
      /\ msgs' = msgs \cup q.out
  BY DEF Inv, TypeOK, Step
<1>2. /\ r.term = q.term /\ r.accepted = q.accepted /\ r.committed = q.committed
      /\ r.exclusions = q.exclusions
  BY DEF Fit, NodeState
<1> HIDE DEF r
<1>3. PICK T : Family(T, n, q)
  BY DEF Related
<1>4. Kin(T) /\ Among(T, msgs')
  BY <1>1, <1>3 DEF Family, Among
<1>5. ASSUME NEW m \in Node
      PROVE  Within(T, node'[m]) /\ OwnNames(T, m, node'[m]) /\ node'[m].exclusions = {}
  <2>1. CASE m = n
    <3>1. node'[m] = r
      BY <1>1, <2>1
    <3> QED
      BY <1>2, <1>3, <2>1, <3>1 DEF Family, Within, OwnNames
  <2>2. CASE m # n
    BY <1>1, <1>3, <2>2 DEF Family
  <2> QED
    BY <2>1, <2>2
<1> QED
  BY <1>4, <1>5 DEF FamilyInv, Among, Within, OwnNames

(* Before a handler of n, the family holds with the record n has.           *)
LEMMA RestRelated ==
    ASSUME Inv, FamilyInv, AutoShrink, budget.excluding = {{}}, NEW n \in Node
    PROVE  Related(n, node[n])
<1>1. PICK T : /\ Kin(T) /\ Among(T, msgs)
               /\ \A m \in Node :
                     Within(T, node[m]) /\ OwnNames(T, m, node[m]) /\ node[m].exclusions = {}
  BY DEF FamilyInv
<1>2. Among(T, node[n].out)
  BY DEF Inv, TypeOK, Among
<1>3. Family(T, n, node[n])
  BY <1>1, <1>2 DEF Family
<1> QED
  BY <1>3 DEF Related

(* Nothing was published at the start: all there is are the roots.          *)
LEMMA InitFamily == Init => FamilyInv
<1> SUFFICES ASSUME Init PROVE FamilyInv
  OBVIOUS
<1> DEFINE first(n) == Start(n, 0, EmptyState, EmptyState, 0)
           fresh(n) == [term |-> 0, mode |-> "Candidate", leader |-> None,
                        accepted |-> EmptyState, committed |-> EmptyState,
                        join_votes |-> {}, publishing |-> None,
                        waiting_joins |-> {}, pending_removals |-> {}, lagging |-> {},
                        republish_wanted |-> FALSE,
                        exclusions |-> {}, next_request |-> 1, run |-> 0, out |-> {}]
<1>1. /\ EmptyState.lineage = {} /\ EmptyState.last_accepted_config = {}
      /\ EmptyState.term = 0
  BY DEF EmptyState
<1>2. /\ Trait(EmptyState) = <<{}, {}>>
      /\ Trait(SetConfig(EmptyState)) = <<{}, InitialConfig>>
  BY DEF EmptyState, SetConfig, Trait
<1>3. ASSUME NEW n \in Node
      PROVE  /\ Trait(first(n).accepted) \in Roots /\ Trait(first(n).committed) \in Roots
             /\ first(n).exclusions = {}
  <2>1. first(n) \in {fresh(n), Bootstrapped(fresh(n))}
    <3>1. AtLeast(0, EmptyState.term) = 0
      BY <1>1, SMT DEF AtLeast
    <3>2. (IF FresherState(EmptyState, EmptyState) THEN EmptyState ELSE EmptyState) = EmptyState
      OBVIOUS
    <3> HIDE DEF first
    <3> QED
      BY <3>1, <3>2 DEF Start, first
  <2>2. /\ fresh(n).accepted = EmptyState /\ fresh(n).committed = EmptyState
        /\ fresh(n).exclusions = {}
        /\ Bootstrapped(fresh(n)).accepted = SetConfig(EmptyState)
        /\ Bootstrapped(fresh(n)).committed = SetConfig(EmptyState)
        /\ Bootstrapped(fresh(n)).exclusions = {}
    BY DEF Bootstrapped
  <2> HIDE DEF first, fresh
  <2> QED
    BY <1>2, <2>1, <2>2 DEF Roots
<1>4. node = [n \in Node |-> first(n)] /\ msgs = {}
  BY DEF Init
<1> HIDE DEF first
<1>5. Kin(Roots) /\ Among(Roots, msgs)
  <2>1. \A c \in Roots : c[1] = {}
    BY SMT DEF Roots
  <2> QED
    BY <1>4, <2>1 DEF Kin, Among
<1>6. ASSUME NEW n \in Node
      PROVE  Within(Roots, node[n]) /\ OwnNames(Roots, n, node[n]) /\ node[n].exclusions = {}
  <2>1. \A c \in Roots : c[1] = {}
    BY SMT DEF Roots
  <2> QED
    BY <1>3, <1>4, <2>1 DEF Within, OwnNames
<1> QED
  BY <1>5, <1>6 DEF FamilyInv

(* Nodes that left, or missed too many checks, go with the next state.      *)
LEMMA RemovalFamily ==
    ASSUME Inv, FamilyInv, AutoShrink, budget.excluding = {{}},
           NEW n \in Node, NEW gone \in SUBSET Node,
           Step(n, NextPublication(n, [node[n] EXCEPT !.pending_removals = @ \cup gone]))
    PROVE  FamilyInv'
<1> DEFINE r == [node[n] EXCEPT !.pending_removals = @ \cup gone]
<1>1. /\ node[n] \in NodeState /\ Fit(node[n]) /\ Related(n, node[n])
      /\ node[n].accepted.term <= node[n].term /\ node[n].term \in Nat
  BY RestRelated DEF Inv, TypeOK, Fit, InOrder, NodeState
<1>2. /\ r \in NodeState /\ r.out = node[n].out /\ r.exclusions = node[n].exclusions
      /\ r.term = node[n].term /\ r.mode = node[n].mode /\ r.accepted = node[n].accepted
      /\ r.committed = node[n].committed /\ r.publishing = node[n].publishing
  BY <1>1 DEF NodeState
<1> HIDE DEF r
<1>3. Fit(r)
  BY <1>1, <1>2 DEF Fit, InOrder, Covered
<1>4. Related(n, r)
  <2>1. node[n].term <= r.term
    BY <1>1, <1>2, SMT
  <2> QED
    BY <1>1, <1>2, <2>1, RelatedAlike
<1> QED
  BY <1>3, <1>4, NextPublicationFit, NextPublicationRelated, StepFamily DEF r

(* Timers keep the family, ...                                              *)
LEMMA TimerFamily ==
    ASSUME Inv, FamilyInv, AutoShrink, budget.excluding = {{}}, NEW n \in Node, Timer(n)
    PROVE  FamilyInv'
<1>0. /\ node \in [Node -> NodeState] /\ node[n] \in NodeState /\ node[n].out = {}
      /\ Fit(node[n]) /\ Settled(node[n]) /\ Related(n, node[n])
      /\ node[n].accepted.term <= node[n].term /\ node[n].term \in Nat /\ node[n].run \in Nat
  BY RestRelated DEF Inv, TypeOK, Fit, InOrder, NodeState
<1>1. CASE Bootstrap(n)
  BY <1>0, <1>1, BootstrappedFit, BootstrappedRelated, StepFamily DEF Bootstrap
<1>2. ASSUME NEW term \in 1 .. MaxTerm, StartElection(n, term)
      PROVE  FamilyInv'
  <2> DEFINE call == StartJoin(n, term)
             r    == [node[n] EXCEPT !.out = {call}]
  <2>1. call \in Messages /\ call.type = "StartJoin" /\ term \in Nat
    BY BoundAssumption, SMT DEF StartJoin, Messages
  <2>2. Step(n, OnStartJoin(n, r, n, term))
    BY <1>2 DEF StartElection
  <2> HIDE DEF call
  <2>3. /\ r \in NodeState /\ r.out = {call}
        /\ r.term = node[n].term /\ r.mode = node[n].mode /\ r.accepted = node[n].accepted
        /\ r.committed = node[n].committed /\ r.publishing = node[n].publishing
        /\ r.waiting_joins = node[n].waiting_joins /\ r.exclusions = node[n].exclusions
        /\ r.pending_removals = node[n].pending_removals
    BY <1>0, <2>1 DEF NodeState
  <2> HIDE DEF r
  <2>4. Fit(r) /\ Settled(r)
    BY <1>0, <2>1, <2>3 DEF Fit, InOrder, Covered, Fine, Settled
  <2>5. Related(n, r)
    <3>1. node[n].term <= r.term
      BY <1>0, <2>3, SMT
    <3> QED
      BY <1>0, <2>1, <2>3, <3>1, RelatedAlike
  <2> QED
    BY <2>1, <2>2, <2>4, <2>5, OnStartJoinFit, OnStartJoinRelated, StepFamily
<1>3. CASE PublishTimeout(n)
  BY <1>0, <1>3, BecomeCandidateFit, BecomeCandidateRelated, StepFamily DEF PublishTimeout
<1>4. ASSUME NEW gone \in SUBSET Node, FollowerCheckTimer(n, gone)
      PROVE  FamilyInv'
  BY <1>4, RemovalFamily DEF FollowerCheckTimer
<1>5. CASE LoseLeader(n)
  BY <1>0, <1>5, BecomeCandidateFit, BecomeCandidateRelated, StepFamily DEF LoseLeader
<1>6. ASSUME NEW exclusions \in ExclusionSets, Republish(n, exclusions)
      PROVE  FamilyInv'
  <2> DEFINE r == [node[n] EXCEPT !.republish_wanted = TRUE, !.exclusions = exclusions]
  <2>1. exclusions = {} /\ node[n].exclusions = {}
    BY <1>0, <1>6 DEF Republish, Related, Family
  <2>2. Step(n, NextPublication(n, r))
    BY <1>6 DEF Republish
  <2>3. /\ r \in NodeState /\ r.out = node[n].out /\ r.exclusions = node[n].exclusions
        /\ r.term = node[n].term /\ r.mode = node[n].mode /\ r.accepted = node[n].accepted
        /\ r.committed = node[n].committed /\ r.publishing = node[n].publishing
    BY <1>0, <2>1 DEF NodeState
  <2> HIDE DEF r
  <2>4. Fit(r)
    BY <1>0, <2>3 DEF Fit, InOrder, Covered
  <2>5. Related(n, r)
    <3>1. node[n].term <= r.term
      BY <1>0, <2>3, SMT
    <3> QED
      BY <1>0, <2>3, <3>1, RelatedAlike
  <2> QED
    BY <2>2, <2>4, <2>5, NextPublicationFit, NextPublicationRelated, StepFamily
<1>7. CASE Restart(n)
  <2> DEFINE q == Start(n, node[n].term, node[n].accepted, node[n].committed, node[n].run + 1)
  <2>1. node[n].run + 1 \in Nat
    BY <1>0, SMT
  <2>2. Related(n, q)
    BY <1>0, <2>1, StartRelated
  <2>3. node' = [node EXCEPT ![n] = q] /\ msgs' = msgs
    BY <1>7 DEF Restart
  <2> HIDE DEF q
  <2>4. PICK T : Family(T, n, q)
    BY <2>2 DEF Related
  <2>5. \A m \in Node :
           Within(T, node'[m]) /\ OwnNames(T, m, node'[m]) /\ node'[m].exclusions = {}
    BY <1>0, <2>3, <2>4 DEF Family
  <2> QED
    BY <2>3, <2>4, <2>5 DEF FamilyInv, Family, Among, Within, OwnNames
<1> QED
  BY <1>1, <1>2, <1>3, <1>4, <1>5, <1>6, <1>7 DEF Timer

(* ... and messages keep it.                                                *)
LEMMA ReceiveFamily ==
    ASSUME Inv, FamilyInv, AutoShrink, budget.excluding = {{}}, NEW n \in Node, Receive(n)
    PROVE  FamilyInv'
<1>0. /\ node[n] \in NodeState /\ node[n].out = {}
      /\ Fit(node[n]) /\ Settled(node[n]) /\ InOrder(node[n]) /\ Related(n, node[n])
      /\ Fine(msgs) /\ msgs \subseteq Messages
      /\ node[n].term \in Nat /\ node[n].accepted \in ClusterState
      /\ node[n].accepted.term <= node[n].term
  BY RestRelated DEF Inv, TypeOK, Fit, InOrder, NodeState
<1>1. ASSUME NEW m \in msgs, OnStartJoinRequest(n, m)
      PROVE  FamilyInv'
  <2>1. m.from \in Node /\ m.term \in Nat
    BY <1>0, <1>1 DEF OnStartJoinRequest, Messages
  <2> QED
    BY <1>0, <1>1, <2>1, OnStartJoinFit, OnStartJoinRelated, StepFamily DEF OnStartJoinRequest
<1>2. ASSUME NEW m \in msgs, OnJoinRequest(n, m)
      PROVE  FamilyInv'
  <2>1. m.from \in Node /\ m.term \in Nat
    BY <1>0, <1>2 DEF OnJoinRequest, Messages
  <2> QED
    BY <1>0, <1>2, <2>1, OnJoinFit, OnJoinRelated, StepFamily DEF OnJoinRequest
<1>3. ASSUME NEW from \in Node, OnVotelessJoin(n, from)
      PROVE  FamilyInv'
  BY <1>0, <1>3, JoinAtLeaderFit, JoinAtLeaderRelated, StepFamily DEF OnVotelessJoin
<1>4. ASSUME NEW m \in msgs, OnJoinResponse(n, m)
      PROVE  FamilyInv'
  <2> DEFINE r == [node[n] EXCEPT !.mode = "Follower", !.leader = m.from]
             q == ApplyCommitted(r, m.state)
  <2>1. m.from \in Node /\ HasConfig(m.state) /\ m.state.term = node[n].term
    BY <1>0, <1>4 DEF OnJoinResponse, Messages, Fine, HasBoth
  <2>2. /\ r \in NodeState /\ r.mode = "Follower" /\ r.term = node[n].term
        /\ r.accepted = node[n].accepted /\ r.committed = node[n].committed
        /\ r.out = node[n].out /\ r.exclusions = node[n].exclusions
    BY <1>0, <2>1 DEF NodeState
  <2>3. Step(n, q)
    BY <1>4 DEF OnJoinResponse
  <2> HIDE DEF r
  <2>4. InOrder(r) /\ m.state.term <= r.term /\ node[n].term <= r.term
    BY <1>0, <2>1, <2>2, SMT DEF InOrder
  <2>5. q \in NodeState /\ InOrder(q) /\ q.mode = "Follower" /\ q.out = node[n].out
    BY <2>1, <2>2, <2>4, ApplyCommittedIs
  <2>6. PICK T : Family(T, n, node[n])
    BY <1>0 DEF Related
  <2>7. Trait(m.state) \in T /\ Among(T, r.out)
    BY <1>4, <2>2, <2>6 DEF Family, Among, OnJoinResponse
  <2>8. Family(T, n, r)
    BY <1>0, <2>2, <2>4, <2>6, <2>7, FamilyAlike
  <2>9. Family(T, n, q)
    BY <2>1, <2>2, <2>4, <2>7, <2>8, ApplyCommittedFamily
  <2> HIDE DEF q
  <2>10. Fit(q)
    BY <1>0, <2>5 DEF Fit
  <2> QED
    BY <2>3, <2>9, <2>10, StepFamily DEF Related
<1>5. ASSUME NEW m \in msgs, OnPublishRequest(n, m)
      PROVE  FamilyInv'
  <2> DEFINE answer == [type |-> "PublishResponse", from |-> n, to |-> m.from,
                        run |-> m.run, rid |-> m.rid,
                        term |-> m.state.term, version |-> m.state.version]
             q == [node[n] EXCEPT !.accepted = m.state, !.mode = "Follower",
                                  !.leader = m.state.manager, !.out = {answer}]
  <2>1. /\ m.from \in Node /\ m.run \in Nat /\ m.rid \in Nat /\ m.state \in ClusterState
        /\ HasConfig(m.state) /\ m.type = "Publish"
    BY <1>0, <1>5 DEF OnPublishRequest, Messages, Fine
  <2>2. /\ m.state.term = node[n].term
        /\ ~(m.state.term = node[n].accepted.term /\ m.state.version <= node[n].accepted.version)
        /\ Step(n, q)
    BY <1>5 DEF OnPublishRequest
  <2>3. answer \in Messages /\ answer.type = "PublishResponse"
    BY <2>1 DEF Messages, ClusterState
  <2> HIDE DEF answer
  <2>4. /\ q \in NodeState /\ q.mode = "Follower" /\ q.out = {answer}
        /\ q.term = node[n].term /\ q.accepted = m.state /\ q.committed = node[n].committed
        /\ q.exclusions = node[n].exclusions
    <3>1. m.state.manager \in Node \cup {None}
      BY <2>1 DEF ClusterState
    <3> QED
      BY <1>0, <2>1, <2>3, <3>1 DEF NodeState
  <2> HIDE DEF q
  <2>5. /\ ~FresherState(node[n].committed, m.state) /\ ~FresherState(node[n].accepted, m.state)
        /\ m.state.term <= node[n].term /\ node[n].term <= q.term
    <3>1. /\ node[n].committed \in ClusterState
          /\ ~FresherState(node[n].committed, node[n].accepted)
      BY <1>0 DEF InOrder, HasBoth, HasConfig
    <3> QED
      BY <1>0, <2>1, <2>2, <2>4, <3>1, SMT DEF FresherState, Fresher, ClusterState
  <2>6. InOrder(q)
    BY <1>0, <2>1, <2>4, <2>5 DEF InOrder
  <2>7. Fit(q)
    BY <2>3, <2>4, <2>6 DEF Fit, Fine
  <2>8. PICK T : Family(T, n, node[n])
    BY <1>0 DEF Related
  <2>9. Within(T, q) /\ Among(T, q.out)
    BY <2>1, <2>3, <2>4, <2>8 DEF Family, Within, Among
  <2>10. Family(T, n, q)
    BY <1>0, <2>4, <2>5, <2>8, <2>9, FamilyStays
  <2> QED
    BY <2>2, <2>7, <2>10, StepFamily DEF Related
<1>6. ASSUME NEW m \in msgs, OnPublishResponse(n, m)
      PROVE  FamilyInv'
  <2>0. m.from \in Node /\ m.term \in Nat /\ m.version \in Nat /\ node[n].mode = "Leader"
    BY <1>0, <1>6 DEF OnPublishResponse, Messages
  <2> DEFINE counted == [node[n] EXCEPT !.publishing.acked = @ \cup {m.from}]
             told    == CommitRequest(n, m.from, m.term, m.version)
             late    == [node[n] EXCEPT !.lagging = @ \ {m.from}, !.out = {told}]
  <2>1. CASE node[n].publishing # None /\ Step(n, Settle(n, counted))
    <3> DEFINE p == [node[n].publishing EXCEPT !.acked = @ \cup {m.from}]
    <3>1. node[n].publishing \in Publication
      BY <1>0, <2>1 DEF NodeState
    <3>2. /\ p \in Publication /\ p # None /\ p.state = node[n].publishing.state
      BY <2>0, <3>1, NoneAssumption, SMT DEF Publication
    <3>3. counted = [node[n] EXCEPT !.publishing = p]
      BY <1>0, <3>1 DEF NodeState
    <3> HIDE DEF p, counted
    <3>4. /\ counted \in NodeState /\ counted.out = node[n].out /\ counted.publishing = p
          /\ counted.term = node[n].term /\ counted.mode = "Leader"
          /\ counted.accepted = node[n].accepted /\ counted.committed = node[n].committed
          /\ counted.exclusions = node[n].exclusions
      BY <1>0, <2>0, <3>2, <3>3 DEF NodeState
    <3>5. Fit(counted) /\ Settled(counted)
      BY <1>0, <2>0, <2>1, <3>2, <3>4 DEF Fit, InOrder, Covered, Settled
    <3>6. Related(n, counted)
      <4>1. node[n].term <= counted.term
        BY <1>0, <3>4, SMT
      <4> QED
        BY <1>0, <3>4, <4>1, RelatedAlike
    <3> QED
      BY <2>1, <3>4, <3>5, <3>6, SettleFit, SettleRelated, StepFamily
  <2>2. CASE Step(n, late)
    <3>1. told \in Messages /\ told.type = "Commit"
      BY <2>0 DEF CommitRequest, Messages
    <3> HIDE DEF told
    <3>2. /\ late \in NodeState /\ late.out = {told}
          /\ late.term = node[n].term /\ late.mode = node[n].mode
          /\ late.accepted = node[n].accepted /\ late.committed = node[n].committed
          /\ late.publishing = node[n].publishing /\ late.exclusions = node[n].exclusions
      BY <1>0, <3>1 DEF NodeState
    <3> HIDE DEF late
    <3>3. Fit(late)
      BY <1>0, <3>1, <3>2 DEF Fit, InOrder, Covered, Fine
    <3>4. Related(n, late)
      <4>1. node[n].term <= late.term
        BY <1>0, <3>2, SMT
      <4> QED
        BY <1>0, <3>1, <3>2, <4>1, RelatedAlike
    <3> QED
      BY <2>2, <3>3, <3>4, StepFamily
  <2> QED
    BY <1>6, <2>1, <2>2 DEF OnPublishResponse
<1>7. ASSUME NEW m \in msgs, NEW from \in Node, OnPublishRefused(n, m, from)
      PROVE  FamilyInv'
  <2> DEFINE q == [node[n] EXCEPT !.lagging = @ \cup {from}]
  <2>1. Step(n, q)
    BY <1>7 DEF OnPublishRefused
  <2>2. /\ q \in NodeState /\ q.out = node[n].out
        /\ q.term = node[n].term /\ q.mode = node[n].mode /\ q.accepted = node[n].accepted
        /\ q.committed = node[n].committed /\ q.publishing = node[n].publishing
        /\ q.exclusions = node[n].exclusions
    BY <1>0 DEF NodeState
  <2> HIDE DEF q
  <2>3. Fit(q)
    BY <1>0, <2>2 DEF Fit, InOrder, Covered
  <2>4. Related(n, q)
    <3>1. node[n].term <= q.term
      BY <1>0, <2>2, SMT
    <3> QED
      BY <1>0, <2>2, <3>1, RelatedAlike
  <2> QED
    BY <2>1, <2>3, <2>4, StepFamily
<1>8. ASSUME NEW m \in msgs, OnCommitRequest(n, m)
      PROVE  FamilyInv'
  <2> DEFINE r == node[n]
             q == ApplyCommitted(r, r.accepted)
  <2>1. Step(n, q) /\ HasConfig(r.accepted) /\ r.accepted.term <= r.term
    BY <1>0, <1>8 DEF OnCommitRequest, InOrder
  <2>2. /\ q \in NodeState /\ InOrder(q)
        /\ q.mode = r.mode /\ q.publishing = r.publishing /\ q.out = r.out
        /\ q.accepted = r.accepted /\ ~FresherState(r.accepted, q.committed)
        /\ IF FresherState(r.accepted, r.committed) THEN q.committed.lineage = r.accepted.lineage
                                                   ELSE q = r
    BY <1>0, <2>1, ApplyCommittedIs
  <2>3. PICK T : Family(T, n, r)
    BY <1>0 DEF Related
  <2>4. Trait(r.accepted) \in T
    BY <2>3 DEF Family, Within
  <2>5. Family(T, n, q)
    BY <1>0, <2>1, <2>3, <2>4, ApplyCommittedFamily
  <2> HIDE DEF q
  <2>6. Fit(q)
    <3>1. CASE q = r
      BY <1>0, <3>1
    <3>2. CASE FresherState(r.accepted, r.committed)
      BY <1>0, <2>2, <3>2 DEF Fit, Covered
    <3> QED
      BY <2>2, <3>1, <3>2
  <2> QED
    BY <2>1, <2>5, <2>6, StepFamily DEF Related
<1>9. ASSUME NEW m \in msgs, OnFollowerCheck(n, m)
      PROVE  FamilyInv'
  <2> DEFINE r == SawTerm(node[n], m.state.term)
             q == [r EXCEPT !.mode = "Follower", !.leader = m.from]
  <2>1. m.from \in Node /\ m.state.term \in Nat
    BY <1>0, <1>9 DEF OnFollowerCheck, Messages, ClusterState
  <2>2. Fit(r) /\ Related(n, r)
    BY <1>0, <2>1, SawTermFit, SawTermRelated
  <2>3. Step(n, q) \/ Step(n, r)
    BY <1>9 DEF OnFollowerCheck
  <2> HIDE DEF r
  <2>4. /\ r \in NodeState /\ r.accepted.term <= r.term /\ r.term \in Nat
        /\ q \in NodeState /\ q.mode = "Follower" /\ q.term = r.term
        /\ q.accepted = r.accepted /\ q.committed = r.committed /\ q.out = r.out
        /\ q.exclusions = r.exclusions
    BY <2>1, <2>2 DEF Fit, InOrder, NodeState
  <2> HIDE DEF q
  <2>5. Fit(q)
    BY <2>2, <2>4 DEF Fit, InOrder
  <2>6. Related(n, q)
    <3>1. r.term <= q.term
      BY <2>4, SMT
    <3> QED
      BY <2>2, <2>4, <3>1, RelatedAlike
  <2> QED
    BY <2>2, <2>3, <2>5, <2>6, StepFamily
<1>10. ASSUME NEW term \in Terms, HearTerm(n, term)
       PROVE  FamilyInv'
  <2>1. term \in Nat
    BY <1>0 DEF Terms, Sent, Messages
  <2> QED
    BY <1>0, <1>10, <2>1, SawTermFit, SawTermRelated, StepFamily DEF HearTerm
<1>11. ASSUME NEW from \in Node, Leave(n, from)
       PROVE  FamilyInv'
  <2>1. {from} \in SUBSET Node
    OBVIOUS
  <2> QED
    BY <1>11, <2>1, RemovalFamily DEF Leave
<1> QED
  BY <1>1, <1>2, <1>3, <1>4, <1>5, <1>6, <1>7, <1>8, <1>9, <1>10, <1>11 DEF Receive

(* Whoever publishes, whatever was restarted, lost or repeated before, and  *)
(* with two managers in a term too: when nobody is excluded, no state that  *)
(* was built on one with three voting nodes or more has fewer.              *)
THEOREM KeepsThree == Spec => []NeverBelowThree
<1>1. Inv /\ FamilyInv /\ [Next]_vars => FamilyInv'
  <2> SUFFICES ASSUME Inv, FamilyInv, [Next]_vars PROVE FamilyInv'
    OBVIOUS
  <2>1. CASE UNCHANGED vars
    <3>1. node' = node /\ msgs' = msgs /\ budget' = budget
      BY <2>1 DEF vars
    <3>2. ASSUME AutoShrink, budget.excluding = {{}} PROVE FamilyInv'
      <4>1. PICK T : /\ Kin(T) /\ Among(T, msgs)
                     /\ \A n \in Node : /\ Within(T, node[n]) /\ OwnNames(T, n, node[n])
                                        /\ node[n].exclusions = {}
        BY <3>2 DEF FamilyInv
      <4>2. /\ Among(T, msgs')
            /\ \A n \in Node : /\ Within(T, node'[n]) /\ OwnNames(T, n, node'[n])
                               /\ node'[n].exclusions = {}
        BY <3>1, <4>1
      <4> QED
        BY <4>1, <4>2 DEF FamilyInv, Among, Within, OwnNames
    <3> QED
      BY <3>1, <3>2 DEF FamilyInv
  <2>2. CASE Next /\ AutoShrink /\ budget.excluding = {{}}
    BY <2>2, TimerFamily, ReceiveFamily DEF Next
  <2>3. CASE Next /\ ~(AutoShrink /\ budget.excluding = {{}})
    <3>1. budget'.excluding = budget.excluding
      <4>1. budget \in Budgets
        BY DEF Inv, TypeOK
      <4>2. budget' = budget \/ budget' = [budget EXCEPT !.restarts = @ - 1]
        <5>1. PICK n \in Node : Timer(n) \/ Receive(n)
          BY <2>3 DEF Next
        <5>2. \A q : Step(n, q) => budget' = budget
          BY DEF Step
        <5>3. CASE Timer(n)
          BY <5>2, <5>3 DEF Timer, Bootstrap, StartElection, PublishTimeout,
               FollowerCheckTimer, LoseLeader, Republish, Restart
        <5>4. CASE Receive(n)
          BY <5>2, <5>4 DEF Receive, OnStartJoinRequest, OnJoinRequest, OnVotelessJoin,
               OnJoinResponse, OnPublishRequest, OnPublishResponse, OnPublishRefused,
               OnCommitRequest, OnFollowerCheck, HearTerm, Leave
        <5> QED
          BY <5>1, <5>3, <5>4
      <4> QED
        BY <4>1, <4>2 DEF Budgets
    <3> QED
      BY <2>3, <3>1 DEF FamilyInv
  <2> QED
    BY <2>1, <2>2, <2>3
<1>2. Inv /\ FamilyInv => NeverBelowThree
  <2> SUFFICES ASSUME Inv, FamilyInv, AutoShrink, budget.excluding = {{}},
                      NEW c \in Committed, NEW d \in Committed,
                      c.lineage \subseteq d.lineage, d.lineage # {},
                      Cardinality(c.last_accepted_config) >= 3
               PROVE  Cardinality(d.last_accepted_config) >= 3
    BY DEF NeverBelowThree
  <2>1. PICK T : /\ Kin(T) /\ Among(T, msgs)
                 /\ \A m \in Node : Within(T, node[m])
    BY DEF FamilyInv
  <2>2. ASSUME NEW e \in Committed PROVE Trait(e) \in T
    <3>1. CASE \E n \in Node : e = node[n].committed
      BY <2>1, <3>1 DEF Within
    <3>2. CASE \E m \in Sent("CommitNote") :
                  e = [m.state EXCEPT !.last_committed_config = m.state.last_accepted_config]
      <4>1. PICK m \in msgs : m.type = "CommitNote" /\
                  e = [m.state EXCEPT !.last_committed_config = m.state.last_accepted_config]
        BY <3>2 DEF Sent
      <4>2. m.state \in ClusterState
        BY <4>1 DEF Inv, TypeOK, Messages
      <4>3. Trait(e) = Trait(m.state)
        BY <4>1, <4>2 DEF Trait, ClusterState
      <4> QED
        BY <2>1, <4>1, <4>3 DEF Among
    <3> QED
      BY <3>1, <3>2 DEF Committed
  <2> DEFINE tc == Trait(c)
             td == Trait(d)
  <2>3. /\ tc[1] = c.lineage /\ tc[2] = c.last_accepted_config
        /\ td[1] = d.lineage /\ td[2] = d.last_accepted_config
    BY DEF Trait
  <2>4. tc \in T /\ td \in T
    BY <2>2
  <2> HIDE DEF tc, td
  <2>5. Cardinality(td[2]) >= 3
    BY <2>1, <2>3, <2>4 DEF Kin
  <2> QED
    BY <2>3, <2>5
<1> QED
  BY <1>1, <1>2, InitFamily, InvAlways, PTL DEF Spec
=============================================================================
