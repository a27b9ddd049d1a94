------------------------- MODULE CoordinationProofs -------------------------
(***************************************************************************)
(* With a fixed configuration of any size, and for any bounds on terms,    *)
(* versions and restarts, every term is led by one node.  What makes the   *)
(* committed states one log starts here too: the ways in which a call may  *)
(* change the records and the messages.  CommitRecords goes on with the    *)
(* calls, and CommitProofs with the handlers.                              *)
(***************************************************************************)
EXTENDS FixedConfiguration, FiniteSetTheorems, TLAPS

(* Leaves that need arithmetic cite SMT; the others are left to Zenon. *)
USE Zenon

(* A record in the middle of a handler: what ConfigurationKept says of a    *)
(* node, first without and then with what it says of publications.          *)
Sound(r) ==
    /\ r \in NodeState
    /\ Configured(r.accepted)
    /\ Configured(r.committed)
    /\ ~FresherState(r.committed, r.accepted)
    /\ r.accepted.term <= r.term
    /\ r.exclusions = {}
    /\ r.mode = "Leader" => r.accepted.term = r.term /\ r.term > 0

Good(r) ==
    /\ Sound(r)
    /\ r.mode = "Leader" =>
          IF r.publishing = None
          THEN r.committed.last_accepted_config = InitialConfig
          ELSE r.publishing.state = r.accepted

(* Messages that say nothing of who votes or leads, and carry the           *)
(* configuration if they carry a state.                                     *)
Harmless(M) ==
    \A m \in M : /\ m \in Messages
                 /\ m.type \in {"Publish", "PublishResponse", "Commit", "CommitNote",
                               "JoinResponse"}
                 /\ m.type \in {"Publish", "CommitNote", "JoinResponse"} =>
                       Configured(m.state)

(* q is r after some of a handler that is not about votes.                  *)
Continues(r, q) ==
    /\ Good(q)
    /\ q.term = r.term
    /\ q.mode = r.mode
    /\ q.join_votes = r.join_votes
    /\ r.out \subseteq q.out
    /\ Harmless(q.out \ r.out)

-----------------------------------------------------------------------------

(* Two quorums of one configuration share a node (has_quorum).              *)
LEMMA QuorumsIntersect ==
    ASSUME NEW C, IsFiniteSet(C), NEW V, NEW W, HasQuorum(C, V), HasQuorum(C, W)
    PROVE  \E n \in C : n \in V /\ n \in W
<1> DEFINE A == C \cap V
           B == C \cap W
<1>1. IsFiniteSet(A) /\ IsFiniteSet(B)
  BY FS_Intersection
<1>2. /\ Cardinality(A) \in Nat /\ Cardinality(B) \in Nat /\ Cardinality(C) \in Nat
      /\ Cardinality(A \cap B) \in Nat
  BY <1>1, FS_CardinalityType, FS_Intersection
<1>3. Cardinality(A \cup B) = Cardinality(A) + Cardinality(B) - Cardinality(A \cap B)
  BY <1>1, FS_Union
<1>4. Cardinality(A \cup B) <= Cardinality(C)
  BY FS_Subset
<1>5. Cardinality(A) * 2 > Cardinality(C) /\ Cardinality(B) * 2 > Cardinality(C)
  BY DEF HasQuorum
<1>6. Cardinality(A \cap B) # 0
  BY <1>2, <1>3, <1>4, <1>5, SMT
<1>7. A \cap B # {}
  BY <1>6, FS_EmptySet
<1> QED
  BY <1>7

(* reconfigure leaves a fixed configuration alone, whoever is alive.        *)
LEMMA ReconfigureKeeps ==
    ASSUME NEW s \in ClusterState, s.last_committed_config = InitialConfig
    PROVE  Reconfigure(s, {}) = InitialConfig
<1> DEFINE C == InitialConfig
           live == (s.nodes \cap Eligible) \ {}
           kept == C \ {}
           minimum == IF AutoShrink THEN IF Cardinality(kept) < 3 THEN 1 ELSE 3
                                    ELSE Cardinality(kept)
           target == AtLeast(Odd(Cardinality(live)), minimum)
           rank(x) == IF x \notin live THEN 2 ELSE IF x \in C THEN 0 ELSE 1
           before(x, y) == rank(x) < rank(y) \/ (rank(x) = rank(y) /\ Id[x] < Id[y])
           pool == live \cup kept
           new == {x \in pool : Cardinality({y \in pool : before(y, x)}) < target}
<1>1. IsFiniteSet(C) /\ live \subseteq C /\ kept = C /\ pool = C /\ C \subseteq Node
  BY NodeAssumption, ConfigAssumption, FixedAssumption, FS_Subset
<1>2. Cardinality(C) \in Nat /\ IsFiniteSet(live) /\ Cardinality(live) \in Nat
  BY <1>1, FS_CardinalityType, FS_Subset
<1>3. Odd(Cardinality(live)) \in Nat
  BY <1>2, SMT DEF Odd
<1>4. minimum \in Nat /\ minimum >= Cardinality(C)
  BY <1>1, <1>2, FixedAssumption, ConfigAssumption, SMT
<1>5. target \in Nat /\ target >= Cardinality(C)
  BY <1>2, <1>3, <1>4, SMT DEF AtLeast
<1>6. ASSUME NEW x \in pool
      PROVE  Cardinality({y \in pool : before(y, x)}) < target
  <2> DEFINE P == {y \in pool : before(y, x)}
  <2>1. x \in Node /\ Id[x] \in Nat
    BY <1>1, NodeAssumption
  <2>2. ~before(x, x)
    BY <2>1, SMT
  <2>3. P \subseteq C \ {x}
    BY <1>1, <2>2
  <2>4. IsFiniteSet(C \ {x}) /\ Cardinality(C \ {x}) = Cardinality(C) - 1
    BY <1>1, FS_RemoveElement
  <2>5. Cardinality(P) <= Cardinality(C) - 1 /\ Cardinality(P) \in Nat
    BY <2>3, <2>4, FS_Subset, FS_CardinalityType, SMT
  <2> QED
    BY <2>5, <1>2, <1>5, SMT
<1>7. new = C
  BY <1>1, <1>6
<1>8. Reconfigure(s, {}) = IF HasQuorum(new, live) THEN new ELSE C
  BY SMT DEF Reconfigure
<1> QED
  BY <1>7, <1>8

-----------------------------------------------------------------------------
(* What the methods of Coordinator do to a record.                          *)

(* become_candidate keeps a record good.                                    *)
LEMMA BecomeCandidateGood ==
    ASSUME NEW r, Good(r)
    PROVE  /\ Good(BecomeCandidate(r))
           /\ BecomeCandidate(r).term = r.term
           /\ BecomeCandidate(r).mode = "Candidate"
           /\ BecomeCandidate(r).join_votes = r.join_votes
           /\ BecomeCandidate(r).accepted = r.accepted
           /\ BecomeCandidate(r).out = r.out
<1> DEFINE q == BecomeCandidate(r)
<1>1. q \in NodeState
  BY DEF Good, Sound, BecomeCandidate, NodeState
<1>2. /\ q.term = r.term /\ q.mode = "Candidate" /\ q.join_votes = r.join_votes
      /\ q.accepted = r.accepted /\ q.committed = r.committed
      /\ q.exclusions = r.exclusions /\ q.out = r.out
  BY DEF Good, Sound, BecomeCandidate, NodeState
<1> QED
  BY <1>1, <1>2 DEF Good, Sound

(* saw_term moves to a later term without votes and without a role, and     *)
(* does nothing for any other.                                              *)
LEMMA SawTermGood ==
    ASSUME NEW r, Good(r), NEW term \in Nat
    PROVE  /\ Good(SawTerm(r, term))
           /\ SawTerm(r, term).out = r.out
           /\ SawTerm(r, term).accepted = r.accepted
           /\ IF term <= r.term THEN SawTerm(r, term) = r
              ELSE /\ SawTerm(r, term).term = term
                   /\ SawTerm(r, term).join_votes = {}
                   /\ SawTerm(r, term).mode = "Candidate"
<1>1. CASE term <= r.term
  BY <1>1 DEF SawTerm
<1>2. CASE ~(term <= r.term)
  <2> DEFINE moved == [r EXCEPT !.term = term, !.join_votes = {}]
  <2>1. moved \in NodeState
    BY DEF Good, Sound, NodeState
  <2>2. /\ moved.term = term /\ moved.join_votes = {} /\ moved.mode = r.mode
        /\ moved.accepted = r.accepted /\ moved.committed = r.committed
        /\ moved.exclusions = r.exclusions /\ moved.out = r.out
    BY DEF Good, Sound, NodeState
  <2>3. r.term \in Nat /\ r.accepted.term \in Nat
    BY DEF Good, Sound, NodeState, ClusterState
  <2>4. CASE r.mode = "Candidate"
    <3>1. Good(moved)
      BY <2>1, <2>2, <2>3, <2>4, <1>2, SMT DEF Good, Sound
    <3> QED
      BY <3>1, <2>2, <2>4, <1>2 DEF SawTerm
  <2>5. CASE r.mode # "Candidate"
    <3> DEFINE q == BecomeCandidate(moved)
    <3>1. q \in NodeState
      BY <2>1 DEF BecomeCandidate, NodeState
    <3>2. /\ q.term = moved.term /\ q.mode = "Candidate" /\ q.join_votes = moved.join_votes
          /\ q.accepted = moved.accepted /\ q.committed = moved.committed
          /\ q.exclusions = moved.exclusions /\ q.out = moved.out
      BY <2>1 DEF BecomeCandidate, NodeState
    <3>3. Good(q)
      BY <3>1, <3>2, <2>2, <2>3, <1>2, SMT DEF Good, Sound
    <3>4. SawTerm(r, term) = q
      BY <2>5, <1>2 DEF SawTerm
    <3> QED
      BY <3>2, <3>3, <3>4, <2>2, <1>2
  <2> QED
    BY <2>4, <2>5
<1> QED
  BY <1>1, <1>2

(* The calls of a handler follow one another.                               *)
LEMMA ContinuesTrans ==
    ASSUME NEW r, NEW q, NEW p, Continues(r, q), Continues(q, p)
    PROVE  Continues(r, p)
<1>1. Harmless(p.out \ r.out)
  BY DEF Continues, Harmless
<1> QED
  BY <1>1 DEF Continues

(* A good record continues itself.                                          *)
LEMMA ContinuesRefl ==
    ASSUME NEW r, Good(r)
    PROVE  Continues(r, r)
  BY DEF Continues, Harmless

(* bootstrap: a node without a configuration was never published to, so     *)
(* what it takes the first configuration into is the empty state.           *)
LEMMA BootstrappedGood ==
    ASSUME NEW r, Good(r), r.accepted.last_accepted_config = {}
    PROVE  Continues(r, Bootstrapped(r))
<1> DEFINE q == Bootstrapped(r)
           a == SetConfig(r.accepted)
           c == SetConfig(r.committed)
<1>1. /\ r \in NodeState /\ r.term \in Nat
      /\ r.accepted \in ClusterState /\ r.committed \in ClusterState
  BY DEF Good, Sound, NodeState
<1>2. r.accepted.term = 0 /\ r.committed.term = 0 /\ r.mode # "Leader"
  BY <1>1, FixedAssumption, SMT
     DEF Good, Sound, Configured, FresherState, Fresher, ClusterState
<1>3. ASSUME NEW s \in ClusterState, s.term = 0
      PROVE  /\ SetConfig(s) \in ClusterState
             /\ SetConfig(s).term = s.term /\ SetConfig(s).version = s.version
             /\ Configured(SetConfig(s))
  BY <1>3, ConfigAssumption DEF SetConfig, ClusterState, Configured
<1>4. /\ a \in ClusterState /\ a.term = 0 /\ a.version = r.accepted.version /\ Configured(a)
      /\ c \in ClusterState /\ c.term = 0 /\ c.version = r.committed.version /\ Configured(c)
  BY <1>1, <1>2, <1>3
<1>5. q = [r EXCEPT !.accepted = a, !.committed = c]
  BY <1>1 DEF Bootstrapped, NodeState
<1> HIDE DEF a, c, q
<1>6. q \in NodeState
  BY <1>1, <1>4, <1>5 DEF NodeState
<1>7. /\ q.accepted = a /\ q.committed = c /\ q.exclusions = r.exclusions
      /\ q.term = r.term /\ q.mode = r.mode /\ q.join_votes = r.join_votes /\ q.out = r.out
  BY <1>1, <1>5 DEF NodeState
<1>8. Good(q)
  BY <1>1, <1>2, <1>4, <1>6, <1>7 DEF Good, Sound, FresherState, Fresher, ClusterState
<1> QED
  BY <1>7, <1>8 DEF Continues, Harmless, q

(* publish: a manager takes up a state of its own term that carries the     *)
(* configuration and is not behind what it committed.                       *)
LEMMA SendGood ==
    ASSUME NEW n \in Node, NEW r \in NodeState, NEW s \in ClusterState,
           Configured(r.committed), r.exclusions = {}, r.term > 0,
           s.last_committed_config = InitialConfig,
           s.last_accepted_config = InitialConfig,
           r.committed.term <= r.term,
           r.committed.term = r.term => r.committed.version <= s.version
    PROVE  Continues(r, Send(n, r, s))
<1> DEFINE state == [s EXCEPT !.term = r.term, !.manager = n,
                              !.lineage = @ \cup {Name(r.term, n, s.version)}]
           p == [state |-> state, rid |-> r.next_request, acked |-> {n}]
           m == [type |-> "Publish", from |-> n, run |-> r.run,
                 rid |-> r.next_request, state |-> state]
           q == Send(n, r, s)
<1>1. r.term \in Nat /\ r.next_request \in Nat /\ r.run \in Nat /\ s.version \in Nat
      /\ r.committed \in ClusterState
  BY DEF NodeState, ClusterState
<1>2. Name(r.term, n, s.version) \in Names
  BY <1>1 DEF Name, Names
<1>3. /\ state \in ClusterState
      /\ state.term = r.term /\ state.version = s.version
      /\ state.last_committed_config = InitialConfig
      /\ state.last_accepted_config = InitialConfig
  BY <1>1, <1>2 DEF ClusterState
<1>4. p \in Publication /\ p.state = state
  BY <1>1, <1>3 DEF Publication
<1>5. m \in Messages /\ m.type = "Publish" /\ m.state = state
  BY <1>1, <1>3 DEF Messages
<1>6. q = [r EXCEPT !.publishing = p, !.accepted = state, !.next_request = @ + 1,
                    !.out = @ \cup {m}]
  BY DEF Send
<1> HIDE DEF state, p, m, q
<1>7. q \in NodeState
  <2>1. r.out \cup {m} \in SUBSET Messages
    BY <1>5 DEF NodeState
  <2>2. r.next_request + 1 \in Nat
    BY <1>1, SMT
  <2>3. state \in ClusterState /\ p \in Publication \cup {None}
    BY <1>3, <1>4
  <2> QED
    BY <1>6, <2>1, <2>2, <2>3 DEF NodeState
<1>8. /\ q.publishing = p /\ q.accepted = state /\ q.committed = r.committed
      /\ q.exclusions = {} /\ q.term = r.term /\ q.mode = r.mode
      /\ q.join_votes = r.join_votes /\ q.out = r.out \cup {m}
  BY <1>6 DEF NodeState
<1>9. Configured(state)
  BY <1>3 DEF Configured
<1>10. ~FresherState(q.committed, q.accepted)
  BY <1>1, <1>3, <1>8, SMT DEF FresherState, Fresher, ClusterState
<1>11. p # None
  BY <1>4, NoneAssumption
<1>12. Good(q)
  BY <1>1, <1>3, <1>4, <1>7, <1>8, <1>9, <1>10, <1>11, SMT DEF Good, Sound
<1>13. Harmless(q.out \ r.out)
  BY <1>1, <1>3, <1>5, <1>8, <1>9 DEF Harmless
<1> QED
  BY <1>8, <1>12, <1>13 DEF Continues, q

(* apply_committed takes a state the node has not committed yet, with the   *)
(* configuration it carried.  A manager applies what it accepted, and then  *)
(* has committed a state that carries the configuration.                    *)
LEMMA ApplyCommittedSound ==
    ASSUME NEW r, Sound(r), NEW s \in ClusterState, Configured(s),
           s.term <= r.term,
           r.mode = "Leader" => s = r.accepted
    PROVE  LET q == ApplyCommitted(r, s)
           IN  /\ Sound(q)
               /\ q.term = r.term /\ q.mode = r.mode /\ q.join_votes = r.join_votes
               /\ q.out = r.out /\ q.publishing = r.publishing
               /\ r.mode = "Leader" =>
                     /\ q.accepted = r.accepted
                     /\ q.committed.last_accepted_config = InitialConfig
<1> DEFINE state == [s EXCEPT !.last_committed_config = s.last_accepted_config]
           new == IF FresherState(state, r.accepted) THEN state ELSE r.accepted
           q == [r EXCEPT !.accepted = new, !.committed = state]
<1>1. /\ r \in NodeState /\ r.accepted \in ClusterState /\ r.committed \in ClusterState
      /\ r.term \in Nat
  BY DEF Sound, NodeState
<1>2. CASE ~FresherState(s, r.committed)
  <2>1. r.mode = "Leader" => r.committed.term > 0
    BY <1>1, <1>2, SMT DEF Sound, FresherState, Fresher, ClusterState
  <2> QED
    BY <1>2, <2>1 DEF ApplyCommitted, Sound, Configured
<1>3. CASE FresherState(s, r.committed)
  <2>1. ApplyCommitted(r, s) = q
    BY <1>3 DEF ApplyCommitted
  <2>2. state \in ClusterState /\ state = s
    BY DEF ClusterState, Configured
  <2>3. r.mode = "Leader" => s.last_accepted_config = InitialConfig
    BY DEF Sound, Configured
  <2>4. new \in ClusterState /\ Configured(new) /\ new.term <= r.term
        /\ (new = state \/ new = r.accepted)
    BY <2>2, <1>1 DEF Sound
  <2>5. ~FresherState(state, new)
    BY <2>2, <1>1, SMT DEF FresherState, Fresher, ClusterState
  <2>6. r.mode = "Leader" => new = r.accepted
    BY <2>2, <1>1 DEF FresherState, Fresher, ClusterState
  <2> HIDE DEF new, state
  <2>7. q \in NodeState
    BY <2>2, <1>1, <2>4 DEF NodeState
  <2>8. /\ q.accepted = new /\ q.committed = state /\ q.exclusions = r.exclusions
        /\ q.term = r.term /\ q.mode = r.mode /\ q.join_votes = r.join_votes
        /\ q.out = r.out /\ q.publishing = r.publishing
    BY <1>1 DEF NodeState
  <2> HIDE DEF q
  <2>9. Sound(q)
    BY <2>2, <2>4, <2>5, <2>6, <2>7, <2>8 DEF Sound
  <2> QED
    BY <2>1, <2>2, <2>3, <2>6, <2>8, <2>9
<1> QED
  BY <1>2, <1>3

(* A node that is not publishing, or is no manager, stays good when it      *)
(* applies a committed state.                                               *)
LEMMA ApplyCommittedGood ==
    ASSUME NEW r, Good(r), NEW s \in ClusterState, Configured(s),
           s.term <= r.term,
           r.mode = "Leader" => s = r.accepted
    PROVE  Continues(r, ApplyCommitted(r, s))
<1> DEFINE q == ApplyCommitted(r, s)
<1>1. /\ Sound(q)
      /\ q.term = r.term /\ q.mode = r.mode /\ q.join_votes = r.join_votes
      /\ q.out = r.out /\ q.publishing = r.publishing
      /\ r.mode = "Leader" =>
            /\ q.accepted = r.accepted
            /\ q.committed.last_accepted_config = InitialConfig
  BY ApplyCommittedSound DEF Good
<1> HIDE DEF q
<1> QED
  BY <1>1 DEF Good, Continues, Harmless, q

(* commit_publication: what a manager published it has committed now.       *)
LEMMA CommitGood ==
    ASSUME NEW n \in Node, NEW r, Good(r), r.mode = "Leader", r.publishing # None
    PROVE  Continues(r, Commit(n, r)) /\ Commit(n, r).publishing = None
<1> DEFINE p == r.publishing
           told == (p.state.nodes \cap p.acked) \ {n}
           commits == {CommitRequest(n, m, p.state.term, p.state.version) : m \in told}
           note == [type |-> "CommitNote", from |-> n, state |-> p.state]
           sent == commits \cup {note}
           late == p.state.nodes \ p.acked
           mid == [r EXCEPT !.publishing = None, !.lagging = late, !.out = @ \cup sent]
           q == ApplyCommitted(mid, p.state)
<1>1. /\ r \in NodeState /\ p \in Publication /\ p.state \in ClusterState
      /\ p.state = r.accepted /\ p.acked \subseteq Node
  BY DEF Good, Sound, NodeState, Publication
<1>2. Configured(p.state) /\ p.state.term = r.term /\ r.term > 0 /\ r.term \in Nat
  BY <1>1 DEF Good, Sound, NodeState
<1>3. p.state.term \in Nat /\ p.state.version \in Nat /\ p.state.nodes \subseteq Node
  BY <1>1 DEF ClusterState
<1>4. \A m \in commits : m \in Messages /\ m.type = "Commit"
  BY <1>3, SMT DEF CommitRequest, Messages
<1>5. note \in Messages /\ note.type = "CommitNote" /\ note.state = p.state
  BY <1>1 DEF Messages
<1>6. Harmless(sent)
  BY <1>2, <1>4, <1>5 DEF Harmless
<1>7. sent \subseteq Messages
  BY <1>4, <1>5
<1> HIDE DEF sent
<1>8. mid \in NodeState
  <2>1. r.out \cup sent \in SUBSET Messages
    BY <1>1, <1>7 DEF NodeState
  <2>2. late \in SUBSET Node
    BY <1>3
  <2> QED
    BY <1>1, <2>1, <2>2 DEF NodeState
<1>9. /\ mid.accepted = r.accepted /\ mid.committed = r.committed
      /\ mid.exclusions = r.exclusions /\ mid.term = r.term /\ mid.mode = r.mode
      /\ mid.join_votes = r.join_votes /\ mid.out = r.out \cup sent
      /\ mid.publishing = None
  BY <1>1 DEF NodeState
<1> HIDE DEF mid
<1>10. Sound(mid)
  BY <1>8, <1>9 DEF Good, Sound
<1>11. /\ Sound(q)
       /\ q.term = r.term /\ q.mode = r.mode /\ q.join_votes = r.join_votes
       /\ q.out = r.out \cup sent /\ q.publishing = None
       /\ q.committed.last_accepted_config = InitialConfig
  BY <1>1, <1>2, <1>9, <1>10, ApplyCommittedSound, SMT
<1>12. Commit(n, r) = q
  BY DEF Commit, mid, sent
<1> HIDE DEF q
<1>13. Good(q)
  BY <1>11 DEF Good
<1>14. Harmless(q.out \ r.out)
  BY <1>6, <1>11 DEF Harmless
<1> QED
  BY <1>11, <1>12, <1>13, <1>14 DEF Continues

(* next() is the state again, one version later.                            *)
LEMMA NextStateType ==
    ASSUME NEW c \in ClusterState
    PROVE  /\ NextState(c) \in ClusterState
           /\ NextState(c).version = c.version + 1
           /\ NextState(c).term = c.term
           /\ NextState(c).nodes = c.nodes
           /\ NextState(c).last_committed_config = c.last_committed_config
           /\ NextState(c).last_accepted_config = c.last_accepted_config
<1>1. c.version + 1 \in Nat
  BY SMT DEF ClusterState
<1> QED
  BY <1>1 DEF ClusterState, NextState

(* next_publication: the next state has the configuration of the last.      *)
LEMMA BuildGood ==
    ASSUME NEW n \in Node, NEW r, Good(r), r.mode = "Leader", r.publishing = None
    PROVE  Continues(r, Build(n, r))
<1> DEFINE joined == r.committed.nodes \cup r.waiting_joins
           s == [NextState(r.committed) EXCEPT !.nodes = joined \ r.pending_removals]
           config == Reconfigure(s, r.exclusions)
           changed == \/ r.waiting_joins # {}
                      \/ r.republish_wanted
                      \/ joined \cap r.pending_removals # {}
                      \/ config # s.last_accepted_config
           taken == [r EXCEPT !.waiting_joins = {}, !.pending_removals = {}]
           asked == [taken EXCEPT !.republish_wanted = FALSE]
           next == [s EXCEPT !.last_accepted_config = config]
<1>1. /\ r \in NodeState /\ r.committed \in ClusterState /\ r.accepted \in ClusterState
      /\ r.waiting_joins \subseteq Node /\ r.term \in Nat /\ r.exclusions = {}
      /\ r.committed.last_committed_config = InitialConfig
  BY DEF Good, Sound, NodeState, Configured
<1>2. /\ s \in ClusterState /\ s.last_committed_config = InitialConfig
      /\ s.version = r.committed.version + 1
  <2> DEFINE t == NextState(r.committed)
  <2>1. joined \ r.pending_removals \in SUBSET Node
    BY <1>1 DEF ClusterState
  <2>2. /\ t \in ClusterState /\ t.version = r.committed.version + 1
        /\ t.last_committed_config = InitialConfig
        /\ t.last_accepted_config = r.committed.last_accepted_config
    BY <1>1, NextStateType
  <2> HIDE DEF t
  <2>3. s = [t EXCEPT !.nodes = joined \ r.pending_removals]
    BY DEF t
  <2> HIDE DEF s, joined
  <2> QED
    BY <2>1, <2>2, <2>3 DEF ClusterState
<1>3. config = InitialConfig
  BY <1>1, <1>2, ReconfigureKeeps
<1> HIDE DEF s, config
<1>4. /\ next \in ClusterState /\ next.last_committed_config = InitialConfig
      /\ next.last_accepted_config = InitialConfig
      /\ next.version = r.committed.version + 1
  BY <1>1, <1>2, <1>3, ConfigAssumption DEF ClusterState
<1> HIDE DEF next
<1>5. CASE ~changed
  <2>1. Build(n, r) = taken
    BY <1>5 DEF Build, s, config
  <2>2. taken \in NodeState
    BY <1>1 DEF NodeState
  <2>3. /\ taken.accepted = r.accepted /\ taken.committed = r.committed
        /\ taken.exclusions = r.exclusions /\ taken.term = r.term /\ taken.mode = r.mode
        /\ taken.join_votes = r.join_votes /\ taken.out = r.out
        /\ taken.publishing = r.publishing
    BY <1>1 DEF NodeState
  <2> HIDE DEF taken
  <2>4. Good(taken)
    BY <2>2, <2>3 DEF Good, Sound
  <2> QED
    BY <2>1, <2>3, <2>4 DEF Continues, Harmless
<1>6. CASE changed
  <2>1. Build(n, r) = Send(n, asked, next)
    BY <1>6 DEF Build, s, config, next
  <2>2. asked \in NodeState
    BY <1>1 DEF NodeState
  <2>3. /\ asked.committed = r.committed
        /\ asked.exclusions = r.exclusions /\ asked.term = r.term /\ asked.mode = r.mode
        /\ asked.join_votes = r.join_votes /\ asked.out = r.out
    BY <1>1 DEF NodeState
  <2> HIDE DEF asked
  <2>4. /\ Configured(asked.committed) /\ asked.exclusions = {} /\ asked.term > 0
        /\ asked.committed.term <= asked.term
        /\ asked.committed.version <= next.version
    BY <1>1, <1>4, <2>3, SMT DEF Good, Sound, FresherState, Fresher, ClusterState
  <2>5. Continues(asked, Send(n, asked, next))
    BY <1>4, <2>2, <2>4, SendGood
  <2> QED
    BY <2>1, <2>3, <2>5 DEF Continues
<1> QED
  BY <1>5, <1>6

(* Committing what is a quorum already, and publishing what comes next.     *)
LEMMA SettleGood ==
    ASSUME NEW n \in Node, NEW r, Good(r), r.mode = "Leader"
    PROVE  Continues(r, Settle(n, r))
<1>1. ASSUME NEW q, Good(q), q.mode = "Leader"
      PROVE  Continues(q, Round(n, q))
  <2>1. CASE q.publishing # None /\ ElectionQuorum(q.publishing.state, q.publishing.acked)
    <3> DEFINE c == Commit(n, q)
    <3>1. Continues(q, c) /\ c.publishing = None
      BY <1>1, <2>1, CommitGood
    <3>2. Good(c) /\ c.mode = "Leader"
      BY <1>1, <3>1 DEF Continues
    <3>3. Continues(c, Build(n, c))
      BY <3>1, <3>2, BuildGood
    <3>4. Round(n, q) = Build(n, c)
      BY <2>1 DEF Round
    <3> QED
      BY <3>1, <3>3, <3>4, ContinuesTrans
  <2>2. CASE ~(q.publishing # None /\ ElectionQuorum(q.publishing.state, q.publishing.acked))
    BY <1>1, <2>2, ContinuesRefl DEF Round
  <2> QED
    BY <2>1, <2>2
<1> DEFINE q1 == Round(n, r)
           q2 == Round(n, q1)
           q3 == Round(n, q2)
<1>2. Continues(r, q1)
  BY <1>1
<1>3. Good(q1) /\ q1.mode = "Leader"
  BY <1>2 DEF Continues
<1>4. Continues(q1, q2)
  BY <1>1, <1>3
<1>5. Good(q2) /\ q2.mode = "Leader"
  BY <1>3, <1>4 DEF Continues
<1>6. Continues(q2, q3)
  BY <1>1, <1>5
<1>7. Continues(r, q3)
  BY <1>2, <1>4, <1>6, ContinuesTrans
<1> QED
  BY <1>7 DEF Settle

(* next_publication as a whole.                                             *)
LEMMA NextPublicationGood ==
    ASSUME NEW n \in Node, NEW r, Good(r)
    PROVE  Continues(r, NextPublication(n, r))
<1>1. CASE r.mode # "Leader" \/ r.publishing # None
  BY <1>1, ContinuesRefl DEF NextPublication
<1>2. CASE r.mode = "Leader" /\ r.publishing = None
  <2> DEFINE q == Build(n, r)
  <2>1. Continues(r, q)
    BY <1>2, BuildGood
  <2>2. Good(q) /\ q.mode = "Leader"
    BY <1>2, <2>1 DEF Continues
  <2>3. Continues(q, Settle(n, q))
    BY <2>2, SettleGood
  <2>4. NextPublication(n, r) = Settle(n, q)
    BY <1>2 DEF NextPublication
  <2> QED
    BY <2>1, <2>3, <2>4, ContinuesTrans
<1> QED
  BY <1>1, <1>2

(* q is r once n is the manager of r's term by the votes given.             *)
LeaderNote(n, term) == [type |-> "LeaderNote", from |-> n, term |-> term]

Elects(n, r, votes, q) ==
    /\ Good(q)
    /\ HasQuorum(InitialConfig, votes)
    /\ q.term = r.term
    /\ q.join_votes = {}
    /\ r.out \cup {LeaderNote(n, r.term)} \subseteq q.out
    /\ Harmless(q.out \ (r.out \cup {LeaderNote(n, r.term)}))

(* become_leader publishes the first state of the term.                     *)
LEMMA BecomeLeaderGood ==
    ASSUME NEW n \in Node, NEW r, Good(r), r.mode = "Candidate", r.term > 0, NEW votes,
           ElectionQuorum(r.accepted, votes)
    PROVE  Elects(n, r, votes, BecomeLeader(n, r))
<1> DEFINE t == NextState(r.accepted)
           s == [t EXCEPT !.nodes = @ \cup r.join_votes \cup {n}]
           note == LeaderNote(n, r.term)
           l == [r EXCEPT !.mode = "Leader", !.leader = n, !.join_votes = {},
                          !.lagging = {}, !.out = @ \cup {note}]
           q == Send(n, l, s)
<1>1. /\ r \in NodeState /\ r.accepted \in ClusterState /\ r.committed \in ClusterState
      /\ r.join_votes \subseteq Node /\ r.term \in Nat
  BY DEF Good, Sound, NodeState
<1>2. /\ HasQuorum(InitialConfig, votes)
      /\ r.accepted.last_committed_config = InitialConfig
      /\ r.accepted.last_accepted_config = InitialConfig
  BY DEF Good, Sound, Configured, ElectionQuorum, HasQuorum
<1>3. /\ t \in ClusterState /\ t.version = r.accepted.version + 1
      /\ t.last_committed_config = InitialConfig
      /\ t.last_accepted_config = InitialConfig
  BY <1>1, <1>2, NextStateType
<1> HIDE DEF t
<1>4. /\ s \in ClusterState /\ s.version = r.accepted.version + 1
      /\ s.last_committed_config = InitialConfig
      /\ s.last_accepted_config = InitialConfig
  BY <1>1, <1>3 DEF ClusterState
<1>5. note \in Messages
  BY <1>1 DEF Messages, LeaderNote
<1>6. l \in NodeState
  BY <1>1, <1>5 DEF NodeState
<1>7. /\ l.committed = r.committed /\ l.exclusions = r.exclusions /\ l.term = r.term
      /\ l.mode = "Leader" /\ l.join_votes = {} /\ l.out = r.out \cup {note}
  BY <1>1 DEF NodeState
<1>8. BecomeLeader(n, r) = Settle(n, q)
  BY DEF BecomeLeader, LeaderNote, t
<1> HIDE DEF l, s, note
<1>9. /\ Configured(l.committed) /\ l.exclusions = {} /\ l.term > 0
      /\ l.committed.term <= l.term
      /\ l.committed.term = l.term => l.committed.version <= s.version
  BY <1>1, <1>4, <1>7, SMT DEF Good, Sound, FresherState, Fresher, ClusterState
<1>10. Continues(l, q)
  BY <1>4, <1>6, <1>9, SendGood
<1>11. Good(q) /\ q.mode = "Leader"
  BY <1>7, <1>10 DEF Continues
<1> HIDE DEF q
<1>12. Continues(l, Settle(n, q))
  BY <1>10, <1>11, SettleGood, ContinuesTrans
<1> QED
  BY <1>2, <1>7, <1>8, <1>12 DEF Continues, Elects, note

(* A join at a manager is answered or waits for the next state.             *)
LEMMA JoinAtLeaderGood ==
    ASSUME NEW n \in Node, NEW r, Good(r), NEW from \in Node, NEW same
    PROVE  Continues(r, JoinAtLeader(n, r, from, same))
<1> DEFINE heard == [r EXCEPT !.pending_removals = @ \ {from}]
           answer == JoinResponse(n, from, r.committed)
           sent == {JoinResponse(n, m, r.committed) : m \in {from} \cap budget.answered}
           answers == [heard EXCEPT !.out = @ \cup sent]
           waits == [heard EXCEPT !.lagging = @ \ {from}, !.waiting_joins = @ \cup {from}]
<1>1. r \in NodeState /\ r.committed \in ClusterState /\ Configured(r.committed)
  BY DEF Good, Sound, NodeState
<1>2. /\ answer \in Messages /\ answer.type = "JoinResponse"
      /\ answer.state = r.committed
  BY <1>1 DEF JoinResponse, Messages
<1>3. JoinAtLeader(n, r, from, same) = answers
      \/ JoinAtLeader(n, r, from, same) = NextPublication(n, waits)
  BY DEF JoinAtLeader
<1>10. sent \subseteq {answer}
  OBVIOUS
<1> HIDE DEF answer, sent
<1>4. answers \in NodeState /\ waits \in NodeState
  BY <1>1, <1>2, <1>10 DEF NodeState
<1>5. /\ answers.accepted = r.accepted /\ answers.committed = r.committed
      /\ answers.exclusions = r.exclusions /\ answers.term = r.term /\ answers.mode = r.mode
      /\ answers.join_votes = r.join_votes /\ answers.out = r.out \cup sent
      /\ answers.publishing = r.publishing
  BY <1>1 DEF NodeState
<1>6. /\ waits.accepted = r.accepted /\ waits.committed = r.committed
      /\ waits.exclusions = r.exclusions /\ waits.term = r.term /\ waits.mode = r.mode
      /\ waits.join_votes = r.join_votes /\ waits.out = r.out
      /\ waits.publishing = r.publishing
  BY <1>1 DEF NodeState
<1> HIDE DEF answers, waits
<1>7. Good(answers) /\ Good(waits)
  BY <1>4, <1>5, <1>6 DEF Good, Sound
<1>8. Continues(r, answers) /\ Continues(r, waits)
  BY <1>1, <1>2, <1>5, <1>6, <1>7, <1>10 DEF Continues, Harmless
<1>9. Continues(waits, NextPublication(n, waits))
  BY <1>7, NextPublicationGood
<1> QED
  BY <1>3, <1>8, <1>9, ContinuesTrans

(* on_join: a vote changes nothing but what a manager publishes, or is      *)
(* counted, or elects.                                                      *)
Counts(r, from, q) ==
    /\ Good(q)
    /\ q.term = r.term
    /\ q.join_votes = r.join_votes \cup {from}
    /\ q.out = r.out

JoinOutcome(n, r, from, term, q) ==
    \/ Continues(r, q)
    \/ term = r.term /\ Counts(r, from, q)
    \/ term = r.term /\ Elects(n, r, r.join_votes \cup {from} \cup {n}, q)

(* on_join counts the vote, wins the election, or has nothing to do with it. *)
LEMMA OnJoinGood ==
    ASSUME NEW n \in Node, NEW was, Good(was), NEW from \in Node,
           NEW term \in Nat, term > 0, NEW aTerm \in Nat, NEW aVersion \in Nat,
           NEW same
    PROVE  JoinOutcome(n, SawTerm(was, term), from, term,
                       OnJoin(n, was, from, term, aTerm, aVersion, same))
<1> DEFINE r == SawTerm(was, term)
           q == OnJoin(n, was, from, term, aTerm, aVersion, same)
           voted == [r EXCEPT !.join_votes = @ \cup {from}]
<1>1. Good(r) /\ term <= r.term
  BY SawTermGood, SMT
<1> HIDE DEF r
<1>0. r \in NodeState /\ r.term \in Nat /\ r.join_votes \subseteq Node
  BY <1>1 DEF Good, Sound, NodeState
<1>2. voted \in NodeState
  BY <1>0 DEF NodeState
<1>3. /\ voted.accepted = r.accepted /\ voted.committed = r.committed
      /\ voted.exclusions = r.exclusions /\ voted.term = r.term /\ voted.mode = r.mode
      /\ voted.join_votes = r.join_votes \cup {from} /\ voted.out = r.out
      /\ voted.publishing = r.publishing
  BY <1>0 DEF NodeState
<1> HIDE DEF voted
<1>4. Good(voted)
  BY <1>1, <1>2, <1>3 DEF Good, Sound
<1>5. CASE term < r.term \/ Fresher(aTerm, aVersion, r.accepted.term, r.accepted.version)
  <2>1. q = r
    BY <1>5 DEF OnJoin, r
  <2> QED
    BY <1>1, <2>1, ContinuesRefl DEF JoinOutcome, r
<1>6. CASE ~(term < r.term \/ Fresher(aTerm, aVersion, r.accepted.term, r.accepted.version))
  <2>1. term = r.term
    BY <1>0, <1>1, <1>6, SMT
  <2>2. CASE r.mode = "Candidate"
    <3>1. CASE n \in Eligible /\ ElectionQuorum(r.accepted, voted.join_votes \cup {n})
      <4>1. q = BecomeLeader(n, voted)
        BY <1>6, <2>2, <3>1 DEF OnJoin, r, voted
      <4>2. Elects(n, voted, r.join_votes \cup {from} \cup {n}, q)
        BY <1>0, <1>3, <1>4, <2>1, <2>2, <3>1, <4>1, BecomeLeaderGood
      <4>3. Elects(n, r, r.join_votes \cup {from} \cup {n}, q)
        BY <4>2, <1>3 DEF Elects
      <4> QED
        BY <2>1, <4>3 DEF JoinOutcome, r
    <3>2. CASE ~(n \in Eligible /\ ElectionQuorum(r.accepted, voted.join_votes \cup {n}))
      <4>1. q = voted
        BY <1>6, <2>2, <3>2 DEF OnJoin, r, voted
      <4> QED
        BY <1>3, <1>4, <2>1, <4>1 DEF Counts, JoinOutcome, r
    <3> QED
      BY <3>1, <3>2
  <2>3. CASE r.mode = "Leader"
    <3>1. q = r \/ q = JoinAtLeader(n, r, from, same)
      BY <1>6, <2>3 DEF OnJoin, r
    <3>2. Continues(r, q)
      BY <1>1, <3>1, JoinAtLeaderGood, ContinuesRefl
    <3> QED
      BY <3>2 DEF JoinOutcome, r
  <2>4. CASE r.mode # "Candidate" /\ r.mode # "Leader"
    <3>1. q = r
      BY <1>6, <2>4 DEF OnJoin, r
    <3> QED
      BY <1>1, <3>1, ContinuesRefl DEF JoinOutcome, r
  <2> QED
    BY <2>2, <2>3, <2>4
<1> QED
  BY <1>5, <1>6

-----------------------------------------------------------------------------
(* A handler of node n that ends with the record q keeps the invariant if   *)
(* what it sends and the votes it holds are what they should be.            *)

Inv == TypeOK /\ ElectionInv

Delivers(n, q) ==
    /\ node' = [node EXCEPT ![n] = [q EXCEPT !.out = {}]]
    /\ msgs' = msgs \cup q.out

(* What node n may send on moving to q: its candidacy or one vote, in a     *)
(* term it was not in before; the note of an election it won.               *)
MaySend(n, q) ==
    \A m \in q.out :
        /\ m.type = "StartJoin" => m = StartJoin(n, q.term) /\ q.term > node[n].term
        /\ m.type = "Join" =>
              /\ m.from = n /\ m.to # n /\ m.term = q.term /\ q.term > node[n].term
              /\ StartJoin(m.to, m.term) \in msgs
              /\ StartJoin(n, q.term) \notin q.out
              /\ \A k \in q.out : k.type = "Join" => k = m
        /\ m.type = "LeaderNote" =>
              /\ m.from = n
              /\ \E votes \in SUBSET Node :
                    /\ HasQuorum(InitialConfig, votes)
                    /\ \A v \in votes : Voted(v, n, m.term)'
        /\ m.type \in {"Publish", "CommitNote", "JoinResponse"} => Configured(m.state)

(* Votes once cast stay cast.                                               *)
LEMMA VotedStays ==
    ASSUME NEW n, NEW v, NEW term, msgs \subseteq msgs', Voted(v, n, term)
    PROVE  Voted(v, n, term)'
  BY DEF Voted, Sent, StartJoin

(* A handler that ends well keeps the invariant: what it sends is a vote it *)
(* may cast, the notes of an election it won, or nothing that votes.        *)
LEMMA HandlerKeepsInv ==
    ASSUME Inv, NEW n \in Node, NEW q, Good(q), Delivers(n, q), budget' \in Budgets,
           q.term >= node[n].term, MaySend(n, q),
           \A v \in q.join_votes : Voted(v, n, q.term)'
    PROVE  Inv'
<1> DEFINE e == [q EXCEPT !.out = {}]
<1>1. q \in NodeState /\ node \in [Node -> NodeState] /\ msgs \subseteq Messages
  BY DEF Good, Sound, Inv, TypeOK
<1>2. e \in NodeState /\ e.out = {} /\ q.out \subseteq Messages
  BY <1>1 DEF NodeState
<1>3. /\ e.accepted = q.accepted /\ e.committed = q.committed
      /\ e.exclusions = q.exclusions /\ e.term = q.term /\ e.mode = q.mode
      /\ e.join_votes = q.join_votes /\ e.publishing = q.publishing
  BY <1>1 DEF NodeState
<1> HIDE DEF e
<1>4. node' = [node EXCEPT ![n] = e] /\ msgs' = msgs \cup q.out
  BY DEF Delivers, e
<1>5. node'[n] = e /\ \A k \in Node : k # n => node'[k] = node[k]
  BY <1>1, <1>4
<1>6. \A k \in Node : node[k].term \in Nat /\ node'[k].term \in Nat
                      /\ node[k].term <= node'[k].term
  BY <1>1, <1>2, <1>3, <1>5, SMT DEF NodeState
<1>7. TypeOK'
  BY <1>1, <1>2, <1>4, <1>5 DEF TypeOK, Inv
<1>8. ConfigurationKept'
  <2>1. ASSUME NEW k \in Node
        PROVE  Good(node'[k])
    <3>1. CASE k = n
      BY <1>2, <1>3, <1>5, <3>1 DEF Good, Sound
    <3>2. CASE k # n
      BY <1>1, <1>5, <3>2 DEF Inv, ElectionInv, ConfigurationKept, Good, Sound
    <3> QED
      BY <3>1, <3>2
  <2>2. ASSUME NEW m \in msgs', m.type \in {"Publish", "CommitNote", "JoinResponse"}
        PROVE  Configured(m.state)
    <3>1. CASE m \in msgs
      BY <2>2, <3>1 DEF Inv, ElectionInv, ConfigurationKept, Sent
    <3>2. CASE m \in q.out
      BY <2>2, <3>2 DEF MaySend
    <3> QED
      BY <1>4, <3>1, <3>2
  <2> QED
    BY <2>1, <2>2 DEF ConfigurationKept, Good, Sound, Sent, Configured
<1>9. OneVotePerTerm'
  <2>1. ASSUME NEW m \in msgs', m.type = "StartJoin"
        PROVE  m.term > 0 /\ m.term <= node'[m.from].term
    <3>1. CASE m \in msgs
      <4>1. m.term > 0 /\ m.term <= node[m.from].term
        BY <2>1, <3>1 DEF Inv, ElectionInv, OneVotePerTerm, Sent
      <4>2. m.from \in Node /\ m.term \in Nat
        BY <1>1, <2>1, <3>1 DEF Messages
      <4> QED
        BY <1>6, <4>1, <4>2, SMT
    <3>2. CASE m \in q.out
      <4>1. m = StartJoin(n, q.term) /\ q.term > node[n].term
        BY <2>1, <3>2 DEF MaySend
      <4>2. m.from = n /\ m.term = q.term
        BY <4>1 DEF StartJoin
      <4> QED
        BY <1>3, <1>5, <1>6, <4>1, <4>2, SMT
    <3> QED
      BY <1>4, <3>1, <3>2
  <2>2. ASSUME NEW m \in msgs, m.type = "Join"
        PROVE  /\ m.from # m.to
               /\ m.term <= node[m.from].term
               /\ StartJoin(m.to, m.term) \in msgs
               /\ StartJoin(m.from, m.term) \notin msgs
               /\ m.from \in Node /\ m.term \in Nat
               /\ \A k \in msgs : k.type = "Join" /\ k.from = m.from /\ k.term = m.term
                                     => k.to = m.to
    BY <1>1, <2>2 DEF Inv, ElectionInv, OneVotePerTerm, Sent, Messages
  <2>3. ASSUME NEW k \in Node, NEW t \in Nat, StartJoin(k, t) \in msgs
        PROVE  t <= node[k].term
    <3>1. StartJoin(k, t).type = "StartJoin" /\ StartJoin(k, t).from = k
          /\ StartJoin(k, t).term = t
      BY DEF StartJoin
    <3> QED
      BY <2>3, <3>1 DEF Inv, ElectionInv, OneVotePerTerm, Sent
  <2>4. ASSUME NEW k, NEW t, StartJoin(k, t) \in q.out
        PROVE  k = n /\ t = q.term /\ q.term > node[n].term
    <3>1. StartJoin(k, t).type = "StartJoin" /\ StartJoin(k, t).from = k
          /\ StartJoin(k, t).term = t
      BY DEF StartJoin
    <3>2. StartJoin(k, t) = StartJoin(n, q.term) /\ q.term > node[n].term
      BY <2>4, <3>1 DEF MaySend
    <3>3. StartJoin(n, q.term).from = n /\ StartJoin(n, q.term).term = q.term
      BY DEF StartJoin
    <3> QED
      BY <3>1, <3>2, <3>3
  <2>5. ASSUME NEW m \in q.out, m.type = "Join"
        PROVE  /\ m.from = n /\ m.to # n /\ m.term = q.term /\ q.term > node[n].term
               /\ StartJoin(m.to, m.term) \in msgs
               /\ StartJoin(n, q.term) \notin q.out
               /\ \A k \in q.out : k.type = "Join" => k = m
    BY <2>5 DEF MaySend
  <2>6. ASSUME NEW m \in msgs', m.type = "Join"
        PROVE  /\ m.from # m.to
               /\ m.term <= node'[m.from].term
               /\ StartJoin(m.to, m.term) \in msgs'
               /\ StartJoin(m.from, m.term) \notin msgs'
               /\ \A k \in msgs' : k.type = "Join" /\ k.from = m.from /\ k.term = m.term
                                      => k.to = m.to
    <3>1. CASE m \in msgs
      <4>1. m.term <= node'[m.from].term
        BY <1>6, <2>2, <2>6, <3>1, SMT
      <4>2. StartJoin(m.from, m.term) \notin q.out
        BY <1>6, <2>2, <2>4, <2>6, <3>1, SMT
      <4>3. ASSUME NEW k \in q.out, k.type = "Join"
            PROVE  ~(k.from = m.from /\ k.term = m.term)
        BY <1>6, <2>2, <2>5, <2>6, <3>1, <4>3, SMT
      <4> QED
        BY <1>4, <2>2, <2>6, <3>1, <4>1, <4>2, <4>3
    <3>2. CASE m \in q.out
      <4>1. m.term <= node'[m.from].term
        BY <1>3, <1>5, <1>6, <2>5, <2>6, <3>2, SMT
      <4>2. q.term \in Nat
        BY <1>1 DEF NodeState
      <4>3. StartJoin(m.from, m.term) \notin msgs
        BY <1>6, <2>3, <2>5, <2>6, <3>2, <4>2, SMT
      <4>4. ASSUME NEW k \in msgs, k.type = "Join"
            PROVE  ~(k.from = m.from /\ k.term = m.term)
        BY <1>6, <2>2, <2>5, <2>6, <3>2, <4>2, <4>4, SMT
      <4> QED
        BY <1>4, <2>5, <2>6, <3>2, <4>1, <4>3, <4>4
    <3> QED
      BY <1>4, <3>1, <3>2
  <2> QED
    BY <2>1, <2>6 DEF OneVotePerTerm, Sent, StartJoin
<1>10. VotesAreCurrent'
  <2>1. ASSUME NEW k \in Node, NEW v \in node'[k].join_votes
        PROVE  Voted(v, k, node[k].term)'
    <3>1. CASE k = n
      <4>1. Voted(v, k, q.term)' /\ node'[k].term = q.term
        BY <1>3, <1>5, <3>1
      <4> QED
        BY <4>1 DEF Voted, Sent, StartJoin
    <3>2. CASE k # n
      <4>1. Voted(v, k, node[k].term)
        BY <1>5, <2>1, <3>2 DEF Inv, ElectionInv, VotesAreCurrent
      <4>2. node'[k].term = node[k].term /\ msgs \subseteq msgs'
        BY <1>4, <1>5, <3>2
      <4> QED
        BY <4>1, <4>2 DEF Voted, Sent, StartJoin
    <3> QED
      BY <3>1, <3>2
  <2> QED
    BY <2>1 DEF VotesAreCurrent
<1>11. ElectedByQuorum'
  <2>1. ASSUME NEW m \in msgs', m.type = "LeaderNote"
        PROVE  \E votes \in SUBSET Node :
                  /\ HasQuorum(InitialConfig, votes)
                  /\ \A v \in votes : Voted(v, m.from, m.term)'
    <3>1. CASE m \in msgs
      <4>1. PICK votes \in SUBSET Node :
                  /\ HasQuorum(InitialConfig, votes)
                  /\ \A v \in votes : Voted(v, m.from, m.term)
        BY <2>1, <3>1 DEF Inv, ElectionInv, ElectedByQuorum, Sent
      <4>2. \A v \in votes : Voted(v, m.from, m.term)'
        BY <1>4, <4>1, VotedStays
      <4> QED
        BY <4>1, <4>2
    <3>2. CASE m \in q.out
      BY <2>1, <3>2, SMT DEF MaySend
    <3> QED
      BY <1>4, <3>1, <3>2
  <2> QED
    BY <2>1 DEF ElectedByQuorum, Sent
<1> QED
  BY <1>7, <1>8, <1>9, <1>10, <1>11 DEF Inv, ElectionInv

(* Between handlers, every record is good.                                  *)
LEMMA NodeGood ==
    ASSUME Inv, NEW n \in Node
    PROVE  /\ Good(node[n]) /\ node[n] \in NodeState /\ node[n].out = {}
           /\ node[n].term \in Nat
           /\ \A v \in node[n].join_votes : Voted(v, n, node[n].term)
<1>1. node[n] \in NodeState /\ node[n].out = {}
  BY DEF Inv, TypeOK
<1>2. node[n].term \in Nat
  BY <1>1 DEF NodeState
<1>3. Good(node[n])
  BY <1>1 DEF Inv, ElectionInv, ConfigurationKept, Good, Sound
<1> QED
  BY <1>1, <1>2, <1>3 DEF Inv, ElectionInv, VotesAreCurrent

(* A handler that neither stands, votes, counts a vote nor wins.            *)
LEMMA PlainHandler ==
    ASSUME Inv, NEW n \in Node, NEW q, Good(q), Delivers(n, q), budget' \in Budgets,
           q.term >= node[n].term, Harmless(q.out),
           q.join_votes = {} \/ (q.join_votes = node[n].join_votes /\ q.term = node[n].term)
    PROVE  Inv'
<1>1. MaySend(n, q)
  BY DEF MaySend, Harmless
<1>2. ASSUME NEW v \in q.join_votes
      PROVE  Voted(v, n, q.term)'
  <2>1. Voted(v, n, node[n].term) /\ q.term = node[n].term
    BY <1>2, NodeGood
  <2>2. Voted(v, n, q.term)
    BY <2>1
  <2>3. msgs \subseteq msgs'
    BY DEF Delivers
  <2> QED
    BY <2>2, <2>3, VotedStays
<1> QED
  BY <1>1, <1>2, HandlerKeepsInv

(* A handler that only continues what the node was doing.                   *)
LEMMA ContinuingHandler ==
    ASSUME Inv, NEW n \in Node, NEW r, NEW q, Continues(r, q), Delivers(n, q),
           budget' \in Budgets, r.term = node[n].term, r.join_votes = node[n].join_votes,
           Harmless(r.out)
    PROVE  Inv'
<1>1. Harmless(q.out) /\ Good(q) /\ q.term = node[n].term
      /\ q.join_votes = node[n].join_votes
  BY DEF Continues, Harmless
<1>2. node[n].term \in Nat
  BY NodeGood
<1> QED
  BY <1>1, <1>2, PlainHandler, SMT

(* What Step says.                                                          *)
LEMMA StepDelivers ==
    ASSUME Inv, NEW n \in Node, NEW q, Step(n, q)
    PROVE  Delivers(n, q) /\ budget' \in Budgets
  BY DEF Step, Delivers, Inv, TypeOK
-----------------------------------------------------------------------------
(* One lemma per action.                                                    *)

(* bootstrap: the first configuration is taken.                             *)
LEMMA BootstrapKeeps ==
    ASSUME Inv, NEW n \in Node, Bootstrap(n)
    PROVE  Inv'
<1>1. PICK r : r = node[n]
  OBVIOUS
<1>2. PICK q : q = Bootstrapped(r)
  OBVIOUS
<1>3. Good(r) /\ r.out = {} /\ r.accepted.last_accepted_config = {}
  BY <1>1, NodeGood DEF Bootstrap, CanBootstrap
<1>4. Continues(r, q)
  BY <1>2, <1>3, BootstrappedGood
<1>5. Delivers(n, q) /\ budget' \in Budgets
  BY <1>1, <1>2, StepDelivers DEF Bootstrap
<1> QED
  BY <1>1, <1>3, <1>4, <1>5, ContinuingHandler DEF Harmless

(* A manager whose publication timed out, or a follower that lost its       *)
(* manager, is a candidate again.                                           *)
LEMMA StepDownKeeps ==
    ASSUME Inv, NEW n \in Node, Step(n, BecomeCandidate(node[n]))
    PROVE  Inv'
<1>1. PICK r : r = node[n]
  OBVIOUS
<1>2. PICK q : q = BecomeCandidate(r)
  OBVIOUS
<1>3. Good(r) /\ r.out = {} /\ r.term \in Nat
  BY <1>1, NodeGood
<1>4. Good(q) /\ q.out = {} /\ q.term = r.term /\ q.join_votes = r.join_votes
  BY <1>2, <1>3, BecomeCandidateGood
<1>5. Delivers(n, q) /\ budget' \in Budgets
  BY <1>1, <1>2, StepDelivers
<1> QED
  BY <1>1, <1>3, <1>4, <1>5, PlainHandler, SMT DEF Harmless

(* The handlers that ask for the next publication.                          *)
LEMMA NextPublicationKeeps ==
    ASSUME Inv, NEW n \in Node, NEW gone \in SUBSET Node,
           \/ Step(n, NextPublication(n, [node[n] EXCEPT !.pending_removals = @ \cup gone]))
           \/ Step(n, NextPublication(n, [node[n] EXCEPT !.republish_wanted = TRUE,
                                                         !.exclusions = {}]))
    PROVE  Inv'
<1>1. PICK r : r = node[n]
  OBVIOUS
<1>2. PICK p : /\ \/ p = [r EXCEPT !.pending_removals = @ \cup gone]
                  \/ p = [r EXCEPT !.republish_wanted = TRUE, !.exclusions = {}]
               /\ Step(n, NextPublication(n, p))
  BY <1>1
<1>3. Good(r) /\ r \in NodeState /\ r.out = {}
  BY <1>1, NodeGood
<1>4. p \in NodeState
  <2>1. CASE p = [r EXCEPT !.pending_removals = @ \cup gone]
    BY <1>3, <2>1, SMT DEF NodeState
  <2>2. CASE p = [r EXCEPT !.republish_wanted = TRUE, !.exclusions = {}]
    BY <1>3, <2>2 DEF NodeState
  <2> QED BY <1>2, <2>1, <2>2
<1>5. /\ p.accepted = r.accepted /\ p.committed = r.committed /\ p.term = r.term
      /\ p.mode = r.mode /\ p.join_votes = r.join_votes /\ p.out = {}
      /\ p.publishing = r.publishing /\ p.exclusions = {}
  <2>1. CASE p = [r EXCEPT !.pending_removals = @ \cup gone]
    BY <1>3, <2>1, SMT DEF Good, Sound, NodeState
  <2>2. CASE p = [r EXCEPT !.republish_wanted = TRUE, !.exclusions = {}]
    BY <1>3, <2>2, SMT DEF Good, Sound, NodeState
  <2> QED BY <1>2, <2>1, <2>2
<1>6. Good(p)
  BY <1>3, <1>4, <1>5 DEF Good, Sound
<1>7. PICK q : q = NextPublication(n, p)
  OBVIOUS
<1>8. Continues(p, q)
  BY <1>6, <1>7, NextPublicationGood
<1>9. Delivers(n, q) /\ budget' \in Budgets
  BY <1>2, <1>7, StepDelivers
<1> QED
  BY <1>1, <1>5, <1>8, <1>9, ContinuingHandler DEF Harmless


(* What on_join may come to, at a node that holds votes for the term.       *)
LEMMA JoinOutcomeKeeps ==
    ASSUME Inv, NEW n \in Node, NEW from \in Node, NEW r, NEW q, Good(r),
           r.term >= node[n].term, Delivers(n, q), budget' \in Budgets,
           \/ Continues(r, q)
           \/ Counts(r, from, q)
           \/ Elects(n, r, r.join_votes \cup {from} \cup {n}, q),
           \A m \in r.out : m = StartJoin(n, r.term) /\ r.term > node[n].term,
           \A v \in r.join_votes \cup {from} \cup {n} : Voted(v, n, r.term)'
    PROVE  Inv'
<1> DEFINE votes == r.join_votes \cup {from} \cup {n}
<1>1. /\ Good(q) /\ q.term = r.term
      /\ q.join_votes \subseteq votes
  BY DEF Continues, Counts, Elects
<1>2. ASSUME NEW m \in q.out
      PROVE  \/ m = StartJoin(n, r.term) /\ r.term > node[n].term
             \/ Harmless({m})
             \/ m = LeaderNote(n, r.term) /\ HasQuorum(InitialConfig, votes)
  BY DEF Continues, Counts, Elects, Harmless
<1>3. votes \subseteq Node
  BY DEF Good, Sound, NodeState
<1>4. ASSUME NEW v \in votes
      PROVE  Voted(v, n, r.term)'
  OBVIOUS
<1> HIDE DEF votes
<1>5. MaySend(n, q)
  <2> SUFFICES ASSUME NEW m \in q.out
               PROVE  /\ m.type = "StartJoin" => m = StartJoin(n, q.term) /\ q.term > node[n].term
                      /\ m.type # "Join"
                      /\ m.type = "LeaderNote" =>
                          /\ m.from = n
                          /\ \E w \in SUBSET Node :
                                /\ HasQuorum(InitialConfig, w)
                                /\ \A v \in w : Voted(v, n, m.term)'
                      /\ m.type \in {"Publish", "CommitNote", "JoinResponse"} =>
                            Configured(m.state)
    BY DEF MaySend
  <2>1. CASE m = StartJoin(n, r.term) /\ r.term > node[n].term
    BY <1>1, <2>1 DEF StartJoin
  <2>2. CASE Harmless({m})
    BY <2>2 DEF Harmless
  <2>3. CASE m = LeaderNote(n, r.term) /\ HasQuorum(InitialConfig, votes)
    <3>1. m.type = "LeaderNote" /\ m.from = n /\ m.term = r.term
      BY <2>3 DEF LeaderNote
    <3>2. \A v \in votes : Voted(v, n, m.term)'
      BY <1>4, <3>1
    <3> QED
      BY <1>3, <2>3, <3>1, <3>2
  <2> QED
    BY <1>2, <2>1, <2>2, <2>3
<1>6. ASSUME NEW v \in q.join_votes
      PROVE  Voted(v, n, q.term)'
  BY <1>1, <1>4
<1>7. q.term >= node[n].term
  BY <1>1
<1> QED
  BY <1>1, <1>5, <1>6, <1>7, HandlerKeepsInv

(* on_start_join at the candidate itself: it votes for itself in a term it  *)
(* was not in, and leads at once if it is a quorum.                         *)
LEMMA StartElectionKeeps ==
    ASSUME Inv, NEW n \in Node, NEW term \in 1 .. MaxTerm, StartElection(n, term)
    PROVE  Inv'
<1>1. PICK s : s = node[n]
  OBVIOUS
<1>2. PICK p : p = [s EXCEPT !.out = {StartJoin(n, term)}]
  OBVIOUS
<1>3. PICK r : r = SawTerm(p, term)
  OBVIOUS
<1>4. PICK q : q = OnJoin(n, r, n, term, r.accepted.term, r.accepted.version, TRUE)
  OBVIOUS
<1>5. Good(s) /\ s \in NodeState /\ s.term \in Nat
  BY <1>1, NodeGood
<1>6. term \in Nat /\ term > 0 /\ term > s.term
  BY <1>1, BoundAssumption, SMT DEF StartElection
<1>7. StartJoin(n, term) \in Messages
  BY <1>6 DEF StartJoin, Messages
<1>8. p \in NodeState
  BY <1>2, <1>5, <1>7 DEF NodeState
<1>9. /\ p.accepted = s.accepted /\ p.committed = s.committed /\ p.exclusions = s.exclusions
      /\ p.term = s.term /\ p.mode = s.mode /\ p.publishing = s.publishing
      /\ p.out = {StartJoin(n, term)}
  BY <1>2, <1>5 DEF NodeState
<1>10. Good(p)
  BY <1>5, <1>8, <1>9 DEF Good, Sound
<1>11. Good(r) /\ r.term = term /\ r.join_votes = {} /\ r.out = {StartJoin(n, term)}
  <2>1. ~(term <= p.term)
    BY <1>5, <1>6, <1>9, SMT
  <2> QED
    BY <1>3, <1>6, <1>9, <1>10, <2>1, SawTermGood, SMT
<1>12. r.accepted.term \in Nat /\ r.accepted.version \in Nat
  BY <1>11 DEF Good, Sound, NodeState, ClusterState
<1>13. SawTerm(r, term) = r
  BY <1>6, <1>11, SawTermGood, SMT
<1>14. \/ Continues(r, q) \/ Counts(r, n, q)
       \/ Elects(n, r, r.join_votes \cup {n} \cup {n}, q)
  <2>1. JoinOutcome(n, SawTerm(r, term), n, term, q)
    BY <1>4, <1>6, <1>11, <1>12, OnJoinGood
  <2> QED
    BY <1>13, <2>1 DEF JoinOutcome
<1>15. Step(n, q)
  BY <1>1, <1>2, <1>3, <1>4 DEF StartElection, OnStartJoin
<1>16. Delivers(n, q) /\ budget' \in Budgets
  BY <1>15, StepDelivers
<1>17. StartJoin(n, term) \in q.out
  BY <1>11, <1>14 DEF Continues, Counts, Elects
<1>18. Voted(n, n, r.term)'
  BY <1>11, <1>16, <1>17 DEF Voted, Delivers, StartJoin
<1> QED
  BY <1>1, <1>5, <1>6, <1>11, <1>14, <1>16, <1>18, JoinOutcomeKeeps, SMT

(* on_start_join for another node: one vote, in a term it was not in.       *)
LEMMA OnStartJoinRequestKeeps ==
    ASSUME Inv, NEW n \in Node, NEW m \in msgs, OnStartJoinRequest(n, m)
    PROVE  Inv'
<1>1. PICK s : s = node[n]
  OBVIOUS
<1>2. PICK r : r = SawTerm(s, m.term)
  OBVIOUS
<1>3. PICK q : q = [r EXCEPT !.out = @ \cup {JoinVote(n, m.from, r)}]
  OBVIOUS
<1>4. Good(s) /\ s \in NodeState /\ s.term \in Nat /\ s.out = {}
  BY <1>1, NodeGood
<1>5. /\ m \in Messages /\ m.type = "StartJoin" /\ m.from # n /\ m.term > s.term
      /\ Step(n, q)
  BY <1>1, <1>2, <1>3 DEF OnStartJoinRequest, OnStartJoin, Inv, TypeOK
<1>6. m.term \in Nat /\ m.from \in Node /\ m = StartJoin(m.from, m.term)
  BY <1>5 DEF Messages, StartJoin
<1>7. /\ Good(r) /\ r.term = m.term /\ r.join_votes = {} /\ r.out = {}
  BY <1>2, <1>4, <1>5, <1>6, SawTermGood, SMT
<1>8. r \in NodeState /\ r.accepted \in ClusterState
  BY <1>7 DEF Good, Sound, NodeState
<1> DEFINE v == JoinVote(n, m.from, r)
<1>9. /\ v \in Messages /\ v.type = "Join" /\ v.from = n /\ v.to = m.from
      /\ v.term = m.term
  BY <1>6, <1>7, <1>8 DEF JoinVote, Messages, ClusterState
<1>10. q = [r EXCEPT !.out = {v}]
  BY <1>3, <1>7, <1>8 DEF NodeState
<1> HIDE DEF v
<1>11. q \in NodeState
  BY <1>8, <1>9, <1>10 DEF NodeState
<1>12. /\ q.accepted = r.accepted /\ q.committed = r.committed /\ q.exclusions = r.exclusions
       /\ q.term = r.term /\ q.mode = r.mode /\ q.publishing = r.publishing
       /\ q.join_votes = r.join_votes /\ q.out = {v}
  BY <1>8, <1>10 DEF NodeState
<1>13. Good(q)
  BY <1>7, <1>11, <1>12 DEF Good, Sound
<1>14. v # StartJoin(n, q.term)
  BY <1>9, SMT DEF StartJoin
<1>15. MaySend(n, q)
  BY <1>1, <1>5, <1>6, <1>7, <1>9, <1>12, <1>14 DEF MaySend
<1>16. Delivers(n, q) /\ budget' \in Budgets
  BY <1>5, StepDelivers
<1>17. q.term >= node[n].term
  BY <1>1, <1>4, <1>5, <1>6, <1>7, <1>12, SMT
<1> QED
  BY <1>7, <1>12, <1>13, <1>15, <1>16, <1>17, HandlerKeepsInv


(* on_join of a vote: who it is from stood in the term, so the receiver is  *)
(* in it or past it.                                                        *)
LEMMA OnJoinRequestKeeps ==
    ASSUME Inv, NEW n \in Node, NEW m \in msgs, OnJoinRequest(n, m)
    PROVE  Inv'
<1>1. PICK r : r = node[n]
  OBVIOUS
<1>2. PICK same \in BOOLEAN :
        Step(n, OnJoin(n, r, m.from, m.term, m.accepted_term, m.accepted_version, same))
  BY <1>1 DEF OnJoinRequest, MayBeSame
<1>3. PICK q : q = OnJoin(n, r, m.from, m.term, m.accepted_term, m.accepted_version, same)
  OBVIOUS
<1>4. m \in Messages /\ m.type = "Join" /\ m.to = n /\ m \in Sent("Join")
  BY DEF OnJoinRequest, Inv, TypeOK, Sent
<1>5. /\ m.term \in Nat /\ m.from \in Node
      /\ m.accepted_term \in Nat /\ m.accepted_version \in Nat
  BY <1>4 DEF Messages
<1>6. /\ Good(r) /\ r.out = {} /\ r.term \in Nat
      /\ \A v \in r.join_votes : Voted(v, n, r.term)
  BY <1>1, NodeGood
<1>7. StartJoin(n, m.term) \in msgs
  BY <1>4 DEF Inv, ElectionInv, OneVotePerTerm
<1>8. m.term > 0 /\ m.term <= r.term
  BY <1>1, <1>7, SMT DEF Inv, ElectionInv, OneVotePerTerm, Sent, StartJoin
<1>9. SawTerm(r, m.term) = r
  BY <1>5, <1>6, <1>8, SawTermGood
<1>10. \/ Continues(r, q)
       \/ m.term = r.term /\ Counts(r, m.from, q)
       \/ m.term = r.term /\ Elects(n, r, r.join_votes \cup {m.from} \cup {n}, q)
  <2>1. JoinOutcome(n, SawTerm(r, m.term), m.from, m.term, q)
    BY <1>3, <1>5, <1>6, <1>8, OnJoinGood
  <2> QED
    BY <1>9, <2>1 DEF JoinOutcome
<1>11. Delivers(n, q) /\ budget' \in Budgets
  BY <1>2, <1>3, StepDelivers
<1>12. CASE Continues(r, q)
  BY <1>1, <1>6, <1>11, <1>12, ContinuingHandler DEF Harmless
<1>13. CASE /\ m.term = r.term
            /\ \/ Counts(r, m.from, q)
               \/ Elects(n, r, r.join_votes \cup {m.from} \cup {n}, q)
  <2>1. Voted(m.from, n, r.term) /\ Voted(n, n, r.term)
    BY <1>4, <1>7, <1>13 DEF Voted
  <2>2. msgs \subseteq msgs'
    BY <1>11 DEF Delivers
  <2>3. ASSUME NEW v \in r.join_votes \cup {m.from} \cup {n}
        PROVE  Voted(v, n, r.term)'
    <3>1. Voted(v, n, r.term)
      BY <1>6, <2>1
    <3> QED
      BY <2>2, <3>1, VotedStays
  <2> QED
    BY <1>1, <1>5, <1>6, <1>11, <1>13, <2>3, JoinOutcomeKeeps, SMT
<1> QED
  BY <1>10, <1>12, <1>13

(* A join without a vote.                                                   *)
LEMMA OnVotelessJoinKeeps ==
    ASSUME Inv, NEW n \in Node, NEW from \in Node, OnVotelessJoin(n, from)
    PROVE  Inv'
<1>1. PICK r : r = node[n]
  OBVIOUS
<1>2. PICK same \in BOOLEAN : Step(n, JoinAtLeader(n, r, from, same))
  BY <1>1 DEF OnVotelessJoin, MayBeSame
<1>3. PICK q : q = JoinAtLeader(n, r, from, same)
  OBVIOUS
<1>4. Good(r) /\ r.out = {}
  BY <1>1, NodeGood
<1>5. Continues(r, q)
  BY <1>3, <1>4, JoinAtLeaderGood
<1>6. Delivers(n, q) /\ budget' \in Budgets
  BY <1>2, <1>3, StepDelivers
<1> QED
  BY <1>1, <1>4, <1>5, <1>6, ContinuingHandler DEF Harmless

(* Following a node changes nothing of what a record must be.               *)
LEMMA FollowGood ==
    ASSUME NEW r, Good(r), NEW leader \in Node
    PROVE  LET q == [r EXCEPT !.mode = "Follower", !.leader = leader]
           IN  /\ Good(q) /\ q.term = r.term /\ q.mode = "Follower"
               /\ q.join_votes = r.join_votes /\ q.out = r.out
               /\ q.accepted = r.accepted /\ q.committed = r.committed
<1> DEFINE q == [r EXCEPT !.mode = "Follower", !.leader = leader]
<1>1. r \in NodeState
  BY DEF Good, Sound
<1>2. q \in NodeState
  BY <1>1 DEF NodeState
<1>3. /\ q.accepted = r.accepted /\ q.committed = r.committed /\ q.exclusions = r.exclusions
      /\ q.term = r.term /\ q.mode = "Follower"
      /\ q.join_votes = r.join_votes /\ q.out = r.out
  BY <1>1 DEF NodeState
<1> HIDE DEF q
<1>4. Good(q)
  BY <1>2, <1>3 DEF Good, Sound
<1> QED
  BY <1>3, <1>4 DEF q

(* The answer to a join.                                                    *)
LEMMA OnJoinResponseKeeps ==
    ASSUME Inv, NEW n \in Node, NEW m \in msgs, OnJoinResponse(n, m)
    PROVE  Inv'
<1>1. PICK s : s = node[n]
  OBVIOUS
<1>2. PICK r : r = [s EXCEPT !.mode = "Follower", !.leader = m.from]
  OBVIOUS
<1>3. PICK q : q = ApplyCommitted(r, m.state)
  OBVIOUS
<1>4. /\ m \in Messages /\ m.type = "JoinResponse" /\ m \in Sent("JoinResponse")
      /\ m.state.term = s.term /\ Step(n, q)
  BY <1>1, <1>2, <1>3 DEF OnJoinResponse, Inv, TypeOK, Sent
<1>5. m.state \in ClusterState /\ m.from \in Node
  BY <1>4 DEF Messages
<1>6. Configured(m.state)
  BY <1>4 DEF Inv, ElectionInv, ConfigurationKept
<1>7. Good(s) /\ s.out = {} /\ s.term \in Nat
  BY <1>1, NodeGood
<1>8. /\ Good(r) /\ r.term = s.term /\ r.mode = "Follower"
      /\ r.join_votes = s.join_votes /\ r.out = s.out
  BY <1>2, <1>5, <1>7, FollowGood
<1>9. Continues(r, q)
  BY <1>3, <1>4, <1>5, <1>6, <1>7, <1>8, ApplyCommittedGood, SMT
<1>10. Delivers(n, q) /\ budget' \in Budgets
  BY <1>4, StepDelivers
<1> QED
  BY <1>1, <1>7, <1>8, <1>9, <1>10, ContinuingHandler DEF Harmless


(* A publication of the node's term, newer than what it accepted.           *)
LEMMA OnPublishRequestKeeps ==
    ASSUME Inv, NEW n \in Node, NEW m \in msgs, OnPublishRequest(n, m)
    PROVE  Inv'
<1> DEFINE answer == [type |-> "PublishResponse", from |-> n, to |-> m.from,
                      run |-> m.run, rid |-> m.rid,
                      term |-> m.state.term, version |-> m.state.version]
<1>1. PICK r : r = node[n]
  OBVIOUS
<1>2. PICK q : q = [r EXCEPT !.accepted = m.state, !.mode = "Follower",
                             !.leader = m.state.manager, !.out = {answer}]
  OBVIOUS
<1>3. /\ m \in Messages /\ m.type = "Publish" /\ m \in Sent("Publish")
      /\ m.state.term = r.term
      /\ ~(m.state.term = r.accepted.term /\ m.state.version <= r.accepted.version)
      /\ Step(n, q)
  BY <1>1, <1>2 DEF OnPublishRequest, Inv, TypeOK, Sent
<1>4. /\ m.state \in ClusterState /\ m.from \in Node /\ m.run \in Nat /\ m.rid \in Nat
  BY <1>3 DEF Messages
<1>5. Configured(m.state)
  BY <1>3 DEF Inv, ElectionInv, ConfigurationKept
<1>6. Good(r) /\ r \in NodeState /\ r.term \in Nat
  BY <1>1, NodeGood
<1>7. /\ answer \in Messages /\ answer.type = "PublishResponse"
      /\ m.state.manager \in Node \cup {None}
  BY <1>4 DEF Messages, ClusterState
<1> HIDE DEF answer
<1>8. q \in NodeState
  BY <1>2, <1>4, <1>6, <1>7 DEF NodeState
<1>9. /\ q.accepted = m.state /\ q.committed = r.committed /\ q.exclusions = r.exclusions
      /\ q.term = r.term /\ q.mode = "Follower" /\ q.join_votes = r.join_votes
      /\ q.out = {answer}
  BY <1>2, <1>6 DEF NodeState
<1>10. ~FresherState(r.committed, m.state)
  <2>1. r.accepted \in ClusterState /\ r.committed \in ClusterState
    BY <1>6 DEF NodeState
  <2> QED
    BY <1>3, <1>4, <1>6, <2>1, SMT DEF Good, Sound, FresherState, Fresher, ClusterState
<1>11. Good(q)
  BY <1>3, <1>5, <1>6, <1>8, <1>9, <1>10, SMT DEF Good, Sound
<1>12. Harmless(q.out)
  BY <1>7, <1>9 DEF Harmless
<1>13. Delivers(n, q) /\ budget' \in Budgets
  BY <1>3, StepDelivers
<1>14. /\ q.term >= node[n].term /\ q.term = node[n].term
       /\ q.join_votes = node[n].join_votes
  BY <1>1, <1>6, <1>9, SMT
<1> QED
  BY <1>11, <1>12, <1>13, <1>14, PlainHandler

(* An answer to the publication in flight, or a late one to the last.       *)
LEMMA OnPublishResponseKeeps ==
    ASSUME Inv, NEW n \in Node, NEW m \in msgs, OnPublishResponse(n, m)
    PROVE  Inv'
<1>1. PICK r : r = node[n]
  OBVIOUS
<1> DEFINE told == CommitRequest(n, m.from, m.term, m.version)
<1>2. /\ m \in Messages /\ m.type = "PublishResponse" /\ r.mode = "Leader"
      /\ \/ /\ r.publishing # None
            /\ Step(n, Settle(n, [r EXCEPT !.publishing.acked = @ \cup {m.from}]))
         \/ Step(n, [r EXCEPT !.lagging = @ \ {m.from}, !.out = {told}])
  BY <1>1 DEF OnPublishResponse, Inv, TypeOK
<1>3. m.from \in Node /\ m.term \in Nat /\ m.version \in Nat
  BY <1>2 DEF Messages
<1>4. Good(r) /\ r \in NodeState /\ r.term \in Nat /\ r.out = {}
  BY <1>1, NodeGood
<1>5. CASE /\ r.publishing # None
           /\ Step(n, Settle(n, [r EXCEPT !.publishing.acked = @ \cup {m.from}]))
  <2>1. PICK p : p = [r.publishing EXCEPT !.acked = @ \cup {m.from}]
    OBVIOUS
  <2>2. PICK c : c = [r EXCEPT !.publishing = p]
    OBVIOUS
  <2>3. [r EXCEPT !.publishing.acked = @ \cup {m.from}] = c
    BY <2>1, <2>2
  <2>4. r.publishing \in Publication
    BY <1>4, <1>5 DEF NodeState
  <2>5. p \in Publication /\ p.state = r.publishing.state
    BY <1>3, <2>1, <2>4 DEF Publication
  <2>6. c \in NodeState
    BY <1>4, <2>2, <2>5 DEF NodeState
  <2>7. /\ c.accepted = r.accepted /\ c.committed = r.committed /\ c.exclusions = r.exclusions
        /\ c.term = r.term /\ c.mode = r.mode /\ c.join_votes = r.join_votes
        /\ c.out = r.out /\ c.publishing = p
    BY <1>4, <2>2 DEF NodeState
  <2>8. p # None
    BY <2>5, NoneAssumption
  <2>9. Good(c)
    BY <1>4, <1>5, <2>5, <2>6, <2>7, <2>8 DEF Good, Sound
  <2>10. PICK q : q = Settle(n, c)
    OBVIOUS
  <2>11. Continues(c, q)
    BY <1>2, <2>7, <2>9, <2>10, SettleGood
  <2>12. Delivers(n, q) /\ budget' \in Budgets
    BY <1>5, <2>3, <2>10, StepDelivers
  <2> QED
    BY <1>1, <1>4, <2>7, <2>11, <2>12, ContinuingHandler DEF Harmless
<1>6. CASE Step(n, [r EXCEPT !.lagging = @ \ {m.from}, !.out = {told}])
  <2>1. told \in Messages /\ told.type = "Commit"
    BY <1>3 DEF CommitRequest, Messages
  <2> HIDE DEF told
  <2>2. PICK q : q = [r EXCEPT !.lagging = @ \ {m.from}, !.out = {told}]
    OBVIOUS
  <2>3. q \in NodeState
    BY <1>4, <2>1, <2>2 DEF NodeState
  <2>4. /\ q.accepted = r.accepted /\ q.committed = r.committed /\ q.exclusions = r.exclusions
        /\ q.term = r.term /\ q.mode = r.mode /\ q.join_votes = r.join_votes
        /\ q.out = {told} /\ q.publishing = r.publishing
    BY <1>4, <2>2 DEF NodeState
  <2>5. Good(q) /\ Harmless(q.out)
    BY <1>4, <2>1, <2>3, <2>4 DEF Good, Sound, Harmless
  <2>6. Delivers(n, q) /\ budget' \in Budgets
    BY <1>6, <2>2, StepDelivers
  <2>7. /\ q.term >= node[n].term /\ q.term = node[n].term
        /\ q.join_votes = node[n].join_votes
    BY <1>1, <1>4, <2>4, SMT
  <2> QED
    BY <2>5, <2>6, <2>7, PlainHandler
<1> QED
  BY <1>2, <1>5, <1>6


(* A refused publication.                                                   *)
LEMMA OnPublishRefusedKeeps ==
    ASSUME Inv, NEW n \in Node, NEW m \in msgs, NEW from \in Node,
           OnPublishRefused(n, m, from)
    PROVE  Inv'
<1>1. PICK r : r = node[n]
  OBVIOUS
<1>2. PICK q : q = [r EXCEPT !.lagging = @ \cup {from}]
  OBVIOUS
<1>3. Good(r) /\ r \in NodeState /\ r.term \in Nat /\ r.out = {}
  BY <1>1, NodeGood
<1>4. q \in NodeState
  BY <1>2, <1>3 DEF NodeState
<1>5. /\ q.accepted = r.accepted /\ q.committed = r.committed /\ q.exclusions = r.exclusions
      /\ q.term = r.term /\ q.mode = r.mode /\ q.join_votes = r.join_votes
      /\ q.out = {} /\ q.publishing = r.publishing
  BY <1>2, <1>3 DEF NodeState
<1>6. Good(q) /\ Harmless(q.out)
  BY <1>3, <1>4, <1>5 DEF Good, Sound, Harmless
<1>7. Delivers(n, q) /\ budget' \in Budgets
  BY <1>1, <1>2, StepDelivers DEF OnPublishRefused
<1>8. q.term >= node[n].term /\ q.join_votes = node[n].join_votes /\ q.term = node[n].term
  BY <1>1, <1>3, <1>5, SMT
<1> QED
  BY <1>6, <1>7, <1>8, PlainHandler

(* A commit of what the node accepted last.                                 *)
LEMMA OnCommitRequestKeeps ==
    ASSUME Inv, NEW n \in Node, NEW m \in msgs, OnCommitRequest(n, m)
    PROVE  Inv'
<1>1. PICK r : r = node[n]
  OBVIOUS
<1>2. PICK q : q = ApplyCommitted(r, r.accepted)
  OBVIOUS
<1>3. Good(r) /\ r \in NodeState /\ r.out = {}
  BY <1>1, NodeGood
<1>4. r.accepted \in ClusterState /\ Configured(r.accepted) /\ r.accepted.term <= r.term
  BY <1>3 DEF Good, Sound, NodeState
<1>5. Continues(r, q)
  BY <1>2, <1>3, <1>4, ApplyCommittedGood
<1>6. Delivers(n, q) /\ budget' \in Budgets
  BY <1>1, <1>2, StepDelivers DEF OnCommitRequest
<1> QED
  BY <1>1, <1>3, <1>5, <1>6, ContinuingHandler DEF Harmless

(* A check by the manager of the node's term or of a later one.             *)
LEMMA OnFollowerCheckKeeps ==
    ASSUME Inv, NEW n \in Node, NEW m \in msgs, OnFollowerCheck(n, m)
    PROVE  Inv'
<1>1. PICK s : s = node[n]
  OBVIOUS
<1>2. PICK r : r = SawTerm(s, m.state.term)
  OBVIOUS
<1>3. PICK q : q = IF r.mode = "Candidate"
                   THEN [r EXCEPT !.mode = "Follower", !.leader = m.from] ELSE r
  OBVIOUS
<1>4. m \in Messages /\ m.type = "Publish" /\ m.state.term >= s.term /\ Step(n, q)
  BY <1>1, <1>2, <1>3 DEF OnFollowerCheck, Inv, TypeOK
<1>5. m.state.term \in Nat /\ m.from \in Node
  BY <1>4 DEF Messages, ClusterState
<1>6. Good(s) /\ s.term \in Nat /\ s.out = {}
  BY <1>1, NodeGood
<1>7. /\ Good(r) /\ r.out = {} /\ r.term >= s.term
      /\ r.join_votes = {} \/ (r.join_votes = s.join_votes /\ r.term = s.term)
  <2>1. PICK t \in Nat : t = m.state.term
    BY <1>5
  <2>2. r = SawTerm(s, t)
    BY <1>2, <2>1
  <2>3. /\ Good(r) /\ r.out = s.out
        /\ IF t <= s.term THEN r = s ELSE r.term = t /\ r.join_votes = {}
    BY ONLY <1>6, <2>2, SawTermGood, Zenon
  <2> QED
    BY <1>6, <2>3, SMT
<1>8. Good(q) /\ q.out = {} /\ q.term = r.term /\ q.join_votes = r.join_votes
  BY <1>3, <1>5, <1>7, FollowGood
<1>9. Delivers(n, q) /\ budget' \in Budgets
  BY <1>4, StepDelivers
<1> QED
  BY <1>1, <1>7, <1>8, <1>9, PlainHandler DEF Harmless

(* A later term heard of.                                                   *)
LEMMA HearTermKeeps ==
    ASSUME Inv, NEW n \in Node, NEW term \in Terms, HearTerm(n, term)
    PROVE  Inv'
<1>1. PICK s : s = node[n]
  OBVIOUS
<1>2. PICK q : q = SawTerm(s, term)
  OBVIOUS
<1>3. term \in Nat
  BY DEF Terms, Sent, Inv, TypeOK, Messages
<1>4. Good(s) /\ s.term \in Nat /\ s.out = {}
  BY <1>1, NodeGood
<1>5. /\ Good(q) /\ q.out = {} /\ q.term >= s.term
      /\ q.join_votes = {} \/ (q.join_votes = s.join_votes /\ q.term = s.term)
  <2>1. /\ Good(q) /\ q.out = s.out
        /\ IF term <= s.term THEN q = s ELSE q.term = term /\ q.join_votes = {}
    BY <1>2, <1>3, <1>4, SawTermGood
  <2> QED
    BY <1>3, <1>4, <2>1, SMT
<1>6. Delivers(n, q) /\ budget' \in Budgets
  BY <1>1, <1>2, StepDelivers DEF HearTerm
<1> QED
  BY <1>1, <1>5, <1>6, PlainHandler DEF Harmless

(* What a process starts with, given what its disk may hold.                *)
LEMMA StartGood ==
    ASSUME NEW n \in Node, NEW term \in Nat, NEW accepted \in ClusterState,
           NEW committed \in ClusterState, NEW run \in Nat,
           Configured(accepted), Configured(committed),
           ~FresherState(committed, accepted), accepted.term <= term
    PROVE  /\ Good(Start(n, term, accepted, committed, run))
           /\ Start(n, term, accepted, committed, run).term = term
           /\ Start(n, term, accepted, committed, run).join_votes = {}
           /\ Start(n, term, accepted, committed, run).out = {}
<1> DEFINE kept == IF FresherState(accepted, committed) THEN accepted ELSE committed
           r == [term |-> AtLeast(term, kept.term), mode |-> "Candidate", leader |-> None,
                 accepted |-> kept, committed |-> committed,
                 join_votes |-> {}, publishing |-> None,
                 waiting_joins |-> {}, pending_removals |-> {}, lagging |-> {},
                 republish_wanted |-> FALSE,
                 exclusions |-> {}, next_request |-> 1, run |-> run, out |-> {}]
           q == Start(n, term, accepted, committed, run)
<1>1. /\ kept \in ClusterState /\ Configured(kept) /\ ~FresherState(committed, kept)
      /\ kept.term <= term /\ kept.term \in Nat
  BY SMT DEF FresherState, Fresher, ClusterState
<1> HIDE DEF kept
<1>2. AtLeast(term, kept.term) = term
  BY <1>1, SMT DEF AtLeast
<1>3. r \in NodeState
  BY <1>1, <1>2 DEF NodeState
<1>4. /\ r.accepted = kept /\ r.committed = committed /\ r.exclusions = {}
      /\ r.term = term /\ r.mode = "Candidate" /\ r.join_votes = {}
      /\ r.out = {} /\ r.publishing = None
  BY <1>2
<1>5. q = IF CanBootstrap(n, r) /\ InitialConfig = {n} THEN Bootstrapped(r) ELSE r
  BY DEF Start, kept
<1> HIDE DEF r, q
<1>6. Good(r)
  BY <1>1, <1>3, <1>4 DEF Good, Sound
<1>7. CASE ~(CanBootstrap(n, r) /\ InitialConfig = {n})
  BY <1>4, <1>5, <1>6, <1>7 DEF q
<1>8. CASE CanBootstrap(n, r)
  <2>1. Good(Bootstrapped(r)) /\ Continues(r, Bootstrapped(r))
    BY <1>6, <1>8, BootstrappedGood DEF CanBootstrap, Continues
  <2>2. Bootstrapped(r).out = {}
    BY <1>3, <1>4 DEF Bootstrapped, NodeState
  <2> QED
    BY <1>4, <1>5, <1>6, <2>1, <2>2 DEF Continues, q
<1> QED
  BY <1>7, <1>8


(* A restart keeps the term and the states, and forgets the rest.           *)
LEMMA RestartKeeps ==
    ASSUME Inv, NEW n \in Node, Restart(n)
    PROVE  Inv'
<1>1. PICK r : r = node[n]
  OBVIOUS
<1>2. PICK q : q = Start(n, r.term, r.accepted, r.committed, r.run + 1)
  OBVIOUS
<1>3. Good(r) /\ r \in NodeState
  BY <1>1, NodeGood
<1>4. /\ r.term \in Nat /\ r.accepted \in ClusterState /\ r.committed \in ClusterState
      /\ r.run + 1 \in Nat
      /\ Configured(r.accepted) /\ Configured(r.committed)
      /\ ~FresherState(r.committed, r.accepted) /\ r.accepted.term <= r.term
  BY <1>3, SMT DEF Good, Sound, NodeState
<1>5. Good(q) /\ q.term = r.term /\ q.join_votes = {} /\ q.out = {}
  BY <1>2, <1>4, StartGood, SMT
<1>6. [q EXCEPT !.out = {}] = q
  BY <1>5 DEF Good, Sound, NodeState
<1>7. node' = [node EXCEPT ![n] = q] /\ msgs' = msgs /\ budget' \in Budgets
  <2>1. node' = [node EXCEPT ![n] = q] /\ msgs' = msgs
    BY <1>1, <1>2 DEF Restart
  <2>2. budget \in Budgets /\ budget.restarts > 0
        /\ budget' = [budget EXCEPT !.restarts = @ - 1]
    BY DEF Restart, Inv, TypeOK
  <2>3. budget.restarts - 1 \in Nat
    BY <2>2, SMT DEF Budgets
  <2>4. budget' \in Budgets
    BY <2>2, <2>3 DEF Budgets
  <2> QED
    BY <2>1, <2>4
<1>8. Delivers(n, q)
  BY <1>5, <1>6, <1>7 DEF Delivers
<1>9. q.term >= node[n].term
  BY <1>1, <1>4, <1>5, SMT
<1> QED
  BY <1>5, <1>7, <1>8, <1>9, PlainHandler DEF Harmless

-----------------------------------------------------------------------------

(* The state of a cluster that has published nothing has no configuration.  *)
LEMMA EmptyStateGood ==
    /\ EmptyState \in ClusterState /\ Configured(EmptyState) /\ EmptyState.term = 0
    /\ ~FresherState(EmptyState, EmptyState)
<1>1. EmptyState \in ClusterState
  BY DEF EmptyState, ClusterState
<1>2. /\ EmptyState.term = 0 /\ EmptyState.version = 0
      /\ EmptyState.last_accepted_config = {} /\ EmptyState.last_committed_config = {}
  BY DEF EmptyState
<1>3. Configured(EmptyState)
  BY <1>2, SMT DEF Configured
<1>4. ~FresherState(EmptyState, EmptyState)
  BY <1>2, SMT DEF FresherState, Fresher
<1> QED
  BY <1>1, <1>2, <1>3, <1>4

(* Nodes start with nothing on disk: no votes, no managers.                 *)
LEMMA InitInv == Init => Inv
<1> SUFFICES ASSUME Init PROVE Inv
  OBVIOUS
<1>2. ASSUME NEW n \in Node
      PROVE  Good(node[n]) /\ node[n].join_votes = {} /\ node[n].out = {}
  <2>1. node[n] = Start(n, 0, EmptyState, EmptyState, 0)
    BY DEF Init
  <2>2. 0 \in Nat /\ EmptyState.term <= 0
    BY EmptyStateGood, SMT
  <2>3. /\ Good(Start(n, 0, EmptyState, EmptyState, 0))
        /\ Start(n, 0, EmptyState, EmptyState, 0).join_votes = {}
        /\ Start(n, 0, EmptyState, EmptyState, 0).out = {}
    BY <2>2, EmptyStateGood, StartGood, SMT
  <2> QED
    BY <2>1, <2>3
<1>3. \A n \in Node : node[n] \in NodeState
  BY <1>2 DEF Good, Sound
<1>4. TypeOK
  BY <1>2, <1>3, BoundAssumption DEF TypeOK, Init
<1>5. ConfigurationKept
  BY <1>2 DEF ConfigurationKept, Good, Sound, Init, Sent
<1> QED
  BY <1>2, <1>4, <1>5
  DEF Inv, ElectionInv, OneVotePerTerm, VotesAreCurrent, ElectedByQuorum, Init, Sent

(* Every timer and every message keeps the invariant.                       *)
LEMMA StepInv == Inv /\ [Next]_vars => Inv'
<1> SUFFICES ASSUME Inv, [Next]_vars PROVE Inv'
  OBVIOUS
<1>1. CASE UNCHANGED vars
  <2>1. TypeOK'
    BY <1>1 DEF vars, Inv, TypeOK
  <2>2. ConfigurationKept'
    BY <1>1 DEF vars, Inv, ElectionInv, ConfigurationKept, Sent
  <2>3. OneVotePerTerm'
    BY <1>1 DEF vars, Inv, ElectionInv, OneVotePerTerm, Sent
  <2>4. VotesAreCurrent'
    BY <1>1, SMT DEF vars, Inv, ElectionInv, VotesAreCurrent, Voted, Sent
  <2>5. ElectedByQuorum'
    BY <1>1, SMT DEF vars, Inv, ElectionInv, ElectedByQuorum, Voted, Sent
  <2> QED
    BY <2>1, <2>2, <2>3, <2>4, <2>5 DEF Inv, ElectionInv
<1>2. ASSUME NEW n \in Node, Timer(n)
      PROVE  Inv'
  <2>1. CASE Bootstrap(n)
    BY <2>1, BootstrapKeeps
  <2>2. ASSUME NEW term \in 1 .. MaxTerm, StartElection(n, term) PROVE Inv'
    BY <2>2, StartElectionKeeps
  <2>3. CASE PublishTimeout(n) \/ LoseLeader(n)
    BY <2>3, StepDownKeeps DEF PublishTimeout, LoseLeader
  <2>4. ASSUME NEW gone \in SUBSET Node, FollowerCheckTimer(n, gone) PROVE Inv'
    BY <2>4, NextPublicationKeeps DEF FollowerCheckTimer
  <2>5. ASSUME NEW exclusions \in ExclusionSets, Republish(n, exclusions) PROVE Inv'
    <3>1. exclusions = {}
      BY FixedAssumption
    <3> QED
      BY <2>5, <3>1, NextPublicationKeeps DEF Republish
  <2>6. CASE Restart(n)
    BY <2>6, RestartKeeps
  <2> QED
    BY <1>2, <2>1, <2>2, <2>3, <2>4, <2>5, <2>6 DEF Timer
<1>3. ASSUME NEW n \in Node, Receive(n)
      PROVE  Inv'
  <2>1. ASSUME NEW m \in msgs,
               \/ OnStartJoinRequest(n, m) \/ OnJoinRequest(n, m) \/ OnJoinResponse(n, m)
               \/ OnPublishRequest(n, m) \/ OnPublishResponse(n, m)
               \/ OnCommitRequest(n, m) \/ OnFollowerCheck(n, m)
        PROVE  Inv'
    BY <2>1, OnStartJoinRequestKeeps, OnJoinRequestKeeps, OnJoinResponseKeeps,
       OnPublishRequestKeeps, OnPublishResponseKeeps, OnCommitRequestKeeps,
       OnFollowerCheckKeeps
  <2>2. ASSUME NEW from \in Node, OnVotelessJoin(n, from) PROVE Inv'
    BY <2>2, OnVotelessJoinKeeps
  <2>3. ASSUME NEW m \in msgs, NEW from \in Node, OnPublishRefused(n, m, from) PROVE Inv'
    BY <2>3, OnPublishRefusedKeeps
  <2>4. ASSUME NEW term \in Terms, HearTerm(n, term) PROVE Inv'
    BY <2>4, HearTermKeeps
  <2>5. ASSUME NEW from \in Node, Leave(n, from) PROVE Inv'
    <3>1. {from} \in SUBSET Node
      OBVIOUS
    <3> QED
      BY <2>5, <3>1, NextPublicationKeeps DEF Leave
  <2> QED
    BY <1>3, <2>1, <2>2, <2>3, <2>4, <2>5 DEF Receive
<1> QED
  BY <1>1, <1>2, <1>3 DEF Next

(* The inductive invariant is one.                                          *)
LEMMA InvAlways == Spec => []Inv
<1> QED
  BY InitInv, StepInv, PTL DEF Spec

(* A vote per node and term, held by candidates of that term only, and      *)
(* managers elected by a quorum of votes for their term (on_start_join,     *)
(* on_join, saw_term, become_leader).                                       *)
THEOREM ElectionInvariant == Spec => []ElectionInv
<1>1. Inv => ElectionInv
  BY DEF Inv
<1> QED
  BY <1>1, InvAlways, PTL

(* Every record and message keeps the shape the code gives it, for any      *)
(* number of nodes, terms, versions and restarts.                           *)
THEOREM TypeCorrect == Spec => []TypeOK
<1>1. Inv => TypeOK
  BY DEF Inv
<1> QED
  BY <1>1, InvAlways, PTL

(* Two quorums of votes share a voter, who voted for one node only.         *)
LEMMA InvOneLeader == Inv => OneLeaderPerTerm
<1> SUFFICES ASSUME Inv, NEW e \in Sent("LeaderNote"), NEW f \in Sent("LeaderNote"),
                    e.term = f.term
             PROVE  e.from = f.from
  BY DEF OneLeaderPerTerm
<1>1. PICK v \in SUBSET Node : /\ HasQuorum(InitialConfig, v)
                               /\ \A n \in v : Voted(n, e.from, e.term)
  BY DEF Inv, ElectionInv, ElectedByQuorum
<1>2. PICK w \in SUBSET Node : /\ HasQuorum(InitialConfig, w)
                               /\ \A n \in w : Voted(n, f.from, e.term)
  BY DEF Inv, ElectionInv, ElectedByQuorum
<1>3. IsFiniteSet(InitialConfig)
  BY NodeAssumption, ConfigAssumption, FS_Subset
<1>4. PICK n \in InitialConfig : n \in v /\ n \in w
  BY <1>1, <1>2, <1>3, QuorumsIntersect
<1>5. Voted(n, e.from, e.term) /\ Voted(n, f.from, e.term)
  BY <1>1, <1>2, <1>4
<1> QED
  BY <1>5 DEF Voted, Inv, ElectionInv, OneVotePerTerm

(* "Every term is only ever led by one node" (coordinator.rs:31), for a     *)
(* voting configuration that does not change.                               *)
THEOREM OneManagerPerTerm == Spec => []OneLeaderPerTerm
  BY InvOneLeader, InvAlways, PTL

-----------------------------------------------------------------------------
(* What a call of a handler must do to keep Consistent: a publication, an   *)
(* answer to one, or a call that is neither.                                *)

OneLeader(M) ==
    \A e, f \in Of(M, "LeaderNote") : e.term = f.term => e.from = f.from

(* Records and messages of the right shape. *)
Fine(N, M) ==
    /\ N \in [Node -> NodeState]
    /\ M \subseteq Messages
    /\ \A k \in Node : N[k].accepted.term <= N[k].term

(* Node n goes on: terms, what it accepted and its request ids only grow.   *)
Moves(N, M, N2, M2, n) ==
    /\ \A k \in Node : k # n => N2[k] = N[k]
    /\ N[n].term <= N2[n].term
    /\ ~FresherState(N[n].accepted, N2[n].accepted)
    /\ \/ N[n].run < N2[n].run
       \/ N[n].run = N2[n].run /\ N[n].next_request <= N2[n].next_request
    /\ M \subseteq M2

-----------------------------------------------------------------------------
(* What messages and records are made of.                                   *)

(* The fields of a message are those of its type.                           *)
LEMMA MessageFields ==
    ASSUME NEW m \in Messages
    PROVE  /\ m.type = "StartJoin" => m.from \in Node /\ m.term \in Nat
           /\ m.type = "Join" =>
                /\ m.from \in Node /\ m.to \in Node /\ m.term \in Nat
                /\ m.accepted_term \in Nat /\ m.accepted_version \in Nat
           /\ m.type = "JoinResponse" =>
                m.from \in Node /\ m.to \in Node /\ m.state \in ClusterState
           /\ m.type = "Publish" =>
                m.from \in Node /\ m.run \in Nat /\ m.rid \in Nat /\ m.state \in ClusterState
           /\ m.type = "PublishResponse" =>
                /\ m.from \in Node /\ m.to \in Node /\ m.run \in Nat /\ m.rid \in Nat
                /\ m.term \in Nat /\ m.version \in Nat
           /\ m.type = "Commit" =>
                m.from \in Node /\ m.to \in Node /\ m.term \in Nat /\ m.version \in Nat
           /\ m.type = "LeaderNote" => m.from \in Node /\ m.term \in Nat
           /\ m.type = "CommitNote" => m.from \in Node /\ m.state \in ClusterState
  BY DEF Messages

(* The fields of a record.                                                  *)
LEMMA RecordFields ==
    ASSUME NEW r \in NodeState
    PROVE  /\ r.term \in Nat /\ r.run \in Nat /\ r.next_request \in Nat
           /\ r.accepted \in ClusterState /\ r.committed \in ClusterState
           /\ r.join_votes \subseteq Node
           /\ r.publishing # None => r.publishing \in Publication
  BY DEF NodeState

(* The fields of a state.                                                   *)
LEMMA StateFields ==
    ASSUME NEW s \in ClusterState
    PROVE  s.term \in Nat /\ s.version \in Nat /\ s.lineage \subseteq Names
  BY DEF ClusterState

(* Published states are states.                                             *)
LEMMA PublishedType ==
    ASSUME NEW M, M \subseteq Messages
    PROVE  \A s \in Published(M) : s \in ClusterState /\ s.term \in Nat /\ s.version \in Nat
<1>1. \A m \in Of(M, "Publish") : m.state \in ClusterState
  BY MessageFields DEF Of
<1> QED
  BY <1>1, StateFields DEF Published


-----------------------------------------------------------------------------
(* What is said of messages stays true of them as more are sent and nodes   *)
(* go on.                                                                   *)

(* More messages, more of everything that is there because of one.          *)
LEMMA MoreMessages ==
    ASSUME NEW M, NEW M2, M \subseteq M2
    PROVE  /\ \A type : Of(M, type) \subseteq Of(M2, type)
           /\ Published(M) \subseteq Published(M2)
           /\ \A n, t : Leads(M, n, t) => Leads(M2, n, t)
           /\ \A s : Noted(M, s) => Noted(M2, s)
           /\ \A q, s : Accepts(M, q, s) => Accepts(M2, q, s)
<1>1. \A type : Of(M, type) \subseteq Of(M2, type)
  BY DEF Of
<1> QED
  BY <1>1 DEF Published, Leads, Noted, Accepts

(* What is said of a node stays true while its record stays.                *)
LEMMA OtherNodes ==
    ASSUME NEW M, NEW M2, M \subseteq M2, NEW n, NEW r,
           TakenFromManagers(M, r), RoleKept(M, n, r), VotesCounted(M, n, r)
    PROVE  TakenFromManagers(M2, r) /\ RoleKept(M2, n, r) /\ VotesCounted(M2, n, r)
<1>1. TakenFromManagers(M2, r)
  BY MoreMessages DEF TakenFromManagers
<1>2. InFlight(M, n, r) => InFlight(M2, n, r)
  BY MoreMessages DEF InFlight
<1>3. RoleKept(M2, n, r)
  BY <1>2, MoreMessages DEF RoleKept
<1>4. VotesCounted(M2, n, r)
  BY MoreMessages DEF VotesCounted
<1> QED
  BY <1>1, <1>3, <1>4

(* A step moves every node, most of them by nothing.                        *)
LEMMA MovesAll ==
    ASSUME NEW N, NEW M, NEW N2, NEW M2, NEW n \in Node, Fine(N, M), Fine(N2, M2),
           Moves(N, M, N2, M2, n), NEW k \in Node
    PROVE  /\ N[k] \in NodeState /\ N2[k] \in NodeState
           /\ N[k].term \in Nat /\ N2[k].term \in Nat
           /\ N[k].accepted.term \in Nat /\ N[k].accepted.version \in Nat
           /\ N2[k].accepted.term \in Nat /\ N2[k].accepted.version \in Nat
           /\ N[k].run \in Nat /\ N2[k].run \in Nat
           /\ N[k].next_request \in Nat /\ N2[k].next_request \in Nat
           /\ N[k].term <= N2[k].term
           /\ ~FresherState(N[k].accepted, N2[k].accepted)
           /\ \/ N[k].run < N2[k].run
              \/ N[k].run = N2[k].run /\ N[k].next_request <= N2[k].next_request
<1>1. N[k] \in NodeState /\ N2[k] \in NodeState
  BY DEF Fine
<1>2. /\ N[k].term \in Nat /\ N2[k].term \in Nat
      /\ N[k].accepted \in ClusterState /\ N2[k].accepted \in ClusterState
      /\ N[k].run \in Nat /\ N2[k].run \in Nat
      /\ N[k].next_request \in Nat /\ N2[k].next_request \in Nat
  BY <1>1, RecordFields
<1>3. /\ N[k].accepted.term \in Nat /\ N[k].accepted.version \in Nat
      /\ N2[k].accepted.term \in Nat /\ N2[k].accepted.version \in Nat
  BY <1>2, StateFields
<1>4. CASE k = n
  BY <1>1, <1>2, <1>3, <1>4 DEF Moves
<1>5. CASE k # n
  <2>1. N2[k] = N[k]
    BY <1>5 DEF Moves
  <2>2. ~FresherState(N[k].accepted, N[k].accepted)
    BY <1>3, SMT DEF FresherState, Fresher
  <2> QED
    BY <1>1, <1>2, <1>3, <2>1, <2>2, SMT
<1> QED
  BY <1>4, <1>5

(* The messages there were are as true as they were.                        *)
LEMMA OldMessages ==
    ASSUME NEW N, NEW M, NEW N2, NEW M2, NEW n \in Node, Fine(N, M), Fine(N2, M2),
           Moves(N, M, N2, M2, n), Consistent(N, M)
    PROVE  /\ \A k \in Node : k # n => /\ TakenFromManagers(M2, N2[k])
                                       /\ RoleKept(M2, k, N2[k])
                                       /\ VotesCounted(M2, k, N2[k])
           /\ \A p \in Of(M, "Publish") : PublishedByElected(N2, M2, p)
           /\ \A a \in Of(M, "PublishResponse") : AnswerTrue(N2, M2, a)
           /\ \A c \in Of(M, "CommitNote") : CommitTrue(M2, c)
           /\ \A r \in Of(M, "Commit") : RequestTrue(M2, r)
           /\ \A m \in Of(M, "JoinResponse") : JoinAnswered(N2, M2, m)
           /\ \A e \in Of(M, "LeaderNote") : VotersMoved(N2, e)
<1>0. M \subseteq M2 /\ M \subseteq Messages
  BY DEF Moves, Fine
<1>1. ASSUME NEW k \in Node, k # n
      PROVE  /\ TakenFromManagers(M2, N2[k])
             /\ RoleKept(M2, k, N2[k])
             /\ VotesCounted(M2, k, N2[k])
  <2>1. N2[k] = N[k]
    BY <1>1 DEF Moves
  <2>2. TakenFromManagers(M, N[k]) /\ RoleKept(M, k, N[k]) /\ VotesCounted(M, k, N[k])
    BY DEF Consistent
  <2> QED
    BY <1>0, <2>1, <2>2, OtherNodes
<1>2. ASSUME NEW p \in Of(M, "Publish")
      PROVE  PublishedByElected(N2, M2, p)
  <2>1. PublishedByElected(N, M, p)
    BY DEF Consistent
  <2>2. /\ p.from \in Node /\ p.run \in Nat /\ p.rid \in Nat
        /\ p.state.term \in Nat /\ p.state.version \in Nat
    BY <1>0, MessageFields, StateFields DEF Of
  <2>3. Leads(M2, p.from, p.state.term)
    <3>1. Leads(M, p.from, p.state.term)
      BY <2>1 DEF PublishedByElected
    <3> QED
      BY <1>0, <3>1 DEF Leads, Of
  <2>4. ~FresherState(p.state, N2[p.from].accepted)
    <3>1. ~FresherState(p.state, N[p.from].accepted)
      BY <2>1 DEF PublishedByElected
    <3>2. /\ N[p.from].accepted.term \in Nat /\ N[p.from].accepted.version \in Nat
          /\ N2[p.from].accepted.term \in Nat /\ N2[p.from].accepted.version \in Nat
          /\ ~FresherState(N[p.from].accepted, N2[p.from].accepted)
      BY <2>2, MovesAll
    <3> QED
      BY <2>2, <3>1, <3>2, SMT DEF FresherState, Fresher
  <2>5. /\ p.run <= N2[p.from].run
        /\ p.run = N2[p.from].run => p.rid < N2[p.from].next_request
    <3>1. /\ p.run <= N[p.from].run
          /\ p.run = N[p.from].run => p.rid < N[p.from].next_request
      BY <2>1 DEF PublishedByElected
    <3> QED
      BY <2>2, <3>1, MovesAll, SMT
  <2> QED
    BY <2>1, <2>3, <2>4, <2>5 DEF PublishedByElected
<1>3. ASSUME NEW a \in Of(M, "PublishResponse")
      PROVE  AnswerTrue(N2, M2, a)
  <2>1. AnswerTrue(N, M, a)
    BY DEF Consistent
  <2>2. a.from \in Node /\ a.term \in Nat /\ a.version \in Nat
    BY <1>0, MessageFields DEF Of
  <2>3. ~Fresher(a.term, a.version, N2[a.from].accepted.term, N2[a.from].accepted.version)
    <3>1. ~Fresher(a.term, a.version, N[a.from].accepted.term, N[a.from].accepted.version)
      BY <2>1 DEF AnswerTrue
    <3>2. /\ N[a.from].accepted.term \in Nat /\ N[a.from].accepted.version \in Nat
          /\ N2[a.from].accepted.term \in Nat /\ N2[a.from].accepted.version \in Nat
          /\ ~FresherState(N[a.from].accepted, N2[a.from].accepted)
      BY <2>2, MovesAll
    <3> QED
      BY <2>2, <3>1, <3>2, SMT DEF FresherState, Fresher
  <2> QED
    BY <1>0, <2>1, <2>3, MoreMessages DEF AnswerTrue
<1>4. ASSUME NEW c \in Of(M, "CommitNote")
      PROVE  CommitTrue(M2, c)
  <2>1. CommitTrue(M, c)
    BY DEF Consistent
  <2> QED
    BY <1>0, <2>1, MoreMessages DEF CommitTrue
<1>5. ASSUME NEW r \in Of(M, "Commit")
      PROVE  RequestTrue(M2, r)
  <2>1. RequestTrue(M, r)
    BY DEF Consistent
  <2> QED
    BY <1>0, <2>1, MoreMessages DEF RequestTrue
<1>6. ASSUME NEW m \in Of(M, "JoinResponse")
      PROVE  JoinAnswered(N2, M2, m)
  <2>1. JoinAnswered(N, M, m)
    BY DEF Consistent
  <2>2. m.to \in Node
    BY <1>0, MessageFields DEF Of
  <2>3. N[m.to].term \in Nat /\ N2[m.to].term \in Nat /\ N[m.to].term <= N2[m.to].term
    BY <2>2, MovesAll
  <2>4. PICK e \in Of(M, "LeaderNote") :
            e.from = m.from /\ m.state.term <= e.term /\ e.term <= N[m.to].term
    BY <2>1 DEF JoinAnswered
  <2>5. e.term \in Nat
    BY <1>0, MessageFields DEF Of
  <2>6. e \in Of(M2, "LeaderNote")
    BY <1>0, <2>4, MoreMessages
  <2>7. e.term <= N2[m.to].term
    BY <2>3, <2>4, <2>5, SMT
  <2> QED
    BY <1>0, <2>1, <2>4, <2>6, <2>7, MoreMessages DEF JoinAnswered
<1>7. ASSUME NEW e \in Of(M, "LeaderNote")
      PROVE  VotersMoved(N2, e)
  <2>1. PICK Q \in SUBSET Node :
            HasQuorum(InitialConfig, Q) /\ \A q \in Q : N[q].term >= e.term
    BY DEF Consistent, VotersMoved
  <2>2. e.term \in Nat
    BY <1>0, MessageFields DEF Of
  <2>3. ASSUME NEW q \in Q PROVE N2[q].term >= e.term
    BY <2>1, <2>2, MovesAll, SMT
  <2> QED
    BY <2>1, <2>3 DEF VotersMoved
<1> QED
  BY <1>1, <1>2, <1>3, <1>4, <1>5, <1>6, <1>7

(* A quorum that has gone on without a state stays gone, as long as nobody  *)
(* accepts a state of an earlier term than its own.                         *)
LEMMA DeadStays ==
    ASSUME NEW N, NEW M, NEW N2, NEW M2, NEW n \in Node, Fine(N, M), Fine(N2, M2),
           Moves(N, M, N2, M2, n), NEW s \in ClusterState, Dead(N, M, s),
           \A a \in Of(M2, "PublishResponse") :
               a \in Of(M, "PublishResponse") \/ (a.from = n /\ a.term = N[n].term)
    PROVE  Dead(N2, M2, s)
<1>1. PICK Q \in SUBSET Node :
        /\ HasQuorum(InitialConfig, Q)
        /\ \A q \in Q : N[q].term > s.term /\ ~Accepts(M, q, s)
  BY DEF Dead
<1>2. s.term \in Nat
  BY StateFields
<1>3. ASSUME NEW q \in Q
      PROVE  N2[q].term > s.term /\ ~Accepts(M2, q, s)
  <2>1. /\ N[q].term > s.term /\ ~Accepts(M, q, s)
        /\ N[q].term \in Nat /\ N2[q].term \in Nat /\ N[q].term <= N2[q].term
    BY <1>1, MovesAll
  <2>2. ASSUME NEW a \in Of(M2, "PublishResponse"), a.from = q, a.term = s.term,
               a.version = s.version
        PROVE  FALSE
    <3>1. a \in Of(M, "PublishResponse")
      BY <1>2, <2>1, <2>2, SMT
    <3> QED
      BY <2>1, <2>2, <3>1 DEF Accepts
  <2> QED
    BY <1>2, <2>1, <2>2, SMT DEF Accepts
<1> QED
  BY <1>1, <1>3 DEF Dead

(* A call that publishes nothing: it may send votes, candidacies, commits   *)
(* and answers, each of them true.                                          *)
LEMMA PlainCall ==
    ASSUME NEW N, NEW M, NEW N2, NEW M2, NEW n \in Node, Fine(N, M), Fine(N2, M2),
           Moves(N, M, N2, M2, n), Consistent(N, M),
           TakenFromManagers(M2, N2[n]), RoleKept(M2, n, N2[n]), VotesCounted(M2, n, N2[n]),
           \A m \in M2 \ M :
              /\ m.type \notin {"Publish", "LeaderNote"}
              /\ m.type = "Join" => VoteTells(N2, M2, m)
              /\ m.type = "JoinResponse" => JoinAnswered(N2, M2, m)
              /\ m.type = "Commit" => RequestTrue(M2, m)
              /\ m.type = "CommitNote" => CommitTrue(M2, m)
              /\ m.type = "PublishResponse" =>
                    AnswerTrue(N2, M2, m) /\ m.from = n /\ m.term = N[n].term,
           NewestCommit(M2)
    PROVE  Consistent(N2, M2)
<1>0. M \subseteq M2 /\ M \subseteq Messages /\ M2 \subseteq Messages
  BY DEF Moves, Fine
<1>1. /\ Of(M2, "Publish") = Of(M, "Publish")
      /\ Of(M2, "LeaderNote") = Of(M, "LeaderNote")
  BY <1>0 DEF Of
<1>2. Published(M2) = Published(M)
  BY <1>1 DEF Published
<1>3. ASSUME NEW a \in Of(M2, "PublishResponse"), a \notin Of(M, "PublishResponse")
      PROVE  a.from = n /\ a.term = N[n].term
  <2>1. a \in M2 \ M /\ a.type = "PublishResponse"
    BY <1>3 DEF Of
  <2> QED
    BY <2>1
<1>4. ASSUME NEW j \in Of(M, "Join")
      PROVE  VoteTells(N2, M2, j)
  <2>1. VoteTells(N, M, j)
    BY DEF Consistent
  <2>2. j.from \in Node /\ j.term \in Nat
    BY <1>0, MessageFields DEF Of
  <2>5. j.term <= N[j.from].term
    BY <2>1 DEF VoteTells
  <2>3. j.term <= N2[j.from].term
    BY <2>2, <2>5, MovesAll, SMT
  <2>4. ASSUME NEW s \in Published(M2), s.term < j.term, Accepts(M2, j.from, s)
        PROVE  ~Fresher(s.term, s.version, j.accepted_term, j.accepted_version)
    <3>1. s \in Published(M) /\ s.term \in Nat
      BY <1>0, <1>2, PublishedType
    <3>2. N[n].term \in Nat
      BY MovesAll
    <3>3. Accepts(M, j.from, s)
      BY <1>3, <2>2, <2>4, <2>5, <3>1, <3>2, SMT DEF Accepts
    <3> QED
      BY <2>1, <2>4, <3>1, <3>3 DEF VoteTells
  <2> QED
    BY <2>3, <2>4 DEF VoteTells
<1>5. PublishedOnce(M2)
  BY <1>1 DEF Consistent, PublishedOnce
<1>6. BuiltOn(N2, M2)
  <2> SUFFICES ASSUME NEW s \in Published(M), NEW u \in Published(M)
               PROVE  /\ s.term < u.term => s.lineage \subseteq u.lineage \/ Dead(N2, M2, s)
                      /\ s.term = u.term /\ s.version <= u.version =>
                            s.lineage \subseteq u.lineage
    BY <1>2 DEF BuiltOn
  <2>1. /\ s.term < u.term => s.lineage \subseteq u.lineage \/ Dead(N, M, s)
        /\ s.term = u.term /\ s.version <= u.version => s.lineage \subseteq u.lineage
    BY DEF Consistent, BuiltOn
  <2>2. s \in ClusterState
    BY <1>0, PublishedType
  <2>3. ASSUME Dead(N, M, s)
        PROVE  Dead(N2, M2, s)
    <3>1. \A a \in Of(M2, "PublishResponse") :
              a \in Of(M, "PublishResponse") \/ (a.from = n /\ a.term = N[n].term)
      BY <1>3
    <3> QED
      BY <2>2, <2>3, <3>1, DeadStays
  <2> QED
    BY <2>1, <2>3
<1>7. \A m \in M2 : m \in M \/ m \in M2 \ M
  OBVIOUS
<1>8. /\ \A k \in Node : /\ TakenFromManagers(M2, N2[k])
                         /\ RoleKept(M2, k, N2[k])
                         /\ VotesCounted(M2, k, N2[k])
      /\ \A p \in Of(M2, "Publish") : PublishedByElected(N2, M2, p)
      /\ \A e \in Of(M2, "LeaderNote") : VotersMoved(N2, e)
  BY <1>1, OldMessages
<1>9. /\ \A c \in Of(M2, "CommitNote") : CommitTrue(M2, c)
      /\ \A r \in Of(M2, "Commit") : RequestTrue(M2, r)
      /\ \A m \in Of(M2, "JoinResponse") : JoinAnswered(N2, M2, m)
      /\ \A j \in Of(M2, "Join") : VoteTells(N2, M2, j)
      /\ \A a \in Of(M2, "PublishResponse") : AnswerTrue(N2, M2, a)
  <2>1. /\ \A c \in Of(M, "CommitNote") : CommitTrue(M2, c)
        /\ \A r \in Of(M, "Commit") : RequestTrue(M2, r)
        /\ \A m \in Of(M, "JoinResponse") : JoinAnswered(N2, M2, m)
        /\ \A a \in Of(M, "PublishResponse") : AnswerTrue(N2, M2, a)
    BY OldMessages
  <2> QED
    BY <1>4, <1>7, <2>1 DEF Of
<1> QED
  BY <1>5, <1>6, <1>8, <1>9 DEF Consistent

(* A node that has accepted a state has accepted nothing older since.       *)
LEMMA AcceptedBound ==
    ASSUME NEW N, NEW M, Fine(N, M), Consistent(N, M), NEW s \in Published(M),
           NEW q \in Node, Accepts(M, q, s)
    PROVE  ~FresherState(s, N[q].accepted)
<1>1. CASE q = s.manager
  <2>1. PICK p \in Of(M, "Publish") : p.state = s
    BY DEF Published
  <2>2. p.state.manager = p.from /\ ~FresherState(p.state, N[p.from].accepted)
    BY DEF Consistent, PublishedByElected
  <2> QED
    BY <1>1, <2>1, <2>2
<1>2. CASE q # s.manager
  <2>1. PICK a \in Of(M, "PublishResponse") :
          a.from = q /\ a.term = s.term /\ a.version = s.version
    BY <1>2 DEF Accepts
  <2>2. ~Fresher(a.term, a.version, N[a.from].accepted.term, N[a.from].accepted.version)
    BY DEF Consistent, AnswerTrue
  <2> QED
    BY <2>1, <2>2 DEF FresherState
<1> QED
  BY <1>1, <1>2

-----------------------------------------------------------------------------
(* Publications.                                                            *)

(* A state built on another has that one's lineage and its own name.        *)
LEMMA DescendsOn ==
    ASSUME NEW b \in ClusterState, Blank(b) \/ Descended(b), NEW s \in ClusterState,
           NEW name \in Names, name = Name(s.term, s.manager, s.version),
           s.version = b.version + 1, b.term <= s.term, s.lineage = b.lineage \cup {name}
    PROVE  Descended(s)
<1>1. /\ s.term \in Nat /\ s.version \in Nat /\ b.term \in Nat /\ b.version \in Nat
      /\ name.term = s.term /\ name.version = s.version
      /\ \A x \in b.lineage : x.term \in Nat /\ x.version \in Nat
  BY StateFields DEF Name, Names
<1>2. /\ IsFiniteSet(b.lineage) /\ Cardinality(b.lineage) = b.version
      /\ {x.version : x \in b.lineage} = 1 .. b.version
      /\ \A x, y \in b.lineage : x.version = y.version => x = y
      /\ \A x \in b.lineage : x.term <= b.term
      /\ \A x, y \in b.lineage : x.version <= y.version => x.term <= y.term
  <2>1. CASE Blank(b)
    BY <2>1, <1>1, FS_EmptySet, SMT DEF Blank
  <2>2. CASE Descended(b)
    BY <2>2 DEF Descended
  <2> QED
    BY <2>1, <2>2
<1>3. ASSUME NEW x \in b.lineage
      PROVE  x.version <= b.version /\ x.version >= 1
  <2>1. x.version \in {y.version : y \in b.lineage}
    OBVIOUS
  <2>2. x.version \in 1 .. b.version
    BY <1>2, <2>1
  <2> QED
    BY <1>1, <2>2, SMT
<1>4. name \notin b.lineage
  BY <1>1, <1>3, SMT
<1>5. IsFiniteSet(s.lineage) /\ Cardinality(s.lineage) = s.version
  <2>1. /\ IsFiniteSet(b.lineage \cup {name})
        /\ Cardinality(b.lineage \cup {name}) = Cardinality(b.lineage) + 1
    BY <1>2, <1>4, FS_AddElement
  <2> QED
    BY <1>2, <2>1
<1>6. {x.version : x \in s.lineage} = 1 .. s.version
  <2>1. {x.version : x \in s.lineage} = {x.version : x \in b.lineage} \cup {s.version}
    BY <1>1
  <2>2. {x.version : x \in s.lineage} = (1 .. b.version) \cup {b.version + 1}
    BY <1>2, <2>1
  <2> QED
    BY <1>1, <2>2, SMT
<1>7. \A x \in s.lineage : x.term <= s.term
  BY <1>1, <1>2, SMT
<1>8. \A x, y \in s.lineage : x.version <= y.version => x.term <= y.term
  BY <1>1, <1>2, <1>3, SMT
<1>9. \A x, y \in s.lineage : x.version = y.version => x = y
  BY <1>1, <1>2, <1>3, SMT
<1> QED
  BY <1>5, <1>6, <1>7, <1>8, <1>9 DEF Descended

(* Node n publishes p in its term: a state built on the one it accepted     *)
(* last, when a quorum has reached the term and accepted nothing fresher in *)
(* earlier ones.                                                            *)
Publishes(N, M, N2, M2, n, p) ==
    /\ p \in M2 /\ p.type = "Publish" /\ p.from = n
    /\ p.run = N[n].run /\ p.rid = N[n].next_request
    /\ p.state \in ClusterState
    /\ p.state.manager = n /\ p.state.term = N[n].term /\ N[n].term > 0
    /\ p.state.version = N[n].accepted.version + 1
    /\ p.state.lineage = N[n].accepted.lineage
                         \cup {Name(p.state.term, p.state.manager, p.state.version)}
    /\ N2[n].term = N[n].term /\ N2[n].accepted = p.state /\ N2[n].run = N[n].run
    /\ N2[n].next_request = N[n].next_request + 1 /\ N2[n].committed = N[n].committed
    /\ Leads(M2, n, N[n].term)
    /\ \A m \in M2 \ M : m = p \/ m = LeaderNote(n, N[n].term)
    /\ \E Q \in SUBSET Node :
         /\ HasQuorum(InitialConfig, Q)
         /\ \A q \in Q :
              /\ N[q].term >= N[n].term
              /\ \A s \in Published(M) : s.term < N[n].term /\ Accepts(M, q, s) =>
                    ~FresherState(s, N[n].accepted)

(* What was published in the term before is the node's own, and no fresher  *)
(* than what it accepted last.                                              *)
LEMMA OwnTerm ==
    ASSUME NEW N, NEW M, NEW N2, NEW M2, NEW n \in Node, NEW p,
           Fine(N, M), Fine(N2, M2), Moves(N, M, N2, M2, n), Consistent(N, M), OneLeader(M2),
           Publishes(N, M, N2, M2, n, p), NEW k \in Of(M, "Publish"),
           k.state.term = N[n].term
    PROVE  k.from = n /\ k.state.version <= N[n].accepted.version
           /\ N[n].accepted.term = N[n].term
<1>0. M \subseteq M2 /\ M \subseteq Messages
  BY DEF Moves, Fine
<1>1. Leads(M, k.from, N[n].term) /\ ~FresherState(k.state, N[k.from].accepted)
  BY DEF Consistent, PublishedByElected
<1>2. Leads(M2, k.from, N[n].term) /\ Leads(M2, n, N[n].term)
  BY <1>0, <1>1 DEF Leads, Of, Publishes
<1>3. k.from = n
  BY <1>2 DEF Leads, OneLeader
<1>4. /\ N[n].accepted.term \in Nat /\ N[n].accepted.version \in Nat /\ N[n].term \in Nat
  BY MovesAll
<1>5. k.state.version \in Nat /\ N[n].accepted.term <= N[n].term
  BY <1>0, MessageFields, StateFields DEF Of, Fine
<1> QED
  BY <1>1, <1>3, <1>4, <1>5, SMT DEF FresherState, Fresher

(* Nobody has answered what is published only now.                          *)
LEMMA NotAnswered ==
    ASSUME NEW N, NEW M, NEW N2, NEW M2, NEW n \in Node, NEW p,
           Fine(N, M), Fine(N2, M2), Moves(N, M, N2, M2, n), Consistent(N, M), OneLeader(M2),
           Publishes(N, M, N2, M2, n, p), NEW q, Accepts(M2, q, p.state)
    PROVE  q = n
<1> SUFFICES ASSUME q # n PROVE FALSE
  OBVIOUS
<1>0. M \subseteq M2
  BY DEF Moves
<1>1. PICK a \in Of(M2, "PublishResponse") :
        a.from = q /\ a.term = p.state.term /\ a.version = p.state.version
  BY DEF Accepts, Publishes
<1>2. a \in Of(M, "PublishResponse")
  BY SMT DEF Publishes, Of, LeaderNote
<1>3. PICK k \in Of(M, "Publish") :
        k.state.term = a.term /\ k.state.version = a.version
  BY <1>2 DEF Consistent, AnswerTrue
<1>4. k.state.version <= N[n].accepted.version
  <2>1. k.state.term = N[n].term
    BY <1>1, <1>3 DEF Publishes
  <2> QED
    BY <2>1, OwnTerm
<1>5. N[n].accepted.version \in Nat
  BY MovesAll
<1> QED
  BY <1>1, <1>3, <1>4, <1>5, SMT DEF Publishes

(* What a publication is built on: everything published before that may     *)
(* still be committed, and it is itself given up by managers elected later. *)
LEMMA PublishesBuiltOn ==
    ASSUME NEW N, NEW M, NEW N2, NEW M2, NEW n \in Node, NEW p,
           Fine(N, M), Fine(N2, M2), Moves(N, M, N2, M2, n), Consistent(N, M), OneLeader(M2),
           Publishes(N, M, N2, M2, n, p)
    PROVE  BuiltOn(N2, M2)
<1> DEFINE st == p.state
           b == N[n].accepted
           T == N[n].term
<1>0. M \subseteq M2 /\ M \subseteq Messages
  BY DEF Moves, Fine
<1>1. /\ T \in Nat /\ b \in ClusterState /\ b.term \in Nat /\ b.version \in Nat
      /\ b.term <= T /\ T > 0 /\ st.term = T /\ st.version = b.version + 1
      /\ b.lineage \subseteq st.lineage /\ st \in ClusterState /\ st.manager = n
  <2>1. N[n] \in NodeState /\ b.term <= T
    BY DEF Fine
  <2>2. T \in Nat /\ b \in ClusterState
    BY <2>1, RecordFields
  <2> QED
    BY <2>1, <2>2, StateFields DEF Publishes
<1>2. Of(M2, "Publish") = Of(M, "Publish") \cup {p}
  BY <1>0, SMT DEF Publishes, Of, LeaderNote
<1>3. Published(M2) = Published(M) \cup {st}
  BY <1>2 DEF Published
<1>4. Of(M2, "PublishResponse") = Of(M, "PublishResponse")
  BY <1>0, SMT DEF Publishes, Of, LeaderNote
<1>5. ASSUME NEW s \in Published(M), Dead(N, M, s)
      PROVE  Dead(N2, M2, s)
  <2>1. s \in ClusterState
    BY <1>0, PublishedType
  <2>2. \A a \in Of(M2, "PublishResponse") :
            a \in Of(M, "PublishResponse") \/ (a.from = n /\ a.term = N[n].term)
    BY <1>4
  <2> QED
    BY <1>5, <2>1, <2>2, DeadStays
<1>6. Blank(b) \/ b \in Published(M)
  BY DEF Consistent, TakenFromManagers
<1>7. ASSUME NEW s \in Published(M)
      PROVE  /\ s.term \in Nat /\ s.version \in Nat /\ s.term > 0
             /\ s.term = T => b.term = T /\ s.version <= b.version
  <2>1. PICK k \in Of(M, "Publish") : k.state = s
    BY DEF Published
  <2>2. s.term \in Nat /\ s.version \in Nat
    BY <1>0, PublishedType
  <2>3. s.term > 0
    BY <2>1 DEF Consistent, PublishedByElected
  <2> QED
    BY <2>1, <2>2, <2>3, OwnTerm
<1>8. ASSUME NEW s \in Published(M), ~FresherState(s, b)
      PROVE  s.lineage \subseteq b.lineage \/ Dead(N, M, s)
  <2>1. b \in Published(M)
    BY <1>1, <1>6, <1>7, <1>8 DEF Blank, FresherState, Fresher
  <2>2. s.term < b.term \/ (s.term = b.term /\ s.version <= b.version)
    BY <1>1, <1>7, <1>8, SMT DEF FresherState, Fresher
  <2> QED
    BY <2>1, <2>2 DEF Consistent, BuiltOn
<1>9. ASSUME NEW s \in Published(M), s.term < T
      PROVE  s.lineage \subseteq st.lineage \/ Dead(N2, M2, s)
  <2>1. PICK Q \in SUBSET Node :
         /\ HasQuorum(InitialConfig, Q)
         /\ \A q \in Q :
              /\ N[q].term >= T
              /\ \A u \in Published(M) : u.term < T /\ Accepts(M, q, u) =>
                    ~FresherState(u, b)
    BY DEF Publishes
  <2>2. CASE \E q \in Q : Accepts(M, q, s)
    <3>1. ~FresherState(s, b)
      BY <1>9, <2>1, <2>2
    <3> QED
      BY <1>1, <1>5, <1>8, <3>1
  <2>3. CASE \A q \in Q : ~Accepts(M, q, s)
    <3>1. \A q \in Q : N[q].term > s.term
      <4>1. ASSUME NEW q \in Q PROVE N[q].term > s.term
        <5>1. N[q].term \in Nat
          BY MovesAll
        <5> QED
          BY <1>1, <1>7, <1>9, <2>1, <5>1, SMT
      <4> QED
        BY <4>1
    <3>2. Dead(N, M, s)
      BY <2>1, <2>3, <3>1 DEF Dead
    <3> QED
      BY <1>5, <3>2
  <2> QED
    BY <2>2, <2>3
<1>10. ASSUME NEW s \in Published(M), s.term = T
       PROVE  s.version < st.version /\ s.lineage \subseteq st.lineage
  <2>1. b.term = T /\ s.version <= b.version
    BY <1>7, <1>10
  <2>2. b \in Published(M)
    BY <1>1, <1>6, <2>1, SMT DEF Blank
  <2>3. s.lineage \subseteq b.lineage
    BY <1>10, <2>1, <2>2 DEF Consistent, BuiltOn
  <2> QED
    BY <1>1, <1>7, <2>1, <2>3, SMT
<1>11. ASSUME NEW u \in Published(M), T < u.term
       PROVE  Dead(N2, M2, st)
  <2>1. PICK k \in Of(M, "Publish") : k.state = u
    BY DEF Published
  <2>2. PICK e \in Of(M, "LeaderNote") : e.term = u.term
    BY <2>1 DEF Consistent, PublishedByElected, Leads
  <2>3. PICK Q \in SUBSET Node :
          HasQuorum(InitialConfig, Q) /\ \A q \in Q : N[q].term >= e.term
    BY DEF Consistent, VotersMoved
  <2>4. ASSUME NEW q \in Q
        PROVE  N2[q].term > st.term /\ ~Accepts(M2, q, st)
    <3>1. N[q].term \in Nat /\ N2[q].term \in Nat /\ N[q].term <= N2[q].term
      BY MovesAll
    <3>2. N[q].term > T
      BY <1>1, <1>7, <1>11, <2>2, <2>3, <3>1, SMT
    <3>3. q # n
      BY <1>1, <3>2, SMT
    <3> QED
      BY <1>1, <3>1, <3>2, <3>3, NotAnswered, SMT
  <2> QED
    BY <2>3, <2>4 DEF Dead
<1>12. ASSUME NEW s \in Published(M), NEW u \in Published(M)
       PROVE  /\ s.term < u.term => s.lineage \subseteq u.lineage \/ Dead(N2, M2, s)
              /\ s.term = u.term /\ s.version <= u.version => s.lineage \subseteq u.lineage
  BY <1>5 DEF Consistent, BuiltOn
<1>13. ASSUME NEW s \in Published(M2), NEW u \in Published(M2)
       PROVE  /\ s.term < u.term => s.lineage \subseteq u.lineage \/ Dead(N2, M2, s)
              /\ s.term = u.term /\ s.version <= u.version => s.lineage \subseteq u.lineage
  <2>1. CASE s \in Published(M) /\ u \in Published(M)
    BY <1>12, <2>1
  <2>2. CASE s \in Published(M) /\ u = st
    BY <1>1, <1>9, <1>10, <2>2
  <2>3. CASE s = st /\ u \in Published(M)
    <3>1. CASE T < u.term
      BY <1>1, <1>7, <1>11, <2>3, <3>1, SMT
    <3>2. CASE u.term = T
      BY <1>1, <1>7, <1>10, <2>3, <3>2, SMT
    <3>3. CASE u.term < T
      BY <1>1, <1>7, <2>3, <3>3, SMT
    <3> QED
      BY <1>1, <1>7, <2>3, <3>1, <3>2, <3>3
  <2>4. CASE s = st /\ u = st
    BY <1>1, <2>4
  <2> QED
    BY <1>3, <2>1, <2>2, <2>3, <2>4
<1> QED
  BY <1>13 DEF BuiltOn

(* A call that publishes.                                                   *)
LEMMA PublishCall ==
    ASSUME NEW N, NEW M, NEW N2, NEW M2, NEW n \in Node, NEW p,
           Fine(N, M), Fine(N2, M2), Moves(N, M, N2, M2, n), Consistent(N, M), OneLeader(M2),
           Publishes(N, M, N2, M2, n, p),
           RoleKept(M2, n, N2[n]), VotesCounted(M2, n, N2[n])
    PROVE  Consistent(N2, M2)
<1> DEFINE st == p.state
           b == N[n].accepted
           T == N[n].term
<1>0. M \subseteq M2 /\ M \subseteq Messages /\ M2 \subseteq Messages
  BY DEF Moves, Fine
<1>1. /\ T \in Nat /\ b \in ClusterState /\ b.term \in Nat /\ b.version \in Nat
      /\ b.term <= T /\ T > 0 /\ st.term = T /\ st.version = b.version + 1
      /\ st \in ClusterState /\ st.manager = n
      /\ N[n].run \in Nat /\ N[n].next_request \in Nat
  <2>1. N[n] \in NodeState /\ b.term <= T
    BY DEF Fine
  <2>2. T \in Nat /\ b \in ClusterState /\ N[n].run \in Nat /\ N[n].next_request \in Nat
    BY <2>1, RecordFields
  <2> QED
    BY <2>1, <2>2, StateFields DEF Publishes
<1>2. Of(M2, "Publish") = Of(M, "Publish") \cup {p}
  BY <1>0, SMT DEF Publishes, Of, LeaderNote
<1>3. Published(M2) = Published(M) \cup {st}
  BY <1>2 DEF Published
<1>4. /\ Of(M2, "PublishResponse") = Of(M, "PublishResponse")
      /\ Of(M2, "CommitNote") = Of(M, "CommitNote")
      /\ Of(M2, "Commit") = Of(M, "Commit")
      /\ Of(M2, "JoinResponse") = Of(M, "JoinResponse")
      /\ Of(M2, "Join") = Of(M, "Join")
  BY <1>0, SMT DEF Publishes, Of, LeaderNote
<1>5. /\ \A a \in Of(M2, "PublishResponse") : AnswerTrue(N2, M2, a)
      /\ \A c \in Of(M2, "CommitNote") : CommitTrue(M2, c)
      /\ \A r \in Of(M2, "Commit") : RequestTrue(M2, r)
      /\ \A m \in Of(M2, "JoinResponse") : JoinAnswered(N2, M2, m)
  BY <1>4, OldMessages
<1>6. TakenFromManagers(M2, N2[n])
  <2>1. Blank(N[n].committed) \/ Noted(M, N[n].committed)
    BY DEF Consistent, TakenFromManagers
  <2>2. Blank(N[n].committed) \/ Noted(M2, N[n].committed)
    BY <1>4, <2>1 DEF Noted
  <2>3. N2[n].accepted = st /\ N2[n].committed = N[n].committed
    BY DEF Publishes
  <2> QED
    BY <1>3, <2>2, <2>3 DEF TakenFromManagers
<1>7. \A k \in Node : /\ TakenFromManagers(M2, N2[k])
                      /\ RoleKept(M2, k, N2[k])
                      /\ VotesCounted(M2, k, N2[k])
  BY <1>6, OldMessages
<1>8. PublishedByElected(N2, M2, p)
  <2>1. Blank(b) \/ Descended(b)
    <3>1. Blank(b) \/ b \in Published(M)
      BY DEF Consistent, TakenFromManagers
    <3> QED
      BY <3>1 DEF Published, Consistent, PublishedByElected
  <2>2. PICK name : name = Name(st.term, st.manager, st.version)
    OBVIOUS
  <2>3. name \in Names /\ st.lineage = b.lineage \cup {name} /\ st.version \in Nat
    BY <1>1, <2>2, StateFields DEF Publishes, Name, Names
  <2>4. Descended(st)
    BY <1>1, <2>1, <2>2, <2>3, DescendsOn
  <2>5. ~FresherState(st, st)
    BY <1>1, <2>3, SMT DEF FresherState, Fresher
  <2>6. /\ p.from = n /\ N2[n].accepted = st /\ N2[n].run = p.run
        /\ N2[n].next_request = p.rid + 1 /\ p.run = N[n].run /\ p.rid = N[n].next_request
        /\ Leads(M2, n, st.term) /\ N2[n].run = N[n].run
    BY DEF Publishes
  <2>7. /\ p.run <= N2[p.from].run
        /\ p.run = N2[p.from].run => p.rid < N2[p.from].next_request
        /\ st.version > 0
    BY <1>1, <2>6, SMT
  <2> QED
    BY <1>1, <2>3, <2>4, <2>5, <2>6, <2>7 DEF PublishedByElected
<1>9. \A k \in Of(M2, "Publish") : PublishedByElected(N2, M2, k)
  BY <1>2, <1>8, OldMessages
<1>10. ASSUME NEW k \in Of(M, "Publish")
       PROVE  /\ ~(k.from = p.from /\ k.run = p.run /\ k.rid = p.rid)
              /\ ~(k.state.term = st.term /\ k.state.version = st.version)
  <2>1. /\ k.run = N[k.from].run => k.rid < N[k.from].next_request
        /\ k.rid \in Nat
    BY <1>0, MessageFields DEF Of, Consistent, PublishedByElected
  <2>2. k.state.term = T => k.state.version <= b.version
    BY OwnTerm
  <2>3. /\ p.from = n /\ p.run = N[n].run /\ p.rid = N[n].next_request
        /\ st.version = b.version + 1 /\ st.term = T
    BY <1>1 DEF Publishes
  <2> HIDE DEF st, b, T
  <2> QED
    BY <1>1, <2>1, <2>2, <2>3, SMT
<1>11. PublishedOnce(M2)
  <2>1. PublishedOnce(M)
    BY DEF Consistent
  <2> QED
    BY <1>2, <1>10, <2>1 DEF PublishedOnce
<1>12. ASSUME NEW j \in Of(M2, "Join")
       PROVE  VoteTells(N2, M2, j)
  <2>1. VoteTells(N, M, j)
    BY <1>4 DEF Consistent
  <2>2. j.from \in Node /\ j.term \in Nat
    BY <1>0, MessageFields DEF Of
  <2>5. j.term <= N[j.from].term
    BY <2>1 DEF VoteTells
  <2>3. j.term <= N2[j.from].term
    BY <2>2, <2>5, MovesAll, SMT
  <2>4. ASSUME NEW s \in Published(M2), s.term < j.term, Accepts(M2, j.from, s)
        PROVE  ~Fresher(s.term, s.version, j.accepted_term, j.accepted_version)
    <3>1. ASSUME s = p.state PROVE FALSE
      <4>1. Accepts(M2, j.from, p.state)
        BY <2>4, <3>1
      <4>2. j.from = n
        BY <4>1, NotAnswered
      <4> QED
        BY <1>1, <2>2, <2>4, <2>5, <3>1, <4>2, SMT
    <3>2. s \in Published(M)
      BY <1>3, <3>1
    <3>3. Accepts(M, j.from, s)
      BY <1>4, <2>4 DEF Accepts
    <3> QED
      BY <2>1, <2>4, <3>2, <3>3 DEF VoteTells
  <2> QED
    BY <2>3, <2>4 DEF VoteTells
<1>13. ASSUME NEW e \in Of(M2, "LeaderNote")
       PROVE  VotersMoved(N2, e)
  <2>1. CASE e \in Of(M, "LeaderNote")
    BY <2>1, OldMessages
  <2>2. CASE e \notin Of(M, "LeaderNote")
    <3>1. e \in M2 \ M /\ e.type = "LeaderNote"
      BY <2>2 DEF Of
    <3>2. e = LeaderNote(n, T)
      BY <3>1 DEF Publishes
    <3>3. e.term = T
      BY <3>2 DEF LeaderNote
    <3>4. PICK Q \in SUBSET Node :
           HasQuorum(InitialConfig, Q) /\ \A q \in Q : N[q].term >= T
      BY DEF Publishes
    <3>5. ASSUME NEW q \in Q PROVE N2[q].term >= T
      <4>1. N[q].term \in Nat /\ N2[q].term \in Nat /\ N[q].term <= N2[q].term
        BY MovesAll
      <4> QED
        BY <1>1, <3>4, <4>1, SMT
    <3> QED
      BY <3>3, <3>4, <3>5 DEF VotersMoved
  <2> QED
    BY <2>1, <2>2
<1>14. NewestCommit(M2)
  BY <1>4 DEF Consistent, NewestCommit
<1>15. BuiltOn(N2, M2)
  BY PublishesBuiltOn
<1> QED
  BY <1>5, <1>7, <1>9, <1>11, <1>12, <1>13, <1>14, <1>15 DEF Consistent
=============================================================================
