---------------------------- MODULE CommitProofs ----------------------------
(***************************************************************************)
(* With a fixed configuration of any size, the committed cluster states    *)
(* are one log: CommitInv is kept by every timer and every message, and    *)
(* what the runs check of the committed states follows from it.            *)
(***************************************************************************)
EXTENDS CommitRecords, CoordinationLog

(* Leaves that need arithmetic cite SMT; the others are left to Zenon. *)
USE Zenon

(* A step in which node n ran a handler to its end.                         *)
Handled(n) == \E q : Kept(n, q) /\ Delivers(n, q)

(* No step makes a second leader of a term.                                 *)
LEMMA StillOneLeader ==
    ASSUME Inv', NEW n \in Node, NEW q, Delivers(n, q)
    PROVE  OneLeader(Out(q))
<1>1. OneLeaderPerTerm'
  BY InvOneLeader, PTL
<1>2. msgs' = Out(q)
  BY DEF Delivers, Out
<1> QED
  BY <1>1, <1>2 DEF OneLeaderPerTerm, OneLeader, Sent, Of

-----------------------------------------------------------------------------
(* One lemma per action.                                                    *)

(* bootstrap.                                                               *)
LEMMA BootstrapHandled ==
    ASSUME Inv, CommitInv, NEW n \in Node, Bootstrap(n)
    PROVE  Handled(n)
<1>1. Kept(n, node[n]) /\ node[n].accepted.last_accepted_config = {}
  BY AtRest DEF Bootstrap, CanBootstrap
<1>2. Kept(n, Bootstrapped(node[n]))
  BY <1>1, KeptBootstrapped
<1>3. Delivers(n, Bootstrapped(node[n]))
  BY StepDelivers DEF Bootstrap
<1> QED
  BY <1>2, <1>3 DEF Handled

(* A manager whose publication timed out, or a follower that lost its       *)
(* manager.                                                                 *)
LEMMA StepDownHandled ==
    ASSUME Inv, CommitInv, NEW n \in Node, Step(n, BecomeCandidate(node[n]))
    PROVE  Handled(n)
<1>1. Kept(n, BecomeCandidate(node[n]))
  BY AtRest, KeptCandidate
<1>2. Delivers(n, BecomeCandidate(node[n]))
  BY StepDelivers
<1> QED
  BY <1>1, <1>2 DEF Handled

(* A later term heard of.                                                   *)
LEMMA HearTermHandled ==
    ASSUME Inv, CommitInv, NEW n \in Node, NEW term \in Terms, HearTerm(n, term)
    PROVE  Handled(n)
<1>1. term \in Nat
  BY DEF Terms, Sent, Inv, TypeOK, Messages
<1>2. Kept(n, SawTerm(node[n], term))
  BY <1>1, AtRest, KeptSawTerm
<1>3. Delivers(n, SawTerm(node[n], term))
  BY StepDelivers DEF HearTerm
<1> QED
  BY <1>2, <1>3 DEF Handled

(* The handlers that ask for the next publication.                          *)
LEMMA NextPublicationHandled ==
    ASSUME Inv, CommitInv, NEW n \in Node, NEW gone \in SUBSET Node,
           \/ Step(n, NextPublication(n, [node[n] EXCEPT !.pending_removals = @ \cup gone]))
           \/ Step(n, NextPublication(n, [node[n] EXCEPT !.republish_wanted = TRUE,
                                                         !.exclusions = {}]))
    PROVE  Handled(n)
<1>1. PICK r : r = node[n]
  OBVIOUS
<1>2. PICK p : /\ \/ p = [r EXCEPT !.pending_removals = @ \cup gone]
                  \/ p = [r EXCEPT !.republish_wanted = TRUE, !.exclusions = {}]
               /\ Step(n, NextPublication(n, p))
  BY <1>1
<1>3. Kept(n, r) /\ Good(r) /\ r \in NodeState
  BY <1>1, AtRest, NodeGood
<1>4. p \in NodeState
  <2>1. CASE p = [r EXCEPT !.pending_removals = @ \cup gone]
    BY <1>3, <2>1, SMT DEF NodeState
  <2>2. CASE p = [r EXCEPT !.republish_wanted = TRUE, !.exclusions = {}]
    BY <1>3, <2>2 DEF NodeState
  <2> QED BY <1>2, <2>1, <2>2
<1>5. Alike(r, p) /\ p.exclusions = {}
  <2>1. r.exclusions = {}
    BY <1>3 DEF Good, Sound
  <2>2. CASE p = [r EXCEPT !.pending_removals = @ \cup gone]
    BY <1>3, <2>1, <2>2, SMT DEF Alike, NodeState
  <2>3. CASE p = [r EXCEPT !.republish_wanted = TRUE, !.exclusions = {}]
    BY <1>3, <2>3, SMT DEF Alike, NodeState
  <2> QED BY <1>2, <2>2, <2>3
<1>6. Good(p)
  BY <1>3, <1>4, <1>5 DEF Good, Sound, Alike
<1>7. Kept(n, NextPublication(n, p))
  <2>1. Kept(n, p)
    BY <1>3, <1>5, <1>6, KeptAlike
  <2> QED
    BY <2>1, KeptNextPublication
<1>8. Delivers(n, NextPublication(n, p))
  BY <1>2, StepDelivers
<1> QED
  BY <1>7, <1>8 DEF Handled

(* A refused publication.                                                   *)
LEMMA OnPublishRefusedHandled ==
    ASSUME Inv, CommitInv, NEW n \in Node, NEW m \in msgs, NEW from \in Node,
           OnPublishRefused(n, m, from)
    PROVE  Handled(n)
<1>1. PICK r : r = node[n]
  OBVIOUS
<1>2. PICK q : q = [r EXCEPT !.lagging = @ \cup {from}]
  OBVIOUS
<1>3. Kept(n, r) /\ Good(r) /\ r \in NodeState
  BY <1>1, AtRest, NodeGood
<1>4. q \in NodeState
  BY <1>2, <1>3 DEF NodeState
<1>5. Alike(r, q) /\ q.exclusions = r.exclusions
  BY <1>2, <1>3 DEF Alike, NodeState
<1>6. Good(q)
  BY <1>3, <1>4, <1>5 DEF Good, Sound, Alike
<1>7. Kept(n, q)
  BY <1>3, <1>5, <1>6, KeptAlike
<1>8. Delivers(n, q)
  BY <1>1, <1>2, StepDelivers DEF OnPublishRefused
<1> QED
  BY <1>7, <1>8 DEF Handled

(* A candidate stands, and votes for itself.                                *)
LEMMA StartElectionHandled ==
    ASSUME Inv, CommitInv, Inv', NEW n \in Node, NEW term \in 1 .. MaxTerm,
           StartElection(n, term)
    PROVE  Handled(n)
<1> DEFINE x == StartJoin(n, term)
<1>1. PICK s : s = node[n]
  OBVIOUS
<1>2. PICK p : p = [s EXCEPT !.out = {x}]
  OBVIOUS
<1>3. PICK r : r = SawTerm(p, term)
  OBVIOUS
<1>4. PICK q : q = OnJoin(n, r, n, term, r.accepted.term, r.accepted.version, TRUE)
  OBVIOUS
<1>5. Kept(n, s) /\ Good(s) /\ s \in NodeState /\ s.out = {}
  BY <1>1, AtRest, NodeGood
<1>6. term \in Nat /\ term > 0
  BY BoundAssumption, SMT
<1>7. x \in Messages /\ x.type = "StartJoin"
  BY <1>6 DEF StartJoin, Messages
<1> HIDE DEF x
<1>8. p \in NodeState
  BY <1>2, <1>5, <1>7 DEF NodeState
<1>9. /\ p.accepted = s.accepted /\ p.committed = s.committed /\ p.exclusions = s.exclusions
      /\ p.term = s.term /\ p.mode = s.mode /\ p.publishing = s.publishing
      /\ p.leader = s.leader /\ p.join_votes = s.join_votes
      /\ p.next_request = s.next_request /\ p.run = s.run /\ p.out = {x}
  BY <1>2, <1>5 DEF NodeState
<1>10. Good(p)
  BY <1>5, <1>8, <1>9 DEF Good, Sound
<1>11. SaysTrue(n, s, p, x) /\ x.type # "CommitNote"
  BY <1>7 DEF SaysTrue
<1>12. s.out \subseteq p.out /\ p.out \ s.out \subseteq {x}
  BY <1>5, <1>9
<1>13. Kept(n, p)
  BY <1>5, <1>9, <1>10, <1>11, <1>12, KeptSays
<1>14. Kept(n, r)
  BY <1>3, <1>6, <1>13, KeptSawTerm
<1>15. r.accepted.term \in Nat /\ r.accepted.version \in Nat
  BY <1>14, GoodFields DEF Kept
<1>16. Delivers(n, q)
  <2>1. Step(n, q)
    BY <1>1, <1>2, <1>3, <1>4 DEF StartElection, OnStartJoin, x
  <2> QED
    BY <2>1, StepDelivers
<1>17. OneLeader(Out(q))
  BY <1>16, StillOneLeader
<1>18. Kept(n, q)
  BY <1>4, <1>6, <1>14, <1>15, <1>17, KeptOnJoin
<1> QED
  BY <1>16, <1>18 DEF Handled

(* A vote tells of everything the voter accepted.                           *)
LEMMA OnStartJoinRequestHandled ==
    ASSUME Inv, CommitInv, NEW n \in Node, NEW m \in msgs, OnStartJoinRequest(n, m)
    PROVE  Handled(n)
<1>1. PICK s : s = node[n]
  OBVIOUS
<1>2. PICK r : r = SawTerm(s, m.term)
  OBVIOUS
<1>3. PICK q : q = [r EXCEPT !.out = @ \cup {JoinVote(n, m.from, r)}]
  OBVIOUS
<1>4. Kept(n, s) /\ Good(s) /\ s.term \in Nat /\ s.out = {}
  BY <1>1, AtRest, NodeGood
<1>5. /\ m \in Messages /\ m.type = "StartJoin" /\ m.from # n /\ m.term > s.term
      /\ Step(n, q)
  BY <1>1, <1>2, <1>3 DEF OnStartJoinRequest, OnStartJoin, Inv, TypeOK
<1>6. m.term \in Nat /\ m.from \in Node
  BY <1>5, MessageFields
<1>7. /\ Good(r) /\ r.term = m.term /\ r.out = {}
  BY <1>2, <1>4, <1>5, <1>6, SawTermGood, SMT
<1>8. Kept(n, r)
  BY <1>2, <1>4, <1>6, KeptSawTerm
<1>9. r \in NodeState /\ r.accepted \in ClusterState
      /\ r.accepted.term \in Nat /\ r.accepted.version \in Nat
  BY <1>7, GoodFields
<1> DEFINE v == JoinVote(n, m.from, r)
<1>10. /\ v \in Messages /\ v.type = "Join" /\ v.from = n /\ v.term = r.term
       /\ v.accepted_term = r.accepted.term /\ v.accepted_version = r.accepted.version
  BY <1>6, <1>7, <1>9 DEF JoinVote, Messages
<1>11. q = [r EXCEPT !.out = {v}]
  BY <1>3, <1>7, <1>9 DEF NodeState
<1> HIDE DEF v
<1>12. q \in NodeState
  BY <1>9, <1>10, <1>11 DEF NodeState
<1>13. /\ q.accepted = r.accepted /\ q.committed = r.committed /\ q.exclusions = r.exclusions
       /\ q.term = r.term /\ q.mode = r.mode /\ q.publishing = r.publishing
       /\ q.leader = r.leader /\ q.next_request = r.next_request /\ q.run = r.run
       /\ q.join_votes = r.join_votes /\ q.out = {v}
  BY <1>9, <1>11 DEF NodeState
<1>14. Good(q)
  BY <1>7, <1>12, <1>13 DEF Good, Sound
<1>15. VoteTells(Now(n, q), Out(q), v)
  <2>1. /\ Fine(Now(n, r), Out(r)) /\ Now(n, r)[n] = r /\ Consistent(Now(n, r), Out(r))
        /\ Now(n, q)[n] = q
    BY <1>7, <1>8, <1>14, NowFine DEF Kept
  <2>2. /\ Of(Out(q), "Publish") = Of(Out(r), "Publish")
        /\ Of(Out(q), "PublishResponse") = Of(Out(r), "PublishResponse")
    BY <1>7, <1>10, <1>13 DEF Of, Out
  <2>3. ASSUME NEW u \in Published(Out(q)), Accepts(Out(q), n, u)
        PROVE  ~Fresher(u.term, u.version, r.accepted.term, r.accepted.version)
    <3>1. u \in Published(Out(r)) /\ Accepts(Out(r), n, u)
      BY <2>2, <2>3 DEF Published, Accepts
    <3>2. ~FresherState(u, Now(n, r)[n].accepted)
      BY <2>1, <3>1, AcceptedBound
    <3> QED
      BY <2>1, <3>2 DEF FresherState
  <2>4. v.term <= Now(n, q)[v.from].term
    BY <1>6, <1>7, <1>10, <1>13, <2>1, SMT
  <2> QED
    BY <1>10, <2>3, <2>4 DEF VoteTells
<1>16. SaysTrue(n, r, q, v) /\ v.type # "CommitNote"
  BY <1>10, <1>15 DEF SaysTrue
<1>17. r.out \subseteq q.out /\ q.out \ r.out \subseteq {v}
  BY <1>7, <1>13
<1>18. Kept(n, q)
  BY <1>8, <1>13, <1>14, <1>16, <1>17, KeptSays
<1>19. Delivers(n, q)
  BY <1>5, StepDelivers
<1> QED
  BY <1>18, <1>19 DEF Handled

(* A vote arrives.                                                          *)
LEMMA OnJoinRequestHandled ==
    ASSUME Inv, CommitInv, Inv', NEW n \in Node, NEW m \in msgs, OnJoinRequest(n, m)
    PROVE  Handled(n)
<1>1. PICK r : r = node[n]
  OBVIOUS
<1>2. PICK same \in BOOLEAN :
        Step(n, OnJoin(n, r, m.from, m.term, m.accepted_term, m.accepted_version, same))
  BY <1>1 DEF OnJoinRequest, MayBeSame
<1>3. PICK q : q = OnJoin(n, r, m.from, m.term, m.accepted_term, m.accepted_version, same)
  OBVIOUS
<1>4. m \in Messages /\ m.type = "Join" /\ m \in Sent("Join") /\ m \in Of(msgs, "Join")
  BY DEF OnJoinRequest, Inv, TypeOK, Sent, Of
<1>5. /\ m.term \in Nat /\ m.from \in Node
      /\ m.accepted_term \in Nat /\ m.accepted_version \in Nat
  BY <1>4, MessageFields
<1>6. m.term > 0
  <2>1. m.to = n
    BY DEF OnJoinRequest
  <2>2. StartJoin(n, m.term) \in msgs
    BY <1>4, <2>1 DEF Inv, ElectionInv, OneVotePerTerm
  <2> QED
    BY <2>2, SMT DEF Inv, ElectionInv, OneVotePerTerm, Sent, StartJoin
<1>7. Kept(n, r)
  BY <1>1, AtRest
<1>8. Delivers(n, q)
  BY <1>2, <1>3, StepDelivers
<1>9. OneLeader(Out(q))
  BY <1>8, StillOneLeader
<1>10. Kept(n, q)
  BY <1>3, <1>4, <1>5, <1>6, <1>7, <1>9, KeptOnJoin
<1> QED
  BY <1>8, <1>10 DEF Handled

(* A join without a vote.                                                   *)
LEMMA OnVotelessJoinHandled ==
    ASSUME Inv, CommitInv, NEW n \in Node, NEW from \in Node, OnVotelessJoin(n, from)
    PROVE  Handled(n)
<1>1. PICK r : r = node[n]
  OBVIOUS
<1>2. PICK same \in BOOLEAN : Step(n, JoinAtLeader(n, r, from, same))
  BY <1>1 DEF OnVotelessJoin, MayBeSame
<1>3. Kept(n, r) /\ r.mode = "Leader" /\ from # n /\ node[from].term >= r.term
  BY <1>1, AtRest DEF OnVotelessJoin
<1>4. Kept(n, JoinAtLeader(n, r, from, same))
  BY <1>3, KeptJoinAtLeader
<1>5. Delivers(n, JoinAtLeader(n, r, from, same))
  BY <1>2, StepDelivers
<1> QED
  BY <1>4, <1>5 DEF Handled

(* Following a node that leads the term.                                    *)
LEMMA KeptFollow ==
    ASSUME Inv, NEW n \in Node, NEW r, Kept(n, r), NEW leader \in Node,
           Leads(Out(r), leader, r.term)
    PROVE  LET q == [r EXCEPT !.mode = "Follower", !.leader = leader]
           IN  /\ Kept(n, q) /\ q.mode = "Follower" /\ q.term = r.term /\ q.out = r.out
<1> DEFINE q == [r EXCEPT !.mode = "Follower", !.leader = leader]
<1>1. Good(r) /\ r \in NodeState /\ r.term \in Nat /\ r.next_request \in Nat
      /\ r.accepted \in ClusterState
  BY GoodFields DEF Kept
<1>2. Good(q)
  BY <1>1, FollowGood
<1>3. /\ q.accepted = r.accepted /\ q.committed = r.committed /\ q.term = r.term
      /\ q.mode = "Follower" /\ q.leader = leader /\ q.join_votes = r.join_votes
      /\ q.out = r.out /\ q.next_request = r.next_request /\ q.run = r.run
  BY <1>1 DEF NodeState
<1> HIDE DEF q
<1>4. Itself(n, r) /\ Out(q) = Out(r)
  BY <1>3, KeptItself DEF Out
<1>5. Itself(n, q)
  BY <1>3, <1>4 DEF Itself, TakenFromManagers, RoleKept, VotesCounted
<1>6. Proceeds(r, q)
  BY <1>1, <1>3, NotFresherThanItself, SMT DEF Proceeds
<1>7. Forth(n, q)
  BY <1>3 DEF Kept, Forth
<1>8. Kept(n, q)
  BY <1>2, <1>3, <1>5, <1>6, <1>7, KeptQuiet, SMT
<1> QED
  BY <1>3, <1>8 DEF q

(* The answer to a join.                                                    *)
LEMMA OnJoinResponseHandled ==
    ASSUME Inv, CommitInv, NEW n \in Node, NEW m \in msgs, OnJoinResponse(n, m)
    PROVE  Handled(n)
<1>1. PICK s : s = node[n]
  OBVIOUS
<1>2. PICK r : r = [s EXCEPT !.mode = "Follower", !.leader = m.from]
  OBVIOUS
<1>3. PICK q : q = ApplyCommitted(r, m.state)
  OBVIOUS
<1>4. /\ m \in Messages /\ m.type = "JoinResponse" /\ m \in Sent("JoinResponse")
      /\ m \in Of(msgs, "JoinResponse") /\ m.to = n
      /\ m.state.term = s.term /\ Step(n, q)
  BY <1>1, <1>2, <1>3 DEF OnJoinResponse, Inv, TypeOK, Sent, Of
<1>5. m.state \in ClusterState /\ m.from \in Node
  BY <1>4, MessageFields
<1>6. Configured(m.state)
  BY <1>4 DEF Inv, ElectionInv, ConfigurationKept
<1>7. Kept(n, s) /\ s.out = {} /\ s.term \in Nat /\ Out(s) = msgs
  BY <1>1, AtRest, NodeGood
<1>8. JoinAnswered(node, msgs, m)
  BY <1>4 DEF CommitInv, Consistent
<1>9. Leads(Out(s), m.from, s.term)
  <2>1. PICK e \in Of(msgs, "LeaderNote") :
          e.from = m.from /\ m.state.term <= e.term /\ e.term <= node[m.to].term
    BY <1>8 DEF JoinAnswered
  <2>2. e.term \in Nat
    BY MessageFields DEF Inv, TypeOK, Of
  <2>3. e.term = s.term
    BY <1>1, <1>4, <1>7, <2>1, <2>2, SMT
  <2> QED
    BY <1>7, <2>1, <2>3 DEF Leads
<1>10. Kept(n, r) /\ r.mode = "Follower" /\ r.term = s.term /\ r.out = {}
  <2>1. LET v == [s EXCEPT !.mode = "Follower", !.leader = m.from]
        IN  Kept(n, v) /\ v.mode = "Follower" /\ v.term = s.term /\ v.out = s.out
    BY <1>5, <1>7, <1>9, KeptFollow
  <2> QED
    BY <1>2, <1>7, <2>1
<1>11. Blank(m.state) \/ Noted(Out(r), m.state)
  BY <1>7, <1>8, <1>10 DEF JoinAnswered, Out
<1>12. m.state.term <= r.term
  BY <1>4, <1>7, <1>10, SMT
<1>13. Kept(n, q)
  BY <1>3, <1>5, <1>6, <1>10, <1>11, <1>12, KeptApply
<1>14. Delivers(n, q)
  BY <1>4, StepDelivers
<1> QED
  BY <1>13, <1>14 DEF Handled

(* A publication of the node's term, newer than what it accepted.           *)
LEMMA OnPublishRequestHandled ==
    ASSUME Inv, CommitInv, NEW n \in Node, NEW m \in msgs, OnPublishRequest(n, m)
    PROVE  Handled(n)
<1> DEFINE x == [type |-> "PublishResponse", from |-> n, to |-> m.from,
                 run |-> m.run, rid |-> m.rid,
                 term |-> m.state.term, version |-> m.state.version]
<1>1. PICK r : r = node[n]
  OBVIOUS
<1>2. PICK q : q = [r EXCEPT !.accepted = m.state, !.mode = "Follower",
                             !.leader = m.state.manager, !.out = {x}]
  OBVIOUS
<1>3. /\ m \in Messages /\ m.type = "Publish" /\ m \in Sent("Publish")
      /\ m \in Of(msgs, "Publish") /\ m.state.term = r.term
      /\ ~(m.state.term = r.accepted.term /\ m.state.version <= r.accepted.version)
      /\ Step(n, q)
  BY <1>1, <1>2 DEF OnPublishRequest, Inv, TypeOK, Sent, Of
<1>4. /\ m.state \in ClusterState /\ m.from \in Node /\ m.run \in Nat /\ m.rid \in Nat
      /\ m.state.term \in Nat /\ m.state.version \in Nat
  BY <1>3, MessageFields, StateFields
<1>5. Configured(m.state)
  BY <1>3 DEF Inv, ElectionInv, ConfigurationKept
<1>6. Kept(n, r) /\ Good(r) /\ r.out = {} /\ Out(r) = msgs
  BY <1>1, AtRest, NodeGood
<1>7. /\ r \in NodeState /\ r.term \in Nat /\ r.run \in Nat /\ r.next_request \in Nat
      /\ r.accepted.term \in Nat /\ r.accepted.version \in Nat
      /\ r.committed.term \in Nat /\ r.committed.version \in Nat
      /\ ~FresherState(r.committed, r.accepted) /\ r.accepted.term <= r.term
  BY <1>6, GoodFields
<1>8. PublishedByElected(node, msgs, m)
  BY <1>3 DEF CommitInv, Consistent
<1>9. /\ x \in Messages /\ x.type = "PublishResponse" /\ x.from = n /\ x.to = m.from
      /\ x.run = m.run /\ x.rid = m.rid /\ x.term = m.state.term
      /\ x.version = m.state.version
  BY <1>4 DEF Messages
<1> HIDE DEF x
<1>10. m.state.manager \in Node
  BY <1>4, <1>8 DEF PublishedByElected
<1>11. q \in NodeState
  BY <1>2, <1>4, <1>7, <1>9, <1>10 DEF NodeState
<1>12. /\ q.accepted = m.state /\ q.committed = r.committed /\ q.exclusions = r.exclusions
       /\ q.term = r.term /\ q.mode = "Follower" /\ q.leader = m.state.manager
       /\ q.join_votes = r.join_votes /\ q.out = {x}
       /\ q.next_request = r.next_request /\ q.run = r.run
  BY <1>2, <1>7 DEF NodeState
<1>13. ~FresherState(r.accepted, m.state) /\ ~FresherState(r.committed, m.state)
  BY <1>3, <1>4, <1>7, SMT DEF FresherState, Fresher
<1>14. Good(q)
  BY <1>3, <1>5, <1>6, <1>7, <1>11, <1>12, <1>13, SMT DEF Good, Sound
<1>15. Itself(n, r) /\ Out(q) = msgs \cup {x} /\ msgs \subseteq Out(q)
       /\ msgs \subseteq Messages
  BY <1>6, <1>12, KeptItself DEF Out, Inv, TypeOK
<1>16. m \in Of(Out(q), "Publish")
  BY <1>3, <1>15 DEF Of
<1>17. Itself(n, q)
  <2>1. TakenFromManagers(Out(q), q)
    <3>1. m.state \in Published(Out(q))
      BY <1>16 DEF Published
    <3>2. Blank(r.committed) \/ Noted(Out(q), r.committed)
      BY <1>6, <1>15, MoreMessages DEF Itself, TakenFromManagers
    <3> QED
      BY <1>12, <3>1, <3>2 DEF TakenFromManagers
  <2>2. RoleKept(Out(q), n, q)
    <3>1. Leads(Out(q), m.state.manager, r.term)
      BY <1>3, <1>8, <1>15, MoreMessages DEF PublishedByElected
    <3> QED
      BY <1>12, <3>1 DEF RoleKept
  <2>3. VotesCounted(Out(q), n, q)
    BY <1>6, <1>12, <1>13, <1>14, <1>15, VotesStay DEF Itself
  <2> QED
    BY <2>1, <2>2, <2>3 DEF Itself
<1>18. Proceeds(r, q)
  BY <1>6, <1>7, <1>12, <1>13, SMT DEF Proceeds
<1>19. /\ Of(Out(q), "CommitNote") = Of(Out(r), "CommitNote")
       /\ Of(q.out, "CommitNote") = Of(r.out, "CommitNote")
  BY <1>6, <1>9, <1>12, <1>15 DEF Of
<1>20. Forth(n, q) /\ NewestCommit(Out(q))
  BY <1>6, <1>12, <1>19 DEF Kept, Forth, Consistent, NewestCommit
<1>21. AnswerTrue(Now(n, q), Out(q), x)
  <2>1. Now(n, q)[n] = q
    BY DEF Now, Inv, TypeOK
  <2>2. ~Fresher(x.term, x.version, q.accepted.term, q.accepted.version)
    BY <1>4, <1>9, <1>12, SMT DEF Fresher
  <2> QED
    BY <1>9, <1>16, <2>1, <2>2 DEF AnswerTrue
<1>22. \A y \in q.out \ r.out : SaysTrue(n, r, q, y)
  BY <1>3, <1>9, <1>12, <1>21 DEF SaysTrue
<1>23. Kept(n, q)
  BY <1>6, <1>14, <1>17, <1>18, <1>20, <1>22, KeptPlain
<1>24. Delivers(n, q)
  BY <1>3, StepDelivers
<1> QED
  BY <1>23, <1>24 DEF Handled

(* What a node has accepted of a term and version some manager committed is *)
(* what was committed.                                                      *)
LEMMA AcceptedIsNoted ==
    ASSUME NEW N, NEW M, Consistent(N, M), NEW n \in Node,
           NEW c \in Of(M, "CommitNote"),
           c.state.term = N[n].accepted.term, c.state.version = N[n].accepted.version
    PROVE  Noted(M, N[n].accepted)
<1>1. c.state \in Published(M) /\ c.state.term > 0
  BY PublishedTerm DEF Noted
<1>2. N[n].accepted \in Published(M)
  BY <1>1, SMT DEF Consistent, TakenFromManagers, Blank
<1>3. PICK p \in Of(M, "Publish") : p.state = c.state
  BY <1>1 DEF Published
<1>4. PICK k \in Of(M, "Publish") : k.state = N[n].accepted
  BY <1>2 DEF Published
<1>5. p.state = k.state
  BY <1>3, <1>4 DEF Consistent, PublishedOnce
<1> QED
  BY <1>3, <1>4, <1>5 DEF Noted

(* A commit of what the node accepted last.                                 *)
LEMMA OnCommitRequestHandled ==
    ASSUME Inv, CommitInv, NEW n \in Node, NEW m \in msgs, OnCommitRequest(n, m)
    PROVE  Handled(n)
<1>1. PICK r : r = node[n]
  OBVIOUS
<1>2. PICK q : q = ApplyCommitted(r, r.accepted)
  OBVIOUS
<1>3. Kept(n, r) /\ Good(r) /\ r.out = {} /\ Out(r) = msgs
  BY <1>1, AtRest, NodeGood
<1>4. r.accepted \in ClusterState /\ Configured(r.accepted) /\ r.accepted.term <= r.term
  BY <1>3, GoodFields
<1>5. /\ m \in Of(msgs, "Commit") /\ m.term = r.accepted.term
      /\ m.version = r.accepted.version /\ Step(n, q)
  BY <1>1, <1>2 DEF OnCommitRequest, Of
<1>6. PICK c \in Of(msgs, "CommitNote") :
        c.state.term = m.term /\ c.state.version = m.version
  BY <1>5 DEF CommitInv, Consistent, RequestTrue
<1>7. Noted(msgs, node[n].accepted)
  BY <1>1, <1>5, <1>6, AcceptedIsNoted DEF CommitInv
<1>8. Kept(n, q)
  BY <1>1, <1>2, <1>3, <1>4, <1>7, KeptApply
<1>9. Delivers(n, q)
  BY <1>5, StepDelivers
<1> QED
  BY <1>8, <1>9 DEF Handled

(* A check by the manager of the node's term or of a later one.             *)
LEMMA OnFollowerCheckHandled ==
    ASSUME Inv, CommitInv, NEW n \in Node, NEW m \in msgs, OnFollowerCheck(n, m)
    PROVE  Handled(n)
<1>1. PICK s : s = node[n]
  OBVIOUS
<1>2. PICK r : r = SawTerm(s, m.state.term)
  OBVIOUS
<1>3. PICK q : q = IF r.mode = "Candidate"
                   THEN [r EXCEPT !.mode = "Follower", !.leader = m.from] ELSE r
  OBVIOUS
<1>4. /\ m \in Messages /\ m.type = "Publish" /\ m \in Of(msgs, "Publish")
      /\ m.state.term >= s.term /\ Step(n, q)
  BY <1>1, <1>2, <1>3 DEF OnFollowerCheck, Inv, TypeOK, Of
<1>5. m.state.term \in Nat /\ m.from \in Node
  BY <1>4, MessageFields, StateFields
<1>6. Kept(n, s) /\ Good(s) /\ s.term \in Nat
  BY <1>1, AtRest, NodeGood
<1>7. Kept(n, r)
  BY <1>2, <1>5, <1>6, KeptSawTerm
<1>8. r.term = m.state.term
  <2>1. CASE m.state.term <= s.term
    <3>1. r = s
      BY <1>2, <1>5, <1>6, <2>1, SawTermGood
    <3> QED
      BY <1>4, <1>5, <1>6, <2>1, <3>1, SMT
  <2>2. CASE ~(m.state.term <= s.term)
    BY <1>2, <1>5, <1>6, <2>2, SawTermGood
  <2> QED
    BY <2>1, <2>2
<1>9. Leads(Out(r), m.from, r.term)
  <2>1. Leads(msgs, m.from, m.state.term)
    BY <1>4 DEF CommitInv, Consistent, PublishedByElected
  <2>2. msgs \subseteq Out(r)
    BY DEF Out
  <2> QED
    BY <1>8, <2>1, <2>2, MoreMessages
<1>10. Kept(n, [r EXCEPT !.mode = "Follower", !.leader = m.from])
  BY <1>5, <1>7, <1>9, KeptFollow
<1>11. Kept(n, q)
  BY <1>3, <1>7, <1>10
<1>12. Delivers(n, q)
  BY <1>4, StepDelivers
<1> QED
  BY <1>11, <1>12 DEF Handled

(* An answer to the publication in flight, or a late one to the last.       *)
LEMMA OnPublishResponseHandled ==
    ASSUME Inv, CommitInv, NEW n \in Node, NEW m \in msgs, OnPublishResponse(n, m)
    PROVE  Handled(n)
<1>1. PICK r : r = node[n]
  OBVIOUS
<1> DEFINE x == CommitRequest(n, m.from, m.term, m.version)
<1>2. /\ m \in Messages /\ m.type = "PublishResponse" /\ r.mode = "Leader"
      /\ m \in Of(msgs, "PublishResponse") /\ m.to = n /\ (m.run = r.run \/ LateAnswers)
      /\ \/ /\ r.publishing # None /\ r.publishing.rid = m.rid
            /\ Step(n, Settle(n, [r EXCEPT !.publishing.acked = @ \cup {m.from}]))
         \/ /\ r.publishing = None /\ m.term = r.committed.term
            /\ m.version = r.committed.version
            /\ Step(n, [r EXCEPT !.lagging = @ \ {m.from}, !.out = {x}])
  BY <1>1 DEF OnPublishResponse, Inv, TypeOK, Of
<1>3. m.from \in Node /\ m.term \in Nat /\ m.version \in Nat
  BY <1>2, MessageFields
<1>4. /\ Kept(n, r) /\ Good(r) /\ r \in NodeState /\ r.term \in Nat /\ r.out = {}
      /\ Out(r) = msgs /\ Itself(n, r) /\ r.accepted \in ClusterState /\ r.next_request \in Nat
  BY <1>1, AtRest, NodeGood, KeptItself, GoodFields
<1>5. CASE /\ r.publishing # None /\ r.publishing.rid = m.rid
           /\ Step(n, Settle(n, [r EXCEPT !.publishing.acked = @ \cup {m.from}]))
  <2>1. PICK p : p = [r.publishing EXCEPT !.acked = @ \cup {m.from}]
    OBVIOUS
  <2>2. PICK c : c = [r EXCEPT !.publishing = p]
    OBVIOUS
  <2>3. [r EXCEPT !.publishing.acked = @ \cup {m.from}] = c
    BY <2>1, <2>2
  <2>4. r.publishing \in Publication
    BY <1>4, <1>5 DEF NodeState
  <2>5. /\ p \in Publication /\ p.state = r.publishing.state /\ p.rid = r.publishing.rid
        /\ p.acked = r.publishing.acked \cup {m.from}
    BY <1>3, <2>1, <2>4 DEF Publication
  <2>6. c \in NodeState
    BY <1>4, <2>2, <2>5 DEF NodeState
  <2>7. /\ c.accepted = r.accepted /\ c.committed = r.committed /\ c.exclusions = r.exclusions
        /\ c.term = r.term /\ c.mode = r.mode /\ c.join_votes = r.join_votes
        /\ c.leader = r.leader /\ c.next_request = r.next_request /\ c.run = r.run
        /\ c.out = r.out /\ c.publishing = p
    BY <1>4, <2>2 DEF NodeState
  <2>8. p # None
    BY <2>5, NoneAssumption
  <2>9. Good(c)
    BY <1>4, <1>5, <2>5, <2>6, <2>7, <2>8 DEF Good, Sound
  <2>10. InFlight(msgs, n, r) /\ Leads(msgs, n, r.term)
    BY <1>2, <1>4, <1>5 DEF Itself, RoleKept
  <2>11. ~LateAnswers => Accepts(msgs, m.from, r.accepted)
    <3> SUFFICES ASSUME ~LateAnswers PROVE Accepts(msgs, m.from, r.accepted)
      OBVIOUS
    <3>1. PICK k \in Of(msgs, "Publish") :
            k.from = n /\ k.run = r.run /\ k.rid = r.publishing.rid /\ k.state = r.accepted
      BY <2>10 DEF InFlight
    <3>2. PICK l \in Of(msgs, "Publish") :
            /\ l.from = m.to /\ l.run = m.run /\ l.rid = m.rid
            /\ l.state.term = m.term /\ l.state.version = m.version
      BY <1>2 DEF CommitInv, Consistent, AnswerTrue
    <3>3. k.from = l.from /\ k.run = l.run /\ k.rid = l.rid
      BY <1>2, <1>5, <3>1, <3>2
    <3>4. k.state = l.state
      BY <3>3 DEF CommitInv, Consistent, PublishedOnce
    <3> QED
      BY <1>2, <3>1, <3>2, <3>4 DEF Accepts
  <2>12. Out(c) = msgs
    BY <1>4, <2>7 DEF Out
  <2>13. InFlight(Out(c), n, c)
    BY <2>5, <2>7, <2>10, <2>11, <2>12 DEF InFlight
  <2>14. Itself(n, c)
    BY <1>2, <1>4, <2>7, <2>8, <2>10, <2>12, <2>13, SMT
       DEF Itself, TakenFromManagers, RoleKept, VotesCounted
  <2>15. Proceeds(r, c)
    BY <1>4, <2>7, NotFresherThanItself, SMT DEF Proceeds
  <2>16. Forth(n, c)
    BY <1>4, <2>7 DEF Kept, Forth
  <2>17. Kept(n, c)
    BY <1>4, <2>7, <2>9, <2>14, <2>15, <2>16, KeptQuiet
  <2>18. Kept(n, Settle(n, c))
    BY <1>2, <2>7, <2>17, KeptSettle
  <2>19. Delivers(n, Settle(n, c))
    BY <1>5, <2>3, StepDelivers
  <2> QED
    BY <2>18, <2>19 DEF Handled
<1>6. CASE /\ r.publishing = None /\ m.term = r.committed.term
           /\ m.version = r.committed.version
           /\ Step(n, [r EXCEPT !.lagging = @ \ {m.from}, !.out = {x}])
  <2>1. /\ x \in Messages /\ x.type = "Commit" /\ x.term = m.term /\ x.version = m.version
    BY <1>3 DEF CommitRequest, Messages
  <2> HIDE DEF x
  <2>2. PICK q : q = [r EXCEPT !.lagging = @ \ {m.from}, !.out = {x}]
    OBVIOUS
  <2>3. q \in NodeState
    BY <1>4, <2>1, <2>2 DEF NodeState
  <2>4. /\ q.accepted = r.accepted /\ q.committed = r.committed /\ q.exclusions = r.exclusions
        /\ q.term = r.term /\ q.mode = r.mode /\ q.join_votes = r.join_votes
        /\ q.leader = r.leader /\ q.next_request = r.next_request /\ q.run = r.run
        /\ q.out = {x} /\ q.publishing = r.publishing
    BY <1>4, <2>2 DEF NodeState
  <2>5. Good(q)
    BY <1>4, <2>1, <2>3, <2>4 DEF Good, Sound
  <2>6. RequestTrue(Out(q), x)
    <3>1. r.committed = r.accepted /\ r.accepted.term > 0
      BY <1>2, <1>4, <1>6, GoodFields DEF Itself, RoleKept
    <3>2. Noted(msgs, r.committed)
      BY <1>4, <3>1, SMT DEF Itself, TakenFromManagers, Blank
    <3>3. msgs \subseteq Out(q)
      BY DEF Out
    <3>4. PICK c \in Of(Out(q), "CommitNote") : c.state = r.committed
      BY <3>2, <3>3, MoreMessages DEF Noted
    <3> QED
      BY <1>6, <2>1, <3>4 DEF RequestTrue
  <2>7. SaysTrue(n, r, q, x) /\ x.type # "CommitNote"
    BY <2>1, <2>6 DEF SaysTrue
  <2>8. r.out \subseteq q.out /\ q.out \ r.out \subseteq {x}
    BY <1>4, <2>4
  <2>9. Kept(n, q)
    BY <1>4, <2>4, <2>5, <2>7, <2>8, KeptSays
  <2>10. Delivers(n, q)
    BY <1>6, <2>2, StepDelivers
  <2> QED
    BY <2>9, <2>10 DEF Handled
<1> QED
  BY <1>2, <1>5, <1>6

(* What a process starts with: what its disk holds, with the first          *)
(* configuration if it is the only node named for it.                       *)
Restored(term, accepted, committed, run, r, q) ==
    /\ Good(r) /\ r.term = term /\ r.mode = "Candidate" /\ r.join_votes = {}
    /\ r.accepted \in {accepted, committed} /\ r.committed = committed
    /\ ~FresherState(accepted, r.accepted) /\ r.run = run /\ r.out = {}
    /\ \/ q = r
       \/ q = Bootstrapped(r) /\ r.accepted.last_accepted_config = {}

(* Start does that.                                                         *)
LEMMA StartFields ==
    ASSUME NEW n \in Node, NEW term \in Nat, NEW accepted \in ClusterState,
           NEW committed \in ClusterState, NEW run \in Nat,
           Configured(accepted), Configured(committed),
           ~FresherState(committed, accepted), accepted.term <= term
    PROVE  \E r : Restored(term, accepted, committed, run, r,
                           Start(n, term, accepted, committed, run))
<1> DEFINE kept == IF FresherState(accepted, committed) THEN accepted ELSE committed
           r == [term |-> AtLeast(term, kept.term), mode |-> "Candidate", leader |-> None,
                 accepted |-> kept, committed |-> committed,
                 join_votes |-> {}, publishing |-> None,
                 waiting_joins |-> {}, pending_removals |-> {}, lagging |-> {},
                 republish_wanted |-> FALSE,
                 exclusions |-> {}, next_request |-> 1, run |-> run, out |-> {}]
           q == Start(n, term, accepted, committed, run)
<1>1. /\ kept \in ClusterState /\ Configured(kept) /\ ~FresherState(committed, kept)
      /\ kept.term <= term /\ kept.term \in Nat /\ kept \in {accepted, committed}
      /\ ~FresherState(accepted, kept)
  BY SMT DEF FresherState, Fresher, ClusterState
<1> HIDE DEF kept
<1>2. AtLeast(term, kept.term) = term
  BY <1>1, SMT DEF AtLeast
<1>3. r \in NodeState
  BY <1>1, <1>2 DEF NodeState
<1>4. /\ r.accepted = kept /\ r.committed = committed /\ r.exclusions = {}
      /\ r.term = term /\ r.mode = "Candidate" /\ r.join_votes = {}
      /\ r.out = {} /\ r.publishing = None /\ r.run = run
  BY <1>2
<1>5. q = IF CanBootstrap(n, r) /\ InitialConfig = {n} THEN Bootstrapped(r) ELSE r
  BY DEF Start, kept
<1> HIDE DEF r, q
<1>6. Good(r)
  BY <1>1, <1>3, <1>4 DEF Good, Sound
<1>7. q = r \/ (q = Bootstrapped(r) /\ r.accepted.last_accepted_config = {})
  BY <1>5 DEF CanBootstrap
<1> QED
  BY <1>1, <1>4, <1>6, <1>7 DEF q, Restored

(* A restart loses votes, the role and what was in flight, and takes a new  *)
(* run; the states are still those of managers.                             *)
LEMMA RestartHandled ==
    ASSUME Inv, CommitInv, NEW n \in Node, Restart(n)
    PROVE  Handled(n)
<1>1. PICK s : s = node[n]
  OBVIOUS
<1>2. PICK q : q = Start(n, s.term, s.accepted, s.committed, s.run + 1)
  OBVIOUS
<1>3. Kept(n, s) /\ Good(s) /\ s.out = {} /\ Out(s) = msgs /\ Itself(n, s)
  BY <1>1, AtRest, NodeGood, KeptItself
<1>4. /\ s.term \in Nat /\ s.accepted \in ClusterState /\ s.committed \in ClusterState
      /\ s.run \in Nat /\ s.run + 1 \in Nat
      /\ Configured(s.accepted) /\ Configured(s.committed)
      /\ ~FresherState(s.committed, s.accepted) /\ s.accepted.term <= s.term
  BY <1>3, GoodFields, SMT
<1>5. PICK r : Restored(s.term, s.accepted, s.committed, s.run + 1, r, q)
  BY <1>2, <1>4, StartFields
<1>6. Out(r) = msgs
  BY <1>5 DEF Out, Restored
<1>7. Itself(n, r)
  <2>1. \A c : Noted(msgs, c) => c \in Published(msgs)
    BY PublishedTerm DEF CommitInv
  <2>2. TakenFromManagers(Out(r), r)
    BY <1>3, <1>5, <1>6, <2>1 DEF Itself, TakenFromManagers, Restored
  <2> QED
    BY <1>5, <2>2 DEF Itself, RoleKept, VotesCounted, Restored
<1>8. Proceeds(s, r)
  BY <1>3, <1>4, <1>5, SMT DEF Proceeds, Restored
<1>9. Forth(n, r)
  BY <1>3, <1>5 DEF Kept, Forth, Restored
<1>10. Kept(n, r)
  BY <1>3, <1>5, <1>7, <1>8, <1>9, KeptQuiet DEF Restored
<1>11. Kept(n, q)
  BY <1>5, <1>10, KeptBootstrapped DEF Restored
<1>12. q.out = {} /\ q \in NodeState
  <2>1. q \in NodeState
    BY <1>11, GoodFields DEF Kept
  <2>2. q.out = {}
    BY <1>2, <1>4, StartGood
  <2> QED
    BY <2>1, <2>2
<1>13. [q EXCEPT !.out = {}] = q
  BY <1>12 DEF NodeState
<1>14. Delivers(n, q)
  BY <1>1, <1>2, <1>12, <1>13 DEF Delivers, Restart
<1> QED
  BY <1>11, <1>14 DEF Handled

-----------------------------------------------------------------------------

(* Between two handlers the invariant says what Kept says in the middle of  *)
(* one.                                                                     *)
LEMMA HandledKeeps ==
    ASSUME Inv, NEW n \in Node, NEW q, Kept(n, q), Delivers(n, q)
    PROVE  CommitInv'
<1>1. PICK e : e = [q EXCEPT !.out = {}]
  OBVIOUS
<1>2. PICK N : N = [node EXCEPT ![n] = e]
  OBVIOUS
<1>3. PICK M : M = Out(q)
  OBVIOUS
<1>4. /\ Good(q) /\ q \in NodeState /\ q.term \in Nat /\ q.next_request \in Nat
      /\ q.accepted \in ClusterState /\ q.accepted.term <= q.term
  BY GoodFields DEF Kept
<1>5. e \in NodeState
  BY <1>1, <1>4 DEF NodeState
<1>6. /\ e.accepted = q.accepted /\ e.committed = q.committed /\ e.term = q.term
      /\ e.mode = q.mode /\ e.leader = q.leader /\ e.join_votes = q.join_votes
      /\ e.publishing = q.publishing /\ e.next_request = q.next_request /\ e.run = q.run
  BY <1>1, <1>4 DEF NodeState
<1>7. /\ Fine(Now(n, q), M) /\ Now(n, q)[n] = q /\ Consistent(Now(n, q), M)
      /\ \A k \in Node : k # n => Now(n, q)[k] = node[k]
  BY <1>3, <1>4, NowFine, SMT DEF Kept
<1>8. N[n] = e /\ (\A k \in Node : k # n => N[k] = node[k]) /\ N \in [Node -> NodeState]
  BY <1>2, <1>5 DEF Inv, TypeOK
<1>9. Fine(N, M)
  BY <1>4, <1>6, <1>7, <1>8 DEF Fine
<1>10. Moves(Now(n, q), M, N, M, n)
  BY <1>4, <1>6, <1>7, <1>8, NotFresherThanItself, SMT DEF Moves
<1>11. /\ TakenFromManagers(M, N[n]) /\ RoleKept(M, n, N[n]) /\ VotesCounted(M, n, N[n])
  <2>1. /\ TakenFromManagers(M, q) /\ RoleKept(M, n, q) /\ VotesCounted(M, n, q)
    BY <1>7 DEF Consistent
  <2> QED
    BY <1>6, <1>8, <2>1, SMT DEF TakenFromManagers, RoleKept, VotesCounted, InFlight
<1>12. NewestCommit(M)
  BY <1>7 DEF Consistent
<1>13. Consistent(N, M)
  BY <1>7, <1>9, <1>10, <1>11, <1>12, PlainCall
<1>14. node' = N /\ msgs' = M
  BY <1>1, <1>2, <1>3 DEF Delivers, Out
<1> QED
  BY <1>13, <1>14 DEF CommitInv

(* Nothing is published yet.                                                *)
LEMMA InitCommitInv == Init => CommitInv
<1> SUFFICES ASSUME Init PROVE Consistent(node, msgs)
  BY DEF CommitInv
<1>1. ASSUME NEW n \in Node
      PROVE  /\ Blank(node[n].accepted) /\ Blank(node[n].committed)
             /\ node[n].mode = "Candidate" /\ node[n].join_votes = {}
  <2>1. node[n] = Start(n, 0, EmptyState, EmptyState, 0)
    BY DEF Init
  <2>2. PICK r : Restored(0, EmptyState, EmptyState, 0, r, node[n])
    BY <2>1, EmptyStateGood, StartFields, SMT
  <2>7. /\ Good(r) /\ r.mode = "Candidate" /\ r.join_votes = {}
        /\ r.accepted = EmptyState /\ r.committed = EmptyState
        /\ node[n] = r \/ node[n] = Bootstrapped(r)
    BY <2>2 DEF Restored
  <2>3. r \in NodeState
    BY <2>7, GoodFields
  <2>4. Blank(EmptyState) /\ Blank(SetConfig(EmptyState))
    BY DEF Blank, EmptyState, SetConfig
  <2>5. CASE node[n] = r
    BY <2>4, <2>5, <2>7
  <2>6. CASE node[n] = Bootstrapped(r)
    <3>1. /\ Bootstrapped(r).accepted = SetConfig(EmptyState)
          /\ Bootstrapped(r).committed = SetConfig(EmptyState)
          /\ Bootstrapped(r).mode = r.mode /\ Bootstrapped(r).join_votes = r.join_votes
      BY <2>3, <2>7 DEF Bootstrapped, NodeState
    <3> QED
      BY <2>4, <2>6, <2>7, <3>1
  <2> QED
    BY <2>5, <2>6, <2>7
<1>2. msgs = {} /\ (\A type : Of(msgs, type) = {}) /\ Published(msgs) = {}
  BY DEF Init, Of, Published
<1>3. \A n \in Node : /\ TakenFromManagers(msgs, node[n])
                      /\ RoleKept(msgs, n, node[n])
                      /\ VotesCounted(msgs, n, node[n])
  BY <1>1 DEF TakenFromManagers, RoleKept, VotesCounted
<1>4. PublishedOnce(msgs) /\ BuiltOn(node, msgs) /\ NewestCommit(msgs)
  BY <1>2 DEF PublishedOnce, BuiltOn, NewestCommit
<1> QED
  BY <1>2, <1>3, <1>4 DEF Consistent

(* Every step is a handler of some node, run to its end.                    *)
LEMMA NextHandled ==
    ASSUME Inv, CommitInv, Inv', Next
    PROVE  \E n \in Node : Handled(n)
<1>1. PICK n \in Node : Timer(n) \/ Receive(n)
  BY DEF Next
<1>2. CASE Timer(n)
  <2>1. CASE Bootstrap(n)
    BY <2>1, BootstrapHandled
  <2>2. ASSUME NEW term \in 1 .. MaxTerm, StartElection(n, term) PROVE Handled(n)
    BY <2>2, StartElectionHandled
  <2>3. CASE PublishTimeout(n) \/ LoseLeader(n)
    BY <2>3, StepDownHandled DEF PublishTimeout, LoseLeader
  <2>4. ASSUME NEW gone \in SUBSET Node, FollowerCheckTimer(n, gone) PROVE Handled(n)
    BY <2>4, NextPublicationHandled DEF FollowerCheckTimer
  <2>5. ASSUME NEW exclusions \in ExclusionSets, Republish(n, exclusions) PROVE Handled(n)
    <3>1. exclusions = {}
      BY FixedAssumption
    <3> QED
      BY <2>5, <3>1, NextPublicationHandled DEF Republish
  <2>6. CASE Restart(n)
    BY <2>6, RestartHandled
  <2> QED
    BY <1>2, <2>1, <2>2, <2>3, <2>4, <2>5, <2>6, SMT DEF Timer
<1>3. CASE Receive(n)
  <2>1. ASSUME NEW m \in msgs,
               \/ OnStartJoinRequest(n, m) \/ OnJoinRequest(n, m) \/ OnJoinResponse(n, m)
               \/ OnPublishRequest(n, m) \/ OnPublishResponse(n, m)
               \/ OnCommitRequest(n, m) \/ OnFollowerCheck(n, m)
        PROVE  Handled(n)
    BY <2>1, OnStartJoinRequestHandled, OnJoinRequestHandled, OnJoinResponseHandled,
       OnPublishRequestHandled, OnPublishResponseHandled, OnCommitRequestHandled,
       OnFollowerCheckHandled, SMT
  <2>2. ASSUME NEW from \in Node, OnVotelessJoin(n, from) PROVE Handled(n)
    BY <2>2, OnVotelessJoinHandled
  <2>3. ASSUME NEW m \in msgs, NEW from \in Node, OnPublishRefused(n, m, from)
        PROVE  Handled(n)
    BY <2>3, OnPublishRefusedHandled
  <2>4. ASSUME NEW term \in Terms, HearTerm(n, term) PROVE Handled(n)
    BY <2>4, HearTermHandled
  <2>5. ASSUME NEW from \in Node, Leave(n, from) PROVE Handled(n)
    <3>1. {from} \in SUBSET Node
      OBVIOUS
    <3> QED
      BY <2>5, <3>1, NextPublicationHandled DEF Leave
  <2> QED
    BY <1>3, <2>1, <2>2, <2>3, <2>4, <2>5 DEF Receive
<1> QED
  BY <1>1, <1>2, <1>3

(* The invariant is kept by every step.                                     *)
LEMMA StepCommitInv == Inv /\ CommitInv /\ Inv' /\ [Next]_vars => CommitInv'
<1> SUFFICES ASSUME Inv, CommitInv, Inv', [Next]_vars PROVE CommitInv'
  OBVIOUS
<1>1. CASE UNCHANGED vars
  BY <1>1 DEF vars, CommitInv
<1>2. CASE Next
  <2>1. PICK n \in Node : Handled(n)
    BY <1>2, NextHandled
  <2>2. PICK q : Kept(n, q) /\ Delivers(n, q)
    BY <2>1 DEF Handled
  <2> QED
    BY <2>2, HandledKeeps
<1> QED
  BY <1>1, <1>2

(* What is accepted, published and committed, and by whom, for any number   *)
(* of nodes, terms, versions and restarts and however late messages arrive: *)
(* publications come from the elected manager, request ids and versions     *)
(* name one state each, votes tell what their senders accepted, and a state *)
(* is built on all earlier ones that can still be committed (publish,       *)
(* commit_publication, apply_committed, on_join, become_leader).            *)
THEOREM CommitInvariant == Spec => []CommitInv
  BY InitCommitInv, StepCommitInv, InvAlways, PTL DEF Spec

-----------------------------------------------------------------------------
(* What follows for the committed states.                                   *)

(* A committed state was committed by its manager, or is that of a node     *)
(* that nothing was published to.                                           *)
LEMMA CommittedNoted ==
    ASSUME Inv, CommitInv, NEW s \in Committed
    PROVE  Blank(s) \/ (Noted(msgs, s) /\ s \in Published(msgs))
<1>1. \A c : Noted(msgs, c) => c \in Published(msgs)
  BY PublishedTerm DEF CommitInv
<1>2. CASE \E n \in Node : s = node[n].committed
  BY <1>1, <1>2 DEF CommitInv, Consistent, TakenFromManagers
<1>3. CASE \E m \in Sent("CommitNote") :
             s = [m.state EXCEPT !.last_committed_config = m.state.last_accepted_config]
  <2>1. PICK m \in Sent("CommitNote") :
          s = [m.state EXCEPT !.last_committed_config = m.state.last_accepted_config]
    BY <1>3
  <2>2. /\ m.state \in ClusterState /\ m \in Of(msgs, "CommitNote")
        /\ m.state.last_accepted_config = m.state.last_committed_config
    <3>1. m \in Of(msgs, "CommitNote") /\ m \in Messages /\ m.type = "CommitNote"
      BY DEF Sent, Of, Inv, TypeOK
    <3>2. Configured(m.state)
      BY DEF Inv, ElectionInv, ConfigurationKept
    <3> QED
      BY <3>1, <3>2, MessageFields DEF Configured
  <2>3. s = m.state
    BY <2>1, <2>2 DEF ClusterState
  <2> QED
    BY <1>1, <2>2, <2>3 DEF Noted
<1> QED
  BY <1>2, <1>3 DEF Committed

(* One state per term and version.                                          *)
LEMMA InvSameState == Inv /\ CommitInv => SameStateCommitted
<1> SUFFICES ASSUME Inv, CommitInv, NEW s \in Committed, NEW u \in Committed,
                    s.term = u.term, s.version = u.version, s.lineage # {}
             PROVE  s = u
  BY DEF SameStateCommitted
<1>1. s \in Published(msgs) /\ s.term > 0
  BY CommittedNoted, PublishedTerm DEF Blank, CommitInv
<1>2. u \in Published(msgs)
  BY <1>1, CommittedNoted, SMT DEF Blank
<1>3. PICK p \in Of(msgs, "Publish") : p.state = s
  BY <1>1 DEF Published
<1>4. PICK k \in Of(msgs, "Publish") : k.state = u
  BY <1>2 DEF Published
<1> QED
  BY <1>3, <1>4 DEF CommitInv, Consistent, PublishedOnce

(* "two nodes that committed the same term and version committed the same   *)
(* state" (coordinator.rs:31).                                              *)
THEOREM SameState == Spec => []SameStateCommitted
  BY InvSameState, InvAlways, CommitInvariant, PTL

(* A follower follows the node that was elected for the term it is in,      *)
(* whatever joins, checks and publications arrive late (on_join_response,   *)
(* handle_publish, on_follower_check).                                      *)
THEOREM FollowsElected == Spec => []FollowsTheElected
<1>1. CommitInv => FollowsTheElected
  BY DEF CommitInv, Consistent, RoleKept, FollowsTheElected, Leads, Sent, Of
<1> QED
  BY <1>1, CommitInvariant, PTL

(* A larger set of nodes is a quorum too.                                   *)
LEMMA MoreVotes ==
    ASSUME NEW Q, NEW R, Q \subseteq R, HasQuorum(InitialConfig, Q)
    PROVE  HasQuorum(InitialConfig, R)
<1>1. IsFiniteSet(InitialConfig)
  BY NodeAssumption, ConfigAssumption, FS_Subset
<1>2. InitialConfig \cap Q \subseteq InitialConfig \cap R
  OBVIOUS
<1>3. IsFiniteSet(InitialConfig \cap R)
  BY <1>1, FS_Intersection
<1>4. /\ Cardinality(InitialConfig \cap Q) <= Cardinality(InitialConfig \cap R)
      /\ IsFiniteSet(InitialConfig \cap Q)
  BY <1>2, <1>3, FS_Subset
<1>5. /\ Cardinality(InitialConfig \cap Q) \in Nat /\ Cardinality(InitialConfig \cap R) \in Nat
      /\ Cardinality(InitialConfig) \in Nat
  BY <1>1, <1>3, <1>4, FS_CardinalityType
<1> QED
  BY <1>4, <1>5, SMT DEF HasQuorum

(* The records and messages between two handlers.                           *)
LEMMA NowIsFine ==
    ASSUME Inv
    PROVE  Fine(node, msgs)
  BY DEF Inv, TypeOK, ElectionInv, ConfigurationKept, Fine

(* What a quorum accepted is held by it from then on.                       *)
LEMMA InvHeld == ~LateAnswers /\ Inv /\ CommitInv => CommitHeldByQuorum
<1> SUFFICES ASSUME ~LateAnswers, Inv, CommitInv, NEW m \in Sent("CommitNote")
             PROVE  ElectionQuorum(m.state, {n \in Node :
                        Name(m.state.term, m.state.manager, m.state.version)
                            \in node[n].accepted.lineage})
  BY DEF CommitHeldByQuorum
<1> DEFINE s == m.state
           R == {n \in Node : Name(s.term, s.manager, s.version) \in node[n].accepted.lineage}
<1>1. m \in Of(msgs, "CommitNote") /\ Noted(msgs, s)
  BY DEF Sent, Of, Noted
<1>2. Fine(node, msgs) /\ Consistent(node, msgs)
  BY NowIsFine DEF CommitInv
<1>3. s \in Published(msgs) /\ s.term > 0 /\ s.term \in Nat /\ s.version \in Nat
  BY <1>1, <1>2, PublishedTerm, PublishedType DEF Fine
<1>4. PICK Q \in SUBSET Node :
        HasQuorum(InitialConfig, Q) /\ \A q \in Q : Accepts(msgs, q, s)
  BY <1>1, <1>2 DEF Consistent, CommitTrue
<1>5. Name(s.term, s.manager, s.version) \in s.lineage
  <2>1. PICK p \in Of(msgs, "Publish") : p.state = s
    BY <1>3 DEF Published
  <2>2. PublishedByElected(node, msgs, p)
    BY <1>2 DEF Consistent
  <2> QED
    BY <2>1, <2>2 DEF PublishedByElected, Descended
<1>6. ASSUME NEW q \in Q
      PROVE  q \in R
  <2>1. q \in Node /\ Accepts(msgs, q, s)
    BY <1>4
  <2>2. ~FresherState(s, node[q].accepted)
    BY <1>2, <1>3, <2>1, AcceptedBound
  <2>3. node[q].accepted.term \in Nat
    BY <1>2, <2>1, RecordFields, StateFields DEF Fine
  <2>4. node[q].accepted.term > 0
    BY <1>3, <2>2, <2>3, SMT DEF FresherState, Fresher
  <2>5. node[q].accepted \in Published(msgs)
    <3>1. TakenFromManagers(msgs, node[q])
      BY <1>2, <2>1 DEF Consistent
    <3>2. ~Blank(node[q].accepted)
      BY <2>4, SMT DEF Blank
    <3> QED
      BY <3>1, <3>2 DEF TakenFromManagers
  <2>6. s.lineage \subseteq node[q].accepted.lineage
    BY <1>1, <1>2, <2>2, <2>5, CommittedInOrder
  <2> QED
    BY <1>5, <2>1, <2>6
<1>7. HasQuorum(InitialConfig, R)
  BY <1>4, <1>6, MoreVotes
<1>8. s.last_accepted_config = InitialConfig /\ s.last_committed_config = InitialConfig
  BY <1>3 DEF Inv, ElectionInv, ConfigurationKept, Configured
<1> HIDE DEF R
<1>9. ElectionQuorum(s, R)
  BY <1>7, <1>8 DEF ElectionQuorum
<1> QED
  BY <1>9 DEF R

(* "commit once a quorum of both configurations has accepted" (publish), if *)
(* an answer reaches the process that asked, or none: a committed state is  *)
(* held by a quorum ever after.                                             *)
THEOREM CommitHeld == ~LateAnswers => (Spec => []CommitHeldByQuorum)
<1> SUFFICES ASSUME ~LateAnswers PROVE Spec => []CommitHeldByQuorum
  OBVIOUS
<1>1. Inv /\ CommitInv => CommitHeldByQuorum
  BY InvHeld
<1> QED
  BY <1>1, InvAlways, CommitInvariant, PTL

(* Of two committed states one was built on the other.                      *)
LEMMA CommittedOrdered ==
    ASSUME ~LateAnswers, Inv, CommitInv, NEW s \in Committed, NEW u \in Committed
    PROVE  /\ ~FresherState(s, u) => s.lineage \subseteq u.lineage
           /\ s.lineage \subseteq u.lineage \/ u.lineage \subseteq s.lineage
<1>1. Fine(node, msgs) /\ Consistent(node, msgs)
  BY NowIsFine DEF CommitInv
<1>2. ASSUME NEW x \in Committed
      PROVE  /\ x.term \in Nat /\ x.version \in Nat
             /\ Blank(x) \/ (Noted(msgs, x) /\ x \in Published(msgs) /\ x.term > 0)
  <2>1. Blank(x) \/ (Noted(msgs, x) /\ x \in Published(msgs))
    BY CommittedNoted
  <2> QED
    BY <1>1, <2>1, PublishedTerm, PublishedType, SMT DEF Blank, Fine
<1>3. ASSUME NEW x \in Committed, NEW y \in Committed, ~FresherState(x, y)
      PROVE  x.lineage \subseteq y.lineage
  <2>1. CASE Blank(x)
    BY <2>1 DEF Blank
  <2>2. CASE ~Blank(x)
    <3>1. Noted(msgs, x) /\ x.term > 0
      BY <1>2, <2>2
    <3>2. y.term > 0
      BY <1>2, <1>3, <3>1, SMT DEF FresherState, Fresher
    <3>3. y \in Published(msgs)
      BY <1>2, <3>2, SMT DEF Blank
    <3> QED
      BY <1>1, <1>3, <3>1, <3>3, CommittedInOrder
  <2> QED
    BY <2>1, <2>2
<1>4. ~FresherState(s, u) \/ ~FresherState(u, s)
  BY <1>2, SMT DEF FresherState, Fresher
<1> QED
  BY <1>3, <1>4

(* No election loses what an earlier manager committed.                     *)
THEOREM NothingLost == ~LateAnswers => (Spec => []NoCommitLost)
<1> SUFFICES ASSUME ~LateAnswers PROVE Spec => []NoCommitLost
  OBVIOUS
<1>1. Inv /\ CommitInv => NoCommitLost
  BY CommittedOrdered DEF NoCommitLost
<1> QED
  BY <1>1, InvAlways, CommitInvariant, PTL

(* A handler does not take back what its node committed.                    *)
LEMMA CommitsForth ==
    ASSUME ~LateAnswers, Inv, CommitInv, NEW n \in Node, NEW q, Kept(n, q)
    PROVE  node[n].committed.lineage \subseteq q.committed.lineage
<1>1. /\ Fine(Now(n, q), Out(q)) /\ Consistent(Now(n, q), Out(q)) /\ Itself(n, q)
      /\ ~FresherState(node[n].committed, q.committed)
  BY NowFine, KeptItself DEF Kept, Forth
<1>2. Blank(node[n].committed) \/ Noted(Out(q), node[n].committed)
  <2>1. Blank(node[n].committed) \/ Noted(msgs, node[n].committed)
    BY DEF CommitInv, Consistent, TakenFromManagers
  <2>2. msgs \subseteq Out(q)
    BY DEF Out
  <2> QED
    BY <2>1, <2>2, MoreMessages
<1>3. CASE Blank(node[n].committed)
  BY <1>3 DEF Blank
<1>4. CASE Noted(Out(q), node[n].committed)
  <2>1. node[n].committed.term > 0
    BY <1>1, <1>4, PublishedTerm
  <2>2. node[n].committed.term \in Nat /\ q.committed.term \in Nat
    BY NodeGood, GoodFields DEF Kept
  <2>3. q.committed.term > 0
    BY <1>1, <2>1, <2>2, SMT DEF FresherState, Fresher
  <2>4. q.committed \in Published(Out(q))
    BY <1>1, <2>3, PublishedTerm, SMT DEF Itself, TakenFromManagers, Blank
  <2> QED
    BY <1>1, <1>4, <2>4, CommittedInOrder
<1> QED
  BY <1>2, <1>3, <1>4

(* The records after a handler.                                             *)
LEMMA Afterwards ==
    ASSUME Inv, NEW n \in Node, NEW q, Kept(n, q), Delivers(n, q)
    PROVE  /\ \A k \in Node \ {n} : node'[k] = node[k]
           /\ node'[n].committed = q.committed /\ node'[n].accepted = q.accepted
           /\ node'[n].term = q.term
           /\ msgs' = Out(q)
<1>1. q \in NodeState
  BY GoodFields DEF Kept
<1>2. PICK e : e = [q EXCEPT !.out = {}]
  OBVIOUS
<1>3. e.committed = q.committed /\ e.accepted = q.accepted /\ e.term = q.term
  BY <1>1, <1>2 DEF NodeState
<1>4. node' = [node EXCEPT ![n] = e] /\ node \in [Node -> NodeState]
  BY <1>2 DEF Delivers, Inv, TypeOK
<1>5. node'[n] = e /\ \A k \in Node \ {n} : node'[k] = node[k]
  BY <1>4
<1>6. msgs' = Out(q)
  BY DEF Delivers, Out
<1> QED
  BY <1>3, <1>5, <1>6

(* No step takes back a node's term, what it accepted or what it committed. *)
LEMMA StepForth ==
    ASSUME ~LateAnswers, Inv, CommitInv, Inv', [Next]_vars
    PROVE  \A k \in Node :
              /\ node[k].committed.lineage \subseteq node'[k].committed.lineage
              /\ ~FresherState(node[k].accepted, node'[k].accepted)
              /\ node[k].term <= node'[k].term
<1> SUFFICES ASSUME NEW k \in Node
             PROVE  /\ node[k].committed.lineage \subseteq node'[k].committed.lineage
                    /\ ~FresherState(node[k].accepted, node'[k].accepted)
                    /\ node[k].term <= node'[k].term
  OBVIOUS
<1>1. CASE node'[k] = node[k]
  <2>1. node[k].accepted \in ClusterState /\ node[k].term \in Nat
    BY NodeGood, GoodFields
  <2> QED
    BY <1>1, <2>1, NotFresherThanItself, SMT
<1>2. CASE Next
  <2>1. PICK n \in Node : Handled(n)
    BY <1>2, NextHandled
  <2>2. PICK q : Kept(n, q) /\ Delivers(n, q)
    BY <2>1 DEF Handled
  <2>3. CASE k = n
    BY <2>2, <2>3, Afterwards, CommitsForth, SMT DEF Kept, Further
  <2>4. CASE k # n
    BY <1>1, <2>2, <2>4, Afterwards
  <2> QED
    BY <2>3, <2>4
<1> QED
  BY <1>1, <1>2 DEF vars

(* What a node committed or accepted is never taken back, a restart         *)
(* included (apply_committed, handle_publish, Coordinator::new).            *)
THEOREM NeverGoesBack == ~LateAnswers => (Spec => NothingGoesBack)
<1> SUFFICES ASSUME ~LateAnswers PROVE Spec => NothingGoesBack
  OBVIOUS
<1>1. Inv /\ CommitInv /\ Inv' /\ [Next]_vars =>
         [\A n \in Node :
            /\ node[n].committed.lineage \subseteq node'[n].committed.lineage
            /\ ~FresherState(node[n].accepted, node'[n].accepted)
            /\ node[n].term <= node'[n].term]_vars
  BY StepForth
<1> QED
  BY <1>1, InvAlways, CommitInvariant, PTL DEF Spec, NothingGoesBack

-----------------------------------------------------------------------------
(* The committed states are ClusterLog's log.                               *)

(* The abstract log counts its entries with the same Cardinality.           *)
LEMMA SameCardinality == \A S : ClusterLogOf!Cardinality(S) = Cardinality(S)
  BY DEF ClusterLogOf!Cardinality, Cardinality

(* The part of a log up to a version is a prefix.                           *)
LEMMA PrefixOf ==
    ASSUME NEW L, IsFiniteSet(L), {x.version : x \in L} = 1 .. Cardinality(L),
           \A x, y \in L : x.version = y.version => x = y,
           NEW l \in SUBSET L, {x.version : x \in l} = 1 .. Cardinality(l)
    PROVE  l \in ClusterLogOf!Prefixes(L)
<1> DEFINE k == Cardinality(l)
<1>1. IsFiniteSet(l) /\ k \in Nat /\ Cardinality(L) \in Nat /\ k <= Cardinality(L)
  BY FS_Subset, FS_CardinalityType
<1>2. \A x \in L : x.version \in 1 .. Cardinality(L)
  OBVIOUS
<1>3. ASSUME NEW x \in l
      PROVE  x.version \in 1 .. k
  <2>1. x.version \in {y.version : y \in l}
    OBVIOUS
  <2> QED
    BY <2>1
<1>4. ASSUME NEW x \in L, x.version <= k
      PROVE  x \in l
  <2>1. x.version \in 1 .. k
    BY <1>1, <1>2, <1>4, SMT
  <2>2. PICK y \in l : y.version = x.version
    BY <2>1
  <2> QED
    BY <2>2
<1>5. ASSUME NEW x \in l
      PROVE  x.version <= k
  BY <1>1, <1>3, SMT
<1> HIDE DEF k
<1>6. l = {x \in L : x.version <= k}
  BY <1>4, <1>5
<1>7. k \in 0 .. Cardinality(L) /\ l = ClusterLogOf!Upto(L, k)
  BY <1>1, <1>6, SMT DEF ClusterLogOf!Upto
<1> HIDE DEF ClusterLogOf!Upto
<1> QED
  BY <1>7, SameCardinality DEF ClusterLogOf!Prefixes

(* The log is what the newest committed state was built from, and every     *)
(* other committed state is a prefix of it.                                 *)
LogShape ==
    /\ IsFiniteSet(Log)
    /\ \A x, y \in Log : x.version = y.version => x = y
    /\ ClusterLogOf!WellFormed(Log)
    /\ {} \in ClusterLogOf!Prefixes(Log)
    /\ Log = {} \/ \E c \in Of(msgs, "CommitNote") : Log = c.state.lineage
    /\ \A c \in Of(msgs, "CommitNote") :
          c.state.lineage \subseteq Log /\ c.state.lineage \in ClusterLogOf!Prefixes(Log)
    /\ \A n \in Node : /\ node[n].committed.lineage \subseteq Log
                       /\ node[n].committed.lineage \in ClusterLogOf!Prefixes(Log)

(* It has that shape.                                                       *)
LEMMA LogHasShape ==
    ASSUME ~LateAnswers, Inv, CommitInv
    PROVE  LogShape
<1>1. Fine(node, msgs) /\ Consistent(node, msgs)
  BY NowIsFine DEF CommitInv
<1>2. ASSUME NEW s, Noted(msgs, s)
      PROVE  /\ Descended(s) /\ s.version \in Nat
             /\ {x.version : x \in s.lineage} = 1 .. Cardinality(s.lineage)
  <2>1. s \in Published(msgs) /\ s.version \in Nat
    BY <1>1, <1>2, PublishedTerm, PublishedType DEF Fine
  <2>2. PICK p \in Of(msgs, "Publish") : p.state = s
    BY <2>1 DEF Published
  <2>3. Descended(s)
    BY <1>1, <2>2 DEF Consistent, PublishedByElected
  <2> QED
    BY <2>1, <2>3 DEF Descended
<1>3. \A c \in Of(msgs, "CommitNote") : c.state \in Committed /\ Noted(msgs, c.state)
  <2> SUFFICES ASSUME NEW c \in Of(msgs, "CommitNote")
               PROVE  c.state \in Committed /\ Noted(msgs, c.state)
    OBVIOUS
  <2>1. c.state \in ClusterState /\ c \in Sent("CommitNote")
    BY MessageFields DEF Of, Sent, Inv, TypeOK
  <2>2. c.state.last_accepted_config = c.state.last_committed_config
    BY <2>1 DEF Inv, ElectionInv, ConfigurationKept, Configured
  <2>3. c.state = [c.state EXCEPT !.last_committed_config = c.state.last_accepted_config]
    BY <2>1, <2>2 DEF ClusterState
  <2> QED
    BY <2>1, <2>3 DEF Committed, Noted
<1>4. \A s \in Committed : Blank(s) \/ Noted(msgs, s)
  BY CommittedNoted
<1>5. \A s \in Committed : s.lineage \subseteq Log
  BY DEF Log
<1>6. \A n \in Node : node[n].committed \in Committed
  BY DEF Committed
<1>7. Log = {} \/ \E c \in Of(msgs, "CommitNote") : Log = c.state.lineage
  <2>1. CASE Of(msgs, "CommitNote") = {}
    <3>1. \A s \in Committed : s.lineage = {}
      BY <1>4, <2>1 DEF Blank, Noted
    <3> QED
      BY <3>1 DEF Log
  <2>2. CASE Of(msgs, "CommitNote") # {}
    <3>1. PICK c \in Of(msgs, "CommitNote") : \A d \in Of(msgs, "CommitNote") :
            d.state.lineage \subseteq c.state.lineage
      BY <1>1, <2>2 DEF Consistent, NewestCommit
    <3>2. \A s \in Committed : s.lineage \subseteq c.state.lineage
      BY <1>4, <3>1 DEF Blank, Noted
    <3>3. Log \subseteq c.state.lineage
      BY <3>2 DEF Log
    <3> QED
      BY <1>3, <1>5, <3>3
  <2> QED
    BY <2>1, <2>2
<1>8. /\ IsFiniteSet(Log)
      /\ \A x, y \in Log : x.version = y.version => x = y
      /\ {x.version : x \in Log} = 1 .. Cardinality(Log)
      /\ \A x, y \in Log : x.version <= y.version => x.term <= y.term
  <2>1. CASE Log = {}
    <3>1. IsFiniteSet({}) /\ Cardinality({}) = 0
      BY FS_EmptySet
    <3>2. {x.version : x \in {}} = 1 .. 0
      BY SMT
    <3> QED
      BY <2>1, <3>1, <3>2
  <2>2. CASE \E c \in Of(msgs, "CommitNote") : Log = c.state.lineage
    <3>1. PICK c \in Of(msgs, "CommitNote") : Log = c.state.lineage
      BY <2>2
    <3> QED
      BY <1>2, <1>3, <3>1 DEF Descended
  <2> QED
    BY <1>7, <2>1, <2>2
<1> HIDE DEF Log
<1>9. ClusterLogOf!WellFormed(Log)
  BY <1>8, SameCardinality DEF ClusterLogOf!WellFormed
<1>10. {} \in ClusterLogOf!Prefixes(Log)
  <2>1. {} \in SUBSET Log
    OBVIOUS
  <2>2. {x.version : x \in {}} = 1 .. Cardinality({})
    <3>1. Cardinality({}) = 0
      BY FS_EmptySet
    <3> QED
      BY <3>1, SMT
  <2> QED
    BY <1>8, <2>1, <2>2, PrefixOf
<1>11. ASSUME NEW s \in Committed
       PROVE  s.lineage \subseteq Log /\ s.lineage \in ClusterLogOf!Prefixes(Log)
  <2>1. s.lineage \in SUBSET Log
    BY <1>5
  <2>2. CASE Blank(s)
    BY <1>10, <2>1, <2>2 DEF Blank
  <2>3. CASE Noted(msgs, s)
    <3>1. {x.version : x \in s.lineage} = 1 .. Cardinality(s.lineage)
      BY <1>2, <2>3
    <3> QED
      BY <1>8, <2>1, <3>1, PrefixOf
  <2> QED
    BY <1>4, <2>2, <2>3
<1> QED
  BY <1>3, <1>6, <1>7, <1>8, <1>9, <1>10, <1>11 DEF LogShape

(* Two committed states, in the middle of a handler.                        *)
LEMMA NotedOrdered ==
    ASSUME ~LateAnswers, Inv, NEW n \in Node, NEW q, Kept(n, q),
           NEW s, NEW u, Noted(Out(q), s), Noted(Out(q), u)
    PROVE  /\ ~FresherState(s, u) => s.lineage \subseteq u.lineage
           /\ s.lineage \subseteq u.lineage \/ u.lineage \subseteq s.lineage
<1>1. Fine(Now(n, q), Out(q)) /\ Consistent(Now(n, q), Out(q))
  BY NowFine DEF Kept
<1>2. s \in Published(Out(q)) /\ u \in Published(Out(q))
  BY <1>1, PublishedTerm
<1>3. s.term \in Nat /\ s.version \in Nat /\ u.term \in Nat /\ u.version \in Nat
  BY <1>1, <1>2, PublishedType DEF Fine
<1>4. ~FresherState(s, u) => s.lineage \subseteq u.lineage
  BY <1>1, <1>2, CommittedInOrder
<1>5. ~FresherState(u, s) => u.lineage \subseteq s.lineage
  BY <1>1, <1>2, CommittedInOrder
<1>6. ~FresherState(s, u) \/ ~FresherState(u, s)
  BY <1>3, SMT DEF FresherState, Fresher
<1> QED
  BY <1>4, <1>5, <1>6

(* What a manager commits in a handler is what its node has then committed. *)
LEMMA CommitsAsManager ==
    ASSUME ~LateAnswers, Inv, NEW n \in Node, NEW q, Kept(n, q),
           NEW c \in Of(q.out, "CommitNote")
    PROVE  c.state.lineage \subseteq q.committed.lineage /\ q.committed.manager = n
<1>1. ~FresherState(c.state, q.committed) /\ q.committed.manager = n
  BY DEF Kept, Forth
<1>2. Noted(Out(q), c.state)
  BY DEF Noted, Of, Out
<1>3. Consistent(Now(n, q), Out(q)) /\ Itself(n, q) /\ Fine(Now(n, q), Out(q))
  BY KeptItself, NowFine DEF Kept
<1>4. c.state.term > 0 /\ c.state.term \in Nat /\ q.committed.term \in Nat
  <2>1. c.state \in Published(Out(q)) /\ c.state.term > 0
    BY <1>2, <1>3, PublishedTerm
  <2> QED
    BY <1>3, <2>1, PublishedType, GoodFields DEF Fine, Kept
<1>5. q.committed.term > 0
  BY <1>1, <1>4, SMT DEF FresherState, Fresher
<1>6. Noted(Out(q), q.committed)
  BY <1>3, <1>5, SMT DEF Itself, TakenFromManagers, Blank
<1> QED
  BY <1>1, <1>2, <1>6, NotedOrdered

(* A step commits at one manager, or one node learns of a commit, or the    *)
(* log and what is seen of it stay.                                         *)
LEMMA LogStep ==
    ASSUME ~LateAnswers, Inv, CommitInv, Inv', LogShape, LogShape', [Next]_vars
    PROVE  [ClusterLogOf!Next]_(ClusterLogOf!logVars)
<1>1. CASE UNCHANGED vars
  <2>1. Committed' = Committed
    BY <1>1 DEF vars, Committed, Sent
  <2>2. Log' = Log /\ Seen' = Seen
    BY <1>1, <2>1 DEF Log, Seen, vars
  <2> QED
    BY <2>2 DEF ClusterLogOf!logVars
<1>2. CASE Next
  <2>1. PICK n \in Node : Handled(n)
    BY <1>2, NextHandled
  <2>2. PICK q : Kept(n, q) /\ Delivers(n, q)
    BY <2>1 DEF Handled
  <2> DEFINE l == q.committed.lineage
  <2>3. /\ \A k \in Node \ {n} : node'[k] = node[k]
        /\ node'[n].committed = q.committed /\ msgs' = Out(q)
    BY <2>2, Afterwards
  <2>4. Seen' = [Seen EXCEPT ![n] = l] /\ Seen[n] = node[n].committed.lineage
        /\ Seen'[n] = l
    BY <2>3 DEF Seen
  <2>5. /\ Of(msgs, "CommitNote") \subseteq Of(Out(q), "CommitNote")
        /\ Of(msgs', "CommitNote") = Of(Out(q), "CommitNote")
        /\ Of(Out(q), "CommitNote") \subseteq
             Of(msgs, "CommitNote") \cup Of(q.out, "CommitNote")
    BY <2>3 DEF Of, Out
  <2>6. /\ Log' = {} \/ \E c \in Of(Out(q), "CommitNote") : Log' = c.state.lineage
        /\ \A c \in Of(Out(q), "CommitNote") : c.state.lineage \subseteq Log'
        /\ \A c \in Of(Out(q), "CommitNote") : c.state.lineage \in ClusterLogOf!Prefixes(Log')
        /\ l \subseteq Log' /\ l \in ClusterLogOf!Prefixes(Log')
        /\ {} \in ClusterLogOf!Prefixes(Log')
        /\ ClusterLogOf!WellFormed(Log') /\ IsFiniteSet(Log')
        /\ \A x, y \in Log' : x.version = y.version => x = y
    BY <2>3, <2>5 DEF LogShape
  <2>7. /\ Log = {} \/ \E c \in Of(msgs, "CommitNote") : Log = c.state.lineage
        /\ \A c \in Of(msgs, "CommitNote") : c.state.lineage \subseteq Log
        /\ node[n].committed.lineage \subseteq Log
    BY DEF LogShape
  <2>8. \A c \in Of(q.out, "CommitNote") : c.state.lineage \subseteq l
    BY <2>2, CommitsAsManager
  <2>9. Log \subseteq Log' /\ Log' \subseteq Log \cup l
    BY <2>5, <2>6, <2>7, <2>8
  <2>10. node[n].committed.lineage \subseteq l
    BY <2>2, CommitsForth
  <2>11. CASE l \subseteq Log
    <3>1. Log' = Log
      BY <2>9, <2>11
    <3>2. CASE l = Seen[n]
      <4>1. Seen' = Seen
        BY <2>4, <3>2 DEF Seen
      <4> QED
        BY <3>1, <4>1 DEF ClusterLogOf!logVars
    <3>3. CASE l # Seen[n]
      <4>1. IsFiniteSet(l)
        BY <2>6, FS_Subset
      <4>2. Cardinality(Seen[n]) < Cardinality(l)
        <5>1. /\ Cardinality(Seen[n]) <= Cardinality(l)
              /\ Cardinality(Seen[n]) = Cardinality(l) => Seen[n] = l
          BY <2>4, <2>10, <4>1, FS_Subset
        <5>2. Cardinality(l) \in Nat /\ Cardinality(Seen[n]) \in Nat
          BY <2>4, <2>10, <4>1, FS_Subset, FS_CardinalityType
        <5> QED
          BY <3>3, <5>1, <5>2, SMT
      <4>3. ClusterLogOf!Cardinality(l) > ClusterLogOf!Cardinality(Seen[n])
        BY <4>2, SameCardinality
      <4>4. ClusterLogOf!Learn(n)
        <5>1. l \in ClusterLogOf!Prefixes(Log)
          BY <2>6, <3>1
        <5> QED
          BY <2>4, <3>1, <3>3, <4>3, <5>1 DEF ClusterLogOf!Learn
      <4> QED
        BY <4>4 DEF ClusterLogOf!Next
    <3> QED
      BY <3>2, <3>3
  <2>12. CASE ~(l \subseteq Log)
    <3>1. Noted(Out(q), q.committed) /\ ~Noted(msgs, q.committed)
      <4>1. l # {} /\ Itself(n, q)
        BY <2>2, <2>12, KeptItself
      <4>2. Noted(Out(q), q.committed)
        BY <4>1 DEF Itself, TakenFromManagers, Blank
      <4>3. ~Noted(msgs, q.committed)
        BY <2>7, <2>12 DEF Noted
      <4> QED
        BY <4>2, <4>3
    <3>2. q.committed.manager = n
      <4>1. PICK c \in Of(Out(q), "CommitNote") : c.state = q.committed
        BY <3>1 DEF Noted
      <4>2. c \in Of(q.out, "CommitNote")
        BY <2>5, <3>1, <4>1 DEF Noted
      <4> QED
        BY <2>2, <4>2, CommitsAsManager
    <3>3. Log \subseteq l
      <4>1. CASE Log = {}
        BY <4>1
      <4>2. CASE Log # {}
        <5>1. PICK c \in Of(msgs, "CommitNote") : Log = c.state.lineage
          BY <2>7, <4>2
        <5>2. Noted(Out(q), c.state)
          BY <2>5 DEF Noted
        <5>3. Log \subseteq l \/ l \subseteq Log
          BY <2>2, <3>1, <5>1, <5>2, NotedOrdered
        <5> QED
          BY <2>12, <5>3
      <4> QED
        BY <4>1, <4>2
    <3>4. Log' = l
      BY <2>6, <2>9, <3>3
    <3>5. Log \in ClusterLogOf!Prefixes(Log') \ {Log'}
      <4>1. Log # Log'
        BY <2>12, <3>4
      <4>2. CASE Log = {}
        <5>1. Log \in ClusterLogOf!Prefixes(Log')
          BY <2>6, <4>2
        <5> QED
          BY <4>1, <5>1
      <4>3. CASE Log # {}
        <5>1. PICK c \in Of(msgs, "CommitNote") : Log = c.state.lineage
          BY <2>7, <4>3
        <5>2. c \in Of(Out(q), "CommitNote")
          BY <2>5
        <5>3. Log \in ClusterLogOf!Prefixes(Log')
          BY <2>6, <5>1, <5>2
        <5> QED
          BY <4>1, <5>3
      <4> QED
        BY <4>2, <4>3
    <3>6. ClusterLogOf!Last(Log').manager = n
      <4>1. Descended(q.committed)
        <5>1. Consistent(Now(n, q), Out(q))
          BY <2>2 DEF Kept
        <5>2. q.committed \in Published(Out(q))
          BY <3>1, <5>1, PublishedTerm
        <5>3. PICK p \in Of(Out(q), "Publish") : p.state = q.committed
          BY <5>2 DEF Published
        <5> QED
          BY <5>1, <5>3 DEF Consistent, PublishedByElected
      <4> DEFINE x == Name(q.committed.term, q.committed.manager, q.committed.version)
      <4>2. x \in l /\ x.version = Cardinality(l) /\ x.manager = n
        BY <3>2, <4>1 DEF Descended, Name
      <4> HIDE DEF x
      <4>3. x \in Log' /\ x.version = ClusterLogOf!Cardinality(Log')
        BY <3>4, <4>2, SameCardinality
      <4>4. \A y \in Log' : y.version = ClusterLogOf!Cardinality(Log') => y = x
        BY <2>6, <4>3
      <4>5. ClusterLogOf!Last(Log') = x
        BY <4>3, <4>4 DEF ClusterLogOf!Last
      <4> QED
        BY <4>2, <4>5
    <3>7. Seen'[n] # Seen[n]
      BY <2>4, <2>7, <2>12
    <3>8. ClusterLogOf!Commit(n)
      BY <2>4, <2>6, <3>4, <3>5, <3>6, <3>7 DEF ClusterLogOf!Commit
    <3> QED
      BY <3>8 DEF ClusterLogOf!Next
  <2> QED
    BY <2>11, <2>12
<1> QED
  BY <1>1, <1>2

(* Coordination implements ClusterLog: the committed states are one log     *)
(* that every node moves along, for any number of nodes, terms, versions,   *)
(* elections and restarts, if an answer reaches the process that asked, or  *)
(* none (become_leader, publish, commit_publication, apply_committed).      *)
THEOREM ImplementsLog == ~LateAnswers => (Spec => OneLog)
<1> SUFFICES ASSUME ~LateAnswers PROVE Spec => OneLog
  OBVIOUS
<1>1. Inv /\ CommitInv => LogShape
  BY LogHasShape
<1>2. LogShape => ClusterLogOf!Init
  BY DEF LogShape, ClusterLogOf!Init, Seen
<1>3. Inv /\ CommitInv /\ Inv' /\ LogShape /\ LogShape' /\ [Next]_vars =>
         [ClusterLogOf!Next]_(ClusterLogOf!logVars)
  BY LogStep
<1> QED
  BY <1>1, <1>2, <1>3, InvAlways, CommitInvariant, PTL
     DEF Spec, OneLog, ClusterLogOf!Spec
=============================================================================
