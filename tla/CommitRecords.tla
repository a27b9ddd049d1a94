---------------------------- MODULE CommitRecords ----------------------------
(***************************************************************************)
(* With a fixed configuration of any size, the committed cluster states    *)
(* are one log.                                                            *)
(*                                                                         *)
(* A handler is followed call by call: Kept says of the record a node has  *)
(* between two calls, and of what it has put out so far, what CommitInv    *)
(* says between two handlers.  Each call keeps it.                         *)
(***************************************************************************)
EXTENDS CoordinationProofs

(* Leaves that need arithmetic cite SMT; the others are left to Zenon. *)
USE Zenon

(* The nodes' records and the messages in the middle of a handler of n.     *)
Now(n, r) == [node EXCEPT ![n] = r]
Out(r) == msgs \cup r.out

(* Node n's committed state has not gone back since the handler began, and  *)
(* what it has committed as a manager is not ahead of it.                   *)
Forth(n, r) ==
    /\ ~FresherState(node[n].committed, r.committed)
    /\ \A c \in Of(r.out, "CommitNote") :
          ~FresherState(c.state, r.committed) /\ r.committed.manager = n

(* Neither have its term and what it has accepted.                          *)
Further(n, r) ==
    /\ node[n].term <= r.term
    /\ ~FresherState(node[n].accepted, r.accepted)

Kept(n, r) ==
    /\ Good(r)
    /\ OneLeader(Out(r))
    /\ Consistent(Now(n, r), Out(r))
    /\ Forth(n, r)
    /\ Further(n, r)

(* Moves, of one record.                                                    *)
Proceeds(r, q) ==
    /\ r.term <= q.term
    /\ ~FresherState(r.accepted, q.accepted)
    /\ \/ r.run < q.run
       \/ r.run = q.run /\ r.next_request <= q.next_request
    /\ r.out \subseteq q.out

(* What Consistent says of node n itself.                                   *)
Itself(n, r) ==
    /\ TakenFromManagers(Out(r), r)
    /\ RoleKept(Out(r), n, r)
    /\ VotesCounted(Out(r), n, r)

(* What it asks of a message that publishes nothing and elects nobody.      *)
SaysTrue(n, r, q, m) ==
    /\ m.type \notin {"Publish", "LeaderNote"}
    /\ m.type = "Join" => VoteTells(Now(n, q), Out(q), m)
    /\ m.type = "JoinResponse" => JoinAnswered(Now(n, q), Out(q), m)
    /\ m.type = "Commit" => RequestTrue(Out(q), m)
    /\ m.type = "CommitNote" => CommitTrue(Out(q), m)
    /\ m.type = "PublishResponse" =>
          AnswerTrue(Now(n, q), Out(q), m) /\ m.from = n /\ m.term = r.term

-----------------------------------------------------------------------------

(* The fields of a good record.                                             *)
LEMMA GoodFields ==
    ASSUME NEW r, Good(r)
    PROVE  /\ r \in NodeState /\ r.term \in Nat /\ r.run \in Nat /\ r.next_request \in Nat
           /\ r.accepted \in ClusterState /\ r.committed \in ClusterState
           /\ r.accepted.term \in Nat /\ r.accepted.version \in Nat
           /\ r.committed.term \in Nat /\ r.committed.version \in Nat
           /\ r.out \subseteq Messages /\ r.join_votes \subseteq Node
           /\ ~FresherState(r.committed, r.accepted) /\ r.accepted.term <= r.term
           /\ r.mode = "Leader" => r.accepted.term = r.term /\ r.term > 0
           /\ Configured(r.accepted) /\ Configured(r.committed)
<1>1. r \in NodeState
  BY DEF Good, Sound
<1>2. r.out \subseteq Messages
  BY <1>1 DEF NodeState
<1> QED
  BY <1>1, <1>2, RecordFields, StateFields DEF Good, Sound

(* Records and messages in the middle of a handler have their shape.        *)
LEMMA NowFine ==
    ASSUME Inv, NEW n \in Node, NEW r, Good(r)
    PROVE  /\ Fine(Now(n, r), Out(r))
           /\ Now(n, r)[n] = r
           /\ \A k \in Node : k # n => Now(n, r)[k] = node[k]
<1>1. node \in [Node -> NodeState] /\ msgs \subseteq Messages
  BY DEF Inv, TypeOK
<1>2. /\ r \in NodeState /\ r.out \subseteq Messages /\ r.accepted.term <= r.term
  BY GoodFields
<1>3. \A k \in Node : node[k].accepted.term <= node[k].term
  BY DEF Inv, ElectionInv, ConfigurationKept
<1> QED
  BY <1>1, <1>2, <1>3 DEF Now, Out, Fine

(* A record that proceeds moves the node.                                   *)
LEMMA NowMoves ==
    ASSUME Inv, NEW n \in Node, NEW r, NEW q, Good(r), Good(q), Proceeds(r, q)
    PROVE  Moves(Now(n, r), Out(r), Now(n, q), Out(q), n)
<1>1. /\ Now(n, r)[n] = r /\ Now(n, q)[n] = q
      /\ \A k \in Node : k # n => Now(n, r)[k] = node[k] /\ Now(n, q)[k] = node[k]
  BY NowFine, SMT
<1>2. Out(r) \subseteq Out(q)
  BY DEF Out, Proceeds
<1> QED
  BY <1>1, <1>2 DEF Moves, Proceeds

(* Between handlers, the record of a node is kept.                          *)
LEMMA AtRest ==
    ASSUME Inv, CommitInv, NEW n \in Node
    PROVE  Kept(n, node[n]) /\ Out(node[n]) = msgs /\ Now(n, node[n]) = node
<1>1. Good(node[n]) /\ node[n].out = {}
  BY NodeGood
<1>2. Out(node[n]) = msgs
  BY <1>1 DEF Out
<1>3. Now(n, node[n]) = node
  BY DEF Now, Inv, TypeOK
<1>4. OneLeader(msgs)
  BY InvOneLeader DEF OneLeader, OneLeaderPerTerm, Of, Sent
<1>5. Forth(n, node[n])
  <2>1. node[n].committed.term \in Nat /\ node[n].committed.version \in Nat
    BY <1>1, GoodFields
  <2>2. ~FresherState(node[n].committed, node[n].committed)
    BY <2>1, SMT DEF FresherState, Fresher
  <2>3. Of({}, "CommitNote") = {}
    BY DEF Of
  <2> QED
    BY <1>1, <2>2, <2>3 DEF Forth
<1>6. Further(n, node[n])
  <2>1. /\ node[n].accepted.term \in Nat /\ node[n].accepted.version \in Nat
        /\ node[n].term \in Nat
    BY <1>1, GoodFields
  <2> QED
    BY <2>1, SMT DEF Further, FresherState, Fresher
<1> QED
  BY <1>1, <1>2, <1>3, <1>4, <1>5, <1>6 DEF Kept, CommitInv

(* A record that proceeds is further.                                       *)
LEMMA FurtherOn ==
    ASSUME Inv, NEW n \in Node, NEW r, NEW q, Good(r), Good(q), Further(n, r), Proceeds(r, q)
    PROVE  Further(n, q)
<1>1. /\ Good(node[n]) /\ node[n].term \in Nat
  BY NodeGood
<1>2. /\ node[n].accepted.term \in Nat /\ node[n].accepted.version \in Nat
      /\ r.accepted.term \in Nat /\ r.accepted.version \in Nat /\ r.term \in Nat
      /\ q.accepted.term \in Nat /\ q.accepted.version \in Nat /\ q.term \in Nat
  BY <1>1, GoodFields
<1>3. /\ node[n].term <= r.term /\ r.term <= q.term
      /\ ~FresherState(node[n].accepted, r.accepted)
      /\ ~FresherState(r.accepted, q.accepted)
  BY DEF Further, Proceeds
<1>4. ~FresherState(node[n].accepted, q.accepted)
  BY <1>2, <1>3, SMT DEF FresherState, Fresher
<1> QED
  BY <1>1, <1>2, <1>3, <1>4, SMT DEF Further

(* A call that publishes nothing.                                           *)
LEMMA KeptPlain ==
    ASSUME Inv, NEW n \in Node, NEW r, NEW q, Kept(n, r), Good(q), Proceeds(r, q),
           Itself(n, q), Forth(n, q),
           \A m \in q.out \ r.out : SaysTrue(n, r, q, m),
           NewestCommit(Out(q))
    PROVE  Kept(n, q)
<1>1. /\ Fine(Now(n, r), Out(r)) /\ Fine(Now(n, q), Out(q))
      /\ Now(n, r)[n] = r /\ Now(n, q)[n] = q
  BY NowFine DEF Kept
<1>2. Moves(Now(n, r), Out(r), Now(n, q), Out(q), n)
  BY NowMoves DEF Kept
<1>3. \A m \in Out(q) \ Out(r) : SaysTrue(n, r, q, m)
  BY DEF Out
<1>4. Consistent(Now(n, q), Out(q))
  <2>1. \A m \in Out(q) \ Out(r) :
            /\ m.type \notin {"Publish", "LeaderNote"}
            /\ m.type = "Join" => VoteTells(Now(n, q), Out(q), m)
            /\ m.type = "JoinResponse" => JoinAnswered(Now(n, q), Out(q), m)
            /\ m.type = "Commit" => RequestTrue(Out(q), m)
            /\ m.type = "CommitNote" => CommitTrue(Out(q), m)
            /\ m.type = "PublishResponse" =>
                  AnswerTrue(Now(n, q), Out(q), m) /\ m.from = n /\ m.term = Now(n, r)[n].term
    BY <1>1, <1>3 DEF SaysTrue
  <2>2. /\ TakenFromManagers(Out(q), Now(n, q)[n])
        /\ RoleKept(Out(q), n, Now(n, q)[n])
        /\ VotesCounted(Out(q), n, Now(n, q)[n])
    BY <1>1 DEF Itself
  <2>3. Consistent(Now(n, r), Out(r))
    BY DEF Kept
  <2> QED
    BY <1>1, <1>2, <2>1, <2>2, <2>3, PlainCall, SMT
<1>5. OneLeader(Out(q))
  <2>1. Of(Out(q), "LeaderNote") = Of(Out(r), "LeaderNote")
    BY <1>3 DEF SaysTrue, Of, Out, Proceeds
  <2> QED
    BY <2>1 DEF Kept, OneLeader
<1>6. Further(n, q)
  BY FurtherOn DEF Kept
<1> QED
  BY <1>4, <1>5, <1>6 DEF Kept

(* A call that sends nothing.                                               *)
LEMMA KeptQuiet ==
    ASSUME Inv, NEW n \in Node, NEW r, NEW q, Kept(n, r), Good(q), Proceeds(r, q),
           q.out = r.out, Itself(n, q), Forth(n, q)
    PROVE  Kept(n, q)
<1>1. Out(q) = Out(r)
  BY DEF Out
<1>2. NewestCommit(Out(q))
  BY <1>1 DEF Kept, Consistent
<1>3. \A m \in q.out \ r.out : SaysTrue(n, r, q, m)
  OBVIOUS
<1> QED
  BY <1>2, <1>3, KeptPlain

(* What is kept, of the node itself.                                        *)
LEMMA KeptItself ==
    ASSUME Inv, NEW n \in Node, NEW r, Kept(n, r)
    PROVE  Itself(n, r)
<1>1. Now(n, r)[n] = r
  BY NowFine DEF Kept
<1> QED
  BY <1>1 DEF Kept, Consistent, Itself

-----------------------------------------------------------------------------
(* Calls that publish nothing.                                              *)

(* Votes stay counted while a node stays in its term.                       *)
LEMMA VotesStay ==
    ASSUME NEW n \in Node, NEW r, NEW q, Good(r), Good(q), VotesCounted(Out(r), n, r),
           q.join_votes \subseteq r.join_votes, q.term = r.term,
           ~FresherState(r.accepted, q.accepted), r.out \subseteq q.out,
           msgs \subseteq Messages
    PROVE  VotesCounted(Out(q), n, q)
<1> SUFFICES ASSUME NEW v \in q.join_votes, v # n
             PROVE  \E j \in Of(Out(q), "Join") :
                      /\ j.from = v /\ j.term = q.term
                      /\ ~Fresher(j.accepted_term, j.accepted_version,
                                  q.accepted.term, q.accepted.version)
  BY DEF VotesCounted
<1>1. PICK j \in Of(Out(r), "Join") :
        /\ j.from = v /\ j.term = r.term
        /\ ~Fresher(j.accepted_term, j.accepted_version, r.accepted.term, r.accepted.version)
  BY DEF VotesCounted
<1>2. j \in Of(Out(q), "Join") /\ j \in Messages /\ j.type = "Join"
  <2>1. r.out \subseteq Messages
    BY GoodFields
  <2> QED
    BY <2>1 DEF Of, Out
<1>3. j.accepted_term \in Nat /\ j.accepted_version \in Nat
  BY <1>2, MessageFields
<1>4. /\ r.accepted.term \in Nat /\ r.accepted.version \in Nat
      /\ q.accepted.term \in Nat /\ q.accepted.version \in Nat
  BY GoodFields
<1>5. ~Fresher(j.accepted_term, j.accepted_version, q.accepted.term, q.accepted.version)
  BY <1>1, <1>3, <1>4, SMT DEF FresherState, Fresher
<1> QED
  BY <1>1, <1>2, <1>5

(* Nothing new is accepted or committed.                                    *)
LEMMA TakenStays ==
    ASSUME NEW r, NEW q, TakenFromManagers(Out(r), r), r.out \subseteq q.out,
           q.accepted = r.accepted, q.committed = r.committed
    PROVE  TakenFromManagers(Out(q), q)
<1>1. Out(r) \subseteq Out(q)
  BY DEF Out
<1> QED
  BY <1>1, MoreMessages DEF TakenFromManagers

(* A state is no fresher than itself.                                       *)
LEMMA NotFresherThanItself ==
    ASSUME NEW s \in ClusterState
    PROVE  ~FresherState(s, s)
  BY StateFields, SMT DEF FresherState, Fresher

(* A record with the fields that matter here unchanged.                     *)
Alike(r, q) ==
    /\ q.term = r.term /\ q.mode = r.mode /\ q.leader = r.leader
    /\ q.accepted = r.accepted /\ q.committed = r.committed
    /\ q.join_votes = r.join_votes /\ q.publishing = r.publishing
    /\ q.next_request = r.next_request /\ q.run = r.run /\ q.out = r.out

(* Other fields may change at will.                                         *)
LEMMA KeptAlike ==
    ASSUME Inv, NEW n \in Node, NEW r, NEW q, Kept(n, r), Good(q), Alike(r, q)
    PROVE  Kept(n, q)
<1>1. Itself(n, r) /\ Out(q) = Out(r)
  BY KeptItself DEF Alike, Out
<1>2. Itself(n, q)
  BY <1>1, SMT DEF Itself, TakenFromManagers, RoleKept, VotesCounted, InFlight, Alike
<1>3. Proceeds(r, q)
  <2>1. r.term \in Nat /\ r.next_request \in Nat /\ r.accepted \in ClusterState
    BY GoodFields DEF Kept
  <2> QED
    BY <2>1, NotFresherThanItself, SMT DEF Proceeds, Alike
<1>4. Forth(n, q)
  BY DEF Kept, Forth, Alike
<1> QED
  BY <1>2, <1>3, <1>4, KeptQuiet DEF Alike

(* become_candidate.                                                        *)
LEMMA KeptCandidate ==
    ASSUME Inv, NEW n \in Node, NEW r, Kept(n, r)
    PROVE  Kept(n, BecomeCandidate(r))
<1> DEFINE q == BecomeCandidate(r)
<1>1. Good(r) /\ r \in NodeState
  BY GoodFields DEF Kept
<1>2. Good(q)
  BY <1>1, BecomeCandidateGood
<1>3. /\ q.term = r.term /\ q.mode = "Candidate" /\ q.join_votes = r.join_votes
      /\ q.accepted = r.accepted /\ q.committed = r.committed /\ q.out = r.out
      /\ q.run = r.run /\ q.next_request = r.next_request
  BY <1>1 DEF BecomeCandidate, NodeState
<1> HIDE DEF q
<1>4. Proceeds(r, q)
  <2>1. r.term \in Nat /\ r.next_request \in Nat /\ r.accepted \in ClusterState
    BY <1>1, GoodFields
  <2> QED
    BY <1>3, <2>1, NotFresherThanItself, SMT DEF Proceeds
<1>5. Itself(n, q)
  <2>1. Itself(n, r) /\ msgs \subseteq Messages /\ r.accepted \in ClusterState
    BY <1>1, KeptItself, GoodFields DEF Inv, TypeOK
  <2>2. VotesCounted(Out(q), n, q)
    BY <1>1, <1>2, <1>3, <2>1, VotesStay, NotFresherThanItself DEF Itself
  <2>3. TakenFromManagers(Out(q), q)
    BY <1>3, <2>1, TakenStays DEF Itself
  <2> QED
    BY <1>3, <2>2, <2>3 DEF Itself, RoleKept
<1>6. Forth(n, q)
  BY <1>3 DEF Kept, Forth
<1>7. Kept(n, q)
  BY <1>2, <1>3, <1>4, <1>5, <1>6, KeptQuiet
<1> QED
  BY <1>7 DEF q

(* saw_term.                                                                *)
LEMMA KeptSawTerm ==
    ASSUME Inv, NEW n \in Node, NEW r, Kept(n, r), NEW term \in Nat
    PROVE  Kept(n, SawTerm(r, term)) /\ SawTerm(r, term).committed = r.committed
<1> DEFINE q == SawTerm(r, term)
<1>0. Good(r) /\ r \in NodeState /\ r.term \in Nat
  BY GoodFields DEF Kept
<1>1. CASE term <= r.term
  BY <1>1 DEF SawTerm
<1>2. CASE ~(term <= r.term)
  <2>1. /\ Good(q) /\ q.out = r.out /\ q.accepted = r.accepted /\ q.term = term
        /\ q.join_votes = {} /\ q.mode = "Candidate"
    BY <1>0, <1>2, SawTermGood
  <2>2. q.committed = r.committed /\ q.run = r.run /\ q.next_request = r.next_request
    BY <1>0, <1>2 DEF SawTerm, BecomeCandidate, NodeState
  <2> HIDE DEF q
  <2>3. Proceeds(r, q)
    <3>1. r.next_request \in Nat /\ r.accepted \in ClusterState
      BY <1>0, GoodFields
    <3> QED
      BY <1>0, <1>2, <2>1, <2>2, <3>1, NotFresherThanItself, SMT DEF Proceeds
  <2>4. Itself(n, q)
    <3>1. Itself(n, r)
      BY KeptItself
    <3>2. TakenFromManagers(Out(q), q)
      BY <2>1, <2>2, <3>1, TakenStays DEF Itself
    <3> QED
      BY <2>1, <3>2 DEF Itself, RoleKept, VotesCounted
  <2>5. Forth(n, q)
    BY <2>1, <2>2 DEF Kept, Forth
  <2>6. Kept(n, q)
    BY <2>1, <2>3, <2>4, <2>5, KeptQuiet
  <2> QED
    BY <2>2, <2>6 DEF q
<1> QED
  BY <1>1, <1>2

-----------------------------------------------------------------------------
(* Taking the first configuration, and committing.                          *)

(* A manager's states are of a term; what is noted is published.            *)
LEMMA PublishedTerm ==
    ASSUME NEW N, NEW M, Consistent(N, M)
    PROVE  /\ \A s \in Published(M) : s.term > 0
           /\ \A s : Noted(M, s) => s \in Published(M)
<1>1. \A p \in Of(M, "Publish") : p.state.term > 0
  BY DEF Consistent, PublishedByElected
<1>2. \A c \in Of(M, "CommitNote") : c.state \in Published(M)
  BY DEF Consistent, CommitTrue
<1> QED
  BY <1>1, <1>2 DEF Published, Noted

(* What a quorum accepted is in every state published that is as fresh.     *)
LEMMA AcceptedByQuorum ==
    ASSUME NEW N, NEW M, Fine(N, M), Consistent(N, M),
           NEW s \in Published(M), NEW u \in Published(M), ~FresherState(s, u),
           NEW Q \in SUBSET Node, HasQuorum(InitialConfig, Q), \A q \in Q : Accepts(M, q, s)
    PROVE  s.lineage \subseteq u.lineage
<1>1. /\ s.term \in Nat /\ s.version \in Nat /\ u.term \in Nat /\ u.version \in Nat
  BY PublishedType DEF Fine
<1>2. /\ s.term < u.term => s.lineage \subseteq u.lineage \/ Dead(N, M, s)
      /\ s.term = u.term /\ s.version <= u.version => s.lineage \subseteq u.lineage
  BY DEF Consistent, BuiltOn
<1>3. ~Dead(N, M, s)
  <2> SUFFICES ASSUME NEW P \in SUBSET Node, HasQuorum(InitialConfig, P),
                      \A q \in P : ~Accepts(M, q, s)
               PROVE  FALSE
    BY DEF Dead
  <2>1. IsFiniteSet(InitialConfig)
    BY NodeAssumption, ConfigAssumption, FS_Subset
  <2>2. \E q \in InitialConfig : q \in P /\ q \in Q
    BY <2>1, QuorumsIntersect
  <2> QED
    BY <2>2
<1> QED
  BY <1>1, <1>2, <1>3, SMT DEF FresherState, Fresher

(* Two committed states: the fresher was built on the other.                *)
LEMMA CommittedInOrder ==
    ASSUME NEW N, NEW M, Fine(N, M), Consistent(N, M), ~LateAnswers,
           NEW s, NEW u, Noted(M, s), u \in Published(M), ~FresherState(s, u)
    PROVE  s.lineage \subseteq u.lineage
<1>1. PICK c \in Of(M, "CommitNote") : c.state = s
  BY DEF Noted
<1>2. s \in Published(M)
  BY PublishedTerm
<1>3. PICK Q \in SUBSET Node : HasQuorum(InitialConfig, Q) /\ \A q \in Q : Accepts(M, q, s)
  BY <1>1 DEF Consistent, CommitTrue
<1> QED
  BY <1>2, <1>3, AcceptedByQuorum

(* bootstrap.                                                               *)
LEMMA KeptBootstrapped ==
    ASSUME Inv, NEW n \in Node, NEW r, Kept(n, r), r.accepted.last_accepted_config = {}
    PROVE  Kept(n, Bootstrapped(r))
<1> DEFINE q == Bootstrapped(r)
<1>1. /\ Good(r) /\ r \in NodeState /\ r.accepted \in ClusterState
      /\ r.committed \in ClusterState /\ r.term \in Nat /\ r.next_request \in Nat
      /\ r.accepted.term \in Nat /\ r.committed.term \in Nat
      /\ r.accepted.version \in Nat /\ r.committed.version \in Nat
      /\ ~FresherState(r.committed, r.accepted) /\ Configured(r.accepted)
  BY GoodFields DEF Kept
<1>2. Continues(r, q)
  BY <1>1, BootstrappedGood
<1>3. Good(q) /\ q.term = r.term /\ q.mode = r.mode /\ q.join_votes = r.join_votes
  BY <1>2 DEF Continues
<1>4. /\ q.run = r.run /\ q.next_request = r.next_request /\ q.out = r.out
      /\ q.leader = r.leader
      /\ q.accepted = SetConfig(r.accepted) /\ q.committed = SetConfig(r.committed)
  BY <1>1 DEF Bootstrapped, NodeState
<1>5. \A x \in ClusterState : /\ SetConfig(x).term = x.term /\ SetConfig(x).version = x.version
                              /\ SetConfig(x).lineage = x.lineage
                              /\ SetConfig(x).manager = x.manager
  BY DEF SetConfig, ClusterState
<1> HIDE DEF q
<1>6. /\ q.accepted.term = r.accepted.term /\ q.accepted.version = r.accepted.version
      /\ q.accepted.lineage = r.accepted.lineage
      /\ q.committed.term = r.committed.term /\ q.committed.version = r.committed.version
      /\ q.committed.lineage = r.committed.lineage
      /\ q.committed.manager = r.committed.manager
  BY <1>1, <1>4, <1>5
<1>7. r.accepted.term = 0 /\ r.committed.term = 0
  BY <1>1, FixedAssumption, SMT DEF Configured, FresherState, Fresher
<1>8. Itself(n, r) /\ Consistent(Now(n, r), Out(r)) /\ msgs \subseteq Messages
  BY KeptItself DEF Kept, Inv, TypeOK
<1>9. Blank(q.accepted) /\ Blank(q.committed)
  <2>1. Blank(r.accepted) /\ Blank(r.committed)
    BY <1>7, <1>8, PublishedTerm, SMT DEF Itself, TakenFromManagers
  <2> QED
    BY <1>6, <2>1 DEF Blank
<1>10. Proceeds(r, q)
  <2>1. ~FresherState(r.accepted, q.accepted)
    BY <1>1, <1>6, SMT DEF FresherState, Fresher
  <2> QED
    BY <1>1, <1>3, <1>4, <2>1, SMT DEF Proceeds
<1>11. r.mode # "Leader"
  BY <1>1, <1>7, GoodFields, SMT
<1>12. Itself(n, q)
  <2>1. VotesCounted(Out(q), n, q)
    BY <1>1, <1>3, <1>4, <1>8, <1>10, VotesStay DEF Itself, Proceeds
  <2>2. RoleKept(Out(q), n, q)
    BY <1>3, <1>4, <1>8, <1>11 DEF Itself, RoleKept, Out
  <2> QED
    BY <1>9, <2>1, <2>2 DEF Itself, TakenFromManagers
<1>13. Forth(n, q)
  BY <1>4, <1>6 DEF Kept, Forth, FresherState
<1>14. Kept(n, q)
  BY <1>3, <1>4, <1>10, <1>12, <1>13, KeptQuiet
<1> QED
  BY <1>14 DEF q

(* What apply_committed changes.                                            *)
LEMMA ApplyFields ==
    ASSUME NEW r \in NodeState, NEW s \in ClusterState, Configured(s)
    PROVE  LET q == ApplyCommitted(r, s)
           IN  /\ q.term = r.term /\ q.mode = r.mode /\ q.leader = r.leader
               /\ q.join_votes = r.join_votes /\ q.publishing = r.publishing
               /\ q.next_request = r.next_request /\ q.run = r.run /\ q.out = r.out
               /\ IF FresherState(s, r.committed)
                  THEN /\ q.committed = s
                       /\ q.accepted = IF FresherState(s, r.accepted) THEN s ELSE r.accepted
                  ELSE q = r
<1> DEFINE state == [s EXCEPT !.last_committed_config = s.last_accepted_config]
           new == IF FresherState(s, r.accepted) THEN s ELSE r.accepted
           q == [r EXCEPT !.accepted = new, !.committed = s]
<1>1. CASE ~FresherState(s, r.committed)
  BY <1>1 DEF ApplyCommitted
<1>2. CASE FresherState(s, r.committed)
  <2>1. state = s
    BY DEF Configured, ClusterState
  <2>2. ApplyCommitted(r, s) = [r EXCEPT !.accepted = IF FresherState(state, @) THEN state ELSE @,
                                         !.committed = state]
    BY <1>2 DEF ApplyCommitted
  <2>3. ApplyCommitted(r, s) = q
    BY <2>1, <2>2
  <2> HIDE DEF new
  <2>4. /\ q.term = r.term /\ q.mode = r.mode /\ q.leader = r.leader
        /\ q.join_votes = r.join_votes /\ q.publishing = r.publishing
        /\ q.next_request = r.next_request /\ q.run = r.run /\ q.out = r.out
        /\ q.accepted = new /\ q.committed = s
    BY DEF NodeState
  <2> QED
    BY <1>2, <2>3, <2>4 DEF new
<1> QED
  BY <1>1, <1>2

(* A node that sent nothing applies a state that a manager committed: one   *)
(* of its term, and its own if it is a manager.                             *)
LEMMA KeptApply ==
    ASSUME Inv, NEW n \in Node, NEW r, Kept(n, r), r.out = {},
           NEW s \in ClusterState, Configured(s), s.term <= r.term,
           Blank(s) \/ Noted(Out(r), s), r.mode = "Leader" => s = r.accepted
    PROVE  Kept(n, ApplyCommitted(r, s))
<1> DEFINE q == ApplyCommitted(r, s)
<1>1. /\ Good(r) /\ r \in NodeState /\ r.accepted \in ClusterState
      /\ r.committed \in ClusterState /\ r.term \in Nat /\ r.next_request \in Nat
      /\ r.accepted.term \in Nat /\ r.committed.term \in Nat
      /\ r.accepted.version \in Nat /\ r.committed.version \in Nat
      /\ s.term \in Nat /\ s.version \in Nat
  BY GoodFields, StateFields DEF Kept
<1>2. Good(q)
  BY <1>1, ApplyCommittedGood DEF Continues
<1>3. CASE ~FresherState(s, r.committed)
  BY <1>3 DEF ApplyCommitted
<1>4. CASE FresherState(s, r.committed)
  <2>1. /\ q.term = r.term /\ q.mode = r.mode /\ q.leader = r.leader
        /\ q.join_votes = r.join_votes /\ q.publishing = r.publishing
        /\ q.next_request = r.next_request /\ q.run = r.run /\ q.out = r.out
        /\ q.committed = s
        /\ q.accepted = IF FresherState(s, r.accepted) THEN s ELSE r.accepted
    BY <1>1, <1>4, ApplyFields
  <2> HIDE DEF q
  <2>2. ~FresherState(r.accepted, q.accepted)
    BY <1>1, <2>1, SMT DEF FresherState, Fresher
  <2>3. Proceeds(r, q)
    BY <1>1, <2>1, <2>2, SMT DEF Proceeds
  <2>4. Itself(n, r) /\ Consistent(Now(n, r), Out(r)) /\ msgs \subseteq Messages
        /\ Out(q) = Out(r)
    BY <2>1, KeptItself DEF Kept, Inv, TypeOK, Out
  <2>5. VotesCounted(Out(q), n, q)
    BY <1>1, <1>2, <2>1, <2>2, <2>4, VotesStay DEF Itself
  <2>6. TakenFromManagers(Out(q), q)
    <3>1. Blank(s) \/ s \in Published(Out(r))
      BY <2>4, PublishedTerm
    <3>2. Blank(q.accepted) \/ q.accepted \in Published(Out(q))
      BY <2>1, <2>4, <3>1 DEF Itself, TakenFromManagers
    <3> QED
      BY <2>1, <2>4, <3>2 DEF TakenFromManagers
  <2>7. RoleKept(Out(q), n, q)
    <3>1. ASSUME r.mode = "Leader"
          PROVE  q.accepted = r.accepted /\ r.publishing # None
      <4>1. s = r.accepted
        BY <3>1
      <4>2. q.accepted = r.accepted
        BY <2>1, <4>1
      <4>3. r.committed # r.accepted
        BY <1>1, <1>4, <4>1, NotFresherThanItself
      <4> QED
        BY <2>4, <3>1, <4>2, <4>3 DEF Itself, RoleKept
    <3>2. RoleKept(Out(r), n, r)
      BY <2>4 DEF Itself
    <3> QED
      BY <2>1, <2>4, <3>1, <3>2 DEF RoleKept, InFlight
  <2>8. Forth(n, q)
    <3>1. node[n].committed \in ClusterState
      BY NodeGood, GoodFields
    <3>2. ~FresherState(node[n].committed, r.committed)
      BY DEF Kept, Forth
    <3>3. ~FresherState(node[n].committed, s)
      BY <1>1, <1>4, <3>1, <3>2, StateFields, SMT DEF FresherState, Fresher
    <3>4. Of(q.out, "CommitNote") = {}
      BY <2>1 DEF Of
    <3> QED
      BY <2>1, <3>3, <3>4 DEF Forth
  <2>9. Kept(n, q)
    BY <1>2, <2>1, <2>3, <2>5, <2>6, <2>7, <2>8, KeptQuiet DEF Itself
  <2> QED
    BY <2>9 DEF q
<1> QED
  BY <1>3, <1>4

(* One more committed state is newer than the newest, or was built into it. *)
LEMMA NewestStays ==
    ASSUME NEW N, NEW M, Fine(N, M), Consistent(N, M), NEW M2, NEW c,
           Of(M2, "CommitNote") = Of(M, "CommitNote") \cup {c},
           c.state \in Published(M),
           NEW Q \in SUBSET Node, HasQuorum(InitialConfig, Q),
           ~LateAnswers => \A q \in Q : Accepts(M, q, c.state)
    PROVE  NewestCommit(M2)
<1> SUFFICES ASSUME ~LateAnswers
             PROVE  \E d \in Of(M2, "CommitNote") : \A e \in Of(M2, "CommitNote") :
                      e.state.lineage \subseteq d.state.lineage
  BY DEF NewestCommit
<1>1. CASE Of(M, "CommitNote") = {}
  BY <1>1
<1>2. CASE Of(M, "CommitNote") # {}
  <2>1. PICK d \in Of(M, "CommitNote") : \A e \in Of(M, "CommitNote") :
          e.state.lineage \subseteq d.state.lineage
    BY <1>2 DEF Consistent, NewestCommit
  <2>2. Noted(M, d.state) /\ d.state \in Published(M)
    BY PublishedTerm DEF Noted
  <2>3. /\ c.state.term \in Nat /\ c.state.version \in Nat
        /\ d.state.term \in Nat /\ d.state.version \in Nat
    BY <2>2, PublishedType DEF Fine
  <2>4. CASE ~FresherState(d.state, c.state)
    <3>1. d.state.lineage \subseteq c.state.lineage
      BY <2>2, <2>4, CommittedInOrder
    <3> QED
      BY <2>1, <3>1
  <2>5. CASE FresherState(d.state, c.state)
    <3>1. ~FresherState(c.state, d.state)
      BY <2>3, <2>5, SMT DEF FresherState, Fresher
    <3>2. c.state.lineage \subseteq d.state.lineage
      BY <2>2, <3>1, AcceptedByQuorum
    <3> QED
      BY <2>1, <3>2
  <2> QED
    BY <2>4, <2>5
<1> QED
  BY <1>1, <1>2

(* What commit_publication sends and changes.                               *)
LEMMA CommitFields ==
    ASSUME NEW n \in Node, NEW r \in NodeState, r.publishing # None,
           Configured(r.publishing.state)
    PROVE  LET q == Commit(n, r)
               s == r.publishing.state
           IN  /\ q.term = r.term /\ q.mode = r.mode /\ q.leader = r.leader
               /\ q.join_votes = r.join_votes /\ q.publishing = None
               /\ q.next_request = r.next_request /\ q.run = r.run
               /\ r.out \subseteq q.out
               /\ [type |-> "CommitNote", from |-> n, state |-> s] \in q.out
               /\ \A m \in q.out \ r.out :
                     \/ m = [type |-> "CommitNote", from |-> n, state |-> s]
                     \/ m.type = "Commit" /\ m.term = s.term /\ m.version = s.version
               /\ IF FresherState(s, r.committed)
                  THEN /\ q.committed = s
                       /\ q.accepted = IF FresherState(s, r.accepted) THEN s ELSE r.accepted
                  ELSE q.committed = r.committed /\ q.accepted = r.accepted
<1> DEFINE p == r.publishing
           told == (p.state.nodes \cap p.acked) \ {n}
           commits == {CommitRequest(n, m, p.state.term, p.state.version) : m \in told}
           note == [type |-> "CommitNote", from |-> n, state |-> p.state]
           sent == commits \cup {note}
           late == p.state.nodes \ p.acked
           mid == [r EXCEPT !.publishing = None, !.lagging = late, !.out = @ \cup sent]
           q == ApplyCommitted(mid, p.state)
<1>1. p \in Publication /\ p.state \in ClusterState /\ p.acked \subseteq Node
  BY DEF NodeState, Publication
<1>2. p.state.term \in Nat /\ p.state.version \in Nat /\ p.state.nodes \subseteq Node
  BY <1>1 DEF ClusterState
<1>3. \A m \in commits : /\ m \in Messages /\ m.type = "Commit"
                         /\ m.term = p.state.term /\ m.version = p.state.version
  BY <1>2, SMT DEF CommitRequest, Messages
<1>4. note \in Messages
  BY <1>1 DEF Messages
<1>5. sent \subseteq Messages /\ note \in sent /\ \A m \in sent : m = note \/ m \in commits
  BY <1>3, <1>4
<1>6. Commit(n, r) = q
  BY DEF Commit
<1> HIDE DEF sent, commits, note
<1>7. mid \in NodeState
  <2>1. r.out \cup sent \in SUBSET Messages
    BY <1>5 DEF NodeState
  <2>2. late \in SUBSET Node
    BY <1>2
  <2> QED
    BY <2>1, <2>2 DEF NodeState
<1>8. /\ mid.accepted = r.accepted /\ mid.committed = r.committed /\ mid.term = r.term
      /\ mid.mode = r.mode /\ mid.leader = r.leader /\ mid.join_votes = r.join_votes
      /\ mid.next_request = r.next_request /\ mid.run = r.run
      /\ mid.out = r.out \cup sent /\ mid.publishing = None
  BY DEF NodeState
<1> HIDE DEF mid
<1>9. /\ q.term = mid.term /\ q.mode = mid.mode /\ q.leader = mid.leader
      /\ q.join_votes = mid.join_votes /\ q.publishing = mid.publishing
      /\ q.next_request = mid.next_request /\ q.run = mid.run /\ q.out = mid.out
      /\ IF FresherState(p.state, mid.committed)
         THEN /\ q.committed = p.state
              /\ q.accepted = IF FresherState(p.state, mid.accepted)
                              THEN p.state ELSE mid.accepted
         ELSE q = mid
  BY <1>1, <1>7, ApplyFields
<1> HIDE DEF q
<1>10. \A m \in q.out \ r.out :
          \/ m = note
          \/ m.type = "Commit" /\ m.term = p.state.term /\ m.version = p.state.version
  BY <1>3, <1>5, <1>8, <1>9
<1>11. note \in q.out /\ r.out \subseteq q.out
  BY <1>5, <1>8, <1>9
<1>12. /\ q.term = r.term /\ q.mode = r.mode /\ q.leader = r.leader
       /\ q.join_votes = r.join_votes /\ q.publishing = None
       /\ q.next_request = r.next_request /\ q.run = r.run
       /\ IF FresherState(p.state, r.committed)
          THEN /\ q.committed = p.state
               /\ q.accepted = IF FresherState(p.state, r.accepted) THEN p.state ELSE r.accepted
          ELSE q.committed = r.committed /\ q.accepted = r.accepted
  BY <1>8, <1>9
<1> QED
  BY <1>6, <1>10, <1>11, <1>12 DEF note

(* commit_publication, once the answers are a quorum: what a manager has in *)
(* flight is what it accepted, and now what it committed.                   *)
LEMMA KeptCommit ==
    ASSUME Inv, NEW n \in Node, NEW r, Kept(n, r), r.mode = "Leader", r.publishing # None,
           ElectionQuorum(r.publishing.state, r.publishing.acked)
    PROVE  /\ Kept(n, Commit(n, r))
           /\ Commit(n, r).publishing = None /\ Commit(n, r).mode = "Leader"
<1> DEFINE q == Commit(n, r)
           s == r.accepted
           acked == r.publishing.acked
           note == [type |-> "CommitNote", from |-> n, state |-> s]
<1>1. /\ Good(r) /\ r \in NodeState /\ s \in ClusterState
      /\ r.committed \in ClusterState /\ r.term \in Nat /\ r.next_request \in Nat
      /\ s.term \in Nat /\ r.committed.term \in Nat
      /\ s.version \in Nat /\ r.committed.version \in Nat
      /\ ~FresherState(r.committed, s) /\ Configured(s) /\ s.term = r.term /\ r.term > 0
  BY GoodFields DEF Kept
<1>2. r.publishing.state = s /\ acked \subseteq Node
  <2>1. r.publishing \in Publication
    BY <1>1, RecordFields
  <2> QED
    BY <1>1, <2>1 DEF Good, Publication
<1>3. Good(q)
  BY <1>1, CommitGood DEF Continues
<1>4. /\ q.term = r.term /\ q.mode = r.mode /\ q.leader = r.leader
      /\ q.join_votes = r.join_votes /\ q.publishing = None
      /\ q.next_request = r.next_request /\ q.run = r.run
      /\ r.out \subseteq q.out /\ note \in q.out
      /\ \A m \in q.out \ r.out :
            \/ m = note
            \/ m.type = "Commit" /\ m.term = s.term /\ m.version = s.version
      /\ IF FresherState(s, r.committed)
         THEN q.committed = s /\ q.accepted = IF FresherState(s, s) THEN s ELSE s
         ELSE q.committed = r.committed /\ q.accepted = s
  BY <1>1, <1>2, CommitFields, SMT
<1> HIDE DEF q
<1>5. /\ Itself(n, r) /\ Consistent(Now(n, r), Out(r)) /\ msgs \subseteq Messages
      /\ Fine(Now(n, r), Out(r))
  BY <1>1, KeptItself, NowFine DEF Kept, Inv, TypeOK
<1>6. Leads(Out(r), n, r.term) /\ InFlight(Out(r), n, r)
  BY <1>5 DEF Itself, RoleKept
<1>7. s \in Published(Out(r))
  BY <1>6 DEF InFlight, Published
<1>8. q.accepted = s /\ q.committed = s
  <2>1. CASE FresherState(s, r.committed)
    BY <1>4, <2>1
  <2>2. CASE ~FresherState(s, r.committed)
    <3>1. s.term = r.committed.term /\ s.version = r.committed.version
      BY <1>1, <2>2, SMT DEF FresherState, Fresher
    <3>2. r.committed \in Published(Out(r))
      BY <1>1, <1>5, <3>1, PublishedTerm, SMT DEF Itself, TakenFromManagers, Blank
    <3>3. s = r.committed
      BY <1>5, <1>7, <3>1, <3>2 DEF Consistent, PublishedOnce, Published
    <3> QED
      BY <1>4, <2>2, <3>3
  <2> QED
    BY <2>1, <2>2
<1>9. /\ note.type = "CommitNote" /\ note.state = s
      /\ \A m \in q.out \ r.out : m.type \in {"CommitNote", "Commit"}
  BY <1>4, SMT
<1>10. /\ Out(r) \subseteq Out(q)
       /\ Of(Out(q), "Publish") = Of(Out(r), "Publish")
       /\ Of(Out(q), "PublishResponse") = Of(Out(r), "PublishResponse")
       /\ Of(Out(q), "CommitNote") = Of(Out(r), "CommitNote") \cup {note}
  BY <1>4, <1>9 DEF Of, Out
<1>11. HasQuorum(InitialConfig, acked)
  BY <1>1, <1>2 DEF ElectionQuorum, Configured
<1>12. ~LateAnswers => \A k \in acked : Accepts(Out(r), k, s)
  BY <1>6 DEF InFlight
<1>13. NewestCommit(Out(q))
  <2> HIDE DEF note
  <2> QED
    BY <1>2, <1>5, <1>7, <1>9, <1>10, <1>11, <1>12, NewestStays
<1>14. CommitTrue(Out(q), note)
  <2>1. s \in Published(Out(q))
    BY <1>7, <1>10 DEF Published
  <2>2. ~LateAnswers => \A k \in acked : Accepts(Out(q), k, s)
    BY <1>10, <1>12 DEF Accepts
  <2> QED
    BY <1>2, <1>9, <1>11, <2>1, <2>2 DEF CommitTrue
<1>15. ASSUME NEW m \in q.out \ r.out
       PROVE  SaysTrue(n, r, q, m)
  <2>1. CASE m = note
    BY <1>9, <1>14, <2>1 DEF SaysTrue
  <2>2. CASE m.type = "Commit" /\ m.term = s.term /\ m.version = s.version
    <3>1. RequestTrue(Out(q), m)
      BY <1>9, <1>10, <2>2 DEF RequestTrue
    <3> QED
      BY <2>2, <3>1 DEF SaysTrue
  <2> QED
    BY <1>4, <2>1, <2>2
<1>16. Proceeds(r, q)
  BY <1>1, <1>4, <1>8, NotFresherThanItself, SMT DEF Proceeds
<1>17. Itself(n, q)
  <2>1. VotesCounted(Out(q), n, q)
    BY <1>1, <1>3, <1>4, <1>5, <1>8, NotFresherThanItself, VotesStay DEF Itself
  <2>2. Noted(Out(q), s) /\ s \in Published(Out(q)) /\ Leads(Out(q), n, r.term)
    BY <1>6, <1>7, <1>9, <1>10, MoreMessages DEF Noted, Published
  <2>3. TakenFromManagers(Out(q), q)
    BY <1>8, <2>2 DEF TakenFromManagers
  <2>4. RoleKept(Out(q), n, q)
    BY <1>4, <1>8, <2>2 DEF RoleKept
  <2> QED
    BY <2>1, <2>3, <2>4 DEF Itself
<1>18. Forth(n, q)
  <2>1. node[n].committed \in ClusterState
    BY NodeGood, GoodFields
  <2>2. ~FresherState(node[n].committed, r.committed)
    BY DEF Kept, Forth
  <2>3. ~FresherState(node[n].committed, s)
    BY <1>1, <2>1, <2>2, StateFields, SMT DEF FresherState, Fresher
  <2>4. s.manager = n
    <3>1. PICK p \in Of(Out(r), "Publish") : p.from = n /\ p.state = s
      BY <1>6 DEF InFlight
    <3> QED
      BY <1>5, <3>1 DEF Consistent, PublishedByElected
  <2>5. ASSUME NEW c \in Of(q.out, "CommitNote")
        PROVE  ~FresherState(c.state, s)
    <3>1. CASE c \in r.out
      <4>1. ~FresherState(c.state, r.committed)
        BY <3>1 DEF Kept, Forth, Of
      <4>2. c.state \in ClusterState
        <5>1. c \in Messages /\ c.type = "CommitNote"
          BY <1>1, <3>1, GoodFields DEF Of
        <5> QED
          BY <5>1, MessageFields
      <4> QED
        BY <1>1, <4>1, <4>2, StateFields, SMT DEF FresherState, Fresher
    <3>2. CASE c \notin r.out
      <4>1. c \in q.out \ r.out /\ c.type = "CommitNote"
        BY <3>2 DEF Of
      <4>2. c = note
        BY <1>4, <4>1
      <4> QED
        BY <1>1, <1>9, <4>2, NotFresherThanItself
    <3> QED
      BY <3>1, <3>2
  <2> QED
    BY <1>8, <2>3, <2>4, <2>5 DEF Forth
<1>19. Kept(n, q)
  BY <1>3, <1>13, <1>15, <1>16, <1>17, <1>18, KeptPlain
<1> QED
  BY <1>4, <1>19 DEF q

-----------------------------------------------------------------------------
(* Publishing.                                                              *)

(* What publish changes and sends.                                          *)
LEMMA SendFields ==
    ASSUME NEW n \in Node, NEW r \in NodeState, NEW s \in ClusterState,
           NEW q, q = Send(n, r, s)
    PROVE  /\ q.accepted \in ClusterState /\ q.accepted.term = r.term
           /\ q.accepted.manager = n /\ q.accepted.version = s.version
           /\ q.accepted.lineage = s.lineage \cup {Name(r.term, n, s.version)}
           /\ q.publishing # None /\ q.publishing.state = q.accepted
           /\ q.publishing.rid = r.next_request /\ q.publishing.acked = {n}
           /\ q.term = r.term /\ q.mode = r.mode /\ q.leader = r.leader
           /\ q.committed = r.committed /\ q.join_votes = r.join_votes
           /\ q.run = r.run /\ q.next_request = r.next_request + 1
           /\ q.out = r.out \cup {[type |-> "Publish", from |-> n, run |-> r.run,
                                   rid |-> r.next_request, state |-> q.accepted]}
<1> DEFINE state == [s EXCEPT !.term = r.term, !.manager = n,
                              !.lineage = @ \cup {Name(r.term, n, s.version)}]
           p == [state |-> state, rid |-> r.next_request, acked |-> {n}]
           m == [type |-> "Publish", from |-> n, run |-> r.run,
                 rid |-> r.next_request, state |-> state]
<1>1. r.term \in Nat /\ r.next_request \in Nat /\ s.version \in Nat
  BY RecordFields, StateFields
<1>2. Name(r.term, n, s.version) \in Names
  BY <1>1 DEF Name, Names
<1>3. /\ state \in ClusterState
      /\ state.term = r.term /\ state.version = s.version /\ state.manager = n
      /\ state.lineage = s.lineage \cup {Name(r.term, n, s.version)}
  BY <1>1, <1>2 DEF ClusterState
<1>4. /\ p \in Publication /\ p.state = state /\ p.rid = r.next_request /\ p.acked = {n}
  BY <1>1, <1>3 DEF Publication
<1>5. q = [r EXCEPT !.publishing = p, !.accepted = state, !.next_request = @ + 1,
                    !.out = @ \cup {m}]
  BY DEF Send
<1> HIDE DEF state, p
<1>6. /\ q.publishing = p /\ q.accepted = state /\ q.committed = r.committed
      /\ q.term = r.term /\ q.mode = r.mode /\ q.leader = r.leader
      /\ q.join_votes = r.join_votes /\ q.out = r.out \cup {m}
      /\ q.run = r.run /\ q.next_request = r.next_request + 1
  BY <1>5 DEF NodeState
<1>7. p # None
  BY <1>4, NoneAssumption
<1> QED
  BY <1>3, <1>4, <1>6, <1>7

(* publish by a manager: r is what it was before, l what it made of that on *)
(* the way, the note of its election included.                              *)
LEMMA KeptSend ==
    ASSUME Inv, NEW n \in Node, NEW r, NEW l \in NodeState, NEW s \in ClusterState,
           Kept(n, r), Good(Send(n, l, s)),
           l.mode = "Leader", l.term = r.term, r.term > 0, l.committed = r.committed,
           l.run = r.run, l.next_request = r.next_request,
           l.join_votes \subseteq r.join_votes,
           r.out \subseteq l.out,
           \A m \in l.out \ r.out : m = LeaderNote(n, r.term),
           OneLeader(Out(l)), Leads(Out(l), n, r.term),
           s.version = r.accepted.version + 1, s.lineage = r.accepted.lineage,
           \E Q \in SUBSET Node :
              /\ HasQuorum(InitialConfig, Q)
              /\ \A k \in Q :
                   /\ Now(n, r)[k].term >= r.term
                   /\ \A u \in Published(Out(r)) :
                        u.term < r.term /\ Accepts(Out(r), k, u) =>
                           ~FresherState(u, r.accepted)
    PROVE  Kept(n, Send(n, l, s)) /\ Send(n, l, s).mode = "Leader"
<1>0. PICK q : q = Send(n, l, s)
  OBVIOUS
<1> DEFINE p == [type |-> "Publish", from |-> n, run |-> l.run,
                 rid |-> l.next_request, state |-> q.accepted]
<1>1. /\ q.accepted \in ClusterState /\ q.accepted.term = r.term
      /\ q.accepted.manager = n /\ q.accepted.version = r.accepted.version + 1
      /\ q.accepted.lineage = r.accepted.lineage \cup {Name(r.term, n, s.version)}
      /\ q.publishing # None /\ q.publishing.state = q.accepted
      /\ q.publishing.rid = r.next_request /\ q.publishing.acked = {n}
      /\ q.term = r.term /\ q.mode = "Leader"
      /\ q.committed = r.committed /\ q.join_votes \subseteq r.join_votes
      /\ q.run = r.run /\ q.next_request = r.next_request + 1
      /\ q.out = l.out \cup {p}
  <2>1. /\ q.accepted \in ClusterState /\ q.accepted.term = l.term
        /\ q.accepted.manager = n /\ q.accepted.version = s.version
        /\ q.accepted.lineage = s.lineage \cup {Name(l.term, n, s.version)}
        /\ q.publishing # None /\ q.publishing.state = q.accepted
        /\ q.publishing.rid = l.next_request /\ q.publishing.acked = {n}
        /\ q.term = l.term /\ q.mode = l.mode /\ q.leader = l.leader
        /\ q.committed = l.committed /\ q.join_votes = l.join_votes
        /\ q.run = l.run /\ q.next_request = l.next_request + 1
        /\ q.out = l.out \cup {p}
    BY ONLY <1>0, SendFields, SMT
  <2> HIDE DEF p
  <2> QED
    BY <2>1
<1>2. /\ Good(r) /\ r.accepted \in ClusterState /\ r.term \in Nat /\ r.next_request \in Nat
      /\ r.accepted.term \in Nat /\ r.accepted.version \in Nat /\ r.accepted.term <= r.term
      /\ r.run \in Nat /\ r \in NodeState
  BY GoodFields DEF Kept
<1>3. /\ p.type = "Publish" /\ p.from = n /\ p.run = r.run /\ p.rid = r.next_request
      /\ p.state = q.accepted
  OBVIOUS
<1>4. Good(q)
  BY <1>0
<1> HIDE DEF p
<1>5. ~FresherState(r.accepted, q.accepted)
  BY <1>1, <1>2, SMT DEF FresherState, Fresher
<1>6. Proceeds(r, q)
  BY <1>1, <1>2, <1>5, SMT DEF Proceeds
<1>7. /\ Fine(Now(n, r), Out(r)) /\ Fine(Now(n, q), Out(q))
      /\ Now(n, r)[n] = r /\ Now(n, q)[n] = q
      /\ Moves(Now(n, r), Out(r), Now(n, q), Out(q), n)
  BY <1>2, <1>4, <1>6, NowFine, NowMoves
<1>8. Consistent(Now(n, r), Out(r)) /\ Itself(n, r) /\ msgs \subseteq Messages
  BY KeptItself DEF Kept, Inv, TypeOK
<1>9. /\ p \in Out(q) /\ Out(l) \subseteq Out(q)
      /\ \A m \in Out(q) \ Out(r) : m = p \/ m = LeaderNote(n, r.term)
      /\ Of(Out(q), "LeaderNote") = Of(Out(l), "LeaderNote")
  BY <1>1, <1>3 DEF Out, Of
<1>10. OneLeader(Out(q)) /\ Leads(Out(q), n, r.term)
  BY <1>9 DEF OneLeader, Leads
<1>11. Publishes(Now(n, r), Out(r), Now(n, q), Out(q), n, p)
  BY <1>1, <1>3, <1>7, <1>9, <1>10 DEF Publishes
<1>12. RoleKept(Out(q), n, q)
  <2>1. p \in Of(Out(q), "Publish")
    BY <1>3, <1>9 DEF Of
  <2>2. Accepts(Out(q), n, q.accepted)
    BY <1>1 DEF Accepts
  <2>3. InFlight(Out(q), n, q)
    BY <1>1, <1>3, <2>1, <2>2 DEF InFlight
  <2> QED
    BY <1>1, <1>10, <2>3 DEF RoleKept
<1>13. VotesCounted(Out(q), n, q)
  BY <1>1, <1>2, <1>4, <1>5, <1>6, <1>8, VotesStay DEF Itself, Proceeds
<1>14. Consistent(Now(n, q), Out(q))
  BY <1>7, <1>8, <1>10, <1>11, <1>12, <1>13, PublishCall
<1>15. Forth(n, q)
  <2>1. \A c \in Of(q.out, "CommitNote") : c \in Of(r.out, "CommitNote")
    BY <1>1, <1>3, SMT DEF Of, LeaderNote
  <2> QED
    BY <1>1, <2>1 DEF Kept, Forth
<1>16. Kept(n, q)
  <2>1. Further(n, q)
    BY <1>2, <1>4, <1>6, FurtherOn DEF Kept
  <2> QED
    BY <1>4, <1>10, <1>14, <1>15, <2>1 DEF Kept
<1> QED
  BY <1>0, <1>1, <1>16

(* next_publication, as far as the next state: built on the committed state, *)
(* which is the accepted one of a manager with nothing in flight.           *)
LEMMA KeptBuild ==
    ASSUME Inv, NEW n \in Node, NEW r, Kept(n, r), r.mode = "Leader", r.publishing = None
    PROVE  Kept(n, Build(n, r)) /\ Build(n, r).mode = "Leader"
<1> DEFINE joined == r.committed.nodes \cup r.waiting_joins
           t == NextState(r.committed)
           s == [t EXCEPT !.nodes = joined \ r.pending_removals]
           config == Reconfigure(s, r.exclusions)
           changed == \/ r.waiting_joins # {}
                      \/ r.republish_wanted
                      \/ joined \cap r.pending_removals # {}
                      \/ config # s.last_accepted_config
           taken == [r EXCEPT !.waiting_joins = {}, !.pending_removals = {}]
           asked == [taken EXCEPT !.republish_wanted = FALSE]
           next == [s EXCEPT !.last_accepted_config = config]
<1>1. /\ Good(r) /\ r \in NodeState /\ r.committed \in ClusterState /\ r.term \in Nat
      /\ r.accepted \in ClusterState /\ r.accepted.term = r.term /\ r.term > 0
      /\ r.waiting_joins \subseteq Node /\ r.exclusions = {}
      /\ r.committed.last_committed_config = InitialConfig
  <2>1. Good(r)
    BY DEF Kept
  <2> QED
    BY <2>1, GoodFields DEF Good, Sound, NodeState, Configured
<1>2. Good(Build(n, r))
  BY <1>1, BuildGood DEF Continues
<1>3. /\ Itself(n, r) /\ Consistent(Now(n, r), Out(r)) /\ OneLeader(Out(r))
      /\ Fine(Now(n, r), Out(r)) /\ Now(n, r)[n] = r
  BY <1>1, KeptItself, NowFine DEF Kept
<1>4. r.committed = r.accepted /\ Leads(Out(r), n, r.term)
  BY <1>3 DEF Itself, RoleKept
<1>5. /\ t \in ClusterState /\ t.version = r.committed.version + 1
      /\ t.last_committed_config = InitialConfig
      /\ t.lineage = r.committed.lineage
  <2>1. NextState(r.committed).lineage = r.committed.lineage
    BY <1>1 DEF NextState, ClusterState
  <2> QED
    BY <1>1, <2>1, NextStateType
<1> HIDE DEF t
<1>6. /\ s \in ClusterState /\ s.version = r.committed.version + 1
      /\ s.last_committed_config = InitialConfig
      /\ s.lineage = r.committed.lineage
  <2>1. joined \ r.pending_removals \in SUBSET Node
    BY <1>1 DEF ClusterState
  <2> HIDE DEF joined
  <2> QED
    BY <1>5, <2>1 DEF ClusterState
<1> HIDE DEF s
<1>7. config = InitialConfig
  BY <1>1, <1>6, ReconfigureKeeps
<1> HIDE DEF config
<1>8. /\ next \in ClusterState /\ next.version = r.accepted.version + 1
      /\ next.lineage = r.accepted.lineage
  BY <1>4, <1>6, <1>7, ConfigAssumption DEF ClusterState
<1> HIDE DEF next
<1>9. CASE ~changed
  <2>1. Build(n, r) = taken
    BY <1>9 DEF Build, s, t, config
  <2>2. Alike(r, taken)
    BY <1>1 DEF NodeState, Alike
  <2>3. Good(taken)
    BY <1>2, <2>1
  <2> HIDE DEF taken
  <2>4. Kept(n, taken)
    BY <2>2, <2>3, KeptAlike
  <2> QED
    BY <2>1, <2>2, <2>4 DEF Alike
<1>10. CASE changed
  <2>1. Build(n, r) = Send(n, asked, next)
    BY <1>10 DEF Build, s, t, config, next
  <2>2. asked \in NodeState
    BY <1>1 DEF NodeState
  <2>3. Alike(r, asked)
    BY <1>1 DEF NodeState, Alike
  <2> HIDE DEF asked
  <2>4. OneLeader(Out(asked)) /\ Leads(Out(asked), n, r.term)
    BY <1>3, <1>4, <2>3 DEF Alike, Out
  <2>5. \E Q \in SUBSET Node :
          /\ HasQuorum(InitialConfig, Q)
          /\ \A k \in Q :
               /\ Now(n, r)[k].term >= r.term
               /\ \A u \in Published(Out(r)) :
                    u.term < r.term /\ Accepts(Out(r), k, u) => ~FresherState(u, r.accepted)
    <3>1. PICK e \in Of(Out(r), "LeaderNote") : e.term = r.term
      BY <1>4 DEF Leads
    <3>2. PICK Q \in SUBSET Node :
            HasQuorum(InitialConfig, Q) /\ \A k \in Q : Now(n, r)[k].term >= r.term
      BY <1>3, <3>1 DEF Consistent, VotersMoved
    <3>3. ASSUME NEW u \in Published(Out(r)), u.term < r.term
          PROVE  ~FresherState(u, r.accepted)
      <4>1. u.term \in Nat
        BY <1>3, PublishedType DEF Fine
      <4> QED
        BY <1>1, <3>3, <4>1, SMT DEF FresherState, Fresher
    <3> QED
      BY <3>2, <3>3
  <2>6. Good(Send(n, asked, next))
    BY <1>2, <2>1
  <2>7. Kept(n, Send(n, asked, next)) /\ Send(n, asked, next).mode = "Leader"
    <3>1. /\ asked.mode = "Leader" /\ asked.term = r.term /\ asked.committed = r.committed
          /\ asked.run = r.run /\ asked.next_request = r.next_request
          /\ asked.join_votes \subseteq r.join_votes
          /\ r.out \subseteq asked.out
          /\ \A m \in asked.out \ r.out : m = LeaderNote(n, r.term)
      BY <2>3 DEF Alike
    <3> QED
      BY <1>1, <1>8, <2>2, <2>4, <2>5, <2>6, <3>1, KeptSend, SMT
  <2> QED
    BY <2>1, <2>7
<1> QED
  BY <1>9, <1>10

(* Committing what is a quorum already, and publishing what comes next.     *)
LEMMA KeptSettle ==
    ASSUME Inv, NEW n \in Node, NEW r, Kept(n, r), r.mode = "Leader"
    PROVE  Kept(n, Settle(n, r))
<1>1. ASSUME NEW q, Kept(n, q), q.mode = "Leader"
      PROVE  Kept(n, Round(n, q)) /\ Round(n, q).mode = "Leader"
  <2>1. CASE q.publishing # None /\ ElectionQuorum(q.publishing.state, q.publishing.acked)
    <3>1. PICK c : c = Commit(n, q)
      OBVIOUS
    <3>2. Kept(n, c) /\ c.publishing = None /\ c.mode = "Leader"
      BY <1>1, <2>1, <3>1, KeptCommit
    <3>3. Round(n, q) = Build(n, c)
      BY <2>1, <3>1 DEF Round
    <3> QED
      BY <3>2, <3>3, KeptBuild
  <2>2. CASE ~(q.publishing # None /\ ElectionQuorum(q.publishing.state, q.publishing.acked))
    BY <1>1, <2>2 DEF Round
  <2> QED
    BY <2>1, <2>2
<1> DEFINE q1 == Round(n, r)
           q2 == Round(n, q1)
           q3 == Round(n, q2)
<1>2. Kept(n, q1) /\ q1.mode = "Leader"
  BY <1>1
<1>3. Kept(n, q2) /\ q2.mode = "Leader"
  BY <1>1, <1>2
<1>4. Kept(n, q3)
  BY <1>1, <1>3
<1> QED
  BY <1>4 DEF Settle

(* next_publication as a whole.                                             *)
LEMMA KeptNextPublication ==
    ASSUME Inv, NEW n \in Node, NEW r, Kept(n, r)
    PROVE  Kept(n, NextPublication(n, r))
<1>1. CASE r.mode # "Leader" \/ r.publishing # None
  BY <1>1 DEF NextPublication
<1>2. CASE r.mode = "Leader" /\ r.publishing = None
  <2>1. Kept(n, Build(n, r)) /\ Build(n, r).mode = "Leader"
    BY <1>2, KeptBuild
  <2>2. NextPublication(n, r) = Settle(n, Build(n, r))
    BY <1>2 DEF NextPublication
  <2> QED
    BY <2>1, <2>2, KeptSettle
<1> QED
  BY <1>1, <1>2

-----------------------------------------------------------------------------
(* Joining and being elected.                                               *)

(* A vote is counted.                                                       *)
LEMMA KeptVote ==
    ASSUME Inv, NEW n \in Node, NEW r, Kept(n, r), NEW from \in Node,
           from = n \/ \E j \in Of(msgs, "Join") :
                          /\ j.from = from /\ j.term = r.term
                          /\ ~Fresher(j.accepted_term, j.accepted_version,
                                      r.accepted.term, r.accepted.version)
    PROVE  LET q == [r EXCEPT !.join_votes = @ \cup {from}]
           IN  /\ Kept(n, q) /\ q.mode = r.mode /\ q.term = r.term /\ q.accepted = r.accepted
               /\ q.join_votes = r.join_votes \cup {from} /\ q.out = r.out
<1> DEFINE q == [r EXCEPT !.join_votes = @ \cup {from}]
<1>1. /\ Good(r) /\ r \in NodeState /\ r.accepted \in ClusterState /\ r.term \in Nat
      /\ r.next_request \in Nat
  BY GoodFields DEF Kept
<1>2. q \in NodeState
  BY <1>1 DEF NodeState
<1>3. /\ q.accepted = r.accepted /\ q.committed = r.committed /\ q.exclusions = r.exclusions
      /\ q.term = r.term /\ q.mode = r.mode /\ q.leader = r.leader
      /\ q.join_votes = r.join_votes \cup {from} /\ q.out = r.out
      /\ q.publishing = r.publishing /\ q.run = r.run /\ q.next_request = r.next_request
  BY <1>1 DEF NodeState
<1> HIDE DEF q
<1>4. Good(q)
  BY <1>1, <1>2, <1>3 DEF Good, Sound
<1>5. Itself(n, r) /\ Out(q) = Out(r) /\ Of(msgs, "Join") \subseteq Of(Out(q), "Join")
  BY <1>3, KeptItself DEF Out, Of
<1>6. VotesCounted(Out(q), n, q)
  BY <1>3, <1>5, SMT DEF Itself, VotesCounted
<1>7. Itself(n, q)
  BY <1>3, <1>5, <1>6 DEF Itself, TakenFromManagers, RoleKept, InFlight
<1>8. Proceeds(r, q)
  BY <1>1, <1>3, NotFresherThanItself, SMT DEF Proceeds
<1>9. Forth(n, q)
  BY <1>3 DEF Kept, Forth
<1>10. Kept(n, q)
  BY <1>3, <1>4, <1>7, <1>8, <1>9, KeptQuiet
<1> QED
  BY <1>3, <1>10 DEF q

(* What an elected node was told by its voters: nobody of the quorum has    *)
(* accepted anything fresher in an earlier term than it has itself.         *)
LEMMA VotersTold ==
    ASSUME Inv, NEW n \in Node, NEW r, Kept(n, r),
           HasQuorum(InitialConfig, r.join_votes \cup {n})
    PROVE  \E Q \in SUBSET Node :
              /\ HasQuorum(InitialConfig, Q)
              /\ \A k \in Q :
                   /\ Now(n, r)[k].term >= r.term
                   /\ \A u \in Published(Out(r)) :
                        u.term < r.term /\ Accepts(Out(r), k, u) =>
                           ~FresherState(u, r.accepted)
<1>1. /\ Good(r) /\ r.join_votes \subseteq Node /\ r.term \in Nat
      /\ r.accepted.term \in Nat /\ r.accepted.version \in Nat
  BY GoodFields DEF Kept
<1>2. /\ Fine(Now(n, r), Out(r)) /\ Now(n, r)[n] = r
      /\ Consistent(Now(n, r), Out(r)) /\ Itself(n, r)
  BY <1>1, NowFine, KeptItself DEF Kept
<1>3. ASSUME NEW k \in r.join_votes \cup {n}
      PROVE  /\ Now(n, r)[k].term >= r.term
             /\ \A u \in Published(Out(r)) :
                  u.term < r.term /\ Accepts(Out(r), k, u) => ~FresherState(u, r.accepted)
  <2>1. CASE k = n
    <3>1. ASSUME NEW u \in Published(Out(r)), Accepts(Out(r), n, u)
          PROVE  ~FresherState(u, r.accepted)
      <4>1. ~FresherState(u, Now(n, r)[n].accepted)
        BY <1>2, <3>1, AcceptedBound
      <4> QED
        BY <1>2, <4>1
    <3> QED
      BY <1>1, <1>2, <2>1, <3>1, SMT
  <2>2. CASE k # n
    <3>1. PICK j \in Of(Out(r), "Join") :
            /\ j.from = k /\ j.term = r.term
            /\ ~Fresher(j.accepted_term, j.accepted_version,
                        r.accepted.term, r.accepted.version)
      BY <1>2, <2>2 DEF Itself, VotesCounted
    <3>2. VoteTells(Now(n, r), Out(r), j)
      BY <1>2 DEF Consistent
    <3>3. j.accepted_term \in Nat /\ j.accepted_version \in Nat
      BY <1>2, MessageFields DEF Of, Fine
    <3>4. Now(n, r)[k].term \in Nat
      <4>1. k \in Node
        BY <1>1
      <4> QED
        BY <1>2, <4>1, RecordFields DEF Fine
    <3>5. ASSUME NEW u \in Published(Out(r)), u.term < r.term, Accepts(Out(r), k, u)
          PROVE  ~FresherState(u, r.accepted)
      <4>1. ~Fresher(u.term, u.version, j.accepted_term, j.accepted_version)
        BY <3>1, <3>2, <3>5 DEF VoteTells
      <4>2. u.term \in Nat /\ u.version \in Nat
        BY <1>2, PublishedType DEF Fine
      <4> QED
        BY <1>1, <3>1, <3>3, <4>1, <4>2, SMT DEF FresherState, Fresher
    <3>6. Now(n, r)[k].term >= r.term
      BY <1>1, <3>1, <3>2, <3>4 DEF VoteTells
    <3> QED
      BY <3>5, <3>6
  <2> QED
    BY <2>1, <2>2
<1>4. r.join_votes \cup {n} \in SUBSET Node
  BY <1>1
<1> QED
  BY <1>3, <1>4

(* become_leader: the first state of the term is built on what the node     *)
(* accepted last.                                                           *)
LEMMA KeptBecomeLeader ==
    ASSUME Inv, NEW n \in Node, NEW r, Kept(n, r), r.mode = "Candidate", r.term > 0,
           ElectionQuorum(r.accepted, r.join_votes \cup {n}),
           OneLeader(Out(r) \cup {LeaderNote(n, r.term)})
    PROVE  Kept(n, BecomeLeader(n, r))
<1> DEFINE t == NextState(r.accepted)
           s == [t EXCEPT !.nodes = @ \cup r.join_votes \cup {n}]
           note == LeaderNote(n, r.term)
           l == [r EXCEPT !.mode = "Leader", !.leader = n, !.join_votes = {},
                          !.lagging = {}, !.out = @ \cup {note}]
           q == Send(n, l, s)
<1>1. /\ Good(r) /\ r \in NodeState /\ r.accepted \in ClusterState
      /\ r.committed \in ClusterState /\ r.join_votes \subseteq Node /\ r.term \in Nat
      /\ Configured(r.accepted) /\ Configured(r.committed) /\ r.accepted.term <= r.term
      /\ ~FresherState(r.committed, r.accepted)
  BY GoodFields DEF Kept
<1>2. /\ HasQuorum(InitialConfig, r.join_votes \cup {n})
      /\ r.accepted.last_committed_config = InitialConfig
      /\ r.accepted.last_accepted_config = InitialConfig
  BY <1>1 DEF Configured, ElectionQuorum, HasQuorum
<1>3. /\ t \in ClusterState /\ t.version = r.accepted.version + 1
      /\ t.last_committed_config = InitialConfig
      /\ t.last_accepted_config = InitialConfig
      /\ t.lineage = r.accepted.lineage
  <2>1. NextState(r.accepted).lineage = r.accepted.lineage
    BY <1>1 DEF NextState, ClusterState
  <2> QED
    BY <1>1, <1>2, <2>1, NextStateType
<1> HIDE DEF t
<1>4. /\ s \in ClusterState /\ s.version = r.accepted.version + 1
      /\ s.last_committed_config = InitialConfig
      /\ s.last_accepted_config = InitialConfig
      /\ s.lineage = r.accepted.lineage
  BY <1>1, <1>3 DEF ClusterState
<1>5. note \in Messages /\ note.type = "LeaderNote" /\ note.from = n /\ note.term = r.term
  BY <1>1 DEF Messages, LeaderNote
<1>6. l \in NodeState
  BY <1>1, <1>5 DEF NodeState
<1>7. /\ l.committed = r.committed /\ l.exclusions = r.exclusions /\ l.term = r.term
      /\ l.mode = "Leader" /\ l.join_votes = {} /\ l.out = r.out \cup {note}
      /\ l.run = r.run /\ l.next_request = r.next_request
  BY <1>1 DEF NodeState
<1>8. BecomeLeader(n, r) = Settle(n, q)
  BY DEF BecomeLeader, LeaderNote, t
<1> HIDE DEF l, s
<1>9. /\ Configured(l.committed) /\ l.exclusions = {} /\ l.term > 0
      /\ l.committed.term <= l.term
      /\ l.committed.term = l.term => l.committed.version <= s.version
  BY <1>1, <1>4, <1>7, SMT DEF Good, Sound, FresherState, Fresher, ClusterState
<1>10. Good(q)
  BY <1>4, <1>6, <1>9, SendGood DEF Continues
<1> HIDE DEF note
<1>11. Out(l) = Out(r) \cup {note} /\ OneLeader(Out(l)) /\ Leads(Out(l), n, r.term)
  <2>1. Out(l) = Out(r) \cup {note}
    BY <1>7 DEF Out
  <2>2. OneLeader(Out(l))
    BY <2>1 DEF note
  <2>3. note \in Of(Out(l), "LeaderNote")
    BY <1>5, <2>1 DEF Of
  <2> QED
    BY <1>5, <2>1, <2>2, <2>3 DEF Leads
<1>12. /\ l.join_votes \subseteq r.join_votes /\ r.out \subseteq l.out
       /\ \A m \in l.out \ r.out : m = LeaderNote(n, r.term)
  BY <1>7 DEF note
<1>13. \E Q \in SUBSET Node :
          /\ HasQuorum(InitialConfig, Q)
          /\ \A k \in Q :
               /\ Now(n, r)[k].term >= r.term
               /\ \A u \in Published(Out(r)) :
                    u.term < r.term /\ Accepts(Out(r), k, u) => ~FresherState(u, r.accepted)
  BY <1>2, VotersTold
<1> HIDE DEF q
<1>14. Kept(n, q) /\ q.mode = "Leader"
  <2>1. /\ l \in NodeState /\ s \in ClusterState /\ Good(Send(n, l, s))
        /\ l.mode = "Leader" /\ l.term = r.term /\ l.committed = r.committed
        /\ l.run = r.run /\ l.next_request = r.next_request
        /\ l.join_votes \subseteq r.join_votes /\ r.out \subseteq l.out
        /\ s.version = r.accepted.version + 1 /\ s.lineage = r.accepted.lineage
    BY <1>4, <1>6, <1>7, <1>10, <1>12 DEF q
  <2>2. /\ \A m \in l.out \ r.out : m = LeaderNote(n, r.term)
        /\ OneLeader(Out(l)) /\ Leads(Out(l), n, r.term)
    BY <1>11, <1>12
  <2>3. Kept(n, Send(n, l, s)) /\ Send(n, l, s).mode = "Leader"
    BY <1>13, <2>1, <2>2, KeptSend, SMT
  <2> QED
    BY <2>3 DEF q
<1> QED
  BY <1>8, <1>14, KeptSettle

(* A handler says one thing more, and changes nothing else that matters.    *)
LEMMA KeptSays ==
    ASSUME Inv, NEW n \in Node, NEW r, NEW q, Kept(n, r), Good(q), NEW x,
           q.term = r.term, q.mode = r.mode, q.leader = r.leader,
           q.accepted = r.accepted, q.committed = r.committed,
           q.join_votes = r.join_votes, q.publishing = r.publishing,
           q.next_request = r.next_request, q.run = r.run,
           r.out \subseteq q.out, q.out \ r.out \subseteq {x},
           SaysTrue(n, r, q, x), x.type # "CommitNote"
    PROVE  Kept(n, q)
<1>1. /\ Good(r) /\ r.term \in Nat /\ r.next_request \in Nat /\ r.accepted \in ClusterState
  BY GoodFields DEF Kept
<1>2. Itself(n, r) /\ Out(r) \subseteq Out(q)
  BY KeptItself DEF Out
<1>3. \A ty : Of(Out(r), ty) \subseteq Of(Out(q), ty)
  BY <1>2 DEF Of
<1>4. Itself(n, q)
  <2>1. TakenFromManagers(Out(q), q)
    BY <1>2, TakenStays DEF Itself
  <2>2. \A k, t : Leads(Out(r), k, t) => Leads(Out(q), k, t)
    BY <1>3 DEF Leads
  <2>3. q.mode = "Leader" /\ q.publishing # None => InFlight(Out(q), n, q)
    <3>1. r.mode = "Leader" /\ r.publishing # None => InFlight(Out(r), n, r)
      BY <1>2 DEF Itself, RoleKept
    <3>2. \A k : Accepts(Out(r), k, r.accepted) => Accepts(Out(q), k, r.accepted)
      BY <1>3 DEF Accepts
    <3> QED
      BY <1>3, <3>1, <3>2 DEF InFlight
  <2>4. RoleKept(Out(q), n, q)
    BY <1>2, <2>2, <2>3 DEF Itself, RoleKept
  <2>5. VotesCounted(Out(q), n, q)
    BY <1>2, <1>3, SMT DEF Itself, VotesCounted
  <2> QED
    BY <2>1, <2>4, <2>5 DEF Itself
<1>5. Proceeds(r, q)
  BY <1>1, NotFresherThanItself, SMT DEF Proceeds
<1>6. /\ Of(Out(q), "CommitNote") = Of(Out(r), "CommitNote")
      /\ Of(q.out, "CommitNote") = Of(r.out, "CommitNote")
  BY DEF Out, Of
<1>7. Forth(n, q)
  BY <1>6 DEF Kept, Forth
<1>8. NewestCommit(Out(q))
  BY <1>6 DEF Kept, Consistent, NewestCommit
<1>9. \A m \in q.out \ r.out : SaysTrue(n, r, q, m)
  OBVIOUS
<1> QED
  BY <1>4, <1>5, <1>7, <1>8, <1>9, KeptPlain

(* A join at a manager is answered with what it committed, or makes it      *)
(* publish.                                                                 *)
LEMMA KeptJoinAtLeader ==
    ASSUME Inv, NEW n \in Node, NEW r, Kept(n, r), r.mode = "Leader",
           NEW from \in Node, node[from].term >= r.term, from # n, NEW same
    PROVE  Kept(n, JoinAtLeader(n, r, from, same))
<1> DEFINE heard == [r EXCEPT !.pending_removals = @ \ {from}]
           answer == JoinResponse(n, from, r.committed)
           sent == {JoinResponse(n, m, r.committed) : m \in {from} \cap budget.answered}
           answers == [heard EXCEPT !.out = @ \cup sent]
           waits == [heard EXCEPT !.lagging = @ \ {from}, !.waiting_joins = @ \cup {from}]
<1>1. /\ Good(r) /\ r \in NodeState /\ r.committed \in ClusterState /\ r.term \in Nat
      /\ r.committed.term \in Nat /\ r.accepted.term \in Nat /\ r.accepted \in ClusterState
      /\ r.next_request \in Nat /\ r.run \in Nat
      /\ ~FresherState(r.committed, r.accepted) /\ r.accepted.term <= r.term
      /\ Configured(r.committed)
  BY GoodFields DEF Kept
<1>2. /\ answer \in Messages /\ answer.type = "JoinResponse"
      /\ answer.state = r.committed /\ answer.from = n /\ answer.to = from
  BY <1>1 DEF JoinResponse, Messages
<1>3. JoinAtLeader(n, r, from, same) = answers
      \/ JoinAtLeader(n, r, from, same) = NextPublication(n, waits)
  BY DEF JoinAtLeader
<1>4. sent \subseteq {answer}
  OBVIOUS
<1> HIDE DEF answer, sent
<1>5. answers \in NodeState /\ waits \in NodeState
  BY <1>1, <1>2, <1>4 DEF NodeState
<1>6. /\ answers.accepted = r.accepted /\ answers.committed = r.committed
      /\ answers.exclusions = r.exclusions /\ answers.term = r.term /\ answers.mode = r.mode
      /\ answers.join_votes = r.join_votes /\ answers.out = r.out \cup sent
      /\ answers.publishing = r.publishing /\ answers.leader = r.leader
      /\ answers.next_request = r.next_request /\ answers.run = r.run
  BY <1>1 DEF NodeState
<1>7. /\ waits.accepted = r.accepted /\ waits.committed = r.committed
      /\ waits.exclusions = r.exclusions /\ waits.term = r.term /\ waits.mode = r.mode
      /\ waits.join_votes = r.join_votes /\ waits.out = r.out
      /\ waits.publishing = r.publishing /\ waits.leader = r.leader
      /\ waits.next_request = r.next_request /\ waits.run = r.run
  BY <1>1 DEF NodeState
<1> HIDE DEF answers, waits
<1>8. Good(answers) /\ Good(waits)
  BY <1>1, <1>5, <1>6, <1>7 DEF Good, Sound
<1>9. Kept(n, waits)
  BY <1>7, <1>8, KeptAlike DEF Alike
<1>10. Kept(n, answers)
  <2>1. Itself(n, r) /\ Out(r) \subseteq Out(answers)
    BY <1>6, KeptItself DEF Out
  <2>2. Blank(r.committed) \/ Noted(Out(answers), r.committed)
    BY <2>1, MoreMessages DEF Itself, TakenFromManagers
  <2>3. PICK e \in Of(Out(r), "LeaderNote") : e.from = n /\ e.term = r.term
    BY <2>1 DEF Itself, RoleKept, Leads
  <2>4. e \in Of(Out(answers), "LeaderNote")
    BY <2>1 DEF Of
  <2>5. r.committed.term <= r.term
    BY <1>1, SMT DEF FresherState, Fresher
  <2>6. Now(n, answers)[from] = node[from] /\ node[from].term \in Nat
    BY DEF Now, Inv, TypeOK, NodeState
  <2>7. e.term <= Now(n, answers)[answer.to].term
    BY <1>1, <1>2, <2>3, <2>6
  <2>8. JoinAnswered(Now(n, answers), Out(answers), answer)
    BY <1>2, <2>2, <2>3, <2>4, <2>5, <2>7 DEF JoinAnswered
  <2>9. SaysTrue(n, r, answers, answer) /\ answer.type # "CommitNote"
    BY <1>2, <2>8 DEF SaysTrue
  <2>10. r.out \subseteq answers.out /\ answers.out \ r.out \subseteq {answer}
    BY <1>4, <1>6
  <2> QED
    BY <1>6, <1>8, <2>9, <2>10, KeptSays
<1> QED
  BY <1>3, <1>9, <1>10, KeptNextPublication

(* on_join.                                                                 *)
LEMMA KeptOnJoin ==
    ASSUME Inv, NEW n \in Node, NEW was, Kept(n, was), NEW from \in Node,
           NEW term \in Nat, term > 0, NEW aTerm \in Nat, NEW aVersion \in Nat, NEW same,
           from = n \/ \E j \in Of(msgs, "Join") :
                          /\ j.from = from /\ j.term = term
                          /\ j.accepted_term = aTerm /\ j.accepted_version = aVersion,
           OneLeader(Out(OnJoin(n, was, from, term, aTerm, aVersion, same)))
    PROVE  Kept(n, OnJoin(n, was, from, term, aTerm, aVersion, same))
<1> DEFINE r == SawTerm(was, term)
           q == OnJoin(n, was, from, term, aTerm, aVersion, same)
           voted == [r EXCEPT !.join_votes = @ \cup {from}]
<1>1. Kept(n, r) /\ Good(r) /\ term <= r.term /\ r.term \in Nat
  <2>1. Kept(n, r)
    BY KeptSawTerm
  <2>2. Good(was)
    BY DEF Kept
  <2>3. Good(r) /\ (IF term <= was.term THEN r = was ELSE r.term = term)
    BY <2>2, SawTermGood
  <2> HIDE DEF r
  <2>4. term <= r.term
    BY <2>3, SMT
  <2> QED
    BY <2>1, <2>3, <2>4, GoodFields
<1> HIDE DEF r
<1>2. CASE term < r.term \/ Fresher(aTerm, aVersion, r.accepted.term, r.accepted.version)
  <2>1. q = r
    BY <1>2 DEF OnJoin, r
  <2> QED
    BY <1>1, <2>1
<1>3. CASE ~(term < r.term \/ Fresher(aTerm, aVersion, r.accepted.term, r.accepted.version))
  <2>1. term = r.term
    BY <1>1, <1>3, SMT
  <2>2. from = n \/ \E j \in Of(msgs, "Join") :
                      /\ j.from = from /\ j.term = r.term
                      /\ ~Fresher(j.accepted_term, j.accepted_version,
                                  r.accepted.term, r.accepted.version)
    BY <1>3, <2>1
  <2>3. /\ Kept(n, voted) /\ voted.mode = r.mode /\ voted.term = r.term
        /\ voted.accepted = r.accepted
        /\ voted.join_votes = r.join_votes \cup {from} /\ voted.out = r.out
    BY <1>1, <2>2, KeptVote, SMT
  <2> HIDE DEF voted
  <2>4. CASE r.mode = "Candidate"
    <3>1. CASE n \in Eligible /\ ElectionQuorum(r.accepted, voted.join_votes \cup {n})
      <4>1. q = BecomeLeader(n, voted)
        BY <1>3, <2>4, <3>1 DEF OnJoin, r, voted
      <4>2. ElectionQuorum(voted.accepted, voted.join_votes \cup {n}) /\ voted.term > 0
        BY <2>1, <2>3, <3>1
      <4>3. Good(voted) /\ voted.join_votes \subseteq Node
        <5>1. Good(voted)
          BY <2>3 DEF Kept
        <5> QED
          BY <5>1, GoodFields
      <4>4. Elects(n, voted, voted.join_votes \cup {n}, BecomeLeader(n, voted))
        BY <2>3, <2>4, <4>2, <4>3, BecomeLeaderGood
      <4>5. Out(voted) \cup {LeaderNote(n, voted.term)} \subseteq Out(q)
        BY <4>1, <4>4 DEF Elects, Out
      <4>6. OneLeader(Out(voted) \cup {LeaderNote(n, voted.term)})
        BY <4>5 DEF OneLeader, Of
      <4> QED
        BY <2>3, <2>4, <4>1, <4>2, <4>6, KeptBecomeLeader
    <3>2. CASE ~(n \in Eligible /\ ElectionQuorum(r.accepted, voted.join_votes \cup {n}))
      <4>1. q = voted
        BY <1>3, <2>4, <3>2 DEF OnJoin, r, voted
      <4> QED
        BY <2>3, <4>1
    <3> QED
      BY <3>1, <3>2
  <2>5. CASE r.mode = "Leader"
    <3>1. q = IF from = n THEN r ELSE JoinAtLeader(n, r, from, same)
      BY <1>3, <2>5 DEF OnJoin, r
    <3>2. CASE from # n
      <4>1. PICK j \in Of(msgs, "Join") : j.from = from /\ j.term = term
        BY <3>2
      <4>2. j \in Of(Out(r), "Join")
        BY DEF Of, Out
      <4>3. VoteTells(Now(n, r), Out(r), j)
        BY <1>1, <4>2 DEF Kept, Consistent
      <4>4. Now(n, r)[from] = node[from] /\ node[from].term \in Nat
        BY <3>2 DEF Now, Inv, TypeOK, NodeState
      <4>5. node[from].term >= r.term
        BY <1>1, <2>1, <4>1, <4>3, <4>4 DEF VoteTells
      <4> QED
        BY <1>1, <2>5, <3>1, <3>2, <4>5, KeptJoinAtLeader
    <3> QED
      BY <1>1, <3>1, <3>2
  <2>6. CASE r.mode # "Candidate" /\ r.mode # "Leader"
    <3>1. q = r
      BY <1>3, <2>6 DEF OnJoin, r
    <3> QED
      BY <1>1, <3>1
  <2> QED
    BY <2>4, <2>5, <2>6
<1> QED
  BY <1>2, <1>3
=============================================================================
