-------------------------- MODULE CoordinationLog --------------------------
(***************************************************************************)
(* Coordination implements ClusterLog: the log is everything that the      *)
(* states committed so far were built from.                                *)
(***************************************************************************)
EXTENDS Coordination

Log == UNION {c.lineage : c \in Committed}

Seen == [n \in Node |-> node[n].committed.lineage]

ClusterLogOf == INSTANCE ClusterLog WITH log <- Log, seen <- Seen

(* The committed states are one log that every node moves along: elections *)
(* that lose the manager in the middle of a publication, late answers and  *)
(* restarts neither fork it nor take anything back (become_leader, publish,*)
(* commit_publication, apply_committed).                                   *)
OneLog == ClusterLogOf!Spec
=============================================================================
