---------------------------- MODULE MCAdmission ----------------------------
(* A pool of two places with room for one to wait.  Two small bodies fit   *)
(* the in-flight breaker together, a small and a large one do not.         *)
EXTENDS Admission

CONSTANTS c1, c2, c3, c4, n1

MCBodies == [r \in Client |-> IF r \in {c1, c2} THEN {1} ELSE {2}]
=============================================================================
