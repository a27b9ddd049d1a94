----------------------------- MODULE MCRuntime -----------------------------
(* Runtime, for TLC. *)
EXTENDS Runtime
CONSTANTS p, q
=============================================================================
