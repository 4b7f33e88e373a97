----------------------------- MODULE MCTaskStop -----------------------------
(* TaskStop for TLC. *)
EXTENDS TaskStop
=============================================================================
