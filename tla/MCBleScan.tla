----------------------------- MODULE MCBleScan ------------------------------
(* BleScan for TLC. *)
EXTENDS BleScan
=============================================================================
