----------------------------- MODULE MCOtaBoot ------------------------------
(* OtaBoot on a small instance, for TLC, and its refinement of SafeUpdate. *)
EXTENDS OtaBoot
=============================================================================
