----------------------------- MODULE MCLogPath ------------------------------
(* LogPath for TLC. *)
EXTENDS LogPath
=============================================================================
