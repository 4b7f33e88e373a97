----------------------------- MODULE MCWifiConn -----------------------------
(* WifiConn on small constants, for TLC. *)
EXTENDS WifiConn
=============================================================================
