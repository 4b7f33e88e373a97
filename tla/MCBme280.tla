----------------------------- MODULE MCBme280 ------------------------------
(* Bme280 for TLC. *)
EXTENDS Bme280
=============================================================================
