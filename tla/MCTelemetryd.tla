---------------------------- MODULE MCTelemetryd ----------------------------
(* Instances of Telemetryd for TLC. *)
EXTENDS Telemetryd
=============================================================================
