------------------------------ MODULE MCSinks ------------------------------
(* Instances of Sinks for TLC. *)
EXTENDS Sinks

RecordSet == 0 .. MaxRecords
=============================================================================
