--------------------------- MODULE MCDeviceTable ---------------------------
(* Instances of DeviceTable for TLC. *)
EXTENDS DeviceTable, TLC

Symmetry == Permutations(Workers)
=============================================================================
