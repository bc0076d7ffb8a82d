--------------------------- MODULE DeviceRegistry ---------------------------
(***************************************************************************)
(* What the device table promises its callers (server/device_table.h): a   *)
(* device is registered once, on the first sight of its id, it is never    *)
(* removed, and the count is the number of devices.                        *)
(***************************************************************************)
EXTENDS Integers

CONSTANT Id

VARIABLES registered, count

Register(id) ==
  /\ id \notin registered
  /\ registered' = registered \cup {id}
  /\ count' = count + 1

Init == registered = {} /\ count = 0

Next == \E id \in Id : Register(id)

Spec == Init /\ [][Next]_<<registered, count>>
=============================================================================
