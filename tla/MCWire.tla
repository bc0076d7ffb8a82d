------------------------------- MODULE MCWire -------------------------------
(* Instances of Wire for TLC. *)
EXTENDS Wire

SomeIds == {4097, -1}              \* 0x1001 and 0xFFFFFFFF

(* Zero, a negative temperature, and the largest and smallest fields. *)
SomeReadings ==
  {[seq |-> 42, time |-> 123456, temp |-> 2654, humid |-> 4810],
   [seq |-> -1, time |-> 2147483647, temp |-> -4000, humid |-> 0],
   [seq |-> 0, time |-> 0, temp |-> 0, humid |-> 0]}

SomeCounts == {0, 65541, -1}       \* 1.0.5, and the extremes

(* Every payload of up to four bytes over the bytes where carries happen,   *)
(* and three longer ones that fold more than once.                          *)
EdgeBytes == {0, 1, 255}
SomePayloads ==
  UNION {[1 .. n -> EdgeBytes] : n \in 0 .. 4}
    \cup {[i \in 1 .. 15 |-> 255], [i \in 1 .. 16 |-> 255], [i \in 1 .. 9 |-> 128 + i]}
=============================================================================
