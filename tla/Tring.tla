------------------------------- MODULE Tring -------------------------------
(***************************************************************************)
(* kmod/tring.c: the fixed-capacity record ring with a drop-oldest policy. *)
(* Pure data-structure logic, so operators on the value of struct tring.   *)
(* The C unsigned arithmetic never wraps in the values used here: head and *)
(* count stay at most TRING_CAP, and head - count + TRING_CAP, computed    *)
(* modulo 2^32 in C, is never negative.                                    *)
(***************************************************************************)
EXTENDS Integers, Sequences

CONSTANTS
  TRING_CAP,   (* number of slots (256 in the code)                        *)
  Record       (* struct telemetry_record, abstracted to its identity      *)

ASSUME CapAssumption == TRING_CAP \in Nat \ {0}

Slots == 0 .. TRING_CAP - 1

(* The type of struct tring. *)
TringType ==
  [buf : [Slots -> Record], head : Slots, count : 0 .. TRING_CAP,
   produced : Nat, dropped : Nat]

(* Mutants: the reset forgets the count; drops are not counted; the newest *)
(* record is popped instead of the oldest.                                 *)
tring_init_KeepsCount(r) ==
  [buf |-> r.buf, head |-> 0, count |-> r.count, produced |-> 0, dropped |-> 0]

tring_push_SilentDrop(r, rec) ==
  [buf |-> [r.buf EXCEPT ![r.head] = rec], head |-> (r.head + 1) % TRING_CAP,
   count |-> IF r.count = TRING_CAP THEN r.count ELSE r.count + 1,
   produced |-> r.produced + 1, dropped |-> r.dropped]

tail_Newest(r) == (r.head + TRING_CAP - 1) % TRING_CAP

(* tring_init leaves the slots as they are and zeroes everything else. *)
tring_init(r) ==
  [buf |-> r.buf, head |-> 0, count |-> 0, produced |-> 0, dropped |-> 0]

(* A full ring overwrites the slot at head, which holds the oldest record. *)
tring_push(r, rec) ==
  LET full == r.count = TRING_CAP
  IN  [buf      |-> [r.buf EXCEPT ![r.head] = rec],
       head     |-> (r.head + 1) % TRING_CAP,
       count    |-> IF full THEN r.count ELSE r.count + 1,
       produced |-> r.produced + 1,
       dropped  |-> IF full THEN r.dropped + 1 ELSE r.dropped]

(* The slot of the oldest record. *)
tail(r) == (r.head - r.count + TRING_CAP) % TRING_CAP

(* tring_pop on a ring that is not empty: *out and the ring it leaves. *)
tring_pop_out(r) == r.buf[tail(r)]
tring_pop(r) == [r EXCEPT !.count = @ - 1]

tring_count(r) == r.count

(* The slot of the k-th oldest record, k in 1 .. count. *)
SlotOf(r, k) == (r.head - r.count + TRING_CAP + k - 1) % TRING_CAP

(* What the ring holds, oldest first: the abstract value of struct tring. *)
Contents(r) == [k \in 1 .. r.count |-> r.buf[SlotOf(r, k)]]
=============================================================================
