-------------------------- MODULE DropOldestQueue --------------------------
(***************************************************************************)
(* What /dev/telemetry promises its users (kmod/telemetry_drv.c, header    *)
(* comment): a bounded queue whose writers never wait.  A write into a     *)
(* full queue forgets the oldest record, a read takes records oldest       *)
(* first, and a reset empties the queue.                                   *)
(***************************************************************************)
EXTENDS Integers, Sequences

CONSTANTS Capacity, Element

VARIABLE queue

Push(e) ==
  queue' = IF Len(queue) = Capacity THEN Append(Tail(queue), e)
                                    ELSE Append(queue, e)

Take ==
  /\ queue # << >>
  /\ queue' = Tail(queue)

Clear == queue' = << >>

Init == queue = << >>

Next ==
  \/ \E e \in Element : Push(e)
  \/ Take
  \/ Clear

Spec == Init /\ [][Next]_queue
=============================================================================
