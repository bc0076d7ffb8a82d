------------------------------ MODULE RingLog ------------------------------
(***************************************************************************)
(* server/ring_log.c: the in-memory record sink, written by every worker   *)
(* thread and dumped by the reaper thread.  The slots and g_head change    *)
(* under g_lock, so a locked section is one step; the two counters are     *)
(* atomics updated after the unlock, one step each, and a dump reads them  *)
(* before it takes the lock.                                               *)
(***************************************************************************)
EXTENDS Integers, Sequences, FiniteSets

CONSTANTS
  RING_SLOTS,    (* slots of g_ring (1024 in the code)                     *)
  SHOW,          (* rows a dump prints (5 in the code)                     *)
  Writers,       (* worker threads                                         *)
  MaxRecords     (* bound: records written in one behaviour                *)

ASSUME RingLogAssumption ==
  /\ RING_SLOTS \in Nat \ {0}
  /\ SHOW \in Nat
  /\ MaxRecords \in Nat
  /\ IsFiniteSet(Writers)

VARIABLES
  g_ring, g_head, g_written, g_overwritten,
  wr,            (* wr[t]: where t stands inside rl_write                  *)
  dump,          (* the dump in progress, or the last one, and its output  *)
  stored         (* history: every record stored, in the order of storing  *)

vars == <<g_ring, g_head, g_written, g_overwritten, wr, dump, stored>>

Records == 1 .. MaxRecords
Zeroed == 0
Smaller(a, b) == IF a < b THEN a ELSE b

TypeOK ==
  /\ g_ring \in [0 .. RING_SLOTS - 1 -> Records \cup {Zeroed}]
  /\ g_head \in 0 .. MaxRecords
  /\ g_written \in 0 .. MaxRecords
  /\ g_overwritten \in 0 .. MaxRecords
  /\ wr \in [Writers -> {"idle", "count", "lost"}]
  /\ dump \in [pc : {"idle", "lost", "rows"}, written : 0 .. MaxRecords,
               lost : 0 .. MaxRecords, fill : 0 .. RING_SLOTS, rows : Seq(Records)]
  /\ stored \in Seq(Records)

(* main.c opens the sink before it starts any thread. *)
Init ==
  /\ g_ring = [s \in 0 .. RING_SLOTS - 1 |-> Zeroed]
  /\ g_head = 0 /\ g_written = 0 /\ g_overwritten = 0
  /\ wr = [t \in Writers |-> "idle"]
  /\ dump = [pc |-> "idle", written |-> 0, lost |-> 0, fill |-> 0, rows |-> << >>]
  /\ stored = << >>

Kept == Smaller(g_head, RING_SLOTS)

(* Mutants: a slot is skipped; the loss is decided from g_head, which other *)
(* writers have moved; a dump starts at the slot that is written next.      *)
Store_SkipsSlot(t) ==
  /\ wr[t] = "idle"
  /\ Len(stored) < MaxRecords
  /\ g_ring' = [g_ring EXCEPT ![(g_head + 1) % RING_SLOTS] = Len(stored) + 1]
  /\ g_head' = g_head + 1
  /\ stored' = Append(stored, Len(stored) + 1)
  /\ wr' = [wr EXCEPT ![t] = "count"]
  /\ UNCHANGED <<g_written, g_overwritten, dump>>

CountWritten_ByHead(t) ==
  /\ wr[t] = "count"
  /\ g_written' = g_written + 1
  /\ wr' = [wr EXCEPT ![t] = IF g_head > RING_SLOTS THEN "lost" ELSE "idle"]
  /\ UNCHANGED <<g_ring, g_head, g_overwritten, dump, stored>>

RowSlot_AtHead(i) == (g_head - i) % RING_SLOTS

(* The locked section of rl_write: records are numbered as they are stored. *)
Store(t) ==
  /\ wr[t] = "idle"
  /\ Len(stored) < MaxRecords
  /\ g_ring' = [g_ring EXCEPT ![g_head % RING_SLOTS] = Len(stored) + 1]
  /\ g_head' = g_head + 1
  /\ stored' = Append(stored, Len(stored) + 1)
  /\ wr' = [wr EXCEPT ![t] = "count"]
  /\ UNCHANGED <<g_written, g_overwritten, dump>>

(* atomic_fetch_add(&g_written, 1), and the test of the value it returned. *)
CountWritten(t) ==
  /\ wr[t] = "count"
  /\ g_written' = g_written + 1
  /\ wr' = [wr EXCEPT ![t] = IF g_written + 1 > RING_SLOTS THEN "lost" ELSE "idle"]
  /\ UNCHANGED <<g_ring, g_head, g_overwritten, dump, stored>>

CountLost(t) ==
  /\ wr[t] = "lost"
  /\ g_overwritten' = g_overwritten + 1
  /\ wr' = [wr EXCEPT ![t] = "idle"]
  /\ UNCHANGED <<g_ring, g_head, g_written, dump, stored>>

(* rl_dump, run by the reaper only: two loads, then the locked section. *)
DumpWritten ==
  /\ dump.pc = "idle"
  /\ dump' = [dump EXCEPT !.pc = "lost", !.written = g_written]
  /\ UNCHANGED <<g_ring, g_head, g_written, g_overwritten, wr, stored>>

DumpLost ==
  /\ dump.pc = "lost"
  /\ dump' = [dump EXCEPT !.pc = "rows", !.lost = g_overwritten]
  /\ UNCHANGED <<g_ring, g_head, g_written, g_overwritten, wr, stored>>

(* The slot of row i, i = 0 the first printed. *)
RowSlot(i) == (g_head - 1 - i) % RING_SLOTS

DumpRows ==
  /\ dump.pc = "rows"
  /\ dump' = [dump EXCEPT !.pc = "idle", !.fill = Kept,
                !.rows = [i \in 1 .. Smaller(Kept, SHOW) |-> g_ring[RowSlot(i - 1)]]]
  /\ UNCHANGED <<g_ring, g_head, g_written, g_overwritten, wr, stored>>

Next ==
  \/ \E t \in Writers : Store(t) \/ CountWritten(t) \/ CountLost(t)
  \/ DumpWritten \/ DumpLost \/ DumpRows

Spec == Init /\ [][Next]_vars

-----------------------------------------------------------------------------
(* What the ring holds, oldest first. *)
Held == [k \in 1 .. Kept |-> g_ring[(g_head - Kept + k - 1) % RING_SLOTS]]

Queue == INSTANCE DropOldestQueue
  WITH queue <- Held, Capacity <- RING_SLOTS, Element <- Records

(* rl_write, interleaved by any number of workers, is a push into a bounded *)
(* queue that forgets its oldest record: each locked section is exactly one *)
(* push and nothing else touches the slots.                                 *)
ImplementsQueue == Queue!Spec

(* The counters trail the slots by exactly the workers between their unlock *)
(* and their increments (rl_write, lines 39-43): no write is counted twice, *)
(* and the losses counted and about to be counted are the records written   *)
(* beyond RING_SLOTS, although each worker decides from its own fetch_add.  *)
CountersAccountForSlots ==
  LET at(p) == Cardinality({t \in Writers : wr[t] = p})
      beyond == IF g_written > RING_SLOTS THEN g_written - RING_SLOTS ELSE 0
  IN  /\ g_written + at("count") = Len(stored)
      /\ g_overwritten + at("lost") = beyond

(* The rows a dump prints are the newest records stored when it holds the   *)
(* lock, newest first (rl_dump, "show the most recent few records").        *)
DumpShowsNewest ==
  [][DumpRows =>
       dump'.rows = [i \in 1 .. Smaller(SHOW, Smaller(RING_SLOTS, Len(stored)))
                       |-> stored[Len(stored) - i + 1]]]_vars
=============================================================================
