--------------------------- MODULE RingLog_proofs ---------------------------
(***************************************************************************)
(* Proofs about RingLog: for every number of slots and of workers, the     *)
(* ring in memory is a drop-oldest queue, its counters account for its     *)
(* slots, and a dump shows the newest records.                             *)
(***************************************************************************)
EXTENDS RingLog, FiniteSetTheorems, SequenceTheorems, TLAPS

(* The ring holds the newest records stored, each at its place. *)
SlotsHoldNewest ==
  /\ Len(stored) = g_head
  /\ \A j \in 1 .. g_head : j > g_head - RING_SLOTS => g_ring[(j - 1) % RING_SLOTS] = stored[j]

(* The inductive invariant. *)
IInv == TypeOK /\ SlotsHoldNewest /\ CountersAccountForSlots

-----------------------------------------------------------------------------
(* g_head is never reduced, so a slot index is a remainder of any size. *)
LEMMA ModForm ==
  ASSUME NEW a \in Int, NEW R \in Nat \ {0}
  PROVE  a % R \in 0 .. R - 1 /\ \E q \in Int : a = q * R + (a % R)
<1>1. a % R \in 0 .. R - 1
  OBVIOUS
<1>2. a = (a \div R) * R + (a % R)
  OBVIOUS
<1>3. a \div R \in Int
  OBVIOUS
<1> QED BY <1>1, <1>2, <1>3

(* Fewer than RING_SLOTS records in a row never share a slot. *)
LEMMA ModDistinct ==
  ASSUME NEW a \in Int, NEW b \in Int, NEW R \in Nat \ {0}, b < a, a < b + R
  PROVE  a % R # b % R
<1> SUFFICES ASSUME a % R = b % R PROVE FALSE
  OBVIOUS
<1>1. PICK p \in Int : a = p * R + (a % R)
  BY ModForm
<1>2. PICK q \in Int : b = q * R + (b % R)
  BY ModForm
<1> DEFINE d == p - q
<1>3. d \in Int /\ a - b = d * R
  BY <1>1, <1>2
<1>4. d <= 0 => d * R <= 0
  BY <1>3
<1>5. d >= 1 => d * R >= R
  BY <1>3
<1> QED BY <1>3, <1>4, <1>5

-----------------------------------------------------------------------------
At(p) == {t \in Writers : wr[t] = p}

Beyond(n) == IF n > RING_SLOTS THEN n - RING_SLOTS ELSE 0

LEMMA CountersForm ==
  CountersAccountForSlots <=>
    /\ g_written + Cardinality(At("count")) = Len(stored)
    /\ g_overwritten + Cardinality(At("lost")) = Beyond(g_written)
BY DEF CountersAccountForSlots, At, Beyond

LEMMA AtFinite ==
  ASSUME NEW p
  PROVE  IsFiniteSet(At(p)) /\ Cardinality(At(p)) \in Nat
<1>1. At(p) \in SUBSET Writers
  BY DEF At
<1> QED BY <1>1, RingLogAssumption, FS_Subset, FS_CardinalityType

(* A worker moves from p to q. *)
LEMMA Moves ==
  ASSUME TypeOK, NEW t \in Writers, NEW p, NEW q, p # q,
         wr[t] = p, wr' = [wr EXCEPT ![t] = q]
  PROVE  /\ Cardinality(At(p)') = Cardinality(At(p)) - 1
         /\ Cardinality(At(q)') = Cardinality(At(q)) + 1
<1>1. At(p)' = At(p) \ {t} /\ t \in At(p)
  BY DEF At, TypeOK
<1>2. At(q)' = At(q) \cup {t} /\ t \notin At(q)
  BY DEF At, TypeOK
<1>3. Cardinality(At(p) \ {t}) = Cardinality(At(p)) - 1
  BY <1>1, AtFinite, FS_RemoveElement
<1>4. Cardinality(At(q) \cup {t}) = Cardinality(At(q)) + 1
  BY <1>2, AtFinite, FS_AddElement
<1> QED BY <1>1, <1>2, <1>3, <1>4

(* The counters stay within the records stored. *)
LEMMA CountersBounded ==
  ASSUME IInv
  PROVE  /\ g_written \in Nat /\ g_overwritten \in Nat /\ g_head \in Nat
         /\ g_written <= Len(stored) /\ Len(stored) = g_head /\ g_head <= MaxRecords
         /\ (At("count") # {} => g_written < Len(stored))
         /\ (At("lost") # {} => g_overwritten < Beyond(g_written))
         /\ Beyond(g_written) <= g_written
<1>1. g_written \in Nat /\ g_overwritten \in Nat /\ g_head \in Nat /\ g_head <= MaxRecords
  BY RingLogAssumption DEF IInv, TypeOK
<1>2. Len(stored) = g_head
  BY DEF IInv, SlotsHoldNewest
<1>3. \A p : Cardinality(At(p)) \in Nat /\ (At(p) # {} => Cardinality(At(p)) # 0)
  BY AtFinite, FS_EmptySet
<1> HIDE DEF At
<1> QED BY <1>1, <1>2, <1>3, CountersForm, RingLogAssumption DEF IInv, Beyond

-----------------------------------------------------------------------------
LEMMA InitIInv == Init => IInv
<1> SUFFICES ASSUME Init PROVE IInv
  OBVIOUS
<1>1. TypeOK /\ SlotsHoldNewest
  BY RingLogAssumption DEF Init, TypeOK, SlotsHoldNewest, Records, Zeroed
<1>2. At("count") = {} /\ At("lost") = {}
  BY DEF Init, At
<1>3. CountersAccountForSlots
  BY <1>2, FS_EmptySet, CountersForm, RingLogAssumption DEF Init, Beyond
<1> QED BY <1>1, <1>3 DEF IInv

(* rl_write's locked section overwrites the slot of no record that is kept. *)
LEMMA StoreIInv ==
  ASSUME IInv, NEW t \in Writers, Store(t)
  PROVE  IInv'
<1>a. /\ g_head \in Nat /\ stored \in Seq(Records) /\ Len(stored) = g_head
      /\ g_head + 1 \in Records /\ RING_SLOTS \in Nat \ {0}
  BY RingLogAssumption DEF IInv, TypeOK, SlotsHoldNewest, Store, Records
<1>b. g_ring \in [0 .. RING_SLOTS - 1 -> Records \cup {Zeroed}]
  BY DEF IInv, TypeOK
<1>c. g_head % RING_SLOTS \in 0 .. RING_SLOTS - 1
  BY <1>a
<1>1. TypeOK'
  <2>1. g_ring' \in [0 .. RING_SLOTS - 1 -> Records \cup {Zeroed}]
    BY <1>a, <1>b, <1>c DEF Store
  <2>2. stored' \in Seq(Records) /\ g_head' \in 0 .. MaxRecords
    BY <1>a DEF Store, Records
  <2>3. wr' \in [Writers -> {"idle", "count", "lost"}]
    BY DEF IInv, TypeOK, Store
  <2> QED BY <2>1, <2>2, <2>3 DEF IInv, TypeOK, Store
<1>2. SlotsHoldNewest'
  <2>1. Len(stored') = g_head' /\ g_head' = g_head + 1
    BY <1>a DEF Store
  <2>2. ASSUME NEW j \in 1 .. g_head + 1, j > g_head + 1 - RING_SLOTS
        PROVE  g_ring'[(j - 1) % RING_SLOTS] = stored'[j]
    <3>1. (j - 1) % RING_SLOTS \in 0 .. RING_SLOTS - 1
      BY <1>a
    <3>2. CASE j = g_head + 1
      BY <1>a, <1>b, <1>c, <3>2 DEF Store
    <3>3. CASE j # g_head + 1
      <4>1. g_head \in Int /\ j - 1 \in Int /\ j - 1 < g_head /\ g_head < (j - 1) + RING_SLOTS
        BY <1>a, <2>2, <3>3
      <4>2. g_head % RING_SLOTS # (j - 1) % RING_SLOTS
        BY <1>a, <4>1, ModDistinct, Zenon
      <4>3. g_ring'[(j - 1) % RING_SLOTS] = g_ring[(j - 1) % RING_SLOTS]
        BY <1>b, <3>1, <4>2 DEF Store
      <4>4. j \in 1 .. g_head /\ j > g_head - RING_SLOTS
        BY <1>a, <2>2, <3>3
      <4>5. stored'[j] = stored[j]
        BY <1>a, <4>4 DEF Store
      <4> QED BY <4>3, <4>4, <4>5 DEF IInv, SlotsHoldNewest
    <3> QED BY <3>2, <3>3
  <2> QED BY <1>a, <2>1, <2>2 DEF SlotsHoldNewest
<1>3. CountersAccountForSlots'
  <2>1. Cardinality(At("count")') = Cardinality(At("count")) + 1
    BY Moves DEF IInv, Store
  <2>a. At("lost")' = At("lost")
    BY DEF IInv, TypeOK, Store, At
  <2>2. Len(stored') = Len(stored) + 1 /\ g_written' = g_written /\ g_overwritten' = g_overwritten
    BY <1>a DEF Store
  <2>3. /\ g_written + Cardinality(At("count")) = Len(stored)
        /\ g_overwritten + Cardinality(At("lost")) = Beyond(g_written)
    BY CountersForm DEF IInv
  <2>4. g_written \in Nat /\ Cardinality(At("count")) \in Nat
    BY CountersBounded, AtFinite
  <2>5. /\ g_written' + Cardinality(At("count")') = Len(stored')
        /\ g_overwritten' + Cardinality(At("lost")') = Beyond(g_written')
    BY <1>a, <2>1, <2>a, <2>2, <2>3, <2>4
  <2> QED BY <2>5 DEF CountersAccountForSlots, At, Beyond
<1> QED BY <1>1, <1>2, <1>3 DEF IInv

(* The worker that brings g_written past RING_SLOTS is the one that counts  *)
(* the loss, whichever record it stored.                                    *)
LEMMA CountIInv ==
  ASSUME IInv, NEW t \in Writers, CountWritten(t) \/ CountLost(t)
  PROVE  IInv'
<1>a. /\ g_written \in Nat /\ g_overwritten \in Nat /\ Len(stored) <= MaxRecords
      /\ g_written <= Len(stored) /\ Len(stored) \in Nat
      /\ (At("count") # {} => g_written < Len(stored))
      /\ (At("lost") # {} => g_overwritten < Beyond(g_written))
      /\ Beyond(g_written) <= g_written
  BY CountersBounded
<1>b. /\ g_written + Cardinality(At("count")) = Len(stored)
      /\ g_overwritten + Cardinality(At("lost")) = Beyond(g_written)
  BY CountersForm DEF IInv
<1>c. \A p : Cardinality(At(p)) \in Nat
  BY AtFinite
<1>d. UNCHANGED <<g_ring, g_head, dump, stored>>
  BY DEF CountWritten, CountLost
<1>1. SlotsHoldNewest'
  BY <1>d DEF IInv, SlotsHoldNewest
<1>2. g_written' \in 0 .. MaxRecords /\ g_overwritten' \in 0 .. MaxRecords
  <2>1. CASE CountWritten(t)
    <3>1. At("count") # {}
      BY <2>1 DEF CountWritten, At
    <3> QED BY <1>a, <2>1, <3>1, RingLogAssumption DEF CountWritten, IInv, TypeOK
  <2>2. CASE CountLost(t)
    <3>1. At("lost") # {}
      BY <2>2 DEF CountLost, At
    <3>2. Beyond(g_written) \in Nat
      BY <1>a, RingLogAssumption DEF Beyond
    <3> QED BY <1>a, <2>2, <3>1, <3>2, RingLogAssumption DEF CountLost, IInv, TypeOK
  <2> QED BY <2>1, <2>2
<1>3. TypeOK'
  <2>1. wr' \in [Writers -> {"idle", "count", "lost"}]
    BY DEF IInv, TypeOK, CountWritten, CountLost
  <2> QED BY <1>2, <1>d, <2>1 DEF IInv, TypeOK
<1>4. /\ g_written' + Cardinality(At("count")') = Len(stored')
      /\ g_overwritten' + Cardinality(At("lost")') = Beyond(g_written')
  <2>1. CASE CountWritten(t) /\ g_written + 1 > RING_SLOTS
    <3>1. /\ Cardinality(At("count")') = Cardinality(At("count")) - 1
          /\ Cardinality(At("lost")') = Cardinality(At("lost")) + 1
      BY <2>1, Moves DEF IInv, CountWritten
    <3>2. g_written' = g_written + 1 /\ g_overwritten' = g_overwritten
      BY <2>1 DEF CountWritten
    <3>3. Beyond(g_written + 1) = Beyond(g_written) + 1
      BY <1>a, <2>1, RingLogAssumption DEF Beyond
    <3> QED BY <1>a, <1>b, <1>c, <1>d, <3>1, <3>2, <3>3
  <2>2. CASE CountWritten(t) /\ ~(g_written + 1 > RING_SLOTS)
    <3>1. Cardinality(At("count")') = Cardinality(At("count")) - 1
      BY <2>2, Moves DEF IInv, CountWritten
    <3>a. At("lost")' = At("lost")
      BY <2>2 DEF IInv, TypeOK, CountWritten, At
    <3>2. g_written' = g_written + 1 /\ g_overwritten' = g_overwritten
      BY <2>2 DEF CountWritten
    <3>3. Beyond(g_written + 1) = Beyond(g_written)
      BY <1>a, <2>2, RingLogAssumption DEF Beyond
    <3> QED BY <1>a, <1>b, <1>c, <1>d, <3>1, <3>a, <3>2, <3>3
  <2>3. CASE CountLost(t)
    <3>1. Cardinality(At("lost")') = Cardinality(At("lost")) - 1
      BY <2>3, Moves DEF IInv, CountLost
    <3>a. At("count")' = At("count")
      BY <2>3 DEF IInv, TypeOK, CountLost, At
    <3>2. g_written' = g_written /\ g_overwritten' = g_overwritten + 1
      BY <2>3 DEF CountLost
    <3> QED BY <1>a, <1>b, <1>c, <1>d, <3>1, <3>a, <3>2
  <2> QED BY <2>1, <2>2, <2>3
<1>5. CountersAccountForSlots'
  BY <1>4 DEF CountersAccountForSlots, At, Beyond
<1> QED BY <1>1, <1>3, <1>5 DEF IInv

(* The slots that a dump prints are those of the newest records. *)
LEMMA RowsAreNewest ==
  ASSUME IInv, NEW i \in 1 .. Smaller(Kept, SHOW)
  PROVE  g_ring[RowSlot(i - 1)] = stored[g_head - i + 1] /\ g_head - i + 1 \in 1 .. g_head
<1>1. g_head \in Nat /\ SHOW \in Nat /\ RING_SLOTS \in Nat \ {0}
  BY RingLogAssumption DEF IInv, TypeOK
<1>2. i \in Nat /\ i >= 1 /\ i <= g_head /\ i <= RING_SLOTS
  BY <1>1 DEF Smaller, Kept
<1> DEFINE j == g_head - i + 1
<1>3. j \in 1 .. g_head /\ j > g_head - RING_SLOTS
  BY <1>1, <1>2
<1>4. g_head - 1 - (i - 1) = j - 1
  BY <1>1, <1>2
<1>5. RowSlot(i - 1) = (j - 1) % RING_SLOTS
  BY <1>4, Zenon DEF RowSlot
<1> HIDE DEF j
<1>6. g_ring[(j - 1) % RING_SLOTS] = stored[j]
  BY <1>3 DEF IInv, SlotsHoldNewest
<1> QED BY <1>3, <1>5, <1>6 DEF j

LEMMA DumpIInv ==
  ASSUME IInv, DumpWritten \/ DumpLost \/ DumpRows
  PROVE  IInv'
<1>1. UNCHANGED <<g_ring, g_head, g_written, g_overwritten, wr, stored>>
  BY DEF DumpWritten, DumpLost, DumpRows
<1>2. SlotsHoldNewest' /\ CountersAccountForSlots'
  BY <1>1 DEF IInv, SlotsHoldNewest, CountersAccountForSlots
<1> DEFINE DumpType == [pc : {"idle", "lost", "rows"}, written : 0 .. MaxRecords,
                        lost : 0 .. MaxRecords, fill : 0 .. RING_SLOTS, rows : Seq(Records)]
<1>3. dump \in DumpType
  BY DEF IInv, TypeOK
<1>4. dump' \in DumpType
  <2>1. CASE DumpWritten
    BY <1>3, <2>1 DEF DumpWritten, IInv, TypeOK
  <2>2. CASE DumpLost
    BY <1>3, <2>2 DEF DumpLost, IInv, TypeOK
  <2>3. CASE DumpRows
    <3> DEFINE n == Smaller(Kept, SHOW)
               rows == [i \in 1 .. n |-> g_ring[RowSlot(i - 1)]]
    <3>1. n \in Nat /\ Kept \in 0 .. RING_SLOTS
      BY RingLogAssumption DEF IInv, TypeOK, Kept, Smaller
    <3>2. \A i \in 1 .. n : g_ring[RowSlot(i - 1)] \in Records
      <4> SUFFICES ASSUME NEW i \in 1 .. n PROVE g_ring[RowSlot(i - 1)] \in Records
        OBVIOUS
      <4>1. g_ring[RowSlot(i - 1)] = stored[g_head - i + 1] /\ g_head - i + 1 \in 1 .. g_head
        BY RowsAreNewest
      <4>2. stored \in Seq(Records) /\ Len(stored) = g_head
        BY DEF IInv, TypeOK, SlotsHoldNewest
      <4> QED BY <4>1, <4>2
    <3>3. dump' = [dump EXCEPT !.pc = "idle", !.fill = Kept, !.rows = rows]
      BY <2>3 DEF DumpRows
    <3> HIDE DEF n
    <3>4. rows \in Seq(Records)
      BY <3>1, <3>2
    <3> HIDE DEF rows
    <3> QED BY <1>3, <3>1, <3>3, <3>4
  <2> QED BY <2>1, <2>2, <2>3
<1>5. TypeOK'
  BY <1>1, <1>4 DEF IInv, TypeOK
<1> QED BY <1>2, <1>5 DEF IInv

LEMMA Inductive == Spec => []IInv
<1>1. IInv /\ [Next]_vars => IInv'
  <2> SUFFICES ASSUME IInv, [Next]_vars PROVE IInv'
    OBVIOUS
  <2>1. CASE UNCHANGED vars
    BY <2>1 DEF vars, IInv, TypeOK, SlotsHoldNewest, CountersAccountForSlots
  <2>2. CASE Next
    BY <2>2, StoreIInv, CountIInv, DumpIInv, Zenon DEF Next
  <2> QED BY <2>1, <2>2
<1> QED BY <1>1, InitIInv, PTL DEF Spec

-----------------------------------------------------------------------------
(* rl_write's two counters account for the slots, however many workers are  *)
(* between their unlock and their increments.                               *)
THEOREM CountersAccount == Spec => []CountersAccountForSlots
BY Inductive, PTL DEF IInv

(* A dump by the reaper prints the newest records, newest first, whatever    *)
(* the fill of the ring.                                                    *)
THEOREM DumpIsNewest == Spec => DumpShowsNewest
<1>1. ASSUME IInv, DumpRows
      PROVE  dump'.rows = [i \in 1 .. Smaller(SHOW, Smaller(RING_SLOTS, Len(stored)))
                             |-> stored[Len(stored) - i + 1]]
  <2>1. dump'.rows = [i \in 1 .. Smaller(Kept, SHOW) |-> g_ring[RowSlot(i - 1)]]
    BY <1>1 DEF DumpRows, IInv, TypeOK
  <2>2. g_head \in Nat /\ Len(stored) = g_head /\ SHOW \in Nat /\ RING_SLOTS \in Nat
    BY <1>1, RingLogAssumption DEF IInv, TypeOK, SlotsHoldNewest
  <2>3. Smaller(SHOW, Smaller(RING_SLOTS, Len(stored))) = Smaller(Kept, SHOW)
    BY <2>2 DEF Smaller, Kept
  <2>4. \A i \in 1 .. Smaller(Kept, SHOW) : g_ring[RowSlot(i - 1)] = stored[g_head - i + 1]
    BY <1>1, RowsAreNewest
  <2> HIDE DEF Kept
  <2> QED BY <2>1, <2>2, <2>3, <2>4
<1>2. IInv => [DumpRows =>
       dump'.rows = [i \in 1 .. Smaller(SHOW, Smaller(RING_SLOTS, Len(stored)))
                       |-> stored[Len(stored) - i + 1]]]_vars
  BY <1>1
<1> QED BY <1>2, Inductive, PTL DEF DumpShowsNewest

(* What the ring holds are the newest records stored. *)
LEMMA HeldIsNewest ==
  ASSUME IInv
  PROVE  Held = [k \in 1 .. Kept |-> stored[g_head - Kept + k]]
<1>1. g_head \in Nat /\ RING_SLOTS \in Nat \ {0} /\ Kept \in Nat
      /\ Kept <= g_head /\ Kept <= RING_SLOTS /\ (Kept = g_head \/ Kept = RING_SLOTS)
  BY RingLogAssumption DEF IInv, TypeOK, Kept, Smaller
<1>2. ASSUME NEW k \in 1 .. Kept
      PROVE  g_ring[(g_head - Kept + k - 1) % RING_SLOTS] = stored[g_head - Kept + k]
  <2> DEFINE j == g_head - Kept + k
  <2>1. j \in 1 .. g_head /\ j > g_head - RING_SLOTS
    BY <1>1
  <2>2. g_ring[(j - 1) % RING_SLOTS] = stored[j]
    BY <2>1 DEF IInv, SlotsHoldNewest
  <2>3. g_head - Kept + k - 1 = j - 1
    BY <1>1
  <2> QED BY <2>2, <2>3, Zenon
<1> QED BY <1>2, Zenon DEF Held

(* The ring in memory implements the drop-oldest queue: rl_write appends a   *)
(* record and, when the ring is full, overwrites the oldest and no other.    *)
THEOREM Refinement == Spec => ImplementsQueue
<1>1. Init => Queue!Init
  <2> SUFFICES ASSUME Init PROVE Held = << >>
    BY DEF Queue!Init
  <2>1. Kept = 0
    BY RingLogAssumption DEF Init, Kept, Smaller
  <2> QED BY <2>1 DEF Held
<1>2. IInv /\ IInv' /\ [Next]_vars => [Queue!Next]_Held
  <2> SUFFICES ASSUME IInv, IInv', [Next]_vars PROVE Queue!Next \/ Held' = Held
    OBVIOUS
  <2>1. ASSUME NEW t \in Writers, Store(t) PROVE Queue!Next
    <3>1. /\ g_head \in Nat /\ RING_SLOTS \in Nat \ {0}
          /\ stored \in Seq(Records) /\ Len(stored) = g_head
      BY RingLogAssumption DEF IInv, TypeOK, SlotsHoldNewest
    <3>2. g_head' = g_head + 1 /\ stored' = Append(stored, g_head + 1) /\ g_head + 1 \in Records
      BY <2>1, <3>1, RingLogAssumption DEF Store, Records
    <3>a. /\ stored' \in Seq(Records) /\ Len(stored') = g_head + 1
          /\ stored'[g_head + 1] = g_head + 1
          /\ \A i \in 1 .. g_head : stored'[i] = stored[i]
      BY <3>1, <3>2
    <3>3. Held = [k \in 1 .. Kept |-> stored[g_head - Kept + k]]
      BY HeldIsNewest
    <3>4. Held' = [k \in 1 .. Kept' |-> stored'[g_head' - Kept' + k]]
      <4>1. IInv' => (Held = [k \in 1 .. Kept |-> stored[g_head - Kept + k]])'
        BY HeldIsNewest, PTL
      <4> QED BY <4>1
    <3>5. Held \in Seq(Records) /\ Len(Held) = Kept
      BY <3>1, <3>3 DEF Kept, Smaller
    <3>6. Held' \in Seq(Records) /\ Len(Held') = Kept'
      <4>1. Kept' \in Nat /\ Kept' <= g_head + 1
        BY <3>1, <3>2 DEF Kept, Smaller
      <4>2. \A k \in 1 .. Kept' : stored'[g_head' - Kept' + k] \in Records
        <5> SUFFICES ASSUME NEW k \in 1 .. Kept'
                     PROVE  stored'[g_head' - Kept' + k] \in Records
          OBVIOUS
        <5> DEFINE K == Kept'
        <5>a. K \in Nat /\ K <= g_head + 1 /\ k \in 1 .. K
          BY <4>1
        <5>b. g_head \in Nat /\ g_head' = g_head + 1 /\ Len(stored') = g_head + 1
          BY <3>1, <3>2, <3>a, Zenon
        <5> HIDE DEF K
        <5>c. (g_head + 1) - K + k \in 1 .. g_head + 1
          BY <5>a, <5>b
        <5>1. g_head' - Kept' + k \in 1 .. Len(stored')
          BY <5>b, <5>c, Zenon DEF K
        <5> QED BY <3>a, <5>1, ElementOfSeq
      <4> QED BY <3>4, <4>1, <4>2
    <3>7. Queue!Push(g_head + 1)
      <4>1. CASE g_head >= RING_SLOTS
        <5> DEFINE new == Append(Tail(Held), g_head + 1)
        <5>1. Kept = RING_SLOTS /\ Kept' = RING_SLOTS
          BY <3>1, <3>2, <4>1 DEF Kept, Smaller
        <5>2. new \in Seq(Records) /\ Len(new) = RING_SLOTS
          BY <3>1, <3>2, <3>5, <5>1
        <5>3. ASSUME NEW k \in 1 .. RING_SLOTS PROVE Held'[k] = new[k]
          <6>1. Held'[k] = stored'[(g_head - RING_SLOTS) + (k + 1)]
            <7>1. g_head' - Kept' + k = (g_head - RING_SLOTS) + (k + 1)
              BY <3>1, <3>2, <5>1
            <7>2. Held'[k] = stored'[g_head' - Kept' + k]
              BY <3>4, <5>1
            <7> QED BY <7>1, <7>2, Zenon
          <6>2. CASE k = RING_SLOTS
            <7>1. (g_head - RING_SLOTS) + (k + 1) = g_head + 1
              BY <3>1, <6>2
            <7>2. new[k] = g_head + 1
              BY <3>1, <3>2, <3>5, <5>1, <6>2
            <7> QED BY <3>a, <6>1, <7>1, <7>2, Zenon
          <6>3. CASE k < RING_SLOTS
            <7>1. new[k] = Held[k + 1] /\ k + 1 \in 1 .. RING_SLOTS
              BY <3>1, <3>2, <3>5, <5>1, <6>3
            <7>2. Held[k + 1] = stored[g_head - RING_SLOTS + (k + 1)]
              BY <3>3, <5>1, <7>1
            <7>3. (g_head - RING_SLOTS) + (k + 1) \in 1 .. g_head
              BY <3>1, <4>1, <6>3
            <7> QED BY <3>a, <6>1, <7>1, <7>2, <7>3, Zenon
          <6>4. k = RING_SLOTS \/ k < RING_SLOTS
            BY <3>1
          <6> QED BY <6>2, <6>3, <6>4, Zenon
        <5> HIDE DEF new
        <5>4. Held' = new
          BY <3>6, <5>1, <5>2, <5>3, SeqEqual
        <5> QED BY <3>5, <5>1, <5>4 DEF Queue!Push, new
      <4>2. CASE g_head < RING_SLOTS
        <5> DEFINE new == Append(Held, g_head + 1)
        <5>1. Kept = g_head /\ Kept' = g_head + 1
          BY <3>1, <3>2, <4>2 DEF Kept, Smaller
        <5>2. new \in Seq(Records) /\ Len(new) = g_head + 1
          BY <3>1, <3>2, <3>5, <5>1
        <5>3. ASSUME NEW k \in 1 .. g_head + 1 PROVE Held'[k] = new[k]
          <6>1. Held'[k] = stored'[k]
            BY <3>1, <3>2, <3>4, <5>1
          <6>2. CASE k = g_head + 1
            BY <3>1, <3>2, <3>5, <5>1, <6>1, <6>2
          <6>3. CASE k \in 1 .. g_head
            <7>1. new[k] = Held[k]
              BY <3>1, <3>2, <3>5, <5>1, <6>3
            <7>2. Held[k] = stored[k]
              BY <3>1, <3>3, <5>1, <6>3
            <7> QED BY <3>a, <6>1, <6>3, <7>1, <7>2, Zenon
          <6>4. k = g_head + 1 \/ k \in 1 .. g_head
            BY <3>1
          <6> QED BY <6>2, <6>3, <6>4, Zenon
        <5> HIDE DEF new
        <5>4. Held' = new
          BY <3>6, <5>1, <5>2, <5>3, SeqEqual
        <5> QED BY <3>1, <3>5, <4>2, <5>1, <5>4 DEF Queue!Push, new
      <4> QED BY <3>1, <4>1, <4>2
    <3> QED BY <3>2, <3>7 DEF Queue!Next
  <2>2. ASSUME UNCHANGED <<g_ring, g_head>> PROVE Held' = Held
    BY <2>2 DEF Held, Kept
  <2>3. ASSUME NEW t \in Writers, CountWritten(t) \/ CountLost(t) PROVE Held' = Held
    BY <2>2, <2>3 DEF CountWritten, CountLost
  <2>4. ASSUME DumpWritten \/ DumpLost \/ DumpRows PROVE Held' = Held
    BY <2>2, <2>4 DEF DumpWritten, DumpLost, DumpRows
  <2>5. CASE UNCHANGED vars
    BY <2>2, <2>5 DEF vars
  <2> QED BY <2>1, <2>3, <2>4, <2>5, Zenon DEF Next
<1> QED BY <1>1, <1>2, Inductive, PTL DEF Spec, ImplementsQueue, Queue!Spec
=============================================================================
