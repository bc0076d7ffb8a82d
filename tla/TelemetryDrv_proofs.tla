------------------------ MODULE TelemetryDrv_proofs ------------------------
(***************************************************************************)
(* Proofs about the kernel module.  First the ring of kmod/tring.c, for    *)
(* every capacity: seen through Contents, tring_push appends (and forgets  *)
(* the oldest record when the ring is full), tring_pop removes the oldest  *)
(* record and returns it, and tring_init empties the ring.                 *)
(*                                                                         *)
(* Then the /dev/telemetry driver, for any number of readers and writers   *)
(* and any ring capacity and batch size.  IInv, the inductive invariant,   *)
(* adds to the type invariant what the proofs need to know of calls in     *)
(* flight: the records of a write are among those issued, the reader that  *)
(* pops is the one that holds the lock, and a reader that has popped       *)
(* nothing yet still finds a record.  Delivery, near the end, adds where   *)
(* the records are that readers have taken.                                *)
(***************************************************************************)
EXTENDS TelemetryDrv, TLAPS

-----------------------------------------------------------------------------
(* The ring. *)
(* Remainders of the two ranges that the index computations of tring.c      *)
(* fall into.                                                              *)
LEMMA WrapSmall ==
  ASSUME NEW n \in Nat \ {0}, NEW a \in 0 .. n - 1
  PROVE  a % n = a
  BY SMT

LEMMA WrapOnce ==
  ASSUME NEW n \in Nat \ {0}, NEW a \in n .. 2 * n - 1
  PROVE  a % n = a - n
  BY SMT

(* The index of the k-th oldest record without the remainder. *)
Unwrapped(h, c, k) == IF c < h + k THEN h - c + k - 1 ELSE h - c + k - 1 + TRING_CAP

(* SlotOf is a slot, and is the unwrapped index. *)
LEMMA SlotForm ==
  ASSUME NEW r \in TringType, NEW k \in 1 .. r.count
  PROVE  /\ SlotOf(r, k) = Unwrapped(r.head, r.count, k)
         /\ SlotOf(r, k) \in Slots
  <1> DEFINE a == r.head - r.count + TRING_CAP + k - 1
  <1>1. /\ r.head \in 0 .. TRING_CAP - 1 /\ r.count \in 0 .. TRING_CAP
        /\ TRING_CAP \in Nat \ {0} /\ k \in 1 .. r.count
    BY CapAssumption DEF TringType, Slots
  <1>2. CASE r.count < r.head + k
    <2>1. a \in TRING_CAP .. 2 * TRING_CAP - 1
      BY <1>1, <1>2
    <2>2. a % TRING_CAP = a - TRING_CAP
      BY <1>1, <2>1, WrapOnce
    <2> QED BY <1>1, <1>2, <2>1, <2>2 DEF SlotOf, Unwrapped, Slots
  <1>3. CASE ~(r.count < r.head + k)
    <2>1. a \in 0 .. TRING_CAP - 1
      BY <1>1, <1>3
    <2>2. a % TRING_CAP = a
      BY <1>1, <2>1, WrapSmall
    <2> QED BY <1>1, <1>3, <2>1, <2>2 DEF SlotOf, Unwrapped, Slots
  <1> QED BY <1>2, <1>3

(* The write index moves to the next slot, round the end. *)
NextSlot(h) == IF h + 1 = TRING_CAP THEN 0 ELSE h + 1

LEMMA HeadForm ==
  ASSUME NEW h \in Slots
  PROVE  /\ (h + 1) % TRING_CAP = NextSlot(h)
         /\ (h + 1) % TRING_CAP \in Slots
  <1>1. h \in 0 .. TRING_CAP - 1 /\ TRING_CAP \in Nat \ {0}
    BY CapAssumption DEF Slots
  <1>2. CASE h + 1 = TRING_CAP
    <2>1. h + 1 \in TRING_CAP .. 2 * TRING_CAP - 1
      BY <1>1, <1>2
    <2> QED BY <1>1, <1>2, <2>1, WrapOnce DEF Slots, NextSlot
  <1>3. CASE h + 1 # TRING_CAP
    <2>1. h + 1 \in 0 .. TRING_CAP - 1
      BY <1>1, <1>3
    <2> QED BY <1>1, <1>3, <2>1, WrapSmall DEF Slots, NextSlot
  <1> QED BY <1>2, <1>3

(* What the ring holds is a sequence of records as long as its count. *)
LEMMA ContentsType ==
  ASSUME NEW r \in TringType
  PROVE  /\ Contents(r) \in Seq(Record)
         /\ Len(Contents(r)) = r.count
         /\ \A k \in 1 .. r.count :
              Contents(r)[k] = r.buf[Unwrapped(r.head, r.count, k)]
  <1>1. r.count \in Nat /\ r.buf \in [Slots -> Record]
    BY CapAssumption DEF TringType
  <1>2. \A k \in 1 .. r.count :
           /\ SlotOf(r, k) = Unwrapped(r.head, r.count, k)
           /\ r.buf[SlotOf(r, k)] \in Record
    BY <1>1, SlotForm
  <1> QED BY <1>1, <1>2 DEF Contents

(* Pushing moves the write index: the new record is found last, and every  *)
(* record that stays keeps its slot, one place nearer the front if the      *)
(* ring was full.                                                          *)
LEMMA NewestSlot ==
  ASSUME NEW h \in 0 .. TRING_CAP - 1, NEW c \in 1 .. TRING_CAP
  PROVE  Unwrapped(NextSlot(h), c, c) = h
  BY CapAssumption DEF Unwrapped, NextSlot

LEMMA ShiftFull ==
  ASSUME NEW h \in 0 .. TRING_CAP - 1, NEW k \in 1 .. TRING_CAP - 1
  PROVE  /\ Unwrapped(NextSlot(h), TRING_CAP, k) = Unwrapped(h, TRING_CAP, k + 1)
         /\ Unwrapped(h, TRING_CAP, k + 1) \in (0 .. TRING_CAP - 1) \ {h}
  BY CapAssumption DEF Unwrapped, NextSlot

LEMMA ShiftRoom ==
  ASSUME NEW h \in 0 .. TRING_CAP - 1, NEW c \in 0 .. TRING_CAP - 1, NEW k \in 1 .. c
  PROVE  /\ Unwrapped(NextSlot(h), c + 1, k) = Unwrapped(h, c, k)
         /\ Unwrapped(h, c, k) \in (0 .. TRING_CAP - 1) \ {h}
  BY CapAssumption DEF Unwrapped, NextSlot

(* Sequences are equal when their lengths and elements are. *)
LEMMA SameSeq ==
  ASSUME NEW S, NEW s \in Seq(S), NEW t \in Seq(S), Len(s) = Len(t),
         \A k \in 1 .. Len(s) : s[k] = t[k]
  PROVE  s = t
  OBVIOUS

(* A push keeps the ring well formed, and as a queue it appends the record, *)
(* forgetting the oldest one when the ring is full (tring_push).           *)
THEOREM PushContents ==
  ASSUME NEW r \in TringType, NEW rec \in Record
  PROVE  /\ tring_push(r, rec) \in TringType
         /\ Contents(tring_push(r, rec)) =
              IF Len(Contents(r)) = TRING_CAP THEN Append(Tail(Contents(r)), rec)
                                              ELSE Append(Contents(r), rec)
  <1>1. PICK h \in 0 .. TRING_CAP - 1, c \in 0 .. TRING_CAP,
             b \in [0 .. TRING_CAP - 1 -> Record], n \in Nat, m \in Nat :
          r = [buf |-> b, head |-> h, count |-> c, produced |-> n, dropped |-> m]
    BY DEF TringType, Slots
  <1>2. PICK p : p = tring_push(r, rec)
    OBVIOUS
  <1>3. NextSlot(h) \in 0 .. TRING_CAP - 1 /\ (h + 1) % TRING_CAP = NextSlot(h)
    BY HeadForm DEF Slots
  <1>4. PICK b2 \in [0 .. TRING_CAP - 1 -> Record] :
          /\ b2 = [b EXCEPT ![h] = rec]
          /\ b2[h] = rec
          /\ \A i \in (0 .. TRING_CAP - 1) \ {h} : b2[i] = b[i]
    <2> DEFINE w == [b EXCEPT ![h] = rec]
    <2>1. w \in [0 .. TRING_CAP - 1 -> Record] /\ w[h] = rec
      OBVIOUS
    <2>2. \A i \in (0 .. TRING_CAP - 1) \ {h} : w[i] = b[i]
      OBVIOUS
    <2> WITNESS w \in [0 .. TRING_CAP - 1 -> Record]
    <2> QED BY <2>1, <2>2
  <1>5. PICK s \in Seq(Record) :
          /\ s = Contents(r) /\ Len(s) = c
          /\ \A k \in 1 .. c : s[k] = b[Unwrapped(h, c, k)]
    BY <1>1, ContentsType
  <1>6. CASE c = TRING_CAP
    <2>1. p = [buf |-> b2, head |-> NextSlot(h), count |-> TRING_CAP,
               produced |-> n + 1, dropped |-> m + 1]
      BY <1>1, <1>2, <1>3, <1>4, <1>6 DEF tring_push
    <2>2. p \in TringType
      BY <1>3, <2>1, CapAssumption DEF TringType, Slots
    <2>3. PICK t \in Seq(Record) :
            /\ t = Contents(p) /\ Len(t) = TRING_CAP
            /\ \A k \in 1 .. TRING_CAP : t[k] = b2[Unwrapped(NextSlot(h), TRING_CAP, k)]
      BY <2>1, <2>2, ContentsType
    <2> DEFINE q == Append(Tail(s), rec)
    <2>4. q \in Seq(Record) /\ Len(q) = TRING_CAP /\ q[TRING_CAP] = rec
      BY <1>5, <1>6, CapAssumption
    <2>5. t[TRING_CAP] = rec
      <3>1. TRING_CAP \in 1 .. TRING_CAP
        BY CapAssumption
      <3>2. Unwrapped(NextSlot(h), TRING_CAP, TRING_CAP) = h
        BY <3>1, NewestSlot
      <3> QED BY <1>4, <2>3, <3>1, <3>2
    <2>6. ASSUME NEW k \in 1 .. TRING_CAP - 1
          PROVE  t[k] = q[k]
      <3>1. q[k] = s[k + 1] /\ k + 1 \in 1 .. TRING_CAP /\ k \in 1 .. TRING_CAP
        BY <1>5, <1>6, CapAssumption
      <3>2. /\ Unwrapped(NextSlot(h), TRING_CAP, k) = Unwrapped(h, TRING_CAP, k + 1)
            /\ Unwrapped(h, TRING_CAP, k + 1) \in (0 .. TRING_CAP - 1) \ {h}
        BY ShiftFull
      <3> QED BY <1>4, <1>5, <1>6, <2>3, <3>1, <3>2
    <2>7. \A k \in 1 .. Len(t) : t[k] = q[k]
      BY <2>3, <2>4, <2>5, <2>6, CapAssumption
    <2>8. t = q
      BY <2>3, <2>4, <2>7, SameSeq
    <2> QED BY <1>2, <1>5, <1>6, <2>2, <2>3, <2>8
  <1>7. CASE c # TRING_CAP
    <2>1. p = [buf |-> b2, head |-> NextSlot(h), count |-> c + 1,
               produced |-> n + 1, dropped |-> m]
      BY <1>1, <1>2, <1>3, <1>4, <1>7 DEF tring_push
    <2>2. c \in 0 .. TRING_CAP - 1 /\ c + 1 \in 1 .. TRING_CAP
      BY <1>7, CapAssumption
    <2>3. p \in TringType
      BY <1>3, <2>1, <2>2, CapAssumption DEF TringType, Slots
    <2>4. PICK t \in Seq(Record) :
            /\ t = Contents(p) /\ Len(t) = c + 1
            /\ \A k \in 1 .. c + 1 : t[k] = b2[Unwrapped(NextSlot(h), c + 1, k)]
      BY <2>1, <2>3, ContentsType
    <2> DEFINE q == Append(s, rec)
    <2>5. q \in Seq(Record) /\ Len(q) = c + 1 /\ q[c + 1] = rec
      BY <1>5
    <2>6. t[c + 1] = rec
      <3>1. Unwrapped(NextSlot(h), c + 1, c + 1) = h
        BY <2>2, NewestSlot
      <3> QED BY <1>4, <2>2, <2>4, <3>1
    <2>7. ASSUME NEW k \in 1 .. c
          PROVE  t[k] = q[k]
      <3>1. q[k] = s[k] /\ k \in 1 .. c + 1
        BY <1>5
      <3>2. /\ Unwrapped(NextSlot(h), c + 1, k) = Unwrapped(h, c, k)
            /\ Unwrapped(h, c, k) \in (0 .. TRING_CAP - 1) \ {h}
        BY <2>2, ShiftRoom
      <3> QED BY <1>4, <1>5, <2>4, <3>1, <3>2
    <2>8. \A k \in 1 .. Len(t) : t[k] = q[k]
      BY <2>4, <2>5, <2>6, <2>7
    <2>9. t = q
      BY <2>4, <2>5, <2>8, SameSeq
    <2> QED BY <1>2, <1>5, <1>7, <2>3, <2>4, <2>9
  <1> QED BY <1>6, <1>7

(* A pop keeps the ring well formed, returns the oldest record and, as a    *)
(* queue, removes it (tring_pop on a ring that is not empty).              *)
THEOREM PopContents ==
  ASSUME NEW r \in TringType, r.count > 0
  PROVE  /\ tring_pop(r) \in TringType
         /\ Contents(r) # << >>
         /\ tring_pop_out(r) = Head(Contents(r))
         /\ Contents(tring_pop(r)) = Tail(Contents(r))
  <1>1. PICK h \in 0 .. TRING_CAP - 1, c \in 1 .. TRING_CAP,
             b \in [0 .. TRING_CAP - 1 -> Record], n \in Nat, m \in Nat :
          r = [buf |-> b, head |-> h, count |-> c, produced |-> n, dropped |-> m]
    BY DEF TringType, Slots
  <1>2. PICK p : p = tring_pop(r)
    OBVIOUS
  <1>3. p = [buf |-> b, head |-> h, count |-> c - 1, produced |-> n, dropped |-> m]
    BY <1>1, <1>2 DEF tring_pop
  <1>4. p \in TringType
    BY <1>3, CapAssumption DEF TringType, Slots
  <1>5. PICK t \in Seq(Record) :
          /\ t = Contents(p) /\ Len(t) = c - 1
          /\ \A k \in 1 .. c - 1 : t[k] = b[Unwrapped(h, c - 1, k)]
    BY <1>3, <1>4, ContentsType
  <1>6. PICK s \in Seq(Record) :
          /\ s = Contents(r) /\ Len(s) = c
          /\ \A k \in 1 .. c : s[k] = b[Unwrapped(h, c, k)]
    BY <1>1, ContentsType
  <1>7. t = Tail(s)
    <2>1. Tail(s) \in Seq(Record) /\ Len(Tail(s)) = c - 1
      BY <1>6
    <2>2. ASSUME NEW k \in 1 .. c - 1
          PROVE  t[k] = Tail(s)[k]
      <3>1. Tail(s)[k] = s[k + 1]
        BY <1>6
      <3>2. Unwrapped(h, c - 1, k) = Unwrapped(h, c, k + 1)
        BY CapAssumption DEF Unwrapped
      <3> QED BY <1>5, <1>6, <3>1, <3>2
    <2> QED BY <1>5, <2>1, <2>2, SameSeq
  <1>8. tring_pop_out(r) = s[1]
    <2>1. h - c + TRING_CAP + 1 - 1 = h - c + TRING_CAP
      BY CapAssumption
    <2>2. tail(r) = SlotOf(r, 1) /\ 1 \in 1 .. r.count
      BY <1>1, <2>1 DEF tail, SlotOf
    <2>3. tail(r) = Unwrapped(h, c, 1)
      BY <1>1, <2>2, SlotForm
    <2> QED BY <1>1, <1>6, <2>3 DEF tring_pop_out
  <1>9. s # << >> /\ s[1] = Head(s)
    BY <1>6
  <1> QED BY <1>2, <1>4, <1>5, <1>6, <1>7, <1>8, <1>9

(* Initialising the ring empties it (tring_init). *)
THEOREM InitContents ==
  ASSUME NEW r \in TringType
  PROVE  tring_init(r) \in TringType /\ Contents(tring_init(r)) = << >>
  <1>1. tring_init(r) \in TringType /\ tring_init(r).count = 0
    BY CapAssumption DEF tring_init, TringType, Slots
  <1> QED BY <1>1, ContentsType

-----------------------------------------------------------------------------
(* The driver. *)
WriterInv ==
  \A w \in Writers :
    /\ wr[w].i <= wr[w].nrec
    /\ wr[w].base + wr[w].nrec <= issued

LockInv ==
  /\ \A r \in Readers : rd[r].pc = "pop" <=> g_lock = r
  /\ \A r \in Readers : rd[r].pc # "idle" /\ rd[r].call # "poll" => rd[r].maxrec > 0
  /\ \A r \in Readers : rd[r].pc \in {"lock", "pop", "copyout"} => rd[r].call # "poll"
  /\ \A r \in Readers : rd[r].pc = "pop" /\ rd[r].batch = << >> => ring.count > 0

IInv == TypeOK /\ WriterInv /\ LockInv /\ ReadNeverEmpty

(* The record values of an idle thread are well typed. *)
LEMMA IdleTypes == IdleWriter \in WriterType /\ IdleReader \in ReaderType
  BY DrvAssumption DEF IdleWriter, WriterType, IdleReader, ReaderType, Calls

LEMMA InitIInv == Init => IInv
  <1> SUFFICES ASSUME Init PROVE IInv
    OBVIOUS
  <1>1. ring \in TringType
    BY CapAssumption, DrvAssumption DEF Init, TringType, Slots
  <1>2. wr \in [Writers -> WriterType] /\ rd \in [Readers -> ReaderType]
    BY IdleTypes DEF Init
  <1>3. unwoken \in BOOLEAN
    BY Zenon DEF Init
  <1>4. TypeOK
    BY <1>1, <1>2, <1>3, DrvAssumption DEF Init, TypeOK
  <1>5. WriterInv
    BY DrvAssumption DEF Init, WriterInv, IdleWriter
  <1>6. LockInv /\ ReadNeverEmpty
    BY DrvAssumption DEF Init, LockInv, ReadNeverEmpty, IdleReader
  <1> QED BY <1>4, <1>5, <1>6 DEF IInv

(* The record that a write pushes next is a record. *)
LEMMA PushedIsRecord ==
  ASSUME IInv, NEW w \in Writers, wr[w].i < wr[w].nrec
  PROVE  wr[w].base + wr[w].i + 1 \in Record
  BY DrvAssumption DEF IInv, TypeOK, WriterInv, WriterType

(* The fields that calls update in place keep their types. *)
LEMMA WriterAdvance ==
  ASSUME NEW x \in WriterType, x.i < x.nrec
  PROVE  [x EXCEPT !.i = @ + 1] \in WriterType
  <1>1. x.i + 1 \in 0 .. MaxNrec
    BY DrvAssumption DEF WriterType
  <1> QED BY <1>1 DEF WriterType

LEMMA BatchGrows ==
  ASSUME NEW x \in ReaderType, NEW out \in Record
  PROVE  [x EXCEPT !.batch = Append(@, out)] \in ReaderType
  <1>1. PICK b \in Seq(Record) : b = x.batch
    BY DEF ReaderType
  <1>2. Append(b, out) \in Seq(Record)
    OBVIOUS
  <1> QED BY <1>1, <1>2 DEF ReaderType

(* Each action keeps the types. *)
LEMMA TypeStep == IInv /\ [Next]_vars => TypeOK'
  <1> SUFFICES ASSUME IInv, [Next]_vars PROVE TypeOK'
    OBVIOUS
  <1>a. TypeOK /\ WriterInv /\ LockInv
    BY DEF IInv
  <1> USE <1>a, DrvAssumption DEF TypeOK
  <1>1. ASSUME NEW w \in Writers, WriteCall(w) PROVE TypeOK'
    BY <1>1 DEF WriteCall, WriterType
  <1>2. ASSUME NEW w \in Writers, WritePush(w) PROVE TypeOK'
    <2>1. wr[w].i < wr[w].nrec
      BY <1>2 DEF WritePush
    <2>2. PICK rec \in Record : rec = wr[w].base + wr[w].i + 1
      BY <2>1, PushedIsRecord
    <2>3. ring' = tring_push(ring, rec) /\ pushed' = Append(pushed, rec)
      BY <1>2, <2>2 DEF WritePush
    <2>4. ring' \in TringType
      BY <2>3, PushContents
    <2>5. pushed' \in Seq(Record)
      BY <2>3
    <2>6. [wr[w] EXCEPT !.i = @ + 1] \in WriterType
      <3> HIDE DrvAssumption
      <3> QED BY <2>1, WriterAdvance
    <2>7. wr' \in [Writers -> WriterType]
      BY <1>2, <2>6 DEF WritePush
    <2> QED BY <1>2, <2>4, <2>5, <2>7 DEF WritePush
  <1>3. ASSUME NEW w \in Writers, WriteFault(w) PROVE TypeOK'
    <2>1. unwoken' \in BOOLEAN
      BY <1>3, Zenon DEF WriteFault
    <2> QED BY <1>3, <2>1, IdleTypes DEF WriteFault
  <1>4. ASSUME NEW w \in Writers, WriteWake(w) PROVE TypeOK'
    BY <1>4, IdleTypes DEF WriteWake
  <1>5. ASSUME NEW r \in Readers, ReadCall(r) PROVE TypeOK'
    BY <1>5 DEF ReadCall, ReaderType, Calls
  <1>6. ASSUME NEW r \in Readers, PollCall(r) PROVE TypeOK'
    BY <1>6, IdleTypes DEF PollCall, ReaderType, Calls
  <1>7. ASSUME NEW r \in Readers, ReadLock(r) PROVE TypeOK'
    <2>1. [rd[r] EXCEPT !.pc = "enqueue"] \in ReaderType /\ [rd[r] EXCEPT !.pc = "pop"] \in ReaderType
      BY DEF ReaderType
    <2>2. rd' \in [Readers -> ReaderType]
      BY <1>7, <2>1, IdleTypes DEF ReadLock
    <2>3. g_lock' \in Readers \cup {NoThread}
      BY <1>7 DEF ReadLock
    <2> QED BY <1>7, <2>2, <2>3 DEF ReadLock
  <1>8. ASSUME NEW r \in Readers, ReadPop(r) PROVE TypeOK'
    <2>1. ring \in TringType /\ ring.count > 0 /\ ring' = tring_pop(ring)
      BY <1>8 DEF ReadPop
    <2>2. ring' \in TringType
      BY <2>1, PopContents
    <2>3. PICK out \in Record : out = tring_pop_out(ring)
      <3>1. Contents(ring) \in Seq(Record) /\ Contents(ring) # << >>
        BY <2>1, PopContents, ContentsType
      <3>2. Head(Contents(ring)) \in Record
        BY <3>1
      <3> QED BY <2>1, <3>2, PopContents
    <2>4. [rd[r] EXCEPT !.batch = Append(@, out)] \in ReaderType
      <3> HIDE DrvAssumption
      <3> QED BY BatchGrows
    <2>5. rd' \in [Readers -> ReaderType]
      BY <1>8, <2>3, <2>4 DEF ReadPop
    <2> QED BY <1>8, <2>2, <2>5 DEF ReadPop
  <1>9. ASSUME NEW r \in Readers, ReadUnlock(r) PROVE TypeOK'
    <2>1. [rd[r] EXCEPT !.pc = "copyout"] \in ReaderType
      BY DEF ReaderType
    <2> QED BY <1>9, <2>1 DEF ReadUnlock
  <1>10. ASSUME NEW r \in Readers, ReadCopyOut(r) PROVE TypeOK'
    <2> HIDE DrvAssumption
    <2>1. PICK b \in Seq(Record) : b = rd[r].batch
      BY DEF ReaderType
    <2>2. got[r] \o b \in Seq(Record)
      OBVIOUS
    <2>3. got' \in [Readers -> Seq(Record)]
      BY <1>10, <2>1, <2>2 DEF ReadCopyOut
    <2> QED BY <1>10, <2>3, IdleTypes DEF ReadCopyOut
  <1>11. ASSUME NEW r \in Readers, WaitEnqueue(r) PROVE TypeOK'
    <2>1. [rd[r] EXCEPT !.pc = "test"] \in ReaderType
      BY DEF ReaderType
    <2>2. rd' \in [Readers -> ReaderType]
      BY <1>11, <2>1 DEF WaitEnqueue
    <2> QED BY <1>11, <2>2 DEF WaitEnqueue
  <1>12. ASSUME NEW r \in Readers, WaitTest(r) PROVE TypeOK'
    <2>1. [rd[r] EXCEPT !.pc = "lock"] \in ReaderType /\ [rd[r] EXCEPT !.pc = "asleep"] \in ReaderType
      BY DEF ReaderType
    <2>2. rd' \in [Readers -> ReaderType]
      BY <1>12, <2>1, IdleTypes DEF WaitTest
    <2>3. g_readq' \in SUBSET Readers
      BY <1>12 DEF WaitTest
    <2> QED BY <1>12, <2>2, <2>3 DEF WaitTest
  <1>13. ASSUME NEW r \in Readers, WaitWoken(r) PROVE TypeOK'
    <2>1. [rd[r] EXCEPT !.pc = "enqueue"] \in ReaderType
      BY DEF ReaderType
    <2>2. rd' \in [Readers -> ReaderType]
      BY <1>13, <2>1 DEF WaitWoken
    <2> QED BY <1>13, <2>2 DEF WaitWoken
  <1>14. ASSUME NEW r \in Readers, WaitSignal(r) PROVE TypeOK'
    BY <1>14, IdleTypes DEF WaitSignal
  <1>15. CASE IoctlReset
    BY <1>15, InitContents DEF IoctlReset
  <1>16. CASE UNCHANGED vars
    BY <1>16 DEF vars
  <1> QED BY <1>1, <1>2, <1>3, <1>4, <1>5, <1>6, <1>7, <1>8, <1>9, <1>10, <1>11, <1>12,
             <1>13, <1>14, <1>15, <1>16 DEF Next, WriterStep, ReaderStep

(* Only writers touch what WriterInv speaks of. *)
LEMMA WriterStepInv == IInv /\ [Next]_vars => WriterInv'
  <1> SUFFICES ASSUME IInv, [Next]_vars PROVE WriterInv'
    OBVIOUS
  <1>a. /\ wr \in [Writers -> WriterType] /\ issued \in Nat
        /\ \A w \in Writers : wr[w].i <= wr[w].nrec /\ wr[w].base + wr[w].nrec <= issued
        /\ \A w \in Writers : wr[w].i \in Nat /\ wr[w].nrec \in Nat /\ wr[w].base \in Nat
    BY DrvAssumption DEF IInv, TypeOK, WriterInv, WriterType
  <1>1. ASSUME NEW w \in Writers, WriteCall(w) PROVE WriterInv'
    <2>1. PICK n \in 1 .. MaxNrec :
            /\ wr' = [wr EXCEPT ![w] = [pc |-> "loop", base |-> issued, nrec |-> n, i |-> 0]]
            /\ issued' = issued + n
      BY <1>1 DEF WriteCall
    <2> QED BY <1>a, <2>1, DrvAssumption DEF WriterInv
  <1>2. ASSUME NEW w \in Writers, WritePush(w) PROVE WriterInv'
    <2>1. wr' = [wr EXCEPT ![w].i = @ + 1] /\ issued' = issued /\ wr[w].i < wr[w].nrec
      BY <1>2 DEF WritePush
    <2>2. /\ wr'[w].i = wr[w].i + 1 /\ wr'[w].nrec = wr[w].nrec /\ wr'[w].base = wr[w].base
          /\ \A v \in Writers \ {w} : wr'[v] = wr[v]
      BY <1>a, <2>1 DEF WriterType
    <2> QED BY <1>a, <2>1, <2>2 DEF WriterInv
  <1>3. ASSUME NEW w \in Writers, wr' = [wr EXCEPT ![w] = IdleWriter], issued' = issued
        PROVE  WriterInv'
    BY <1>a, <1>3 DEF WriterInv, IdleWriter
  <1>4. ASSUME UNCHANGED <<wr, issued>> PROVE WriterInv'
    BY <1>a, <1>4 DEF WriterInv
  <1> QED
    BY <1>1, <1>2, <1>3, <1>4
    DEF Next, WriterStep, ReaderStep, vars, WriteFault, WriteWake, ReadCall, PollCall, ReadLock,
        ReadPop, ReadUnlock, ReadCopyOut, WaitEnqueue, WaitTest, WaitWoken, WaitSignal, IoctlReset

(* What LockInv and ReadNeverEmpty say of one reader. *)
OneReader(x, r, lock, count) ==
  /\ x.pc = "pop" <=> lock = r
  /\ x.pc # "idle" /\ x.call # "poll" => x.maxrec > 0
  /\ x.pc \in {"lock", "pop", "copyout"} => x.call # "poll"
  /\ x.pc = "pop" /\ x.batch = << >> => count > 0
  /\ x.pc = "copyout" => x.batch # << >>

LEMMA LockStep == IInv /\ [Next]_vars => LockInv' /\ ReadNeverEmpty'
  <1> SUFFICES ASSUME IInv, [Next]_vars
               PROVE  \A r \in Readers : OneReader(rd'[r], r, g_lock', ring'.count)
    BY DEF LockInv, ReadNeverEmpty, OneReader
  <1>a. /\ \A r \in Readers : OneReader(rd[r], r, g_lock, ring.count)
        /\ rd \in [Readers -> ReaderType] /\ ring.count \in Nat /\ ring \in TringType
    BY CapAssumption DEF IInv, TypeOK, LockInv, ReadNeverEmpty, OneReader, TringType
  <1> DEFINE Goal == \A r \in Readers : OneReader(rd'[r], r, g_lock', ring'.count)
  <1>b. ASSUME NEW r \in Readers, NEW x, rd' = [rd EXCEPT ![r] = x], g_lock' = g_lock,
               ring'.count = ring.count, OneReader(x, r, g_lock, ring.count)
        PROVE  Goal
    BY <1>a, <1>b
  <1>c. ASSUME UNCHANGED <<rd, g_lock, ring>> PROVE Goal
    BY <1>a, <1>c
  <1>d. ASSUME UNCHANGED <<rd, g_lock>>, g_lock = NoThread PROVE Goal
    BY <1>a, <1>d, DrvAssumption DEF OneReader
  <1>e. \A r \in Readers : OneReader(IdleReader, r, NoThread, ring.count)
    BY DrvAssumption DEF OneReader, IdleReader
  <1>1. ASSUME NEW w \in Writers, WriteCall(w) \/ WriteFault(w) \/ WriteWake(w) PROVE Goal
    BY <1>1, <1>c DEF WriteCall, WriteFault, WriteWake
  <1>2. ASSUME NEW w \in Writers, WritePush(w) PROVE Goal
    BY <1>2, <1>d DEF WritePush
  <1>3. CASE IoctlReset
    BY <1>3, <1>d DEF IoctlReset
  <1>4. ASSUME NEW r \in Readers, ReadCall(r) PROVE Goal
    <2>1. PICK c \in {"read", "nonblock"}, m \in 1 .. MaxRec :
            rd' = [rd EXCEPT ![r] = [pc |-> "lock", call |-> c, maxrec |-> m, batch |-> << >>]]
      BY <1>4 DEF ReadCall
    <2>2. OneReader([pc |-> "lock", call |-> c, maxrec |-> m, batch |-> << >>],
                    r, g_lock, ring.count)
      BY <1>4, <1>a, DrvAssumption DEF OneReader, ReadCall
    <2> QED BY <1>4, <1>b, <2>1, <2>2 DEF ReadCall
  <1>5. ASSUME NEW r \in Readers, PollCall(r) PROVE Goal
    <2>1. OneReader([IdleReader EXCEPT !.pc = "enqueue", !.call = "poll"], r, g_lock, ring.count)
      BY <1>5, <1>a DEF OneReader, PollCall, IdleReader
    <2> QED BY <1>5, <1>b, <2>1 DEF PollCall
  <1>6. ASSUME NEW r \in Readers, ReadLock(r) PROVE Goal
    <2>1. CASE ring.count = 0
      <3>1. OneReader(IdleReader, r, g_lock, ring.count)
        BY <1>6, <1>e DEF ReadLock
      <3>2. OneReader([rd[r] EXCEPT !.pc = "enqueue"], r, g_lock, ring.count)
        BY <1>6, <1>a, DrvAssumption DEF ReadLock, OneReader, ReaderType
      <3> QED BY <1>6, <1>b, <2>1, <3>1, <3>2 DEF ReadLock, tring_count
    <2>2. CASE ring.count > 0
      <3>1. /\ rd' = [rd EXCEPT ![r].pc = "pop"] /\ g_lock' = r /\ ring' = ring
            /\ g_lock = NoThread /\ rd[r].pc = "lock"
        BY <1>6, <2>2 DEF ReadLock, tring_count
      <3>2. OneReader(rd'[r], r, g_lock', ring'.count)
        BY <1>a, <2>2, <3>1 DEF OneReader, ReaderType
      <3>3. \A s \in Readers \ {r} : rd'[s] = rd[s] /\ rd[s].pc # "pop"
        BY <1>a, <3>1, DrvAssumption DEF OneReader
      <3>4. \A s \in Readers \ {r} : OneReader(rd'[s], s, g_lock', ring'.count)
        BY <1>a, <3>1, <3>3 DEF OneReader
      <3> QED BY <3>2, <3>4
    <2> QED BY <1>a, <2>1, <2>2
  <1>7. ASSUME NEW r \in Readers, ReadPop(r) PROVE Goal
    <2>1. /\ rd[r].pc = "pop" /\ g_lock' = g_lock /\ g_lock = r
          /\ rd' = [rd EXCEPT ![r].batch = Append(@, tring_pop_out(ring))]
      BY <1>7, <1>a DEF ReadPop, OneReader
    <2>2. PICK b \in Seq(Record) : b = rd[r].batch
      BY <1>a DEF ReaderType
    <2>a. PICK o : o = tring_pop_out(ring)
      OBVIOUS
    <2>3. Append(b, o) # << >>
      <3>1. Append(b, o)[Len(b) + 1] = o /\ Len(Append(b, o)) = Len(b) + 1
        OBVIOUS
      <3> QED BY <3>1
    <2>4. OneReader(rd'[r], r, g_lock', ring'.count)
      BY <1>a, <2>1, <2>2, <2>a, <2>3 DEF OneReader, ReaderType
    <2>5. \A s \in Readers \ {r} : OneReader(rd'[s], s, g_lock', ring'.count)
      BY <1>a, <2>1 DEF OneReader
    <2> QED BY <2>4, <2>5
  <1>8. ASSUME NEW r \in Readers, ReadUnlock(r) PROVE Goal
    <2>1. /\ rd[r].pc = "pop" /\ g_lock = r /\ g_lock' = NoThread /\ ring' = ring
          /\ rd' = [rd EXCEPT ![r].pc = "copyout"]
      BY <1>8, <1>a DEF ReadUnlock, OneReader
    <2>2. rd[r].batch # << >>
      <3>1. rd[r].maxrec \in Nat /\ rd[r].maxrec > 0 /\ BATCH \in Nat \ {0}
        BY <1>a, <2>1, DrvAssumption DEF OneReader, ReaderType
      <3>2. Len(rd[r].batch) # 0 \/ ring.count = 0
        BY <1>8, <3>1 DEF ReadUnlock
      <3> QED BY <1>a, <2>1, <3>2 DEF OneReader
    <2>3. OneReader(rd'[r], r, g_lock', ring'.count)
      BY <1>a, <2>1, <2>2, DrvAssumption DEF OneReader, ReaderType
    <2>4. \A s \in Readers \ {r} : OneReader(rd'[s], s, g_lock', ring'.count)
      BY <1>a, <2>1, DrvAssumption DEF OneReader
    <2> QED BY <2>3, <2>4
  <1>9. ASSUME NEW r \in Readers, ReadCopyOut(r) \/ WaitSignal(r) PROVE Goal
    <2>1. g_lock # r
      BY <1>9, <1>a DEF OneReader, ReadCopyOut, WaitSignal
    <2>2. OneReader(IdleReader, r, g_lock, ring.count)
      BY <2>1 DEF OneReader, IdleReader
    <2> QED BY <1>9, <1>b, <2>2 DEF ReadCopyOut, WaitSignal
  <1>10. ASSUME NEW r \in Readers, NEW pc \in {"test", "asleep", "enqueue"},
                rd[r].pc \in {"enqueue", "test", "asleep"}
         PROVE  OneReader([rd[r] EXCEPT !.pc = pc], r, g_lock, ring.count)
    BY <1>10, <1>a DEF OneReader, ReaderType
  <1>11. ASSUME NEW r \in Readers, WaitEnqueue(r) \/ WaitWoken(r) PROVE Goal
    BY <1>11, <1>b, <1>10 DEF WaitEnqueue, WaitWoken
  <1>12. ASSUME NEW r \in Readers, WaitTest(r) PROVE Goal
    <2>1. OneReader([rd[r] EXCEPT !.pc = "asleep"], r, g_lock, ring.count)
      BY <1>10, <1>12 DEF WaitTest
    <2>2. g_lock # r
      BY <1>12, <1>a DEF OneReader, WaitTest
    <2>3. OneReader(IdleReader, r, g_lock, ring.count)
      BY <2>2 DEF OneReader, IdleReader
    <2>4. rd[r].call # "poll" => OneReader([rd[r] EXCEPT !.pc = "lock"], r, g_lock, ring.count)
      BY <1>12, <1>a, <2>2 DEF OneReader, WaitTest, ReaderType
    <2> QED BY <1>12, <1>b, <2>1, <2>3, <2>4 DEF WaitTest
  <1>13. CASE UNCHANGED vars
    BY <1>13, <1>c DEF vars
  <1> QED BY <1>1, <1>2, <1>3, <1>4, <1>5, <1>6, <1>7, <1>8, <1>9, <1>11, <1>12, <1>13
          DEF Next, WriterStep, ReaderStep

(* The inductive invariant holds throughout. *)
THEOREM Invariance == Spec => []IInv
  BY InitIInv, TypeStep, WriterStepInv, LockStep, PTL DEF Spec, IInv

(* The driver's state stays well typed: the ring within its capacity and    *)
(* the calls in flight within their buffers (tring_push, tlm_write,        *)
(* tlm_read).                                                              *)
THEOREM TypeCorrect == Spec => []TypeOK
  BY Invariance, PTL DEF IInv

(* A read that succeeds returns at least one record, whichever reader won   *)
(* the records that woke it (the re-check under the lock in tlm_read).     *)
THEOREM ReadsReturnRecords == Spec => []ReadNeverEmpty
  BY Invariance, PTL DEF IInv

(* The steps of the driver as seen by the ring: a push, a pop that takes a  *)
(* record, a reset, or nothing.                                            *)
LEMMA RingSteps ==
  ASSUME IInv, [Next]_vars
  PROVE  \/ \E rec \in Record : /\ ring' = tring_push(ring, rec)
                                /\ pushed' = Append(pushed, rec)
                                /\ taken' = taken
         \/ /\ ring.count > 0 /\ ring' = tring_pop(ring)
            /\ pushed' = pushed /\ taken' = taken + 1
         \/ ring' = tring_init(ring) /\ pushed' = pushed /\ taken' = 0
         \/ ring' = ring /\ pushed' = pushed /\ taken' = taken
  <1>1. ASSUME NEW w \in Writers, WritePush(w)
        PROVE  \E rec \in Record : /\ ring' = tring_push(ring, rec)
                                    /\ pushed' = Append(pushed, rec)
                                    /\ taken' = taken
    BY <1>1, PushedIsRecord DEF WritePush
  <1>2. ASSUME NEW r \in Readers, ReadPop(r)
        PROVE  /\ ring.count > 0 /\ ring' = tring_pop(ring)
               /\ pushed' = pushed /\ taken' = taken + 1
    BY <1>2 DEF ReadPop
  <1>3. ASSUME IoctlReset
        PROVE  ring' = tring_init(ring) /\ pushed' = pushed /\ taken' = 0
    BY <1>3 DEF IoctlReset
  <1>4. ASSUME NEW w \in Writers, WriteCall(w) \/ WriteFault(w) \/ WriteWake(w)
        PROVE  ring' = ring /\ pushed' = pushed /\ taken' = taken
    BY <1>4 DEF WriteCall, WriteFault, WriteWake
  <1>5. ASSUME NEW r \in Readers,
               \/ ReadCall(r) \/ PollCall(r) \/ ReadLock(r) \/ ReadUnlock(r) \/ ReadCopyOut(r)
               \/ WaitEnqueue(r) \/ WaitTest(r) \/ WaitWoken(r) \/ WaitSignal(r)
        PROVE  ring' = ring /\ pushed' = pushed /\ taken' = taken
    BY <1>5 DEF ReadCall, PollCall, ReadLock, ReadUnlock, ReadCopyOut, WaitEnqueue, WaitTest,
                WaitWoken, WaitSignal
  <1>6. CASE UNCHANGED vars
    BY <1>6 DEF vars
  <1> QED BY <1>1, <1>2, <1>3, <1>4, <1>5, <1>6, Zenon DEF Next, WriterStep, ReaderStep

(* Every record produced since the reset is dropped, held or taken. *)
Balance == ring.produced = ring.dropped + ring.count + taken

(* The statistics of PL_IOC_GET_STATS and /proc/pulselink always balance.  *)
THEOREM StatisticsBalance == Spec => []StatsBalance
  <1>1. Init => Balance
    BY DEF Init, Balance
  <1>2. IInv /\ Balance /\ [Next]_vars => Balance'
    <2> SUFFICES ASSUME IInv, Balance, [Next]_vars PROVE Balance'
      OBVIOUS
    <2>1. /\ ring.produced \in Nat /\ ring.dropped \in Nat /\ ring.count \in Nat /\ taken \in Nat
          /\ ring \in TringType
      BY CapAssumption DEF IInv, TypeOK, TringType
    <2>2. ASSUME NEW rec, ring' = tring_push(ring, rec), taken' = taken PROVE Balance'
      BY <2>1, <2>2 DEF Balance, tring_push
    <2>3. ASSUME ring' = tring_pop(ring), taken' = taken + 1 PROVE Balance'
      BY <2>1, <2>3 DEF Balance, tring_pop, TringType
    <2>4. ASSUME ring' = tring_init(ring), taken' = 0 PROVE Balance'
      BY <2>1, <2>4 DEF Balance, tring_init
    <2>5. ASSUME ring' = ring, taken' = taken PROVE Balance'
      BY <2>5 DEF Balance
    <2> QED BY <2>2, <2>3, <2>4, <2>5, RingSteps, Zenon
  <1>3. Balance => StatsBalance
    BY DEF Balance, StatsBalance, pl_stats, tring_count
  <1> QED BY <1>1, <1>2, <1>3, Invariance, PTL DEF Spec

(* A sequence is the newest part of another. *)
Newest(s, p) ==
  /\ Len(s) <= Len(p)
  /\ \A k \in 1 .. Len(s) : s[k] = p[Len(p) - Len(s) + k]

LEMMA NewestAppend ==
  ASSUME NEW s \in Seq(Record), NEW p \in Seq(Record), NEW rec \in Record, Newest(s, p)
  PROVE  Newest(Append(s, rec), Append(p, rec))
  BY DEF Newest

LEMMA NewestTail ==
  ASSUME NEW s \in Seq(Record), NEW p \in Seq(Record), s # << >>, Newest(s, p)
  PROVE  Newest(Tail(s), p)
  <1>1. Len(s) > 0 /\ Tail(s) \in Seq(Record) /\ Len(Tail(s)) = Len(s) - 1
    OBVIOUS
  <1>2. \A k \in 1 .. Len(s) - 1 : Tail(s)[k] = s[k + 1]
    OBVIOUS
  <1>3. \A k \in 1 .. Len(s) - 1 : s[k + 1] = p[Len(p) - Len(s) + (k + 1)]
    BY <1>1 DEF Newest
  <1>4. \A k \in 1 .. Len(s) - 1 : Len(p) - Len(s) + (k + 1) = Len(p) - (Len(s) - 1) + k
    BY <1>1
  <1> QED BY <1>1, <1>2, <1>3, <1>4 DEF Newest

(* The ring holds the newest records pushed, in push order, after any       *)
(* interleaving of writes, reads and resets.                               *)
THEOREM RingIsNewest == Spec => []RingHoldsNewest
  <1> DEFINE N == Newest(Contents(ring), pushed)
  <1>1. Init => N
    <2> SUFFICES ASSUME Init PROVE N
      OBVIOUS
    <2>1. ring \in TringType /\ ring.count = 0 /\ pushed = << >>
      BY InitIInv DEF Init, IInv, TypeOK
    <2>2. Contents(ring) \in Seq(Record) /\ Len(Contents(ring)) = 0
      BY <2>1, ContentsType
    <2> QED BY <2>1, <2>2 DEF Newest
  <1>2. IInv /\ N /\ [Next]_vars => N'
    <2> SUFFICES ASSUME IInv, N, [Next]_vars PROVE N'
      OBVIOUS
    <2>1. ring \in TringType /\ pushed \in Seq(Record)
      BY DEF IInv, TypeOK
    <2>2. PICK s \in Seq(Record) : s = Contents(ring)
      BY <2>1, ContentsType
    <2>3. ASSUME NEW rec \in Record, ring' = tring_push(ring, rec),
                 pushed' = Append(pushed, rec)
          PROVE  N'
      <3>1. CASE Len(s) = TRING_CAP
        <4>1. s # << >> /\ Tail(s) \in Seq(Record)
          BY <3>1, CapAssumption
        <4>2. Newest(Tail(s), pushed)
          BY <2>1, <2>2, <4>1, NewestTail
        <4>3. Contents(ring') = Append(Tail(s), rec)
          BY <2>1, <2>2, <2>3, <3>1, PushContents
        <4> QED BY <2>1, <2>3, <4>1, <4>2, <4>3, NewestAppend
      <3>2. CASE Len(s) # TRING_CAP
        <4>1. Contents(ring') = Append(s, rec)
          BY <2>1, <2>2, <2>3, <3>2, PushContents
        <4> QED BY <2>1, <2>2, <2>3, <4>1, NewestAppend
      <3> QED BY <3>1, <3>2
    <2>4. ASSUME ring.count > 0, ring' = tring_pop(ring), pushed' = pushed PROVE N'
      <3>1. s # << >> /\ Contents(ring') = Tail(s)
        BY <2>1, <2>2, <2>4, PopContents
      <3> QED BY <2>1, <2>2, <2>4, <3>1, NewestTail
    <2>5. ASSUME ring' = tring_init(ring), pushed' = pushed PROVE N'
      <3>1. Contents(ring') = << >>
        BY <2>1, <2>5, InitContents
      <3> QED BY <2>1, <2>5, <3>1 DEF Newest
    <2>6. ASSUME ring' = ring, pushed' = pushed PROVE N'
      BY <2>6
    <2> QED BY <2>3, <2>4, <2>5, <2>6, RingSteps, Zenon
  <1>3. IInv /\ N => RingHoldsNewest
    <2> SUFFICES ASSUME IInv, N PROVE RingHoldsNewest
      OBVIOUS
    <2>1. Len(Contents(ring)) = ring.count
      BY ContentsType DEF IInv, TypeOK
    <2> QED BY <2>1 DEF Newest, RingHoldsNewest
  <1> QED BY <1>1, <1>2, <1>3, Invariance, PTL DEF Spec

(* The driver implements the drop-oldest queue: each locked push, pop and   *)
(* reset is one step of it, and everything else is invisible.              *)
THEOREM Refinement == Spec => ImplementsQueue
  <1>1. Init => Queue!Init
    <2> SUFFICES ASSUME Init PROVE Contents(ring) = << >>
      BY DEF Queue!Init
    <2>1. ring \in TringType /\ ring.count = 0
      BY InitIInv DEF Init, IInv, TypeOK
    <2>2. Contents(ring) \in Seq(Record) /\ Len(Contents(ring)) = 0
      BY <2>1, ContentsType
    <2> QED BY <2>2
  <1>2. IInv /\ [Next]_vars => [Queue!Next]_(Contents(ring))
    <2> SUFFICES ASSUME IInv, [Next]_vars
                 PROVE  Queue!Next \/ Contents(ring)' = Contents(ring)
      OBVIOUS
    <2>1. ring \in TringType
      BY DEF IInv, TypeOK
    <2>2. ASSUME NEW rec \in Record, ring' = tring_push(ring, rec) PROVE Queue!Push(rec)
      BY <2>1, <2>2, PushContents DEF Queue!Push
    <2>3. ASSUME ring.count > 0, ring' = tring_pop(ring) PROVE Queue!Take
      BY <2>1, <2>3, PopContents DEF Queue!Take
    <2>4. ASSUME ring' = tring_init(ring) PROVE Queue!Clear
      BY <2>1, <2>4, InitContents DEF Queue!Clear
    <2>5. ASSUME ring' = ring PROVE Contents(ring)' = Contents(ring)
      BY <2>5
    <2> QED BY <2>2, <2>3, <2>4, <2>5, RingSteps, Zenon DEF Queue!Next
  <1> QED BY <1>1, <1>2, Invariance, PTL DEF Spec, ImplementsQueue, Queue!Spec

(* A write has pushed records and not yet reached its wake-up. *)
WakePending == \E w \in Writers : wr[w].pc = "loop" /\ wr[w].i > 0

(* No lost wake-up: whoever sleeps beside records has a write on its way to *)
(* wake it, or was left behind by a write that failed.                     *)
THEOREM NoLostWakeup == Spec => []SleepersHaveAWaker
  <1> DEFINE A == \E r \in Readers : Stranded(r)
  <1>1. Init => SleepersHaveAWaker
    BY DEF Init, SleepersHaveAWaker, Stranded, IdleReader
  <1>2. IInv /\ SleepersHaveAWaker /\ [Next]_vars => SleepersHaveAWaker'
    <2> SUFFICES ASSUME IInv, SleepersHaveAWaker, [Next]_vars, A'
                 PROVE  WakePending' \/ unwoken'
      BY Zenon DEF SleepersHaveAWaker, WakePending
    <2>a. /\ wr \in [Writers -> WriterType] /\ rd \in [Readers -> ReaderType]
          /\ ring \in TringType /\ ring.count \in Nat
          /\ \A w \in Writers : wr[w].i \in Nat
      BY CapAssumption, DrvAssumption DEF IInv, TypeOK, WriterType, TringType
    <2>b. A => WakePending \/ unwoken
      BY Zenon DEF SleepersHaveAWaker, WakePending
    <2>c. ASSUME A' => A, WakePending => WakePending', unwoken' = unwoken
          PROVE  WakePending' \/ unwoken'
      BY <2>b, <2>c, Zenon
    <2>1. ASSUME NEW w \in Writers, WriteCall(w) PROVE WakePending' \/ unwoken'
      <3>1. A' => A
        BY <2>1 DEF WriteCall, Stranded
      <3>2. WakePending => WakePending'
        <4> SUFFICES ASSUME NEW v \in Writers, wr[v].pc = "loop", wr[v].i > 0
                     PROVE  wr'[v] = wr[v]
          BY Zenon DEF WakePending
        <4> QED BY <2>1, <2>a DEF WriteCall
      <3> QED BY <2>1, <2>c, <3>1, <3>2, Zenon DEF WriteCall
    <2>2. ASSUME NEW w \in Writers, WritePush(w) PROVE WakePending' \/ unwoken'
      <3>1. wr'[w].pc = "loop" /\ wr'[w].i = wr[w].i + 1
        BY <2>2, <2>a DEF WritePush, WriterType
      <3> QED BY <2>a, <3>1 DEF WakePending
    <2>3. ASSUME NEW w \in Writers, WriteFault(w) PROVE WakePending' \/ unwoken'
      <3>1. A' => A
        BY <2>3 DEF WriteFault, Stranded
      <3>2. unwoken' = (unwoken \/ wr[w].i > 0)
        BY <2>3, Zenon DEF WriteFault
      <3>3. WakePending /\ ~(wr[w].i > 0) => WakePending'
        <4> SUFFICES ASSUME NEW v \in Writers, wr[v].pc = "loop", wr[v].i > 0, ~(wr[w].i > 0)
                     PROVE  wr'[v] = wr[v]
          BY Zenon DEF WakePending
        <4> QED BY <2>3, <2>a DEF WriteFault
      <3> QED BY <2>b, <3>1, <3>2, <3>3, Zenon
    <2>4. ASSUME NEW w \in Writers, WriteWake(w) PROVE FALSE
      BY <2>4 DEF WriteWake, Stranded
    <2>5. ASSUME NEW r \in Readers,
                 ReadCall(r) \/ PollCall(r) \/ ReadLock(r) \/ ReadPop(r) \/ ReadUnlock(r)
                 \/ ReadCopyOut(r) \/ WaitEnqueue(r) \/ WaitTest(r) \/ WaitWoken(r) \/ WaitSignal(r)
          PROVE  WakePending' \/ unwoken'
      <3>1. wr' = wr /\ unwoken' = unwoken
        BY <2>5 DEF ReadCall, PollCall, ReadLock, ReadPop, ReadUnlock, ReadCopyOut,
                    WaitEnqueue, WaitTest, WaitWoken, WaitSignal
      <3>2. ASSUME NEW s \in Readers, Stranded(s)' PROVE Stranded(s)
        <4>1. ring'.count > 0 => ring.count > 0
          BY <2>5, <2>a DEF ReadCall, PollCall, ReadLock, ReadPop, ReadUnlock, ReadCopyOut,
                      WaitEnqueue, WaitTest, WaitWoken, WaitSignal
        <4>2. CASE s = r
          <5>1. rd'[r].pc = "asleep" /\ ring'.count > 0
            BY <3>2, <4>2 DEF Stranded
          <5>2. ~ReadCall(r) /\ ~PollCall(r) /\ ~ReadCopyOut(r) /\ ~WaitSignal(r)
            <6>1. ~ReadCall(r)
              BY <2>a, <5>1 DEF ReadCall
            <6>2. ~PollCall(r)
              BY <2>a, <5>1 DEF PollCall, IdleReader
            <6>3. rd' # [rd EXCEPT ![r] = IdleReader]
              BY <2>a, <5>1 DEF IdleReader
            <6>4. ~ReadCopyOut(r) /\ ~WaitSignal(r)
              BY <6>3, Zenon DEF ReadCopyOut, WaitSignal
            <6> QED BY <6>1, <6>2, <6>4
          <5>3. ~ReadLock(r) /\ ~ReadUnlock(r)
            BY <2>a, <5>1 DEF ReadLock, ReadUnlock, IdleReader, ReaderType
          <5>4. ~ReadPop(r)
            BY <2>a, <5>1 DEF ReadPop, ReaderType
          <5>5. ~WaitEnqueue(r) /\ ~WaitWoken(r)
            BY <2>a, <5>1 DEF WaitEnqueue, WaitWoken, ReaderType
          <5>6. ~WaitTest(r)
            BY <2>a, <5>1 DEF WaitTest, IdleReader, ReaderType, tring_count
          <5> QED BY <2>5, <5>2, <5>3, <5>4, <5>5, <5>6
        <4>3. CASE s # r
          <5>1. rd'[s] = rd[s] /\ (s \in g_readq' => s \in g_readq)
            BY <2>5, <2>a, <4>3
            DEF ReadCall, PollCall, ReadLock, ReadPop, ReadUnlock, ReadCopyOut,
                WaitEnqueue, WaitTest, WaitWoken, WaitSignal
          <5> QED BY <3>2, <4>1, <5>1 DEF Stranded
        <4> QED BY <4>2, <4>3
      <3> QED BY <2>c, <3>1, <3>2, Zenon DEF WakePending
    <2>6. CASE IoctlReset
      BY <2>6 DEF IoctlReset, tring_init, Stranded
    <2>7. CASE UNCHANGED vars
      <3>1. (A' => A) /\ (WakePending => WakePending')
        BY <2>7 DEF vars, Stranded, WakePending
      <3> QED BY <2>7, <2>c, <3>1, Zenon DEF vars
    <2> QED BY <2>1, <2>2, <2>3, <2>4, <2>5, <2>6, <2>7, Zenon DEF Next, WriterStep, ReaderStep
  <1> QED BY <1>1, <1>2, Invariance, PTL DEF Spec

-----------------------------------------------------------------------------
(* Delivery.  What a reader has been given, and holds in its batch. *)
Out(r) == got[r] \o rd[r].batch

(* The place, in the order of pushes, of the last record that has left the  *)
(* ring, taken, dropped or reset.                                           *)
Gone == Len(pushed) - ring.count

(* No record is pushed twice: the records that writes still hold are new,   *)
(* and no two writes hold the same.                                         *)
Distinct == \A i, j \in DOMAIN pushed : pushed[i] = pushed[j] => i = j
Holds(w, rec) ==
  wr[w].pc = "loop" /\ wr[w].base + wr[w].i < rec /\ rec <= wr[w].base + wr[w].nrec
Fresh ==
  /\ \A k \in DOMAIN pushed : pushed[k] <= issued
  /\ \A w \in Writers, k \in DOMAIN pushed : ~Holds(w, pushed[k])
  /\ \A v, w \in Writers : v # w /\ wr[v].pc = "loop" /\ wr[w].pc = "loop" =>
       \/ wr[v].base + wr[v].nrec <= wr[w].base
       \/ wr[w].base + wr[w].nrec <= wr[v].base

(* Readers have only records that have left the ring, oldest first and each *)
(* only one of them.                                                        *)
Behind == \A r \in Readers : \A k \in DOMAIN Out(r) : \E n \in 1 .. Gone : pushed[n] = Out(r)[k]
OldestFirst ==
  \A r \in Readers : \A j, k \in DOMAIN Out(r) : \A m, n \in DOMAIN pushed :
    j < k /\ pushed[m] = Out(r)[j] /\ pushed[n] = Out(r)[k] => m < n
Apart ==
  \A r, s \in Readers : r # s =>
    \A j \in DOMAIN Out(r), k \in DOMAIN Out(s) : Out(r)[j] # Out(s)[k]

(* A batch has no gap, starts empty, and while it grows its last record is  *)
(* the last that left the ring.                                             *)
NoGap ==
  \A r \in Readers : \A k \in 2 .. Len(rd[r].batch) : \A n \in DOMAIN pushed :
    pushed[n] = rd[r].batch[k - 1] => n + 1 \in DOMAIN pushed /\ pushed[n + 1] = rd[r].batch[k]
AtEnd ==
  \A r \in Readers : rd[r].pc = "pop" /\ rd[r].batch # << >> =>
    Gone \in DOMAIN pushed /\ rd[r].batch[Len(rd[r].batch)] = pushed[Gone]

StartsEmpty == \A r \in Readers : rd[r].pc \notin {"pop", "copyout"} => rd[r].batch = << >>

Delivery == Behind /\ OldestFirst /\ Apart /\ NoGap /\ AtEnd /\ StartsEmpty

LEMMA WriterFields ==
  ASSUME IInv, NEW w \in Writers
  PROVE  /\ wr[w].base \in Nat /\ wr[w].nrec \in Nat /\ wr[w].i \in Nat /\ issued \in Nat
         /\ wr[w].i <= wr[w].nrec /\ wr[w].base + wr[w].nrec <= issued
  BY DrvAssumption DEF IInv, TypeOK, WriterInv, WriterType

(* The members of pushed are numbers, with places from 1 on. *)
LEMMA PushedType ==
  ASSUME IInv
  PROVE  /\ pushed \in Seq(Record) /\ Len(pushed) \in Nat /\ DOMAIN pushed = 1 .. Len(pushed)
         /\ \A k \in DOMAIN pushed : pushed[k] \in Nat
         /\ ring \in TringType /\ ring.count \in Nat
  <1>1. pushed \in Seq(Record) /\ Record \subseteq Nat
    BY DrvAssumption DEF IInv, TypeOK
  <1>2. ring \in TringType /\ ring.count \in Nat
    BY CapAssumption DEF IInv, TypeOK, TringType
  <1>3. \A k \in DOMAIN pushed : pushed[k] \in Record
    BY <1>1
  <1>4. Len(pushed) \in Nat /\ DOMAIN pushed = 1 .. Len(pushed)
    BY <1>1
  <1> QED BY <1>1, <1>2, <1>3, <1>4, Zenon

(* What one of two writes with disjoint ranges pushes, the other does not   *)
(* hold.                                                                    *)
LEMMA RangesApart ==
  ASSUME NEW b \in Nat, NEW n \in Nat, NEW i \in Nat, NEW c \in Nat, NEW m \in Nat, NEW j \in Nat,
         j < m, b + n <= c \/ c + m <= b
  PROVE  ~(b + i < c + j + 1 /\ c + j + 1 <= b + n)
  OBVIOUS

LEMMA FreshStep ==
  ASSUME IInv, Distinct, Fresh, [Next]_vars
  PROVE  Distinct' /\ Fresh'
  <1>a. wr \in [Writers -> WriterType]
    BY DEF IInv, TypeOK
  <1>1. ASSUME NEW w \in Writers, WriteCall(w) PROVE Distinct' /\ Fresh'
    <2>1. PICK n \in 1 .. MaxNrec :
            /\ wr' = [wr EXCEPT ![w] = [pc |-> "loop", base |-> issued, nrec |-> n, i |-> 0]]
            /\ issued' = issued + n
      BY <1>1 DEF WriteCall
    <2>2. n \in Nat /\ issued \in Nat /\ issued <= issued'
      BY <2>1, WriterFields, DrvAssumption
    <2>3. pushed' = pushed
      BY <1>1 DEF WriteCall
    <2>4. /\ wr'[w].pc = "loop" /\ wr'[w].base = issued /\ wr'[w].nrec = n /\ wr'[w].i = 0
          /\ \A v \in Writers : v # w => wr'[v] = wr[v]
      BY <1>a, <2>1
    <2>5. \A k \in DOMAIN pushed : pushed[k] \in Nat /\ pushed[k] <= issued
      BY PushedType DEF Fresh
    <2>6. \A k \in DOMAIN pushed' : pushed'[k] <= issued'
      BY <2>2, <2>3, <2>5, <2>1
    <2>7. \A v \in Writers, k \in DOMAIN pushed' : ~Holds(v, pushed[k])'
      <3> SUFFICES ASSUME NEW v \in Writers, NEW k \in DOMAIN pushed PROVE ~Holds(v, pushed[k])'
        BY <2>3
      <3>1. CASE v = w
        BY <2>2, <2>3, <2>4, <2>5, <3>1 DEF Holds
      <3>2. CASE v # w
        BY <2>3, <2>4, <3>2 DEF Holds, Fresh
      <3> QED BY <3>1, <3>2
    <2>8. \A v \in Writers : v # w => wr[v].base + wr[v].nrec <= issued
      BY WriterFields
    <2>9. \A u, v \in Writers : u # v /\ wr'[u].pc = "loop" /\ wr'[v].pc = "loop" =>
            \/ wr'[u].base + wr'[u].nrec <= wr'[v].base
            \/ wr'[v].base + wr'[v].nrec <= wr'[u].base
      <3> SUFFICES ASSUME NEW u \in Writers, NEW v \in Writers, u # v,
                          wr'[u].pc = "loop", wr'[v].pc = "loop"
                   PROVE  \/ wr'[u].base + wr'[u].nrec <= wr'[v].base
                          \/ wr'[v].base + wr'[v].nrec <= wr'[u].base
        OBVIOUS
      <3>1. CASE u = w
        BY <2>4, <2>8, <3>1
      <3>2. CASE v = w
        BY <2>4, <2>8, <3>2
      <3>3. CASE u # w /\ v # w
        BY <2>4, <3>3 DEF Fresh
      <3> QED BY <3>1, <3>2, <3>3
    <2> QED BY <2>3, <2>6, <2>7, <2>9, Zenon DEF Distinct, Fresh
  <1>2. ASSUME NEW w \in Writers, WritePush(w) PROVE Distinct' /\ Fresh'
    <2> DEFINE rec == wr[w].base + wr[w].i + 1
    <2>1. /\ wr[w].pc = "loop" /\ wr[w].i < wr[w].nrec /\ pushed' = Append(pushed, rec)
          /\ issued' = issued /\ wr' = [wr EXCEPT ![w].i = @ + 1]
      BY <1>2 DEF WritePush
    <2>2. rec \in Record /\ rec \in Nat /\ rec <= issued /\ Holds(w, rec)
      BY <2>1, WriterFields, PushedIsRecord DEF Holds
    <2>3. /\ wr'[w].pc = wr[w].pc /\ wr'[w].base = wr[w].base /\ wr'[w].nrec = wr[w].nrec
          /\ wr'[w].i = wr[w].i + 1
          /\ \A v \in Writers : v # w => wr'[v] = wr[v]
      BY <1>a, <2>1 DEF WriterType
    <2>4. \A v \in Writers : v # w => ~Holds(v, rec)
      <3> SUFFICES ASSUME NEW v \in Writers, v # w, wr[v].pc = "loop" PROVE ~Holds(v, rec)
        BY Zenon DEF Holds
      <3>1. \/ wr[v].base + wr[v].nrec <= wr[w].base
            \/ wr[w].base + wr[w].nrec <= wr[v].base
        BY <2>1 DEF Fresh
      <3>2. /\ wr[v].base \in Nat /\ wr[v].nrec \in Nat /\ wr[v].i \in Nat
            /\ wr[w].base \in Nat /\ wr[w].nrec \in Nat /\ wr[w].i \in Nat
        BY WriterFields
      <3>3. ~(/\ wr[v].base + wr[v].i < wr[w].base + wr[w].i + 1
              /\ wr[w].base + wr[w].i + 1 <= wr[v].base + wr[v].nrec)
        BY <2>1, <3>1, <3>2, RangesApart
      <3> QED BY <3>3, Zenon DEF Holds
    <2>5. \A v \in Writers, x \in Nat : Holds(v, x)' => Holds(v, x) /\ x # rec
      <3> SUFFICES ASSUME NEW v \in Writers, NEW x \in Nat, Holds(v, x)'
                   PROVE  Holds(v, x) /\ x # rec
        OBVIOUS
      <3>1. CASE v = w
        BY <2>3, <3>1, WriterFields DEF Holds
      <3>2. CASE v # w
        <4>1. Holds(v, x)
          BY <2>3, <3>2 DEF Holds
        <4> QED BY <2>4, <3>2, <4>1
      <3> QED BY <3>1, <3>2
    <2> HIDE DEF rec
    <2>6. /\ \A k \in DOMAIN pushed' :
               \/ k \in DOMAIN pushed /\ pushed'[k] = pushed[k] /\ pushed[k] # rec
               \/ k = Len(pushed) + 1 /\ pushed'[k] = rec
      BY <2>1, <2>2, PushedType DEF Fresh
    <2>7. Distinct'
      BY <2>6 DEF Distinct
    <2>8. \A k \in DOMAIN pushed' : pushed'[k] <= issued' /\ pushed'[k] \in Nat
      BY <2>1, <2>2, <2>6, PushedType DEF Fresh
    <2>9. \A v \in Writers, k \in DOMAIN pushed' : ~Holds(v, pushed[k])'
      BY <2>5, <2>6, <2>8 DEF Fresh
    <2>10. \A u, v \in Writers : u # v /\ wr'[u].pc = "loop" /\ wr'[v].pc = "loop" =>
             \/ wr'[u].base + wr'[u].nrec <= wr'[v].base
             \/ wr'[v].base + wr'[v].nrec <= wr'[u].base
      <3>1. \A v \in Writers : /\ wr'[v].pc = wr[v].pc /\ wr'[v].base = wr[v].base
                                /\ wr'[v].nrec = wr[v].nrec
        BY <2>3
      <3> QED BY <3>1 DEF Fresh
    <2> QED BY <2>7, <2>8, <2>9, <2>10, Zenon DEF Fresh
  <1>3. ASSUME NEW w \in Writers, WriteFault(w) \/ WriteWake(w) PROVE Distinct' /\ Fresh'
    <2>1. wr' = [wr EXCEPT ![w] = IdleWriter] /\ pushed' = pushed /\ issued' = issued
      BY <1>3 DEF WriteFault, WriteWake
    <2>2. wr'[w].pc = "idle" /\ \A v \in Writers : v # w => wr'[v] = wr[v]
      BY <1>a, <2>1 DEF IdleWriter
    <2>3. \A v \in Writers : wr'[v].pc = "loop" => wr'[v] = wr[v]
      BY <2>2
    <2> QED BY <2>1, <2>3 DEF Distinct, Fresh, Holds
  <1>4. ASSUME UNCHANGED <<wr, pushed, issued>> PROVE Distinct' /\ Fresh'
    BY <1>4 DEF Distinct, Fresh, Holds
  <1>5. ASSUME NEW r \in Readers,
               \/ ReadCall(r) \/ PollCall(r) \/ ReadLock(r) \/ ReadPop(r) \/ ReadUnlock(r)
               \/ ReadCopyOut(r) \/ WaitEnqueue(r) \/ WaitTest(r) \/ WaitWoken(r) \/ WaitSignal(r)
        PROVE  UNCHANGED <<wr, pushed, issued>>
    BY <1>5 DEF ReadCall, PollCall, ReadLock, ReadPop, ReadUnlock, ReadCopyOut, WaitEnqueue, WaitTest,
                WaitWoken, WaitSignal
  <1>6. ASSUME IoctlReset \/ UNCHANGED vars PROVE UNCHANGED <<wr, pushed, issued>>
    BY <1>6 DEF IoctlReset, vars
  <1> QED BY <1>1, <1>2, <1>3, <1>4, <1>5, <1>6, Zenon DEF Next, WriterStep, ReaderStep

LEMMA OutType ==
  ASSUME IInv, NEW r \in Readers
  PROVE  /\ got[r] \in Seq(Record) /\ rd[r].batch \in Seq(Record) /\ Out(r) \in Seq(Record)
         /\ \A k \in DOMAIN got[r] : k \in DOMAIN Out(r) /\ Out(r)[k] = got[r][k]
         /\ \A k \in DOMAIN rd[r].batch : \E j \in DOMAIN Out(r) : Out(r)[j] = rd[r].batch[k]
  <1>1. PICK g \in Seq(Record), b \in Seq(Record) : g = got[r] /\ b = rd[r].batch
    BY DEF IInv, TypeOK, ReaderType
  <1>2. g \o b \in Seq(Record) /\ \A k \in DOMAIN g : k \in DOMAIN (g \o b) /\ (g \o b)[k] = g[k]
    OBVIOUS
  <1>3. \A k \in DOMAIN b : Len(g) + k \in DOMAIN (g \o b) /\ (g \o b)[Len(g) + k] = b[k]
    OBVIOUS
  <1> QED BY <1>1, <1>2, <1>3, Zenon DEF Out

LEMMA GoneType == ASSUME IInv, RingHoldsNewest PROVE Gone \in Nat /\ Gone <= Len(pushed)
  BY PushedType DEF Gone, RingHoldsNewest

(* A step that gives no reader a record, and brings none back to the ring,  *)
(* leaves the records delivered as they were.                               *)
LEMMA NothingDelivered ==
  ASSUME IInv, RingHoldsNewest, Delivery, Distinct',
         \A n \in DOMAIN pushed : n \in DOMAIN pushed' /\ pushed'[n] = pushed[n],
         Gone' \in Int, Gone <= Gone',
         \A r \in Readers : \A k \in DOMAIN Out(r)' : k \in DOMAIN Out(r) /\ Out(r)'[k] = Out(r)[k],
         \A r \in Readers : rd'[r].batch = rd[r].batch \/ rd'[r].batch = << >>
  PROVE  Behind' /\ OldestFirst' /\ Apart' /\ NoGap'
  <1>1. \A r \in Readers : \A k \in DOMAIN Out(r) :
          \E n \in 1 .. Gone : n \in DOMAIN pushed /\ pushed[n] = Out(r)[k]
    BY GoneType, PushedType DEF Delivery, Behind
  <1>2. Behind'
    <2> SUFFICES ASSUME NEW r \in Readers, NEW k \in DOMAIN Out(r)'
                 PROVE  \E n \in 1 .. Gone' : pushed'[n] = Out(r)'[k]
      BY Zenon DEF Behind
    <2>1. k \in DOMAIN Out(r) /\ Out(r)'[k] = Out(r)[k]
      OBVIOUS
    <2>2. PICK n \in 1 .. Gone : n \in DOMAIN pushed /\ pushed[n] = Out(r)[k]
      BY <1>1, <2>1
    <2>3. n \in 1 .. Gone'
      BY GoneType
    <2> QED BY <2>1, <2>2, <2>3
  <1>3. OldestFirst'
    <2> SUFFICES ASSUME NEW r \in Readers, NEW j \in DOMAIN Out(r)', NEW k \in DOMAIN Out(r)',
                        NEW m \in DOMAIN pushed', NEW n \in DOMAIN pushed',
                        j < k, pushed'[m] = Out(r)'[j], pushed'[n] = Out(r)'[k]
                 PROVE  m < n
      BY Zenon DEF OldestFirst
    <2>1. /\ j \in DOMAIN Out(r) /\ Out(r)'[j] = Out(r)[j]
          /\ k \in DOMAIN Out(r) /\ Out(r)'[k] = Out(r)[k]
      OBVIOUS
    <2>2. PICK a \in DOMAIN pushed : pushed[a] = Out(r)[j]
      BY <1>1, <2>1
    <2>3. PICK b \in DOMAIN pushed : pushed[b] = Out(r)[k]
      BY <1>1, <2>1
    <2>4. a = m /\ b = n
      <3>1. /\ a \in DOMAIN pushed' /\ pushed'[a] = pushed'[m]
            /\ b \in DOMAIN pushed' /\ pushed'[b] = pushed'[n]
        BY <2>1, <2>2, <2>3
      <3> QED BY <3>1, Zenon DEF Distinct
    <2>5. a < b
      BY <2>1, <2>2, <2>3, Zenon DEF Delivery, OldestFirst
    <2> QED BY <2>4, <2>5
  <1>4. Apart'
    <2> SUFFICES ASSUME NEW r \in Readers, NEW s \in Readers, r # s,
                        NEW j \in DOMAIN Out(r)', NEW k \in DOMAIN Out(s)'
                 PROVE  Out(r)'[j] # Out(s)'[k]
      BY Zenon DEF Apart
    <2>1. /\ j \in DOMAIN Out(r) /\ Out(r)'[j] = Out(r)[j]
          /\ k \in DOMAIN Out(s) /\ Out(s)'[k] = Out(s)[k]
      OBVIOUS
    <2>2. Out(r)[j] # Out(s)[k]
      BY <2>1, Zenon DEF Delivery, Apart
    <2> QED BY <2>1, <2>2
  <1>5. NoGap'
    <2> SUFFICES ASSUME NEW r \in Readers, NEW k \in 2 .. Len(rd'[r].batch), NEW n \in DOMAIN pushed',
                        pushed'[n] = rd'[r].batch[k - 1]
                 PROVE  n + 1 \in DOMAIN pushed' /\ pushed'[n + 1] = rd'[r].batch[k]
      BY Zenon DEF NoGap
    <2>1. rd'[r].batch = rd[r].batch
      <3>1. rd'[r].batch # << >>
        OBVIOUS
      <3> QED BY <3>1
    <2>2. k \in 2 .. Len(rd[r].batch) /\ k - 1 \in DOMAIN rd[r].batch
      BY <2>1, OutType
    <2>3. PICK a \in DOMAIN pushed : pushed[a] = rd[r].batch[k - 1]
      BY <1>1, <2>2, OutType
    <2>4. a = n
      <3>1. a \in DOMAIN pushed' /\ pushed'[a] = pushed'[n]
        BY <2>1, <2>3
      <3> QED BY <3>1, Zenon DEF Distinct
    <2>5. a + 1 \in DOMAIN pushed /\ pushed[a + 1] = rd[r].batch[k]
      BY <2>2, <2>3, Zenon DEF Delivery, NoGap
    <2> QED BY <2>1, <2>4, <2>5
  <1> QED BY <1>2, <1>3, <1>4, <1>5

LEMMA AppendOf ==
  ASSUME NEW o \in Seq(Record), NEW e \in Record, NEW p, p = Append(o, e)
  PROVE  /\ DOMAIN o = 1 .. Len(o) /\ Len(o) \in Nat
         /\ \A k \in DOMAIN p : (k \in DOMAIN o /\ p[k] = o[k]) \/ (k = Len(o) + 1 /\ p[k] = e)
  OBVIOUS

(* A pop gives its reader the record after the last that had left. *)
LEMMA PopDelivers ==
  ASSUME IInv, RingHoldsNewest, Delivery, Distinct, NEW r \in Readers, ReadPop(r)
  PROVE  Delivery'
  <1> DEFINE out == tring_pop_out(ring)
             b == rd[r].batch
  <1>1. /\ pushed' = pushed /\ got' = got /\ rd[r].pc = "pop" /\ ring.count > 0
        /\ rd' = [rd EXCEPT ![r].batch = Append(@, out)] /\ ring' = tring_pop(ring)
    BY DEF ReadPop
  <1>2. /\ Gone \in Nat /\ Gone <= Len(pushed) /\ Gone' = Gone + 1 /\ Gone + 1 \in DOMAIN pushed
    <2>1. ring'.count = ring.count - 1
      BY <1>1, PushedType DEF tring_pop, TringType
    <2> QED BY <1>1, <2>1, GoneType, PushedType DEF Gone
  <1>3. out = pushed[Gone + 1] /\ out \in Record
    <2>1. Contents(ring) \in Seq(Record) /\ Contents(ring) # << >> /\ out = Head(Contents(ring))
      BY <1>1, PushedType, ContentsType, PopContents
    <2>2. Head(Contents(ring)) = Contents(ring)[1] /\ Head(Contents(ring)) \in Record
      BY <2>1
    <2>3. Contents(ring)[1] = pushed[Len(pushed) - ring.count + 1]
      BY <1>1, PushedType DEF RingHoldsNewest
    <2> QED BY <2>1, <2>2, <2>3, Zenon DEF Gone
  <1> HIDE DEF out
  <1>4. rd \in [Readers -> ReaderType]
    BY DEF IInv, TypeOK
  <1>5. /\ rd'[r].batch = Append(b, out) /\ rd'[r].pc = rd[r].pc
        /\ \A s \in Readers : s # r => rd'[s] = rd[s]
    BY <1>1, <1>4 DEF ReaderType
  <1>6. /\ \A s \in Readers : s # r => Out(s)' = Out(s)
        /\ Out(r)' = Append(Out(r), out) /\ Out(r) \in Seq(Record) /\ b \in Seq(Record)
    <2>1. \A s \in Readers : s # r => Out(s)' = Out(s)
      BY <1>1, <1>5, Zenon DEF Out
    <2>2. PICK g \in Seq(Record), c \in Seq(Record) : g = got[r] /\ c = b /\ Out(r) \in Seq(Record)
      BY OutType
    <2>3. g \o Append(c, out) = Append(g \o c, out)
      BY <1>3
    <2>4. Out(r)' = g \o Append(c, out) /\ Out(r) = g \o c
      BY <1>1, <1>5, <2>2, Zenon DEF Out
    <2> QED BY <2>1, <2>2, <2>3, <2>4
  <1>7. /\ DOMAIN Out(r) = 1 .. Len(Out(r)) /\ Len(Out(r)) \in Nat
        /\ \A k \in DOMAIN Out(r)' :
             (k \in DOMAIN Out(r) /\ Out(r)'[k] = Out(r)[k]) \/ (k = Len(Out(r)) + 1 /\ Out(r)'[k] = out)
    <2>1. Out(r) \in Seq(Record) /\ out \in Record /\ Out(r)' = Append(Out(r), out)
      BY <1>3, <1>6
    <2>2. PICK o, p : o \in Seq(Record) /\ o = Out(r) /\ p = Out(r)' /\ p = Append(o, out)
      BY <2>1, Zenon
    <2>3. /\ DOMAIN o = 1 .. Len(o) /\ Len(o) \in Nat
          /\ \A k \in DOMAIN p : (k \in DOMAIN o /\ p[k] = o[k]) \/ (k = Len(o) + 1 /\ p[k] = out)
      BY <2>1, <2>2, AppendOf, Zenon
    <2> QED BY <2>2, <2>3, Zenon
  <1>8. \A s \in Readers : \A k \in DOMAIN Out(s) :
          \E n \in 1 .. Gone : n \in DOMAIN pushed /\ pushed[n] = Out(s)[k]
    BY GoneType, PushedType DEF Delivery, Behind
  <1>9. \A s \in Readers : \A k \in DOMAIN Out(s) : Out(s)[k] # out
    <2> SUFFICES ASSUME NEW s \in Readers, NEW k \in DOMAIN Out(s), Out(s)[k] = out PROVE FALSE
      OBVIOUS
    <2>1. PICK n \in 1 .. Gone : n \in DOMAIN pushed /\ pushed[n] = Out(s)[k]
      BY <1>8
    <2>2. n = Gone + 1
      BY <1>2, <1>3, <2>1 DEF Distinct
    <2> QED BY <1>2, <2>1, <2>2
  <1>10. Behind'
    <2> SUFFICES ASSUME NEW s \in Readers, NEW k \in DOMAIN Out(s)'
                 PROVE  \E n \in 1 .. Gone' : pushed'[n] = Out(s)'[k]
      BY Zenon DEF Behind
    <2>1. CASE k \in DOMAIN Out(s) /\ Out(s)'[k] = Out(s)[k]
      <3>1. PICK n \in 1 .. Gone : pushed[n] = Out(s)[k]
        BY <1>8, <2>1
      <3> QED BY <1>1, <1>2, <2>1, <3>1
    <2>2. CASE Out(s)'[k] = out
      BY <1>1, <1>2, <1>3, <2>2
    <2> QED BY <1>6, <1>7, <2>1, <2>2
  <1>11. OldestFirst'
    <2> SUFFICES ASSUME NEW s \in Readers, NEW j \in DOMAIN Out(s)', NEW k \in DOMAIN Out(s)',
                        NEW m \in DOMAIN pushed, NEW n \in DOMAIN pushed,
                        j < k, pushed[m] = Out(s)'[j], pushed[n] = Out(s)'[k]
                 PROVE  m < n
      BY <1>1, Zenon DEF OldestFirst
    <2>1. j \in DOMAIN Out(s) /\ Out(s)'[j] = Out(s)[j]
      BY <1>6, <1>7
    <2>2. CASE k \in DOMAIN Out(s) /\ Out(s)'[k] = Out(s)[k]
      BY <2>1, <2>2 DEF Delivery, OldestFirst
    <2>3. CASE Out(s)'[k] = out
      <3>1. PICK a \in 1 .. Gone : a \in DOMAIN pushed /\ pushed[a] = Out(s)[j]
        BY <1>8, <2>1
      <3>2. a = m /\ n = Gone + 1
        BY <1>2, <1>3, <2>1, <2>3, <3>1 DEF Distinct
      <3> QED BY <1>2, <3>1, <3>2
    <2> QED BY <1>6, <1>7, <2>2, <2>3
  <1>12. Apart'
    <2> SUFFICES ASSUME NEW s \in Readers, NEW t \in Readers, s # t,
                        NEW j \in DOMAIN Out(s)', NEW k \in DOMAIN Out(t)'
                 PROVE  Out(s)'[j] # Out(t)'[k]
      BY Zenon DEF Apart
    <2>a. ASSUME NEW u \in Readers, NEW i \in DOMAIN Out(u)'
          PROVE  (i \in DOMAIN Out(u) /\ Out(u)'[i] = Out(u)[i]) \/ (u = r /\ Out(u)'[i] = out)
      <3>1. CASE u = r
        BY <1>7, <3>1
      <3>2. CASE u # r
        BY <1>6, <3>2
      <3> QED BY <3>1, <3>2
    <2>1. (j \in DOMAIN Out(s) /\ Out(s)'[j] = Out(s)[j]) \/ (s = r /\ Out(s)'[j] = out)
      BY <2>a
    <2>2. (k \in DOMAIN Out(t) /\ Out(t)'[k] = Out(t)[k]) \/ (t = r /\ Out(t)'[k] = out)
      BY <2>a
    <2>3. j \in DOMAIN Out(s) /\ k \in DOMAIN Out(t) => Out(s)[j] # Out(t)[k]
      BY Zenon DEF Delivery, Apart
    <2> QED BY <1>9, <2>1, <2>2, <2>3
  <1>13. /\ DOMAIN b = 1 .. Len(b) /\ Len(b) \in Nat /\ Len(Append(b, out)) = Len(b) + 1
         /\ \A k \in DOMAIN b : Append(b, out)[k] = b[k]
         /\ Append(b, out)[Len(b) + 1] = out
    BY <1>3, <1>6
  <1>14. NoGap'
    <2> SUFFICES ASSUME NEW s \in Readers, NEW k \in 2 .. Len(rd'[s].batch), NEW n \in DOMAIN pushed,
                        pushed[n] = rd'[s].batch[k - 1]
                 PROVE  n + 1 \in DOMAIN pushed /\ pushed[n + 1] = rd'[s].batch[k]
      BY <1>1, Zenon DEF NoGap
    <2>1. CASE s # r
      <3>1. rd'[s].batch = rd[s].batch
        BY <1>5, <2>1
      <3> QED BY <3>1 DEF Delivery, NoGap
    <2>2. CASE s = r
      <3>1. /\ k \in 2 .. Len(b) + 1 /\ k - 1 \in DOMAIN b
            /\ pushed[n] = b[k - 1]
        <4>1. rd'[s].batch = Append(b, out)
          BY <1>5, <2>2, Zenon
        <4>2. k \in 2 .. Len(b) + 1
          BY <1>13, <4>1
        <4>3. k - 1 \in DOMAIN b
          BY <1>13, <4>2
        <4> QED BY <1>13, <4>1, <4>2, <4>3
      <3>2. CASE k \in DOMAIN b
        <4>1. k \in 2 .. Len(b)
          BY <1>13, <3>1, <3>2
        <4>2. n + 1 \in DOMAIN pushed /\ pushed[n + 1] = b[k]
          BY <3>1, <4>1 DEF Delivery, NoGap
        <4> QED BY <1>5, <1>13, <2>2, <3>2, <4>2
      <3>3. CASE k = Len(b) + 1
        <4>1. b # << >> /\ k - 1 = Len(b)
          BY <1>13, <3>1, <3>3
        <4>2. Gone \in DOMAIN pushed /\ b[Len(b)] = pushed[Gone]
          BY <1>1, <4>1 DEF Delivery, AtEnd
        <4>3. n = Gone
          BY <3>1, <4>1, <4>2 DEF Distinct
        <4> QED BY <1>2, <1>3, <1>5, <1>13, <2>2, <3>3, <4>3
      <3> QED BY <1>13, <3>1, <3>2, <3>3
    <2> QED BY <2>1, <2>2
  <1>15. AtEnd'
    <2> SUFFICES ASSUME NEW s \in Readers, rd'[s].pc = "pop"
                 PROVE  /\ Gone' \in DOMAIN pushed
                        /\ rd'[s].batch[Len(rd'[s].batch)] = pushed[Gone']
      BY <1>1, Zenon DEF AtEnd
    <2>1. s = r
      BY <1>1, <1>5 DEF IInv, LockInv
    <2> QED BY <1>2, <1>3, <1>5, <1>13, <2>1
  <1>16. StartsEmpty'
    BY <1>1, <1>5 DEF Delivery, StartsEmpty
  <1> QED BY <1>10, <1>11, <1>12, <1>14, <1>15, <1>16 DEF Delivery

(* The other steps of a reader: its batch stays, is delivered or is gone. *)
LEMMA OtherReads ==
  ASSUME IInv, RingHoldsNewest, Delivery, Distinct', NEW r \in Readers,
         \/ ReadCall(r) \/ PollCall(r) \/ ReadLock(r) \/ ReadUnlock(r) \/ ReadCopyOut(r)
         \/ WaitEnqueue(r) \/ WaitTest(r) \/ WaitWoken(r) \/ WaitSignal(r)
  PROVE  Delivery'
  <1>1. UNCHANGED <<ring, pushed>> /\ rd \in [Readers -> ReaderType] /\ got \in [Readers -> Seq(Record)]
    BY DEF ReadCall, PollCall, ReadLock, ReadUnlock, ReadCopyOut, WaitEnqueue, WaitTest, WaitWoken,
           WaitSignal, IInv, TypeOK
  <1>2. Gone' = Gone /\ Gone \in Nat
    BY <1>1, GoneType DEF Gone
  <1>3. \A s \in Readers : s # r => rd'[s] = rd[s] /\ got'[s] = got[s]
    <2>1. CASE ReadCopyOut(r)
      BY <1>1, <2>1 DEF ReadCopyOut
    <2>2. CASE ReadCall(r) \/ PollCall(r) \/ ReadLock(r) \/ ReadUnlock(r)
      BY <1>1, <2>2 DEF ReadCall, PollCall, ReadLock, ReadUnlock
    <2>3. CASE WaitEnqueue(r) \/ WaitTest(r) \/ WaitWoken(r) \/ WaitSignal(r)
      BY <1>1, <2>3 DEF WaitEnqueue, WaitTest, WaitWoken, WaitSignal
    <2> QED BY <2>1, <2>2, <2>3
  <1>4. /\ \/ rd'[r].batch = rd[r].batch /\ got'[r] = got[r]
           \/ rd'[r].batch = << >> /\ got'[r] = got[r]
           \/ rd'[r].batch = << >> /\ got'[r] = got[r] \o rd[r].batch
        /\ rd'[r].pc \in {"pop", "copyout"} => rd'[r].pc = "copyout" \/ rd'[r].batch = << >>
        /\ rd'[r].pc \notin {"pop", "copyout"} => rd'[r].batch = << >>
    <2>0. rd[r] \in ReaderType /\ (rd[r].pc \notin {"pop", "copyout"} => rd[r].batch = << >>)
      BY <1>1 DEF Delivery, StartsEmpty
    <2>1. CASE ReadCopyOut(r)
      BY <1>1, <2>1 DEF ReadCopyOut, IdleReader
    <2>2. CASE ReadCall(r)
      BY <1>1, <2>2 DEF ReadCall
    <2>3. CASE PollCall(r)
      BY <1>1, <2>3 DEF PollCall, IdleReader
    <2>4. CASE ReadLock(r)
      BY <1>1, <2>0, <2>4 DEF ReadLock, IdleReader, ReaderType
    <2>5. CASE ReadUnlock(r)
      BY <1>1, <2>0, <2>5 DEF ReadUnlock, ReaderType
    <2>6. CASE WaitTest(r)
      BY <1>1, <2>0, <2>6 DEF WaitTest, IdleReader, ReaderType
    <2>7. CASE WaitEnqueue(r) \/ WaitWoken(r) \/ WaitSignal(r)
      BY <1>1, <2>0, <2>7 DEF WaitEnqueue, WaitWoken, WaitSignal, IdleReader, ReaderType
    <2> QED BY <2>1, <2>2, <2>3, <2>4, <2>5, <2>6, <2>7
  <1>5. \A s \in Readers : s # r => Out(s)' = Out(s)
    BY <1>3, Zenon DEF Out
  <1>6. Out(r)' = Out(r) \/ Out(r)' = got[r]
    <2>1. PICK g \in Seq(Record), b \in Seq(Record) : g = got[r] /\ b = rd[r].batch
      BY OutType
    <2>2. g \o << >> = g /\ (g \o b) \o << >> = g \o b
      OBVIOUS
    <2> QED BY <1>4, <2>1, <2>2, Zenon DEF Out
  <1>7. \A s \in Readers : \A k \in DOMAIN Out(s)' : k \in DOMAIN Out(s) /\ Out(s)'[k] = Out(s)[k]
    <2> SUFFICES ASSUME NEW s \in Readers, NEW k \in DOMAIN Out(s)'
                 PROVE  k \in DOMAIN Out(s) /\ Out(s)'[k] = Out(s)[k]
      OBVIOUS
    <2>1. CASE Out(s)' = Out(s)
      BY <2>1
    <2>2. CASE s = r /\ Out(r)' = got[r]
      BY <2>2, OutType
    <2> QED BY <1>5, <1>6, <2>1, <2>2
  <1>8. \A s \in Readers : rd'[s].batch = rd[s].batch \/ rd'[s].batch = << >>
    BY <1>3, <1>4
  <1>9. Behind' /\ OldestFirst' /\ Apart' /\ NoGap'
    <2>1. /\ \A n \in DOMAIN pushed : n \in DOMAIN pushed' /\ pushed'[n] = pushed[n]
          /\ Gone' \in Int /\ Gone <= Gone'
      BY <1>1, <1>2
    <2> QED BY <1>7, <1>8, <2>1, NothingDelivered, Zenon
  <1>10. AtEnd' /\ StartsEmpty'
    BY <1>1, <1>2, <1>3, <1>4 DEF Delivery, AtEnd, StartsEmpty
  <1> QED BY <1>9, <1>10 DEF Delivery

(* Writes and resets take nothing back: what has left the ring stays out. *)
LEMMA WriteOrReset ==
  ASSUME IInv, IInv', RingHoldsNewest, RingHoldsNewest', Delivery, Distinct',
         \/ \E w \in Writers : WriteCall(w) \/ WritePush(w) \/ WriteFault(w) \/ WriteWake(w)
         \/ IoctlReset
  PROVE  Delivery'
  <1>1. UNCHANGED <<rd, got>>
    BY DEF WriteCall, WritePush, WriteFault, WriteWake, IoctlReset
  <1>2. \/ UNCHANGED <<ring, pushed>>
        \/ /\ g_lock = NoThread
           /\ \/ ring' = tring_init(ring) /\ pushed' = pushed
              \/ \E rec \in Record : ring' = tring_push(ring, rec) /\ pushed' = Append(pushed, rec)
    BY PushedIsRecord DEF WriteCall, WritePush, WriteFault, WriteWake, IoctlReset
  <1>3. /\ \A n \in DOMAIN pushed : n \in DOMAIN pushed' /\ pushed'[n] = pushed[n]
        /\ Gone' \in Int /\ Gone <= Gone'
    <2>1. CASE UNCHANGED <<ring, pushed>>
      <3>1. Gone' = Gone /\ pushed' = pushed
        BY <2>1 DEF Gone
      <3> QED BY <3>1, GoneType
    <2>2. CASE ring' = tring_init(ring) /\ pushed' = pushed
      <3>1. Gone' = Len(pushed) - 0
        BY <2>2 DEF Gone, tring_init
      <3> QED BY <2>2, <3>1, GoneType, PushedType
    <2>3. ASSUME NEW rec \in Record, ring' = tring_push(ring, rec), pushed' = Append(pushed, rec)
          PROVE  /\ \A n \in DOMAIN pushed : n \in DOMAIN pushed' /\ pushed'[n] = pushed[n]
                 /\ Gone' \in Int /\ Gone <= Gone'
      <3>1. /\ Len(pushed') = Len(pushed) + 1
            /\ \A n \in DOMAIN pushed : n \in DOMAIN pushed' /\ pushed'[n] = pushed[n]
        BY <2>3, PushedType
      <3>2. ring'.count = ring.count \/ ring'.count = ring.count + 1
        BY <2>3 DEF tring_push
      <3> QED BY <3>1, <3>2, PushedType DEF Gone
    <2> QED BY <1>2, <2>1, <2>2, <2>3
  <1>4. \A s \in Readers : Out(s)' = Out(s)
    BY <1>1, Zenon DEF Out
  <1>5. Behind' /\ OldestFirst' /\ Apart' /\ NoGap'
    BY <1>1, <1>3, <1>4, NothingDelivered
  <1>6. StartsEmpty'
    BY <1>1 DEF Delivery, StartsEmpty
  <1>7. AtEnd'
    <2>1. CASE UNCHANGED <<ring, pushed>>
      BY <1>1, <2>1 DEF Delivery, AtEnd, Gone
    <2>2. CASE g_lock = NoThread
      <3>1. \A s \in Readers : rd'[s].pc # "pop"
        BY <1>1, <2>2, DrvAssumption DEF IInv, LockInv
      <3> QED BY <3>1 DEF AtEnd
    <2> QED BY <1>2, <2>1, <2>2
  <1> QED BY <1>5, <1>6, <1>7 DEF Delivery

LEMMA DeliveryInv == Spec => [](Distinct /\ Delivery)
  <1>1. Init => Distinct /\ Fresh /\ Delivery
    <2> SUFFICES ASSUME Init PROVE Distinct /\ Fresh /\ Delivery
      OBVIOUS
    <2>1. pushed = << >> /\ \A w \in Writers : wr[w].pc = "idle"
      BY DEF Init, IdleWriter
    <2>2. \A r \in Readers : got[r] = << >> /\ rd[r].batch = << >> /\ rd[r].pc = "idle"
      BY DEF Init, IdleReader
    <2>3. \A r \in Readers : Out(r) = << >>
      BY <2>2 DEF Out
    <2>4. Distinct /\ Fresh
      BY <2>1 DEF Distinct, Fresh
    <2>5. Behind /\ OldestFirst /\ Apart
      BY <2>3 DEF Behind, OldestFirst, Apart
    <2>6. NoGap /\ AtEnd /\ StartsEmpty
      BY <2>2 DEF NoGap, AtEnd, StartsEmpty
    <2> QED BY <2>4, <2>5, <2>6 DEF Delivery
  <1>2. /\ IInv /\ IInv' /\ RingHoldsNewest /\ RingHoldsNewest' /\ [Next]_vars
        /\ Distinct /\ Fresh /\ Delivery
        => Distinct' /\ Fresh' /\ Delivery'
    <2> SUFFICES ASSUME IInv, IInv', RingHoldsNewest, RingHoldsNewest', [Next]_vars,
                        Distinct, Fresh, Delivery
                 PROVE  Distinct' /\ Fresh' /\ Delivery'
      OBVIOUS
    <2>1. Distinct' /\ Fresh'
      BY FreshStep
    <2>2. CASE UNCHANGED vars
      <3>1. /\ Gone' = Gone /\ pushed' = pushed /\ rd' = rd
            /\ \A r \in Readers : Out(r)' = Out(r)
        BY <2>2 DEF vars, Gone, Out
      <3>2. Behind' /\ OldestFirst' /\ Apart' /\ NoGap'
        BY <2>1, <3>1, GoneType, NothingDelivered
      <3> QED BY <2>1, <3>1, <3>2 DEF Delivery, AtEnd, StartsEmpty
    <2>3. CASE \/ \E w \in Writers : WriteCall(w) \/ WriterStep(w)
               \/ IoctlReset
      BY <2>1, <2>3, WriteOrReset DEF WriterStep
    <2>4. CASE \E r \in Readers : ReadCall(r) \/ PollCall(r) \/ ReaderStep(r) \/ WaitSignal(r)
      BY <2>1, <2>4, OtherReads, PopDelivers DEF ReaderStep
    <2> QED BY <2>1, <2>2, <2>3, <2>4, Zenon DEF Next
  <1> QED BY <1>1, <1>2, Invariance, RingIsNewest, PTL DEF Spec

(* The place of a record that was pushed. *)
LEMMA PlaceOf ==
  ASSUME Distinct, NEW n \in DOMAIN pushed
  PROVE  PushIndex(pushed[n]) = n
  BY DEF Distinct, PushIndex

(* Every reader of /dev/telemetry sees records oldest first, none of them   *)
(* twice and none that another reader gets or that is still in the ring,   *)
(* for any number of readers and writers and any interleaving of reads,    *)
(* overwrites, faults and resets.                                          *)
THEOREM DeliveryIsExact == Spec => []DeliveredOnceInOrder
  <1>1. IInv /\ RingHoldsNewest /\ Distinct /\ Delivery => DeliveredOnceInOrder
    <2> SUFFICES ASSUME IInv, RingHoldsNewest, Distinct, Delivery PROVE DeliveredOnceInOrder
      OBVIOUS
    <2>1. \A r \in Readers : \A k \in DOMAIN Out(r) :
            \E n \in 1 .. Gone : n \in DOMAIN pushed /\ pushed[n] = Out(r)[k]
      BY GoneType, PushedType DEF Delivery, Behind
    <2>2. ASSUME NEW r \in Readers PROVE InPushOrder(Out(r))
      <3> SUFFICES ASSUME NEW j \in DOMAIN Out(r), NEW k \in DOMAIN Out(r), j < k
                   PROVE  PushIndex(Out(r)[j]) < PushIndex(Out(r)[k])
        BY DEF InPushOrder, Increasing
      <3>1. PICK m \in DOMAIN pushed : pushed[m] = Out(r)[j]
        BY <2>1
      <3>2. PICK n \in DOMAIN pushed : pushed[n] = Out(r)[k]
        BY <2>1
      <3>3. m < n
        BY <3>1, <3>2 DEF Delivery, OldestFirst
      <3>4. PushIndex(Out(r)[j]) = m /\ PushIndex(Out(r)[k]) = n
        BY <3>1, <3>2, PlaceOf
      <3> QED BY <3>3, <3>4
    <2>3. ASSUME NEW r \in Readers, NEW s \in Readers, r # s
          PROVE  Image(Out(r)) \cap Image(Out(s)) = {}
      BY <2>3 DEF Delivery, Apart, Image
    <2>4. ASSUME NEW r \in Readers PROVE Image(Out(r)) \cap Image(Contents(ring)) = {}
      <3> SUFFICES ASSUME NEW k \in DOMAIN Out(r), NEW j \in DOMAIN Contents(ring),
                          Out(r)[k] = Contents(ring)[j]
                   PROVE  FALSE
        BY DEF Image
      <3>1. PICK n \in 1 .. Gone : n \in DOMAIN pushed /\ pushed[n] = Out(r)[k]
        BY <2>1
      <3>2. j \in 1 .. ring.count
        BY DEF Contents
      <3>3. Contents(ring)[j] = pushed[Gone + j] /\ Gone + j \in DOMAIN pushed
        BY <3>2, PushedType, GoneType DEF RingHoldsNewest, Gone
      <3>4. n = Gone + j
        BY <3>1, <3>3 DEF Distinct
      <3> QED BY <3>1, <3>2, <3>4, GoneType, PushedType
    <2> QED BY <2>2, <2>3, <2>4 DEF DeliveredOnceInOrder, Out
  <1> QED BY <1>1, DeliveryInv, Invariance, RingIsNewest, PTL

(* The records of one read call are consecutive: tlm_read keeps g_lock for  *)
(* the whole pop loop, so no overwrite falls into the middle of a batch.    *)
THEOREM BatchesAreWhole == Spec => []BatchHasNoGap
  <1>1. IInv /\ RingHoldsNewest /\ Distinct /\ Delivery => BatchHasNoGap
    <2> SUFFICES ASSUME IInv, RingHoldsNewest, Distinct, Delivery,
                        NEW r \in Readers, NEW k \in 2 .. Len(rd[r].batch)
                 PROVE  PushIndex(rd[r].batch[k]) = PushIndex(rd[r].batch[k - 1]) + 1
      BY DEF BatchHasNoGap
    <2>1. k - 1 \in DOMAIN rd[r].batch
      BY OutType
    <2>2. PICK n \in DOMAIN pushed : pushed[n] = rd[r].batch[k - 1]
      <3>1. PICK j \in DOMAIN Out(r) : Out(r)[j] = rd[r].batch[k - 1]
        BY <2>1, OutType
      <3>2. PICK n \in 1 .. Gone : pushed[n] = Out(r)[j]
        BY DEF Delivery, Behind
      <3>3. n \in DOMAIN pushed
        BY <3>2, GoneType, PushedType
      <3> QED BY <3>1, <3>2, <3>3, Zenon
    <2>3. n + 1 \in DOMAIN pushed /\ pushed[n + 1] = rd[r].batch[k]
      BY <2>2 DEF Delivery, NoGap
    <2> QED BY <2>2, <2>3, PlaceOf
  <1> QED BY <1>1, DeliveryInv, Invariance, RingIsNewest, PTL
=============================================================================
