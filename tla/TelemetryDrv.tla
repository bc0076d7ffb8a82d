---------------------------- MODULE TelemetryDrv ----------------------------
(***************************************************************************)
(* kmod/telemetry_drv.c: the /dev/telemetry character device.  Writers     *)
(* (the server's dev sink) push records, readers (telemetry_cat) block in  *)
(* read or poll until records arrive, and an ioctl resets the ring.        *)
(*                                                                         *)
(* g_lock is the spinlock.  A critical section that makes one access to    *)
(* the ring is one step taken while the lock is free; the pop loop of      *)
(* tlm_read makes several and holds the lock between them.  The condition  *)
(* of wait_event_interruptible reads the count without the lock, so it may *)
(* see the ring in the middle of another reader's pop loop.                *)
(***************************************************************************)
EXTENDS Tring

CONSTANTS
  Writers, Readers,
  NoThread,     (* owner of g_lock when it is free                         *)
  BATCH,        (* records moved per read call (32 in the code)            *)
  MaxNrec,      (* bound: whole records in the buffer of one write call    *)
  MaxRec,       (* bound: whole records that fit one reader's buffer       *)
  MaxRecords    (* bound: records handed to write calls over a behaviour   *)

ASSUME DrvAssumption ==
  /\ BATCH \in Nat \ {0} /\ MaxNrec \in Nat /\ MaxRec \in Nat /\ MaxRecords \in Nat
  /\ NoThread \notin Readers
  /\ Record = 0 .. MaxRecords   (* 0 is the zeroed record of a fresh slot *)

VARIABLES
  ring,       (* g_ring                                                    *)
  g_lock,     (* the reader that holds the spinlock, or NoThread           *)
  g_readq,    (* readers queued on the wait queue and not yet woken        *)
  wr,         (* per writer: pc, first record, number of records, loop i   *)
  rd,         (* per reader: pc, call, buffer size in records, local batch *)
  issued,     (* records handed to write calls so far                      *)
  pushed,     (* history: every record pushed, in order                    *)
  taken,      (* history: records popped since the counters were zeroed    *)
  got,        (* history: records copied out to each reader, in order      *)
  unwoken     (* history: a failed write left records without a wake-up    *)

vars == <<ring, g_lock, g_readq, wr, rd, issued, pushed, taken, got, unwoken>>

Calls == {"read", "nonblock", "poll"}

IdleWriter == [pc |-> "idle", base |-> 0, nrec |-> 0, i |-> 0]
IdleReader == [pc |-> "idle", call |-> "read", maxrec |-> 0, batch |-> << >>]

(* tlm_init: the module is loaded; g_ring is zeroed static storage. *)
Init ==
  /\ ring = [buf |-> [s \in Slots |-> 0], head |-> 0, count |-> 0,
             produced |-> 0, dropped |-> 0]
  /\ g_lock = NoThread
  /\ g_readq = {}
  /\ wr = [w \in Writers |-> IdleWriter]
  /\ rd = [r \in Readers |-> IdleReader]
  /\ issued = 0
  /\ pushed = << >>
  /\ taken = 0
  /\ got = [r \in Readers |-> << >>]
  /\ unwoken = FALSE
-----------------------------------------------------------------------------
(* tlm_write *)

(* Entry: a buffer without one whole record is refused with EINVAL, which  *)
(* leaves everything as it is; otherwise the copy loop starts.             *)
WriteCall(w) ==
  /\ wr[w].pc = "idle"
  /\ \E nrec \in 1 .. MaxNrec :
       /\ issued + nrec <= MaxRecords
       /\ wr' = [wr EXCEPT ![w] = [pc |-> "loop", base |-> issued, nrec |-> nrec, i |-> 0]]
       /\ issued' = issued + nrec
  /\ UNCHANGED <<ring, g_lock, g_readq, rd, pushed, taken, got, unwoken>>

(* One round of the loop: copy_from_user succeeds, then lock, push, unlock. *)
WritePush(w) ==
  LET rec == wr[w].base + wr[w].i + 1
  IN  /\ wr[w].pc = "loop"
      /\ wr[w].i < wr[w].nrec
      /\ g_lock = NoThread
      /\ ring' = tring_push(ring, rec)
      /\ pushed' = Append(pushed, rec)
      /\ wr' = [wr EXCEPT ![w].i = @ + 1]
      /\ UNCHANGED <<g_lock, g_readq, rd, issued, taken, got, unwoken>>

(* copy_from_user faults: the call returns EFAULT at once.  Records of the *)
(* same call that were pushed before stay in the ring, and nobody is woken.*)
WriteFault(w) ==
  /\ wr[w].pc = "loop"
  /\ wr[w].i < wr[w].nrec
  /\ wr' = [wr EXCEPT ![w] = IdleWriter]
  /\ unwoken' = (unwoken \/ wr[w].i > 0)
  /\ UNCHANGED <<ring, g_lock, g_readq, rd, issued, pushed, taken, got>>

(* Mutant: the writer returns without waking anyone. *)
WriteWake_Silent(w) ==
  /\ wr[w].pc = "loop"
  /\ wr[w].i = wr[w].nrec
  /\ wr' = [wr EXCEPT ![w] = IdleWriter]
  /\ UNCHANGED <<ring, g_lock, g_readq, rd, issued, pushed, taken, got, unwoken>>

(* The loop is done: wake every reader on the queue and return. *)
WriteWake(w) ==
  /\ wr[w].pc = "loop"
  /\ wr[w].i = wr[w].nrec
  /\ g_readq' = {}
  /\ wr' = [wr EXCEPT ![w] = IdleWriter]
  /\ unwoken' = FALSE
  /\ UNCHANGED <<ring, g_lock, rd, issued, pushed, taken, got>>
-----------------------------------------------------------------------------
(* tlm_read and tlm_poll *)

(* Entry of tlm_read: a buffer too small for a record is refused with       *)
(* EINVAL, which leaves everything as it is; otherwise try the ring.       *)
ReadCall(r) ==
  /\ rd[r].pc = "idle"
  /\ \E call \in {"read", "nonblock"}, maxrec \in 1 .. MaxRec :
       rd' = [rd EXCEPT ![r] = [pc |-> "lock", call |-> call,
                                maxrec |-> maxrec, batch |-> << >>]]
  /\ UNCHANGED <<ring, g_lock, g_readq, wr, issued, pushed, taken, got, unwoken>>

(* Entry of tlm_poll: first the wait queue, then the ring. *)
PollCall(r) ==
  /\ rd[r].pc = "idle"
  /\ rd' = [rd EXCEPT ![r] = [IdleReader EXCEPT !.pc = "enqueue", !.call = "poll"]]
  /\ UNCHANGED <<ring, g_lock, g_readq, wr, issued, pushed, taken, got, unwoken>>

(* Lock and look: an empty ring makes the reader unlock and give up with    *)
(* EAGAIN or go to wait; otherwise it keeps the lock and pops.             *)
ReadLock(r) ==
  /\ rd[r].pc = "lock"
  /\ g_lock = NoThread
  /\ IF tring_count(ring) = 0
     THEN /\ rd' = [rd EXCEPT ![r] = IF rd[r].call = "nonblock"
                                     THEN IdleReader ELSE [@ EXCEPT !.pc = "enqueue"]]
          /\ UNCHANGED g_lock
     ELSE /\ rd' = [rd EXCEPT ![r].pc = "pop"]
          /\ g_lock' = r
  /\ UNCHANGED <<ring, g_readq, wr, issued, pushed, taken, got, unwoken>>

(* Mutant: the lock is taken and released for each record of a batch. *)
ReadPop_LockPerRecord(r) ==
  LET want == IF rd[r].maxrec < BATCH THEN rd[r].maxrec ELSE BATCH
  IN  /\ rd[r].pc = "pop"
      /\ g_lock \in {NoThread, r}
      /\ Len(rd[r].batch) < want
      /\ ring.count > 0
      /\ rd' = [rd EXCEPT ![r].batch = Append(@, tring_pop_out(ring))]
      /\ ring' = tring_pop(ring)
      /\ taken' = taken + 1
      /\ g_lock' = NoThread
      /\ UNCHANGED <<g_readq, wr, issued, pushed, got, unwoken>>

(* One round of the pop loop, under the lock. *)
ReadPop(r) ==
  LET want == IF rd[r].maxrec < BATCH THEN rd[r].maxrec ELSE BATCH
  IN  /\ rd[r].pc = "pop"
      /\ Len(rd[r].batch) < want
      /\ ring.count > 0
      /\ rd' = [rd EXCEPT ![r].batch = Append(@, tring_pop_out(ring))]
      /\ ring' = tring_pop(ring)
      /\ taken' = taken + 1
      /\ UNCHANGED <<g_lock, g_readq, wr, issued, pushed, got, unwoken>>

(* The pop loop ends: the batch is full or the ring is empty; unlock. *)
ReadUnlock(r) ==
  LET want == IF rd[r].maxrec < BATCH THEN rd[r].maxrec ELSE BATCH
  IN  /\ rd[r].pc = "pop"
      /\ Len(rd[r].batch) = want \/ ring.count = 0
      /\ rd' = [rd EXCEPT ![r].pc = "copyout"]
      /\ g_lock' = NoThread
      /\ UNCHANGED <<ring, g_readq, wr, issued, pushed, taken, got, unwoken>>

(* copy_to_user delivers the batch, or faults and the batch is gone. *)
ReadCopyOut(r) ==
  /\ rd[r].pc = "copyout"
  /\ \/ got' = [got EXCEPT ![r] = @ \o rd[r].batch]
     \/ UNCHANGED got
  /\ rd' = [rd EXCEPT ![r] = IdleReader]
  /\ UNCHANGED <<ring, g_lock, g_readq, wr, issued, pushed, taken, unwoken>>

(* Mutant: the caller goes to sleep without looking at the ring again. *)
WaitEnqueue_NoTest(r) ==
  /\ rd[r].pc = "enqueue"
  /\ g_readq' = g_readq \cup {r}
  /\ rd' = [rd EXCEPT ![r].pc = "asleep"]
  /\ UNCHANGED <<ring, g_lock, wr, issued, pushed, taken, got, unwoken>>

(* wait_event_interruptible and poll_wait: the caller joins the wait queue  *)
(* before it looks at the ring, so that a wake-up in between is not lost.  *)
WaitEnqueue(r) ==
  /\ rd[r].pc = "enqueue"
  /\ g_readq' = g_readq \cup {r}
  /\ rd' = [rd EXCEPT ![r].pc = "test"]
  /\ UNCHANGED <<ring, g_lock, wr, issued, pushed, taken, got, unwoken>>

(* The condition after joining the queue.  A read looks at the count        *)
(* without the lock, tlm_poll with it.  A poll that finds records returns. *)
WaitTest(r) ==
  /\ rd[r].pc = "test"
  /\ rd[r].call = "poll" => g_lock = NoThread
  /\ IF tring_count(ring) > 0
     THEN /\ g_readq' = g_readq \ {r}
          /\ rd' = [rd EXCEPT ![r] = IF rd[r].call = "poll"
                                     THEN IdleReader ELSE [@ EXCEPT !.pc = "lock"]]
     ELSE /\ rd' = [rd EXCEPT ![r].pc = "asleep"]
          /\ UNCHANGED g_readq
  /\ UNCHANGED <<ring, g_lock, wr, issued, pushed, taken, got, unwoken>>

(* A woken sleeper goes round the wait loop again. *)
WaitWoken(r) ==
  /\ rd[r].pc = "asleep"
  /\ r \notin g_readq
  /\ rd' = [rd EXCEPT ![r].pc = "enqueue"]
  /\ UNCHANGED <<ring, g_lock, g_readq, wr, issued, pushed, taken, got, unwoken>>

(* A signal ends the wait: ERESTARTSYS. *)
WaitSignal(r) ==
  /\ rd[r].pc = "asleep"
  /\ g_readq' = g_readq \ {r}
  /\ rd' = [rd EXCEPT ![r] = IdleReader]
  /\ UNCHANGED <<ring, g_lock, wr, issued, pushed, taken, got, unwoken>>
-----------------------------------------------------------------------------
(* tlm_ioctl: PL_IOC_RESET runs tring_init under the lock. *)
IoctlReset ==
  /\ g_lock = NoThread
  /\ ring' = tring_init(ring)
  /\ taken' = 0
  /\ UNCHANGED <<g_lock, g_readq, wr, rd, issued, pushed, got, unwoken>>

(* PL_IOC_GET_STATS and /proc/pulselink: what a reader of the statistics    *)
(* sees, a copy made under the lock.                                       *)
pl_stats ==
  [produced |-> ring.produced, dropped |-> ring.dropped,
   in_ring |-> tring_count(ring), capacity |-> TRING_CAP]

WriterStep(w) == WritePush(w) \/ WriteFault(w) \/ WriteWake(w)

ReaderStep(r) ==
  \/ ReadLock(r) \/ ReadPop(r) \/ ReadUnlock(r) \/ ReadCopyOut(r)
  \/ WaitEnqueue(r) \/ WaitTest(r) \/ WaitWoken(r)

Next ==
  \/ \E w \in Writers : WriteCall(w) \/ WriterStep(w)
  \/ \E r \in Readers : ReadCall(r) \/ PollCall(r) \/ ReaderStep(r) \/ WaitSignal(r)
  \/ IoctlReset

Spec == Init /\ [][Next]_vars

(* A thread inside a system call keeps running.  New calls, signals and     *)
(* resets are the users' choice and may never come.                        *)
FairSpec ==
  /\ Spec
  /\ \A w \in Writers : WF_vars(WriterStep(w))
  /\ \A r \in Readers : WF_vars(ReaderStep(r))
-----------------------------------------------------------------------------
WriterType ==
  [pc : {"idle", "loop"}, base : 0 .. MaxRecords, nrec : 0 .. MaxNrec, i : 0 .. MaxNrec]
ReaderType ==
  [pc : {"idle", "lock", "pop", "copyout", "enqueue", "test", "asleep"},
   call : Calls, maxrec : 0 .. MaxRec, batch : Seq(Record)]

(* The values of the variables: calls in flight stay within the bounds of   *)
(* their buffers, and the ring within its capacity.                        *)
TypeOK ==
  /\ ring \in TringType
  /\ g_lock \in Readers \cup {NoThread}
  /\ g_readq \in SUBSET Readers
  /\ wr \in [Writers -> WriterType]
  /\ rd \in [Readers -> ReaderType]
  /\ issued \in 0 .. MaxRecords
  /\ pushed \in Seq(Record)
  /\ taken \in Nat
  /\ got \in [Readers -> Seq(Record)]
  /\ unwoken \in BOOLEAN

(* Drop-oldest: whatever pushes, overwrites, pops and resets came before,   *)
(* the ring holds exactly the newest records pushed, in push order         *)
(* (tring_push overwrites the oldest slot, tring_pop removes the oldest).  *)
RingHoldsNewest ==
  /\ ring.count <= Len(pushed)
  /\ \A k \in 1 .. ring.count :
       Contents(ring)[k] = pushed[Len(pushed) - ring.count + k]

(* The statistics balance at every instant a reader of PL_IOC_GET_STATS or  *)
(* /proc/pulselink can see them: what was produced since the last reset is *)
(* in the ring, was dropped, or was taken by a read.                       *)
StatsBalance ==
  g_lock = NoThread =>
    pl_stats.produced = pl_stats.dropped + pl_stats.in_ring + taken

Image(s) == {s[k] : k \in DOMAIN s}
Increasing(s) == \A j, k \in DOMAIN s : j < k => s[j] < s[k]

(* The place of a record in the order of pushes. *)
PushIndex(rec) == CHOOSE k \in DOMAIN pushed : pushed[k] = rec
InPushOrder(s) == Increasing([k \in DOMAIN s |-> PushIndex(s[k])])

(* A record goes to at most one reader and at most once, and every reader   *)
(* sees records oldest first, however reads, drops and resets interleave.  *)
DeliveredOnceInOrder ==
  /\ \A r \in Readers : InPushOrder(got[r] \o rd[r].batch)
  /\ \A r, s \in Readers : r # s =>
       Image(got[r] \o rd[r].batch) \cap Image(got[s] \o rd[s].batch) = {}
  /\ \A r \in Readers : Image(got[r] \o rd[r].batch) \cap Image(Contents(ring)) = {}

(* One read call returns consecutive records: no overwrite falls into the   *)
(* middle of a batch, because the pop loop holds the lock throughout.      *)
BatchHasNoGap ==
  \A r \in Readers : LET b == rd[r].batch
                     IN  \A k \in 2 .. Len(b) : PushIndex(b[k]) = PushIndex(b[k - 1]) + 1

(* A read that succeeds returns at least one record ("each call returns     *)
(* one or more whole records", telemetry_cat.c), even if another reader    *)
(* emptied the ring between this reader's wake-up and its lock.            *)
ReadNeverEmpty ==
  \A r \in Readers : rd[r].pc = "copyout" => rd[r].batch # << >>

(* A reader asleep on the wait queue, with records in the ring.  *)
Stranded(r) == rd[r].pc = "asleep" /\ r \in g_readq /\ ring.count > 0

(* No lost wake-up: a reader sleeps beside records only while some write    *)
(* that pushed them has yet to reach its wake-up, or a write failed part-   *)
(* way and returned without one.                                           *)
SleepersHaveAWaker ==
  (\E r \in Readers : Stranded(r)) =>
     \/ \E w \in Writers : wr[w].pc = "loop" /\ wr[w].i > 0
     \/ unwoken

(* Under fair scheduling, a sleeping reader with records in the ring wakes, *)
(* or others take the records, or the wake-up was lost to a failed write.  *)
SleeperWakes ==
  \A r \in Readers :
    Stranded(r) ~> (rd[r].pc # "asleep" \/ ring.count = 0 \/ unwoken)

Queue == INSTANCE DropOldestQueue WITH
           Capacity <- TRING_CAP, Element <- Record, queue <- Contents(ring)

(* The driver implements the drop-oldest queue: every locked section of     *)
(* tlm_write, tlm_read and tlm_ioctl is one step of the queue, or none.    *)
ImplementsQueue == Queue!Spec
=============================================================================
