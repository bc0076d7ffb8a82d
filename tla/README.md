# Verification of PulseLink

TLA+ models of PulseLink, the TLC runs that check them on small instances, and
TLAPS proofs for every instance. `PROJECT.json` maps each definition to the
source lines it models and lists the runs, the mutants, the hazards, the
findings and the theorems. Paths below are relative to `src/`.

## The system and its parts

A device (`firmware/`) samples a sensor into a bounded queue and streams
packets over TCP to the server `telemetryd` (`server/`), with UDP heartbeats
beside it. A server thread per connection runs the packet protocol, updates a
shared device table, and stores each reading in a sink: a ring in memory, or
the character device `/dev/telemetry` (`kmod/`), whose records another process
reads. Image frames travel in chunks over the same connection and are
reassembled and filtered (`imaging/`).

| Part | Source | Module |
|---|---|---|
| record ring of the kernel module | `kmod/tring.c` | `Tring` (operators), `TelemetryDrv_proofs` |
| character device | `kmod/telemetry_drv.c` | `TelemetryDrv`, `TelemetryDrv_proofs` |
| what the device promises | header comment of the driver | `DropOldestQueue` (abstract) |
| device table | `server/device_table.c` | `DeviceTable` (implements `DeviceRegistry`), `DeviceTable_proofs` |
| what the table promises | `server/device_table.h` | `DeviceRegistry` (abstract) |
| threads, signals, admission, shutdown | `server/main.c`, `tcp_listener.c`, `udp_listener.c`, `reaper.c`, life cycle of `client_handler.c` | `Telemetryd`, `Telemetryd_proofs` |
| packet protocol of a worker | `server/client_handler.c`, `common/netutil.c` | `ClientWorker`, `ClientWorker_proofs` |
| sink in memory | `server/ring_log.c` | `RingLog` (implements `DropOldestQueue`), `RingLog_proofs` |
| both sinks, and the tools that read the device | `server/main.c`, `sink_chardev.c`, `kmod/telemetry_cat.c`, `telemetry_stat.c` | `Sinks` (on `RingLog` and `Tring`) |
| frame reassembly | `imaging/frame.c` | `FrameAsm`, `FrameAsm_proofs` |
| images, filters, BMP files | `imaging/image.c`, `convolve.c`, `bmp.c` | `Imaging` (operators) |
| frames from packet to file, demo program | frame case of `client_handler.c`, `imaging/pl_imaging.c` | `FramePath` (on `FrameAsm` and `Imaging`) |
| device tasks | `firmware/pulselink_fw.ino`, `wokwi_singlefile/sketch.ino` | `Firmware`, `Session_proofs` |
| connections, with the server's side packet by packet | `client_handler.c`, `tcp_listener.c` | `Link` |
| test client | `tools/fake_client.c` | `FakeClient` (on `Link`) |
| a client in session with the server | the above together | `Session` (on `Firmware` and `FakeClient`), `Session_proofs`, `Replies_proofs` |
| packet layout and checksum | `common/wire.c`, `checksum.c`, `firmware/telemetry.c` | `Wire` |

`MC*` modules instantiate these for TLC: symmetry sets and the small sets of
packets, frames and payloads. Definitions named `X_Something` before a
definition `X` are its mutants: plausible bugs that the properties must catch.
No configuration uses them.

## How state and actions correspond to the code

Control is kept: every guard, early return and error path, in its order. Data
is abstracted to what the properties tell apart: a record or a reading is its
number, a packet its kind and number, a byte of an image where it came from.
A section under a lock is one step when it touches the protected state once and
several steps otherwise. Each atomic load or store outside a lock is a step.

- **Tring** has one operator per function, on the value of `struct tring`.
  `Contents` is the abstract value: the records, oldest first.
- **TelemetryDrv.** `tlm_write` is WriteCall, then WritePush or WriteFault per
  record, then WriteWake. `tlm_read` is ReadCall, ReadLock, ReadPop, ReadUnlock
  and ReadCopyOut. The expansion of `wait_event_interruptible` is WaitEnqueue,
  WaitTest, WaitWoken and WaitSignal; its condition reads the count without the
  lock. PollCall shares those steps, and IoctlReset is `PL_IOC_RESET`.
- **DeviceTable.** `dt_get_or_create` is FindFast (read lock) and FindOrCreate
  (write lock, with the second look-up). `dt_record_sensor` is one step per
  atomic store. `dt_sweep_offline` and `dt_dump` are one step per load or store
  under the read lock. A `device_t *` is an index into the devices allocated.
- **Telemetryd.** Each thread has a program counter: main with the signal
  handler on top of it, the TCP listener, the UDP listener, the reaper and one
  worker per connection. Bind, poll, accept, malloc and pthread_create may fail.
- **ClientWorker.** The stream is a sequence of units. A header is two units, so
  a timeout can fall inside it. The peer may cut, stop, close or reset anywhere.
- **RingLog.** `rl_write` is Store (locked) then CountWritten and CountLost;
  `rl_dump` is DumpWritten, DumpLost and DumpRows (locked).
- **Sinks.** OpenSink is main's choice with its fallback. The sink in memory is
  RingLog; the device sink is `cd_write_record` (DevWrite) and CloseSink, above the
  kernel's ring. A locked section of the driver is one step here: its waits are
  in TelemetryDrv. CatDevice and CatFile are a round of `telemetry_cat` on the
  device and on a plain file; StatReset is `telemetry_stat --reset`.
- **FrameAsm.** One action per outcome of `frame_asm_feed`.
- **Imaging and FramePath.** Images are sequences of pixels and files sequences of
  bytes. `bmp_write` returns every outcome: no file, a file cut by a failing
  write, one cut by `fclose`, or the whole. FramePacket is the frame case of the
  worker; write_one writes a file of `pl_imaging`.
- **Firmware.** `sensor_task` and `net_task` run on two cores and share the queue
  and the counters. The radio, TCP library and server are the environment: they
  may fail at any call while `good` is false. `unfed` is the longest time that can
  have passed since `net_task` reset its watchdog. The sketch is the same text,
  135 lines further down.
- **Link, FakeClient and Session.** A connection is two streams of packets. Leaving
  may cut what was sent, and the server may not notice it. Worker steps are packet
  by packet, for the packets the two clients send. Session joins each call of
  Firmware on its socket with what it does to the connection, so there the
  server is no longer free to answer as it likes.
- **Wire.** Encoders, decoders and checksum are operators on byte sequences, those
  of the device and of the server each from its own source. A line carries one
  packet (reading, HELLO, heartbeat or reply) and flips at most one bit; the
  worker, the UDP listener or the device's `drain_replies` takes it. 32-bit fields
  are integers in two's complement.

## What the runs check

Passing runs:

| Run | Shows |
|---|---|
| `Driver` | two readers and a writer that overruns them: the driver implements `DropOldestQueue`, the statistics balance, each record is delivered at most once and in order, a batch has no holes and is never empty, and no wake-up is lost except by a write that faults half way |
| `TableRaces` | one device per id, packets are counted exactly, a dump agrees with its heading; the table implements `DeviceRegistry` |
| `TableSilence` | a silent device does not stay ONLINE |
| `Daemon` | slots, descriptors and worker arguments are neither leaked nor released twice; the drain misses only workers that had not counted themselves, unless it timed out; joined threads never touch destroyed state; no dump request is swallowed; every pending connection gets a worker or is closed; a stop ends the process |
| `Worker` | MAX_STRIKES rejections in a row end the connection, whatever their mix; only readings of the peer are stored, once, in order, after the handshake; acknowledgements are cumulative; a worker ends once its peer has said all it has to say, if its sends return |
| `SinksRecords` | the ring in memory implements `DropOldestQueue`, its counters trail it by the writers in flight, a dump shows the newest records first; a record given to the device is printed once and in order, or log or statistics show why not |
| `FramePath` | every image handed out is a frame that was sent, with its last missing chunk; its files read back as that frame and its edges or not at all; the filters compute what `convolve.h` says, borders included |
| `Session` | over failing and half-open connections: the device's counters account for every sample, `net_task` feeds its watchdog in time, a reading is stored at most once and in the order of its connection, acknowledgements and error counts are true; once the network stays good the queue empties again and again, and the test client always ends |
| `WirePackets` | packets of both sides survive encoding and decoding by their receivers, every single flipped bit of payload or checksum is detected, the checksum is RFC 1071's |

`TypeOK`, where a module has it, gives the types of its variables; it is proved for the
driver, the device, the ring in memory, the server's threads, a worker and the
reassembler.

Three runs end in a violation: each states a line of the repository that the code
does not keep. The quotations are in `PROJECT.json` under `findings`.

- `WorkerFraming`: a receive timeout inside a header loses the bytes already read,
  and the worker goes on at the wrong place of a well-formed stream.
- `FwOnline`: after a Wi-Fi outage that the TCP connection survives, the device
  streams for ever while its LED and display show offline.
- `SinkFallback`: without the kernel module, `telemetryd -s dev` run by a user who
  may create files in `/dev` does not fall back to the sink in memory: `cd_open`
  opens with `O_CREAT` and makes a plain file.

The models also have these behaviours of the code. No run is about them; where a
property meets one, it excepts exactly that case:

- a write to the driver that faults after its first record wakes nobody
  (`kmod/telemetry_drv.c:53`; excepted in SleepersHaveAWaker and SleeperWakes);
- the ioctl that resets "the ring counters" also discards unread records
  (`kmod/telemetry_drv.c:134`; the action Clear of `DropOldestQueue`, and the
  history `zeroed` in RecordsAccounted);
- main may destroy shared state that a worker still uses, if the drain timed out or
  the worker had not counted itself (`server/main.c:150`; excepted in
  DrainMissesOnlyUnstarted);
- the listener may log `wa->peer` after the worker freed `wa`
  (`server/tcp_listener.c:134`);
- a sweep may mark OFFLINE a device that has just sent, and a dump row may mix two
  readings (`server/device_table.c:116`, `:130`);
- a worker whose device could not be allocated becomes ACTIVE and crashes at its
  first reading (`server/client_handler.c:163`; an end of the worker in WorkerEnds);
- a full queue on the device refuses the newest sample, while the file's header
  says the oldest are lost (`firmware/pulselink_fw.ino:112`; the top-level README
  agrees with the code), and the LED shows online while the device reconnects;
- readings of a connection that the device has abandoned may be stored after those
  of the next one (StoredOnceInOrder is about the order within a connection);
- the worker ignores a failed write to its sink and may acknowledge the reading
  (`server/client_handler.c:194`; RecordsAccounted counts it as logged).

## Bounds, and why they are enough

Bounds are constants named `Max*` and described where they are declared.

- **Driver**: capacity 2, batch 2, 3 records. The ring fills, overruns, wraps and
  empties, and a read takes one record or several. Two readers are the least that
  compete. One writer is enough here, as the theorems cover any number.
- **Table**: ids 1 and 3 with two buckets share a chain. Races run with the clock
  stopped, since no safety property there depends on it; silence runs with a
  clock that passes the timeout. `TableRaces` has three HELLOs, so a worker can
  reconnect to a device that exists, and uses the symmetry of the workers.
- **Daemon**: two connections for one slot, so that one is refused and a slot is
  reused; a stop and SIGUSR1 come at any point. `SWEEP_PERIOD_TICKS` is 1.
- **Worker**: 4 packets, 2 strikes, an acknowledgement every 2 readings, 2 idle
  ticks, and one kind of packet for each path through the checks. A peer that
  sends for ever is not an instance: `WorkerEnds` is about peers that stop.
- **Sinks**: 3 slots and 7 records, so that the ring in memory wraps twice; a
  device of 2 slots, overrun, read in batches of 2.
- **Frames**: two of one size with a short last chunk, one of whole chunks, one too
  large, and one damaged payload for each check. Pixels have no symmetry and both
  ends of the range; files end after their headers or among their pixels. The
  demo's picture is 5 by 4.
- **Session**: one slot and two connections at a time, so that a device that dials
  again finds its own dead session in the slot. A queue of 1 and 2 samples; the
  test client sends 4 readings or 2 chunks; 2 strikes, an acknowledgement every 2
  readings, 1 idle tick. A unit of time is 250 ms, with the code's timeouts, except that
  the backoff goes from 2 to 4. The network is good for good once it is good, as
  it may do before whatever it does then, and Wi-Fi changes where `net_task` looks.
- **FwOnline**: a queue of 2, 2 samples, backoff 2, 4, 6.
- **Wire**: three readings, the extremes of every field among them, two ids,
  replies with every payload of up to four bytes over 0, 1 and 255, and three
  longer ones that fold more than once.

Deadlock checking is off where the system really may stop: no more records to
write, a worker or a program that has ended, a packet that has arrived.

## Fairness

- **Driver**: a thread inside a system call keeps running. Calls, signals and
  resets are the users' choice.
- **Table**: threads inside an operation keep running (weak). The reaper starts
  sweeps again and again; it is its loop that does so, and dumps, which compete
  with sweeps for it, cannot keep it from them (strong).
- **Daemon**: weak for each thread. Strong for main, which the signal handler
  interrupts however often, and for accept, which may fail for want of a
  descriptor but not for ever. Nothing is assumed of clients: a worker's send
  may be held up for ever, since the code sets no send timeout.
- **Worker**: the worker runs and its receive timeout fires. Sends are taken to
  return, so `WorkerEnds` says nothing about a peer that stops reading; that case
  is in `Telemetryd`.
- **Firmware**: FreeRTOS runs ready tasks, and a radio in range joins its network.
- **Session**: the same for the device; the threads of the test client and the
  workers run; a connection that the server has closed shows on a good network; the
  receive timeout of a worker fires when its peer is gone.

## What is proved

The proofs about the driver hold for every capacity, batch size and number of
readers and writers. They assume `CapAssumption` (the capacity is a positive integer) and
`DrvAssumption` (the batch is positive, bounds are naturals, records are
numbered, `NoThread` is no reader). TLC evaluates both in the driver's runs.

`TelemetryDrv_proofs`, on the ring: `PushContents`, `PopContents` and `InitContents` say what the ring
operations do to `Contents`: append, dropping the oldest of a full ring; return
and remove the oldest; empty. The argument is that a slot index is a sum reduced
modulo the capacity at most once (`SlotForm`, `HeadForm`), and that a push moves
each record one place (`ShiftFull`, `ShiftRoom`).

`TelemetryDrv_proofs`, on the driver: its invariant is

    IInv == TypeOK /\ WriterInv /\ LockInv /\ ReadNeverEmpty

`ReadNeverEmpty` is not inductive alone. A reader reaches copy-out from its pop
loop, so one needs that the loop still finds a record while its batch is empty,
and for that, that the popping reader holds the lock, which keeps other readers
and resets away (`LockInv`). Typing a pushed record needs that writes stay within
the records issued (`WriterInv`). From `Invariance` follow:

- `TypeCorrect` (TypeOK), `ReadsReturnRecords` (ReadNeverEmpty);
- `StatisticsBalance` (StatsBalance), step by step from `RingSteps`, which says
  that every step pushes, pops, resets or leaves the ring alone;
- `RingIsNewest` (RingHoldsNewest), with `PushContents` and `PopContents`;
- `Refinement` (ImplementsQueue): the driver implements `DropOldestQueue` with
  `queue <- Contents(ring)`;
- `NoLostWakeup` (SleepersHaveAWaker): between queueing and sleeping a reader
  looks again, and a write that pushed after that look has its wake-up ahead.
- `DeliveryIsExact` (DeliveredOnceInOrder) and `BatchesAreWhole` (BatchHasNoGap), from
  a second invariant on top of `IInv` and RingHoldsNewest:

      Distinct /\ Fresh /\ Delivery

  No record is pushed twice, because writes hold disjoint ranges of new records
  (`Fresh`). What readers have is among the records that have left the ring, oldest
  first and none shared (`Behind`, `OldestFirst`, `Apart`). A pop then delivers the
  record just after all of these. While a reader holds the lock, the last record
  that left is the last of its batch (`AtEnd`), so its next pop leaves no gap.

`Session_proofs`: the invariant of the device is

    IInv == TypeOK /\ HeldToWrite /\ StatsAccount /\ FedBefore

It gives `CountersAccount` (StatsAccount) and `WatchdogIsFed` (WatchdogFed) for every
queue length and interleaving of the two cores. `StatsAccount` needs that a sample
is in hand exactly between `xQueueReceive` and `tcp.write` (`HeldToWrite`).
`WatchdogFed` needs a bound for each place of the loop (`FedBefore`): a pass by way
of a connect was fed before the connect, one over a live connection at the last
look at Wi-Fi. `FwAssumption` has the inequalities between the times. The code's
own times meet them if `tcp.write` returns within 2.5 s; that limit belongs to
the TCP library, which is not in the repository, and is assumed. These theorems are
about `Firmware!Spec`, the device with a free environment. In a session the server may
also close a connection while the network is good; `DeviceInSession` has both
properties for `SessionSpec`, from the same lemmas on the device's actions.

The invariant of a session adds where the readings are, for any number of
connections, slots, strikes and ticks (`LinkAssumption`, `FcAssumption`):

    SInv == IInv /\ LinkTypeOK /\ InLine /\ Later /\ OneWay /\ StoredOnceInOrder

It gives `ReadingsStoredOnce` (StoredOnceInOrder). Samples wait in the order they were
taken (`InLine`), and what a client has yet to write is later than all that is on a
connection or stored (`Later`): so a write puts a new reading behind the others. No
reading is on two connections (`OneWay`): so the one that a worker stores is on no
other. Every other step only cuts streams short (`Thinned`): a packet handled, a
connection closed or reset, a peer reaped.

`Replies_proofs` adds to `SInv` what is on its way back:

    RInv == AllTruthful(Bad) /\ (who = "tool" => cur = fc.fd /\ Counted(conn[cur], fc))

It gives `ServerTellsTheTruth` (RepliesAreTrue). An acknowledgement names a reading that
is stored; that all earlier ones are stored too needs that each reading written on
an open connection is stored or still on its way up, and that those on their way are
later than whatever is acknowledged (`Truthful`). This fails for a client that spoils
its checksums, whose readings are rejected, so `Bad` tells it apart: no
acknowledgement ever goes to it. That the errors the test client has counted, with
those it has yet to read, are the strikes of its connection (`Counted`) needs that a
sound packet, which clears the strikes, never follows a spoilt reading: the handshake
is over before, and a client that spoils its readings sends nothing else. Errors on
their way are counted by `Cardinality`, with the lemmas on `Errors` for a reply sent
or read.

`RingLog_proofs`: the invariant of the ring in memory is

    IInv == TypeOK /\ SlotsHoldNewest /\ CountersAccountForSlots

for every number of slots and finitely many workers (`RingLogAssumption`). It gives
`CountersAccount` (CountersAccountForSlots), `DumpIsNewest` (DumpShowsNewest) and
`Refinement` (ImplementsQueue). `g_head` only grows and is reduced at each access,
so the last two need to know where each record stored is (`SlotsHoldNewest`), and
that a store overwrites no record but the oldest: two numbers less than
`RING_SLOTS` apart have different remainders (`ModDistinct`). The counters are
counted up after the unlock, so their account has a term for each of the two places
a worker passes on its way; `Moves` says how a step changes the number of workers at a
place. The theorems are about `RingLog!Spec`, whose steps `Sinks` takes unchanged.

`DeviceTable_proofs`: the invariant of the device table is

    IInv == Typed /\ ChainsAreSorted /\ NoDuplicateDevice

for every set of ids, number of buckets and finite set of workers
(`TableAssumption`). It gives `OneDevicePerId` (NoDuplicateDevice) and `Refinement`
(ImplementsRegistry). `find_locked` looks in one chain only. That a miss means that
the id is nowhere in the table needs that each device is in the chain of its id
(`ChainsAreSorted`). Every other step leaves ids and chains alone (`SameDevices`),
and is a stutter of the registry. Of the hash the proofs use only that it is a
function of the id into the buckets, so that `dt_hash` stands for the code's hash only
for a power of two up to 64 is no restriction here.

Two further invariants are kept beside `IInv`:

    DumpInv == rp \in DumpType /\ Separate(buckets) /\ Len(Rows) = device_count
                 /\ (the reaper holds the read lock in a sweep or dump)
                 /\ Printed /\ DumpMatchesHeading
    PacketInv == Points(th, Listed) /\ EveryPacketCounted

`DumpInv` gives `DumpsAreConsistent` (DumpMatchesHeading). The rows of a dump are
the chains one after the other. They are as many as `device_count` says and no
device is in two of them (`Separate`), and while the reaper holds the read lock no
device is linked, so the rows printed so far are the first of these (`Printed`). A
new device adds one row, wherever its bucket is (`RowsGrow`).

`PacketInv` gives `NoPacketLost` (EveryPacketCounted). A worker keeps its device
pointer from `dt_get_or_create` until it disconnects; a packet counted through it is
seen in the table's totals because the pointer is NULL or of a device in the table
(`Points`). A store into one counter changes the total by as much
(`SumChange`), a new device by nothing (`SumLonger`), and a worker that enters or
leaves `dt_record_sensor` is one more or one less on its way (`Enters`, `Leaves`).

Totals and rows are recursive functions. What they compute is shown by induction
over an interval of numbers, as a fact about sets: a subset of the interval that has
0 and, with each number, the next one is all of it (`UpTo`). This follows from the
library's theorem that a set of naturals has a smallest element.

`Telemetryd_proofs`: the invariant of the server's threads is

    IInv == TypeOK /\ OneStageEach /\ DescriptorOwned /\ SlotsBalance
              /\ WorkersCounted /\ MainKnows /\ DrainSaw /\ SignalNotLost

for finitely many connections and any number of slots and of ticks between sweeps
(`DaemonAssumption`). It gives `TypeCorrect`, `SlotsAreBalanced`
(SlotsBalance), `DescriptorsAreOwned` (DescriptorOwned), `JoinsProtectThreads`
(JoinedThreadsAreSafe), `DrainIsSound` (DrainMissesOnlyUnstarted) and
`SignalsAreNotLost` (SignalNotLost). `DescriptorOwned` needs that a connection is in the
listener's hands or in a worker's and never in both (`OneStageEach`). What is safe to
destroy follows from how far main has come (`MainKnows`). That the drain saw every
worker that had counted itself needs that `active_workers` is the number of workers
between their increment and their decrement (`WorkersCounted`); `DrainSaw` keeps
what it saw until the end.

`ClientWorker_proofs`: the invariant of a worker and its peer is

    IInv == TypeOK /\ Control /\ Stream /\ RecordsAreReadings /\ AcksAreCumulative

for every number of packets, strikes, readings per acknowledgement and idle ticks
(`WorkerAssumption`). It gives `TypeCorrect`, `ReadingsAreTrue` (RecordsAreReadings),
`AcksCount` (AcksAreCumulative) and `StrikesEnd` (StrikesEndIt). After a timeout inside
a header the worker may take any unit for the start of a packet, so the order of
what is stored cannot rest on framing. It rests on `Stream`: a packet is
stored only if the first unit in hand starts one, those units are in order on
the wire, and each is later than whatever is stored. `Control` relates the program
counter to the buffer, the strikes and the idle ticks. The proofs use of the
history `badrun`, which StrikesEndIt is about, that it equals `strikes`.

`FrameAsm_proofs`: the invariant of the reassembler is

    IInv == Assembling /\ ImagesAreFrames /\ ret \in {-1, 0, 1}

where `Assembling` says that the assembler is idle, or a function of one frame and of
the set of its chunks that have arrived, some of them but not all. It holds for
every chunk size, size limit and set of frames with different numbers
(`FrameAssumption`), if payloads that no frame produces fail a check of
`frame_asm_feed` (`DamageAssumption`; one that passes them all is, to this code, a
chunk of some frame). `WorkerFeedsOnly` shows that the frame case of the worker
(`FramePath`) implements the reassembler. With it `ImagesAreWhole` (ImagesAreFrames),
`BooksAreRight` (BufferMatchesSeen) and `TypeCorrect` are about `PathSpec`, the
specification that the run checks. The argument is that chunk i covers exactly the
bytes whose offset divided by the chunk size is i (`Covers`), so that a chunk adds
itself to the set and changes nothing else (`TakeIs`), and that the count reaches
`chunk_count` exactly when the set is full (`Complete`).

## What is only model-checked

All liveness (`SleeperWakes`, `SilentGoesOffline`, `StopEndsServer`,
`ConnectionAnswered`, `WorkerEnds`, `Progress`): liveness under fairness is out of
the prover's reach.

The checksum and the packets of `Wire` (`CleanPacketsArrive`, `ReadingsSurvive`,
`SingleBitErrorsDetected`, `ChecksumIsRfc1071`) rest on 16-bit sums of bytes taken
two at a time with folded carries, where the provers find neither the induction nor
the arithmetic modulo powers of two. The files and filters (`FilesReadBack`,
`EdgesMatchFrame`, `FiltersAreRight`) decode files byte by byte and sum products over
windows of pixels, with divisions that do not cancel.

`RecordsAccounted` is checked on the instance above and not proved. It joins the two
rings, about which `TelemetryDrv_proofs` and `RingLog_proofs` prove what each does,
with the loop of `telemetry_cat`, which takes several records in one step.

## What is not modelled

- Printing, logging and formatting, in all programs. The rows of a dump are
  modelled, their text is not.
- Option parsing, module loading and unloading, and failures before the server's
  threads start: straight-line code that ends the process or the load.
- The round trip through the reassembler in `pl_imaging`: it prints a verdict about
  what `FrameAsm` is checked for.
- The firmware's heartbeat and statistics tasks send and print and change no state
  that another task reads. The conversion of a measurement is floating-point.
  The replies that `drain_replies` reads only reach its log, so that it may lose its
  place when a reply is cut by its timeout (`firmware/pulselink_fw.ino:186`) is left
  out.
- The bytes of a payload inside `ClientWorker`, so neither a SENSOR payload shorter
  than its struct nor a `device_id` that changes within a connection.
- Replies cut in the middle, in `FakeClient`; a plain file that runs out of space in
  the middle of a record, in `Sinks`.

`Telemetryd`, `ClientWorker`, `DeviceTable` and `Sinks` are separate views of one
process and are checked apart: a worker in `Telemetryd` only uses the shared state,
`DeviceTable` has its own worker loop, and `Link` has the protocol once more for
whole packets. One model of all of them is beyond TLC on instances large enough to
show anything.

Two abstractions go beyond the code. WaitSignal may end a wait although records
have arrived. SweepStart reads the clock and takes the read lock in one step.
