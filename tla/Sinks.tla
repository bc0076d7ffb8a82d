------------------------------- MODULE Sinks -------------------------------
(***************************************************************************)
(* Where readings go: server/sink.h's two sinks behind one v-table, the    *)
(* in-memory ring (RingLog) and server/sink_chardev.c, which writes each   *)
(* record to /dev/telemetry.  At the other end of the device are the       *)
(* kernel's ring (Tring, a locked section being one step: TelemetryDrv has *)
(* the waits), kmod/telemetry_cat.c and kmod/telemetry_stat.c.             *)
(***************************************************************************)
EXTENDS RingLog, Tring

CONSTANT CAT_BATCH   (* records telemetry_cat reads at a time (32)         *)

VARIABLES
  asked,       (* the -s option                                            *)
  node,        (* what /dev/telemetry is: the device, a file, or nothing   *)
  sink, g_fd,  (* ctx.sink, and what g_fd is open on                       *)
  kring,       (* g_ring of telemetry_drv.c                                *)
  file,        (* the records in the file, if there is one                 *)
  given,       (* history: the number of records given to the device sink  *)
  refused,     (* history: records whose write failed, which only the log tells *)
  printed,     (* what telemetry_cat has printed                           *)
  zeroed       (* history: records unprinted when the counters were reset  *)

devvars == <<kring, file, given, refused, printed, zeroed>>
opened == <<asked, node, sink, g_fd>>
allvars == <<vars, opened, devvars>>

(* The module is loaded or not, and main has parsed its options. *)
SinksInit ==
  /\ Init
  /\ asked \in {"mem", "dev"} /\ node \in {"device", "nothing"}
  /\ sink = "none" /\ g_fd = "nothing"
  /\ kring = [buf |-> [s \in Slots |-> 0], head |-> 0, count |-> 0, produced |-> 0, dropped |-> 0]
  /\ file = << >> /\ given = 0 /\ refused = {} /\ printed = << >> /\ zeroed = 0

(* cd_open: open with O_CREAT finds the device; without the module it makes *)
(* a plain file, where the server may create one, or it fails.              *)
cd_open == IF node = "device" THEN {"device"} ELSE {"file", "nothing"}

(* main opens the sink it was asked for, or else falls back to the other. *)
OpenSink ==
  /\ sink = "none"
  /\ \E fd \in IF asked = "dev" THEN cd_open ELSE {"nothing"} :
       /\ g_fd' = fd
       /\ node' = IF fd = "file" THEN "file" ELSE node
       /\ sink' = IF fd = "nothing" THEN "mem" ELSE "dev"
  /\ UNCHANGED <<asked, vars, devvars>>

(* The workers and the reaper, on the sink in memory. *)
MemSink ==
  /\ sink = "mem"
  /\ Next
  /\ UNCHANGED <<opened, devvars>>

(* Mutant: a write that failed is tried again behind the worker's back, and *)
(* both of them arrive.                                                     *)
cd_write_record_Again(rec) ==
  /\ g_fd = "device"
  /\ kring' = tring_push(tring_push(kring, rec), rec)
  /\ UNCHANGED <<file, refused>>

(* cd_write_record: one record, whole, or an error that the worker ignores; *)
(* nothing is written once the sink is closed.  A file that runs out of     *)
(* space in the middle of a record is left out.                             *)
cd_write_record(rec) ==
  \/ g_fd = "device" /\ kring' = tring_push(kring, rec) /\ UNCHANGED <<file, refused>>
  \/ g_fd = "file" /\ file' = Append(file, rec) /\ UNCHANGED <<kring, refused>>
  \/ refused' = refused \cup {rec} /\ UNCHANGED <<kring, file>>

DevWrite ==
  /\ sink = "dev" /\ given < MaxRecords
  /\ cd_write_record(given + 1)
  /\ given' = given + 1
  /\ UNCHANGED <<vars, opened, printed, zeroed>>

(* cd_close, when main is done or gives up on its workers. *)
CloseSink ==
  /\ sink = "dev" /\ g_fd # "nothing"
  /\ g_fd' = "nothing"
  /\ UNCHANGED <<asked, node, sink, vars, devvars>>

(* telemetry_cat: a read returns some records, oldest first, which it prints; *)
(* on a file it goes round at the end until there are more.                  *)
CatDevice ==
  LET n == Smaller(tring_count(kring), CAT_BATCH)
      taken[i \in 0 .. n] == IF i = 0 THEN kring ELSE tring_pop(taken[i - 1])
  IN  /\ node = "device" /\ n > 0
      /\ printed' = printed \o [i \in 1 .. n |-> tring_pop_out(taken[i - 1])]
      /\ kring' = taken[n]
      /\ UNCHANGED <<vars, opened, file, given, refused, zeroed>>

CatFile ==
  /\ node = "file" /\ Len(printed) < Len(file)
  /\ printed' = SubSeq(file, 1, Smaller(Len(file), Len(printed) + CAT_BATCH))
  /\ UNCHANGED <<vars, opened, kring, file, given, refused, zeroed>>

(* telemetry_stat --reset: PL_IOC_RESET, which a file refuses.  The counters *)
(* are zeroed, and the records that nobody has read are gone with them.      *)
StatReset ==
  /\ node = "device"
  /\ kring' = tring_init(kring)
  /\ zeroed' = given - Cardinality(refused) - Len(printed)
  /\ UNCHANGED <<vars, opened, file, given, refused, printed>>

(* telemetry_stat, and cd_dump by way of /proc/pulselink. *)
Stats == [produced |-> kring.produced, dropped |-> kring.dropped, in_ring |-> tring_count(kring)]

SinksNext ==
  \/ OpenSink \/ MemSink \/ DevWrite \/ CloseSink \/ CatDevice \/ CatFile \/ StatReset

SinksSpec == SinksInit /\ [][SinksNext]_allvars
-----------------------------------------------------------------------------
(* A record given to the device sink is printed by telemetry_cat once, after *)
(* those given before it, or its absence shows: in the server's log of       *)
(* failed writes, in the statistics as dropped or still in the ring, or in a *)
(* reset of those statistics.                                                *)
RecordsAccounted ==
  sink = "dev" =>
    /\ \A i, j \in 1 .. Len(printed) : i < j => printed[i] < printed[j]
    /\ given - Cardinality(refused) - Len(printed) =
         IF node = "device" THEN zeroed + Stats.dropped + Stats.in_ring
         ELSE Len(file) - Len(printed)

(* The README: the dev sink "falls back to the in-memory ring if the module  *)
(* isn't loaded".                                                            *)
FallsBack == sink = "dev" => node = "device"
=============================================================================
