----------------------------- MODULE DeviceTable -----------------------------
(***************************************************************************)
(* server/device_table.c: the registry shared by the client workers, the   *)
(* UDP heartbeat thread and the reaper.  The rwlock guards the bucket      *)
(* chains; the fields of a device are atomics that threads store without   *)
(* it, one step per store.  A critical section under the write lock is one *)
(* step, taken while nobody holds the read lock; the two long read-locked  *)
(* walks (dt_sweep_offline, dt_dump) are one step per load or store.       *)
(*                                                                         *)
(* A device_t* is an index into devs, the devices allocated so far, and a  *)
(* chain linked through d->next is the sequence of its pointers.           *)
(***************************************************************************)
EXTENDS Integers, Sequences, FiniteSets

CONSTANTS
  Workers,             (* client worker threads                            *)
  Udp,                 (* the heartbeat thread                             *)
  Reaper,              (* the maintenance thread                           *)
  Ids,                 (* device ids in use                                *)
  TABLE_BUCKETS,       (* number of chains (64 in the code)                *)
  HEARTBEAT_TIMEOUT_S, (* silence that makes a device OFFLINE (15)         *)
  MaxTime,             (* bound: the clock stops here                      *)
  MaxReadings,         (* bound: sensor readings over a behaviour          *)
  MaxBeats,            (* bound: heartbeats over a behaviour               *)
  MaxConns             (* bound: HELLOs over a behaviour                   *)

ASSUME TableAssumption ==
  /\ Ids \subseteq Nat
  /\ TABLE_BUCKETS \in Nat \ {0}
  /\ HEARTBEAT_TIMEOUT_S \in Nat
  /\ MaxTime \in Nat /\ MaxReadings \in Nat /\ MaxBeats \in Nat /\ MaxConns \in Nat
  /\ IsFiniteSet(Workers)
  /\ Udp \notin Workers /\ Reaper \notin Workers /\ Udp # Reaper

VARIABLES
  buckets,       (* the chains, front first                                *)
  devs,          (* the devices allocated, by pointer                      *)
  device_count,
  readlock,      (* threads that hold the read lock                        *)
  th,            (* per client thread: pc, id, device, arguments of call   *)
  rp,            (* the reaper: pc, row, arguments and what a dump printed *)
  now,           (* time(NULL)                                             *)
  used           (* readings, heartbeats and HELLOs so far (bounds)        *)

vars == <<buckets, devs, device_count, readlock, th, rp, now, used>>

Threads == Workers \cup {Udp}
NULL == 0

(* id * 2654435761 modulo 2^32 and then modulo TABLE_BUCKETS: with a power  *)
(* of two up to 64 only the multiplier's value modulo 64 matters.          *)
dt_hash(id) == (id * 49) % TABLE_BUCKETS

IdleThread == [pc |-> "idle", id |-> 0, dev |-> NULL, at |-> 0, reading |-> 0]
IdleReaper == [pc |-> "idle", row |-> 1, at |-> 0, header |-> 0, temp |-> 0, rows |-> << >>]

(* dt_init *)
Init ==
  /\ buckets = [h \in 0 .. TABLE_BUCKETS - 1 |-> << >>]
  /\ devs = << >>
  /\ device_count = 0
  /\ readlock = {}
  /\ th = [t \in Threads |-> IdleThread]
  /\ rp = IdleReaper
  /\ now = 0
  /\ used = [readings |-> 0, beats |-> 0, conns |-> 0]

(* find_locked: the first device with this id in its chain, or NULL. *)
find_locked(id) ==
  LET chain == buckets[dt_hash(id)]
      hits  == {k \in DOMAIN chain : devs[chain[k]].id = id}
  IN  IF hits = {} THEN NULL ELSE chain[CHOOSE k \in hits : \A j \in hits : k <= j]

(* The devices in the order in which sweep and dump visit them. *)
Rows ==
  LET upto[h \in 0 .. TABLE_BUCKETS] ==
        IF h = 0 THEN << >> ELSE upto[h - 1] \o buckets[h - 1]
  IN  upto[TABLE_BUCKETS]

Listed == UNION {{buckets[h][k] : k \in DOMAIN buckets[h]} : h \in DOMAIN buckets}
-----------------------------------------------------------------------------
(* dt_get_or_create: called for a HELLO by a worker that has no device yet, *)
(* and for every heartbeat through dt_touch.                               *)

HelloCall(t) ==
  /\ t \in Workers /\ th[t].pc = "idle" /\ used.conns < MaxConns
  /\ used' = [used EXCEPT !.conns = @ + 1]
  /\ \E id \in Ids : th' = [th EXCEPT ![t] = [IdleThread EXCEPT !.pc = "find", !.id = id]]
  /\ UNCHANGED <<buckets, devs, device_count, readlock, rp, now>>

(* dt_touch: the time is read before the call. *)
TouchCall(t) ==
  /\ t = Udp /\ th[t].pc = "idle" /\ used.beats < MaxBeats
  /\ used' = [used EXCEPT !.beats = @ + 1]
  /\ \E id \in Ids :
       th' = [th EXCEPT ![t] = [IdleThread EXCEPT !.pc = "find", !.id = id, !.at = now]]
  /\ UNCHANGED <<buckets, devs, device_count, readlock, rp, now>>

(* Where the caller goes on: a worker waits for records, dt_touch stores    *)
(* the time and state unless it got NULL.                                  *)
Return(t, d) ==
  th' = [th EXCEPT ![t].dev = d,
                   ![t].pc = IF t \in Workers THEN "active"
                             ELSE IF d = NULL THEN "idle" ELSE "seen"]

(* Mutant: a device that comes back starts its counters again. *)
FindFast_Resets(t) ==
  /\ th[t].pc = "find"
  /\ IF find_locked(th[t].id) # NULL
     THEN /\ Return(t, find_locked(th[t].id))
          /\ devs' = [devs EXCEPT ![find_locked(th[t].id)].packets_ok = 0]
     ELSE /\ th' = [th EXCEPT ![t].pc = "create"]
          /\ UNCHANGED devs
  /\ UNCHANGED <<buckets, device_count, readlock, rp, now, used>>

(* Fast path: look the id up under the read lock. *)
FindFast(t) ==
  /\ th[t].pc = "find"
  /\ IF find_locked(th[t].id) # NULL
     THEN Return(t, find_locked(th[t].id))
     ELSE th' = [th EXCEPT ![t].pc = "create"]
  /\ UNCHANGED <<buckets, devs, device_count, readlock, rp, now, used>>

NewDevice(t) ==
  [id |-> th[t].id, state |-> "ONLINE", last_seen |-> now, packets_ok |-> 0,
   packets_bad |-> 0, last_temp |-> 0, last_humid |-> 0]

(* Mutant: the new device forgets d->next, the rest of its chain. *)
Link_NoNext(t) ==
  LET h == dt_hash(th[t].id)
  IN  /\ devs' = Append(devs, NewDevice(t))
      /\ buckets' = [buckets EXCEPT ![h] = <<Len(devs) + 1>>]
      /\ device_count' = device_count + 1
      /\ Return(t, Len(devs) + 1)

(* The new device, linked in front of its chain. *)
Link(t) ==
  LET h == dt_hash(th[t].id)
  IN  /\ devs' = Append(devs, NewDevice(t))
      /\ buckets' = [buckets EXCEPT ![h] = <<Len(devs) + 1>> \o @]
      /\ device_count' = device_count + 1
      /\ Return(t, Len(devs) + 1)

(* Mutants: no second look under the write lock; no write lock. *)
FindOrCreate_NoRecheck(t) ==
  /\ th[t].pc = "create"
  /\ readlock = {}
  /\ \/ Link(t)
     \/ Return(t, NULL) /\ UNCHANGED <<buckets, devs, device_count>>
  /\ UNCHANGED <<readlock, rp, now, used>>

FindOrCreate_IgnoresReaders(t) ==
  /\ th[t].pc = "create"
  /\ \/ /\ find_locked(th[t].id) # NULL
        /\ Return(t, find_locked(th[t].id))
        /\ UNCHANGED <<buckets, devs, device_count>>
     \/ /\ find_locked(th[t].id) = NULL
        /\ Link(t)
  /\ UNCHANGED <<readlock, rp, now, used>>

(* Slow path, under the write lock: look again, then allocate (which may    *)
(* fail) and link.                                                         *)
FindOrCreate(t) ==
  /\ th[t].pc = "create"
  /\ readlock = {}
  /\ \/ /\ find_locked(th[t].id) # NULL
        /\ Return(t, find_locked(th[t].id))
        /\ UNCHANGED <<buckets, devs, device_count>>
     \/ /\ find_locked(th[t].id) = NULL
        /\ \/ Link(t)
           \/ Return(t, NULL) /\ UNCHANGED <<buckets, devs, device_count>>
  /\ UNCHANGED <<readlock, rp, now, used>>
-----------------------------------------------------------------------------
(* Field updates through the pointer, without the table lock. *)

(* dt_record_sensor starts: the worker has a device and a reading, whose    *)
(* temperature and humidity carry its number.  last_seq is stored together *)
(* with last_temp because nothing reads it.                                *)
RecordTemp(t) ==
  /\ th[t].pc = "active" /\ th[t].dev # NULL /\ used.readings < MaxReadings
  /\ used' = [used EXCEPT !.readings = @ + 1]
  /\ devs' = [devs EXCEPT ![th[t].dev].last_temp = used.readings + 1]
  /\ th' = [th EXCEPT ![t].pc = "humid", ![t].at = now, ![t].reading = used.readings + 1]
  /\ UNCHANGED <<buckets, device_count, readlock, rp, now>>

RecordHumid(t) ==
  /\ th[t].pc = "humid"
  /\ devs' = [devs EXCEPT ![th[t].dev].last_humid = th[t].reading]
  /\ th' = [th EXCEPT ![t].pc = "seen"]
  /\ UNCHANGED <<buckets, device_count, readlock, rp, now, used>>

(* The stores that dt_record_sensor and dt_touch have in common. *)
RecordSeen(t) ==
  /\ th[t].pc = "seen"
  /\ devs' = [devs EXCEPT ![th[t].dev].last_seen = th[t].at]
  /\ th' = [th EXCEPT ![t].pc = "state"]
  /\ UNCHANGED <<buckets, device_count, readlock, rp, now, used>>

RecordState(t) ==
  /\ th[t].pc = "state"
  /\ devs' = [devs EXCEPT ![th[t].dev].state = "ONLINE"]
  /\ th' = [th EXCEPT ![t] = IF t \in Workers THEN [@ EXCEPT !.pc = "ok"] ELSE IdleThread]
  /\ UNCHANGED <<buckets, device_count, readlock, rp, now, used>>

RecordOk(t) ==
  /\ th[t].pc = "ok"
  /\ devs' = [devs EXCEPT ![th[t].dev].packets_ok = @ + 1]
  /\ th' = [th EXCEPT ![t].pc = "active"]
  /\ UNCHANGED <<buckets, device_count, readlock, rp, now, used>>

(* A damaged packet: dt_record_bad, which ignores NULL. *)
BadPacket(t) ==
  /\ th[t].pc = "active" /\ th[t].dev # NULL /\ used.readings < MaxReadings
  /\ used' = [used EXCEPT !.readings = @ + 1]
  /\ devs' = [devs EXCEPT ![th[t].dev].packets_bad = @ + 1]
  /\ UNCHANGED <<buckets, device_count, readlock, th, rp, now>>

(* The connection ends; the device stays. *)
Disconnect(t) ==
  /\ th[t].pc = "active"
  /\ th' = [th EXCEPT ![t] = IdleThread]
  /\ UNCHANGED <<buckets, devs, device_count, readlock, rp, now, used>>
-----------------------------------------------------------------------------
(* The reaper: dt_sweep_offline and dt_dump, each under the read lock. *)

SweepStart ==
  /\ rp.pc = "idle"
  /\ readlock' = readlock \cup {Reaper}
  /\ rp' = [IdleReaper EXCEPT !.pc = "load", !.at = now]
  /\ UNCHANGED <<buckets, devs, device_count, th, now, used>>

(* Mutant: the sweep stops before the last device. *)
SweepLoad_SkipsLast ==
  /\ rp.pc = "load" /\ rp.row <= Len(Rows)
  /\ rp' = IF rp.row < Len(Rows)
              /\ rp.at - devs[Rows[rp.row]].last_seen > HEARTBEAT_TIMEOUT_S
           THEN [rp EXCEPT !.pc = "store"]
           ELSE [rp EXCEPT !.row = @ + 1]
  /\ UNCHANGED <<buckets, devs, device_count, readlock, th, now, used>>

(* Load last_seen of the next device; go on, or go and store OFFLINE. *)
SweepLoad ==
  /\ rp.pc = "load" /\ rp.row <= Len(Rows)
  /\ rp' = IF rp.at - devs[Rows[rp.row]].last_seen > HEARTBEAT_TIMEOUT_S
           THEN [rp EXCEPT !.pc = "store"]
           ELSE [rp EXCEPT !.row = @ + 1]
  /\ UNCHANGED <<buckets, devs, device_count, readlock, th, now, used>>

SweepStore ==
  /\ rp.pc = "store"
  /\ devs' = [devs EXCEPT ![Rows[rp.row]].state = "OFFLINE"]
  /\ rp' = [rp EXCEPT !.pc = "load", !.row = @ + 1]
  /\ UNCHANGED <<buckets, device_count, readlock, th, now, used>>

SweepEnd ==
  /\ rp.pc = "load" /\ rp.row > Len(Rows)
  /\ readlock' = readlock \ {Reaper}
  /\ rp' = IdleReaper
  /\ UNCHANGED <<buckets, devs, device_count, th, now, used>>

(* dt_dump prints the count, and then a row for each device. *)
DumpStart ==
  /\ rp.pc = "idle"
  /\ readlock' = readlock \cup {Reaper}
  /\ rp' = [IdleReaper EXCEPT !.pc = "temp", !.header = device_count]
  /\ UNCHANGED <<buckets, devs, device_count, th, now, used>>

DumpTemp ==
  /\ rp.pc = "temp" /\ rp.row <= Len(Rows)
  /\ rp' = [rp EXCEPT !.pc = "humid", !.temp = devs[Rows[rp.row]].last_temp]
  /\ UNCHANGED <<buckets, devs, device_count, readlock, th, now, used>>

DumpHumid ==
  /\ rp.pc = "humid"
  /\ LET d == devs[Rows[rp.row]]
     IN  rp' = [rp EXCEPT !.pc = "temp", !.row = @ + 1,
                          !.rows = Append(@, [id |-> d.id, temp |-> rp.temp,
                                              humid |-> d.last_humid])]
  /\ UNCHANGED <<buckets, devs, device_count, readlock, th, now, used>>

DumpEnd ==
  /\ rp.pc = "temp" /\ rp.row > Len(Rows)
  /\ readlock' = readlock \ {Reaper}
  /\ rp' = [rp EXCEPT !.pc = "dumped"]
  /\ UNCHANGED <<buckets, devs, device_count, th, now, used>>

(* The reaper goes back to its loop. *)
DumpReturn ==
  /\ rp.pc = "dumped"
  /\ rp' = IdleReaper
  /\ UNCHANGED <<buckets, devs, device_count, readlock, th, now, used>>

Tick ==
  /\ now < MaxTime
  /\ now' = now + 1
  /\ UNCHANGED <<buckets, devs, device_count, readlock, th, rp, used>>
-----------------------------------------------------------------------------
TableStep(t) ==
  FindFast(t) \/ FindOrCreate(t) \/ RecordHumid(t) \/ RecordSeen(t) \/ RecordState(t) \/ RecordOk(t)

SweepStep == SweepStart \/ SweepLoad \/ SweepStore \/ SweepEnd
DumpStep == DumpTemp \/ DumpHumid \/ DumpEnd \/ DumpReturn

Next ==
  \/ \E t \in Threads : \/ HelloCall(t) \/ TouchCall(t) \/ RecordTemp(t)
                        \/ BadPacket(t) \/ Disconnect(t) \/ TableStep(t)
  \/ SweepStep
  \/ DumpStart \/ DumpStep
  \/ Tick

Spec == Init /\ [][Next]_vars

(* Threads inside a table operation keep running, and the reaper sweeps     *)
(* again and again.  Packets, dumps and the clock are up to others.        *)
FairSpec ==
  /\ Spec
  /\ \A t \in Threads : WF_vars(TableStep(t))
  /\ SF_vars(SweepStart)
  /\ WF_vars(SweepLoad \/ SweepStore \/ SweepEnd \/ DumpStep)
-----------------------------------------------------------------------------
MaxDevs == Cardinality(Ids)

DeviceType ==
  [id : Ids, state : {"ONLINE", "OFFLINE"}, last_seen : 0 .. MaxTime, packets_ok : Nat,
   packets_bad : Nat, last_temp : 0 .. MaxReadings, last_humid : 0 .. MaxReadings]
ThreadType ==
  [pc : {"idle", "find", "create", "active", "humid", "seen", "state", "ok"},
   id : Ids \cup {0}, dev : 0 .. MaxDevs, at : 0 .. MaxTime, reading : 0 .. MaxReadings]
ReaperType ==
  [pc : {"idle", "load", "store", "temp", "humid", "dumped"}, row : 1 .. MaxDevs + 1,
   at : 0 .. MaxTime, header : 0 .. MaxDevs, temp : 0 .. MaxReadings,
   rows : Seq([id : Ids, temp : 0 .. MaxReadings, humid : 0 .. MaxReadings])]

(* The values of the variables; there are no more devices than ids. *)
TypeOK ==
  /\ buckets \in [0 .. TABLE_BUCKETS - 1 -> Seq(1 .. MaxDevs)]
  /\ devs \in Seq(DeviceType)
  /\ device_count \in 0 .. MaxDevs
  /\ readlock \subseteq {Reaper}
  /\ th \in [Threads -> ThreadType]
  /\ rp \in ReaperType
  /\ now \in 0 .. MaxTime
  /\ used \in [readings : 0 .. MaxReadings, beats : 0 .. MaxBeats, conns : 0 .. MaxConns]

(* However lookups race for the same new id, the table holds one device per *)
(* id (the second look of dt_get_or_create, under the write lock).         *)
NoDuplicateDevice ==
  \A p, q \in Listed : devs[p].id = devs[q].id => p = q

(* Counters over the devices that a dump shows. *)
Total(field) ==
  LET sum[n \in 0 .. Len(devs)] ==
        IF n = 0 THEN 0 ELSE sum[n - 1] + IF n \in Listed THEN devs[n][field] ELSE 0
  IN  sum[Len(devs)]

(* No packet is lost to a race: the counters of the listed devices add up   *)
(* to the packets handed in, less those whose dt_record_sensor has not     *)
(* reached its last store.                                                 *)
EveryPacketCounted ==
  used.readings = Total("packets_ok") + Total("packets_bad")
                  + Cardinality({t \in Workers : th[t].pc \in {"humid", "seen", "state", "ok"}})

(* A finished dump is consistent in itself: as many rows as its heading     *)
(* announces, each for another device, although devices connect meanwhile. *)
DumpMatchesHeading ==
  rp.pc = "dumped" =>
    /\ Len(rp.rows) = rp.header
    /\ \A j, k \in DOMAIN rp.rows : rp.rows[j].id = rp.rows[k].id => j = k

Silent(p) == now - devs[p].last_seen > HEARTBEAT_TIMEOUT_S

Overdue(p) == p \in DOMAIN devs /\ Silent(p) /\ devs[p].state = "ONLINE"

(* A device that stays silent does not stay ONLINE: the reaper's sweeps     *)
(* reach every device, whatever lookups, dumps and late heartbeats do.     *)
SilentGoesOffline == \A p \in 1 .. MaxDevs : []<>~Overdue(p)

Registry == INSTANCE DeviceRegistry WITH
              Id <- Ids, registered <- {devs[p].id : p \in Listed}, count <- device_count

(* The table implements the registry of device_table.h: ids are only ever   *)
(* added, one at a time, and device_count changes with them, although the  *)
(* chains, the counter and the two locks are handled in separate steps.    *)
ImplementsRegistry == Registry!Spec
=============================================================================
