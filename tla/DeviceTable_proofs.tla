------------------------- MODULE DeviceTable_proofs -------------------------
(***************************************************************************)
(* Proofs about DeviceTable: for every set of ids, number of buckets and   *)
(* number of workers, the table holds one device per id and implements the *)
(* registry of device_table.h; a dump agrees with its heading; and no      *)
(* packet is lost from the counters.                                       *)
(***************************************************************************)
EXTENDS DeviceTable, FiniteSetTheorems, TLAPS

(* What the proofs need of the types.  There are no more devices than ids,  *)
(* but nothing here depends on it.                                          *)
Caller ==
  [pc : {"idle", "find", "create", "active", "humid", "seen", "state", "ok"},
   id : Ids \cup {0}, dev : Nat, at : 0 .. MaxTime, reading : 0 .. MaxReadings]

Typed ==
  /\ devs \in Seq(DeviceType)
  /\ buckets \in [0 .. TABLE_BUCKETS - 1 -> Seq(Nat)]
  /\ device_count \in Nat
  /\ th \in [Threads -> Caller]
  /\ now \in 0 .. MaxTime
  /\ used \in [readings : 0 .. MaxReadings, beats : Nat, conns : Nat]
  /\ \A t \in Threads : th[t].pc \in {"find", "create"} => th[t].id \in Ids

(* A chain holds devices that exist and whose ids belong there, so an id     *)
(* that find_locked misses in its own chain is in no other.                  *)
ChainsAreSorted ==
  \A h \in 0 .. TABLE_BUCKETS - 1 : \A k \in 1 .. Len(buckets[h]) :
    /\ buckets[h][k] \in 1 .. Len(devs)
    /\ dt_hash(devs[buckets[h][k]].id) = h

(* The inductive invariant. *)
IInv == Typed /\ ChainsAreSorted /\ NoDuplicateDevice

-----------------------------------------------------------------------------
LEMMA HashInRange ==
  ASSUME NEW id \in Nat
  PROVE  dt_hash(id) \in 0 .. TABLE_BUCKETS - 1
<1>1. id * 49 \in Int /\ TABLE_BUCKETS \in Nat \ {0}
  BY TableAssumption
<1>2. \A a \in Int, b \in Nat \ {0} : a % b \in 0 .. b - 1
  OBVIOUS
<1> QED BY <1>1, <1>2, Zenon DEF dt_hash

LEMMA ListedForm ==
  ASSUME Typed, NEW p
  PROVE  p \in Listed <=>
           \E h \in 0 .. TABLE_BUCKETS - 1 : \E k \in 1 .. Len(buckets[h]) : p = buckets[h][k]
<1>1. DOMAIN buckets = 0 .. TABLE_BUCKETS - 1
  BY DEF Typed
<1>2. \A h \in 0 .. TABLE_BUCKETS - 1 : DOMAIN buckets[h] = 1 .. Len(buckets[h])
  BY DEF Typed
<1> QED BY <1>1, <1>2 DEF Listed

LEMMA Smallest ==
  ASSUME NEW S, S \subseteq Nat, S # {}
  PROVE  \E k \in S : \A j \in S : k <= j
<1> DEFINE R == {p \in Nat \X Nat : p[1] < p[2]}
<1>1. IsWellFoundedOn(R, Nat)
  BY NatLessThanWellFounded DEF OpToRel
<1>2. PICK k \in S : \A j \in S : ~(<<j, k>> \in R)
  BY <1>1, WFMin, Zenon
<1>3. \A j \in S : ~(j < k)
  BY <1>2, Zenon
<1> QED BY <1>3

(* find_locked returns NULL only if no device has the id. *)
LEMMA NotFound ==
  ASSUME IInv, NEW id \in Ids, find_locked(id) = NULL
  PROVE  \A p \in Listed : devs[p].id # id
<1> SUFFICES ASSUME NEW p \in Listed, devs[p].id = id PROVE FALSE
  OBVIOUS
<1> USE DEF IInv
<1>1. PICK h \in 0 .. TABLE_BUCKETS - 1 : \E k \in 1 .. Len(buckets[h]) : p = buckets[h][k]
  BY ListedForm
<1>2. PICK k \in 1 .. Len(buckets[h]) : p = buckets[h][k]
  BY <1>1
<1>3. h = dt_hash(id)
  BY <1>2 DEF ChainsAreSorted
<1> DEFINE chain == buckets[dt_hash(id)]
           hits == {j \in DOMAIN chain : devs[chain[j]].id = id}
<1>4. chain \in Seq(Nat) /\ DOMAIN chain = 1 .. Len(chain)
  BY <1>3 DEF Typed
<1>5. k \in hits /\ hits \subseteq Nat
  BY <1>2, <1>3, <1>4
<1>6. \E j \in hits : \A i \in hits : j <= i
  BY <1>5, Smallest, Zenon
<1> DEFINE first == CHOOSE j \in hits : \A i \in hits : j <= i
<1>7. first \in hits
  BY <1>6, Zenon
<1>8. find_locked(id) = chain[first]
  BY <1>5, Zenon DEF find_locked
<1> HIDE DEF first
<1>9. chain[first] \in 1 .. Len(devs)
  BY <1>3, <1>4, <1>7 DEF ChainsAreSorted
<1> QED BY <1>8, <1>9 DEF NULL, Typed

LEMMA FoundType ==
  ASSUME IInv, NEW id \in Ids
  PROVE  find_locked(id) \in Nat
<1> DEFINE chain == buckets[dt_hash(id)]
           hits == {j \in DOMAIN chain : devs[chain[j]].id = id}
           first == CHOOSE j \in hits : \A i \in hits : j <= i
<1>1. chain \in Seq(Nat) /\ DOMAIN chain \subseteq Nat
  <2>1. dt_hash(id) \in 0 .. TABLE_BUCKETS - 1
    BY HashInRange, TableAssumption
  <2>2. \A h \in 0 .. TABLE_BUCKETS - 1 : buckets[h] \in Seq(Nat) /\ DOMAIN buckets[h] \subseteq Nat
    BY DEF IInv, Typed
  <2> QED BY <2>1, <2>2, Zenon
<1>2. CASE hits = {}
  BY <1>2, Zenon DEF find_locked, NULL
<1>3. CASE hits # {}
  <2>1. first \in hits
    <3>1. \E j \in hits : \A i \in hits : j <= i
      BY <1>1, <1>3, Smallest, Zenon
    <3> QED BY <3>1, Zenon
  <2>2. find_locked(id) = chain[first]
    BY <1>3, Zenon DEF find_locked
  <2> HIDE DEF first
  <2> QED BY <1>1, <2>1, <2>2
<1> QED BY <1>2, <1>3

-----------------------------------------------------------------------------
(* What every step but the linking of a new device leaves alone. *)
SameDevices ==
  /\ buckets' = buckets /\ device_count' = device_count
  /\ Len(devs') = Len(devs)
  /\ \A p \in 1 .. Len(devs) : devs'[p].id = devs[p].id

(* A store into one field of a device. *)
LEMMA FieldStore ==
  ASSUME devs \in Seq(DeviceType), NEW d, NEW e,
         d \in 1 .. Len(devs) => e \in DeviceType /\ e.id = devs[d].id,
         devs' = [devs EXCEPT ![d] = e]
  PROVE  /\ devs' \in Seq(DeviceType) /\ Len(devs') = Len(devs)
         /\ \A p \in 1 .. Len(devs) : devs'[p].id = devs[p].id
<1>1. CASE d \in 1 .. Len(devs)
  <2>1. e \in DeviceType
    BY <1>1
  <2>2. /\ devs' \in Seq(DeviceType) /\ Len(devs') = Len(devs)
        /\ \A p \in 1 .. Len(devs) : devs'[p] = IF p = d THEN e ELSE devs[p]
    BY <1>1, <2>1
  <2> QED BY <1>1, <2>2
<1>2. CASE d \notin 1 .. Len(devs)
  <2>1. devs' = devs
    BY <1>2
  <2> QED BY <2>1, Zenon
<1> QED BY <1>1, <1>2

LEMMA SameListed ==
  ASSUME SameDevices
  PROVE  Listed' = Listed
<1>1. buckets' = buckets
  BY Zenon DEF SameDevices
<1> QED BY <1>1 DEF Listed

LEMMA SameDevicesIInv ==
  ASSUME IInv, Typed', SameDevices
  PROVE  IInv' /\ Listed' = Listed
<1>1. Listed' = Listed
  BY SameListed, Zenon
<1>2. ChainsAreSorted'
  BY Zenon DEF IInv, ChainsAreSorted, SameDevices, dt_hash
<1>3. \A p \in Listed : p \in 1 .. Len(devs)
  BY ListedForm DEF IInv, ChainsAreSorted
<1>4. NoDuplicateDevice'
  BY <1>1, <1>3 DEF IInv, NoDuplicateDevice, SameDevices
<1> QED BY <1>1, <1>2, <1>4 DEF IInv

-----------------------------------------------------------------------------
LEMMA InitIInv == Init => IInv
<1> SUFFICES ASSUME Init PROVE IInv
  OBVIOUS
<1>1. Typed
  BY TableAssumption DEF Init, Typed, Caller, IdleThread, NULL
<1>2. ChainsAreSorted
  BY DEF Init, ChainsAreSorted
<1>3. NoDuplicateDevice
  BY DEF Init, NoDuplicateDevice, Listed
<1> QED BY <1>1, <1>2, <1>3 DEF IInv

(* A thread's locals change, and nothing else that matters here. *)
LEMMA CallerTyped ==
  ASSUME Typed, NEW t \in Threads, NEW c \in Caller,
         c.pc \in {"find", "create"} => c.id \in Ids,
         th' = [th EXCEPT ![t] = c]
  PROVE  /\ th' \in [Threads -> Caller]
         /\ \A u \in Threads : th'[u].pc \in {"find", "create"} => th'[u].id \in Ids
BY DEF Typed

LEMMA CallSteps ==
  ASSUME IInv, NEW t \in Threads, HelloCall(t) \/ TouchCall(t) \/ FindFast(t) \/ Disconnect(t)
  PROVE  Typed' /\ SameDevices
<1>a. th[t] \in Caller /\ now \in 0 .. MaxTime /\ used \in [readings : 0 .. MaxReadings, beats : Nat, conns : Nat]
  BY DEF IInv, Typed
<1>b. IdleThread \in Caller
  BY TableAssumption DEF IdleThread, Caller, NULL
<1>1. UNCHANGED <<buckets, devs, device_count, now>>
  BY Zenon DEF HelloCall, TouchCall, FindFast, Disconnect
<1>2. used' \in [readings : 0 .. MaxReadings, beats : Nat, conns : Nat]
  <2>1. CASE HelloCall(t)
    <3>1. used' = [used EXCEPT !.conns = used.conns + 1]
      BY <2>1, Zenon DEF HelloCall
    <3> QED BY <1>a, <3>1
  <2>2. CASE TouchCall(t)
    <3>1. used' = [used EXCEPT !.beats = used.beats + 1]
      BY <2>2, Zenon DEF TouchCall
    <3> QED BY <1>a, <3>1
  <2>3. CASE FindFast(t) \/ Disconnect(t) BY <1>a, <2>3 DEF FindFast, Disconnect
  <2> QED BY <2>1, <2>2, <2>3
<1>3. PICK c \in Caller : /\ c.pc \in {"find", "create"} => c.id \in Ids
                          /\ th' = [th EXCEPT ![t] = c]
  <2>1. CASE HelloCall(t)
    <3>1. PICK id \in Ids : th' = [th EXCEPT ![t] = [IdleThread EXCEPT !.pc = "find", !.id = id]]
      BY <2>1, Zenon DEF HelloCall
    <3> DEFINE c == [IdleThread EXCEPT !.pc = "find", !.id = id]
    <3>2. c \in Caller /\ c.id = id
      BY <1>b, Zenon DEF Caller, IdleThread
    <3> QED BY <3>1, <3>2, Zenon
  <2>2. CASE TouchCall(t)
    <3>1. PICK id \in Ids :
            th' = [th EXCEPT ![t] = [IdleThread EXCEPT !.pc = "find", !.id = id, !.at = now]]
      BY <2>2, Zenon DEF TouchCall
    <3> DEFINE c == [IdleThread EXCEPT !.pc = "find", !.id = id, !.at = now]
    <3>2. c \in Caller /\ c.id = id
      BY <1>a, <1>b, Zenon DEF Caller, IdleThread
    <3> QED BY <3>1, <3>2, Zenon
  <2>3. CASE FindFast(t) /\ find_locked(th[t].id) # NULL
    <3>1. find_locked(th[t].id) \in Nat
      BY <2>3, FoundType DEF IInv, Typed, FindFast
    <3> DEFINE d == find_locked(th[t].id)
               pc == IF t \in Workers THEN "active" ELSE IF d = NULL THEN "idle" ELSE "seen"
               c == [th[t] EXCEPT !.dev = d, !.pc = pc]
    <3>2. th' = [th EXCEPT ![t].dev = d, ![t].pc = pc]
      BY <2>3 DEF FindFast, Return
    <3> HIDE DEF d
    <3>3. c \in Caller /\ c.pc \notin {"find", "create"}
      BY <1>a, <3>1, Zenon DEF Caller, d
    <3>4. th' = [th EXCEPT ![t] = c]
      BY <3>2, Zenon DEF IInv, Typed
    <3> QED BY <3>3, <3>4, Zenon
  <2>4. CASE FindFast(t) /\ find_locked(th[t].id) = NULL
    <3> DEFINE c == [th[t] EXCEPT !.pc = "create"]
    <3>1. c \in Caller /\ c.id \in Ids /\ th' = [th EXCEPT ![t] = c]
      BY <1>a, <2>4, Zenon DEF IInv, Typed, Caller, FindFast
    <3> QED BY <3>1, Zenon
  <2>5. CASE Disconnect(t)
    BY <1>b, <2>5, Zenon DEF Disconnect, IdleThread
  <2> QED BY <2>1, <2>2, <2>3, <2>4, <2>5
<1>4. Typed'
  BY <1>1, <1>2, <1>3, CallerTyped DEF IInv, Typed
<1> QED BY <1>1, <1>4 DEF SameDevices

LEMMA OneMorePacket ==
  ASSUME NEW r \in DeviceType
  PROVE  /\ [r EXCEPT !.packets_ok = r.packets_ok + 1] \in DeviceType
         /\ [r EXCEPT !.packets_ok = r.packets_ok + 1].id = r.id
         /\ [r EXCEPT !.packets_bad = r.packets_bad + 1] \in DeviceType
         /\ [r EXCEPT !.packets_bad = r.packets_bad + 1].id = r.id
<1>1. r.packets_ok + 1 \in Nat /\ r.packets_bad + 1 \in Nat
  BY DEF DeviceType
<1>2. \A n \in Nat : /\ [r EXCEPT !.packets_ok = n] \in DeviceType
                     /\ [r EXCEPT !.packets_ok = n].id = r.id
  BY DEF DeviceType
<1>3. \A n \in Nat : /\ [r EXCEPT !.packets_bad = n] \in DeviceType
                     /\ [r EXCEPT !.packets_bad = n].id = r.id
  BY DEF DeviceType
<1> QED BY <1>1, <1>2, <1>3, Zenon

(* A store of one field leaves a device, and its id. *)
LEMMA OneField ==
  /\ \A r \in DeviceType : \A v \in 0 .. MaxReadings :
       [r EXCEPT !.last_temp = v] \in DeviceType /\ [r EXCEPT !.last_temp = v].id = r.id
  /\ \A r \in DeviceType : \A v \in 0 .. MaxReadings :
       [r EXCEPT !.last_humid = v] \in DeviceType /\ [r EXCEPT !.last_humid = v].id = r.id
  /\ \A r \in DeviceType : \A v \in 0 .. MaxTime :
       [r EXCEPT !.last_seen = v] \in DeviceType /\ [r EXCEPT !.last_seen = v].id = r.id
  /\ \A r \in DeviceType : \A v \in {"ONLINE", "OFFLINE"} :
       [r EXCEPT !.state = v] \in DeviceType /\ [r EXCEPT !.state = v].id = r.id
<1>1. ASSUME NEW r \in DeviceType, NEW v \in 0 .. MaxReadings
      PROVE  [r EXCEPT !.last_temp = v] \in DeviceType /\ [r EXCEPT !.last_temp = v].id = r.id
  BY DEF DeviceType
<1>2. ASSUME NEW r \in DeviceType, NEW v \in 0 .. MaxReadings
      PROVE  [r EXCEPT !.last_humid = v] \in DeviceType /\ [r EXCEPT !.last_humid = v].id = r.id
  BY DEF DeviceType
<1>3. ASSUME NEW r \in DeviceType, NEW v \in 0 .. MaxTime
      PROVE  [r EXCEPT !.last_seen = v] \in DeviceType /\ [r EXCEPT !.last_seen = v].id = r.id
  BY DEF DeviceType
<1>4. ASSUME NEW r \in DeviceType, NEW v \in {"ONLINE", "OFFLINE"}
      PROVE  [r EXCEPT !.state = v] \in DeviceType /\ [r EXCEPT !.state = v].id = r.id
  BY DEF DeviceType
<1> QED BY <1>1, <1>2, <1>3, <1>4, Zenon

(* The stores of dt_record_sensor, dt_touch and dt_record_bad: whichever    *)
(* device the pointer is of, its id stays.                                  *)
LEMMA StoreSteps ==
  ASSUME IInv, NEW t \in Threads,
         \/ RecordTemp(t) \/ RecordHumid(t) \/ RecordSeen(t) \/ RecordState(t)
         \/ RecordOk(t) \/ BadPacket(t)
  PROVE  Typed' /\ SameDevices
<1> DEFINE d == th[t].dev
<1>a. /\ th[t] \in Caller /\ th \in [Threads -> Caller] /\ now \in 0 .. MaxTime
      /\ used \in [readings : 0 .. MaxReadings, beats : Nat, conns : Nat]
      /\ devs \in Seq(DeviceType) /\ MaxReadings \in Nat
  BY TableAssumption DEF IInv, Typed
<1>b. IdleThread \in Caller
  BY TableAssumption DEF IdleThread, Caller, NULL
<1>c. \A p \in 1 .. Len(devs) : devs[p] \in DeviceType
  BY <1>a
<1>d. UNCHANGED <<buckets, device_count, now>>
  BY DEF RecordTemp, RecordHumid, RecordSeen, RecordState, RecordOk, BadPacket
<1>1. ASSUME NEW e, d \in 1 .. Len(devs) => e \in DeviceType /\ e.id = devs[d].id,
             devs' = [devs EXCEPT ![d] = e],
             NEW c \in Caller, c.pc \notin {"find", "create"}, th' = [th EXCEPT ![t] = c],
             used' \in [readings : 0 .. MaxReadings, beats : Nat, conns : Nat]
      PROVE  Typed' /\ SameDevices
  <2>1. /\ devs' \in Seq(DeviceType) /\ Len(devs') = Len(devs)
        /\ \A p \in 1 .. Len(devs) : devs'[p].id = devs[p].id
    BY <1>a, <1>1, FieldStore, Zenon
  <2>2. /\ th' \in [Threads -> Caller]
        /\ \A u \in Threads : th'[u].pc \in {"find", "create"} => th'[u].id \in Ids
    BY <1>1, CallerTyped, Zenon DEF IInv
  <2> QED BY <1>1, <1>d, <2>1, <2>2 DEF IInv, Typed, SameDevices
<1>2. CASE RecordTemp(t)
  <2> DEFINE e == [devs[d] EXCEPT !.last_temp = used.readings + 1]
             c == [th[t] EXCEPT !.pc = "humid", !.at = now, !.reading = used.readings + 1]
  <2>1. used.readings + 1 \in 0 .. MaxReadings
    BY <1>a, <1>2 DEF RecordTemp
  <2>2. d \in 1 .. Len(devs) => e \in DeviceType /\ e.id = devs[d].id
    BY <1>c, <2>1, OneField, Zenon
  <2>3. c \in Caller /\ c.pc \notin {"find", "create"}
    BY <1>a, <2>1, Zenon DEF Caller
  <2>4. devs' = [devs EXCEPT ![d] = e] /\ th' = [th EXCEPT ![t] = c]
    BY <1>2, <1>a, Zenon DEF RecordTemp
  <2>5. used' \in [readings : 0 .. MaxReadings, beats : Nat, conns : Nat]
    BY <1>2, <1>a, <2>1 DEF RecordTemp
  <2> HIDE DEF e, c
  <2> QED BY <1>1, <2>2, <2>3, <2>4, <2>5, Zenon
<1>3. CASE RecordHumid(t)
  <2> DEFINE e == [devs[d] EXCEPT !.last_humid = th[t].reading]
             c == [th[t] EXCEPT !.pc = "seen"]
  <2>1. th[t].reading \in 0 .. MaxReadings
    BY <1>a DEF Caller
  <2>2. d \in 1 .. Len(devs) => e \in DeviceType /\ e.id = devs[d].id
    BY <1>c, <2>1, OneField, Zenon
  <2>3. c \in Caller /\ c.pc \notin {"find", "create"}
    BY <1>a, Zenon DEF Caller
  <2>4. devs' = [devs EXCEPT ![d] = e] /\ th' = [th EXCEPT ![t] = c] /\ used' = used
    BY <1>3, <1>a DEF RecordHumid
  <2> HIDE DEF e, c
  <2> QED BY <1>a, <1>1, <2>2, <2>3, <2>4, Zenon
<1>4. CASE RecordSeen(t)
  <2> DEFINE e == [devs[d] EXCEPT !.last_seen = th[t].at]
             c == [th[t] EXCEPT !.pc = "state"]
  <2>1. th[t].at \in 0 .. MaxTime
    BY <1>a DEF Caller
  <2>2. d \in 1 .. Len(devs) => e \in DeviceType /\ e.id = devs[d].id
    BY <1>c, <2>1, OneField, Zenon
  <2>3. c \in Caller /\ c.pc \notin {"find", "create"}
    BY <1>a, Zenon DEF Caller
  <2>4. devs' = [devs EXCEPT ![d] = e] /\ th' = [th EXCEPT ![t] = c] /\ used' = used
    BY <1>4, <1>a DEF RecordSeen
  <2> HIDE DEF e, c
  <2> QED BY <1>a, <1>1, <2>2, <2>3, <2>4, Zenon
<1>5. CASE RecordState(t)
  <2> DEFINE e == [devs[d] EXCEPT !.state = "ONLINE"]
             c == IF t \in Workers THEN [th[t] EXCEPT !.pc = "ok"] ELSE IdleThread
  <2>2. d \in 1 .. Len(devs) => e \in DeviceType /\ e.id = devs[d].id
    BY <1>c, OneField, Zenon
  <2>3. c \in Caller /\ c.pc \notin {"find", "create"}
    BY <1>a, <1>b, Zenon DEF Caller, IdleThread
  <2>4. devs' = [devs EXCEPT ![d] = e] /\ th' = [th EXCEPT ![t] = c] /\ used' = used
    BY <1>5, <1>a DEF RecordState
  <2> HIDE DEF e, c
  <2> QED BY <1>a, <1>1, <2>2, <2>3, <2>4, Zenon
<1>6. CASE RecordOk(t)
  <2> DEFINE e == [devs[d] EXCEPT !.packets_ok = devs[d].packets_ok + 1]
             c == [th[t] EXCEPT !.pc = "active"]
  <2>2. d \in 1 .. Len(devs) => e \in DeviceType /\ e.id = devs[d].id
    BY <1>c, OneMorePacket, Zenon
  <2>3. c \in Caller /\ c.pc \notin {"find", "create"}
    BY <1>a, Zenon DEF Caller
  <2>4. devs' = [devs EXCEPT ![d] = e] /\ th' = [th EXCEPT ![t] = c] /\ used' = used
    BY <1>6, <1>a DEF RecordOk
  <2> HIDE DEF e, c
  <2> QED BY <1>a, <1>1, <2>2, <2>3, <2>4, Zenon
<1>7. CASE BadPacket(t)
  <2> DEFINE e == [devs[d] EXCEPT !.packets_bad = devs[d].packets_bad + 1]
             c == th[t]
  <2>2. d \in 1 .. Len(devs) => e \in DeviceType /\ e.id = devs[d].id
    BY <1>c, OneMorePacket, Zenon
  <2>3. c \in Caller /\ c.pc \notin {"find", "create"}
    BY <1>a, <1>7 DEF BadPacket
  <2>4. devs' = [devs EXCEPT ![d] = e] /\ th' = [th EXCEPT ![t] = c]
    BY <1>7, <1>a DEF BadPacket
  <2>5. used' \in [readings : 0 .. MaxReadings, beats : Nat, conns : Nat]
    <3>1. used' = [used EXCEPT !.readings = used.readings + 1] /\ used.readings < MaxReadings
      BY <1>7, Zenon DEF BadPacket
    <3>2. used \in [readings : 0 .. MaxReadings, beats : Nat, conns : Nat]
      BY DEF IInv, Typed
    <3>3. MaxReadings \in Nat
      BY TableAssumption
    <3>4. used.readings \in 0 .. MaxReadings
      BY <3>2
    <3>5. used.readings + 1 \in 0 .. MaxReadings
      BY <3>1, <3>3, <3>4
    <3> QED BY <3>1, <3>2, <3>5, Zenon
  <2> HIDE DEF e, c
  <2> QED BY <1>1, <2>2, <2>3, <2>4, <2>5, Zenon
<1> QED BY <1>2, <1>3, <1>4, <1>5, <1>6, <1>7

(* The reaper stores into state alone, and the clock touches nothing. *)
LEMMA ReaperSteps ==
  ASSUME IInv, SweepStep \/ DumpStart \/ DumpStep \/ Tick
  PROVE  Typed' /\ SameDevices
<1>1. UNCHANGED <<buckets, device_count, th, used>>
  BY DEF SweepStep, SweepStart, SweepLoad, SweepStore, SweepEnd, DumpStart, DumpStep,
         DumpTemp, DumpHumid, DumpEnd, DumpReturn, Tick
<1>2. now' \in 0 .. MaxTime
  BY TableAssumption
     DEF IInv, Typed, SweepStep, SweepStart, SweepLoad, SweepStore, SweepEnd, DumpStart,
         DumpStep, DumpTemp, DumpHumid, DumpEnd, DumpReturn, Tick
<1>3. /\ devs' \in Seq(DeviceType) /\ Len(devs') = Len(devs)
      /\ \A p \in 1 .. Len(devs) : devs'[p].id = devs[p].id
  <2>1. CASE SweepStore
    <3> DEFINE d == Rows[rp.row]
               e == [devs[d] EXCEPT !.state = "OFFLINE"]
    <3>1. devs' = [devs EXCEPT ![d] = e]
      BY <2>1 DEF SweepStore
    <3>2. devs \in Seq(DeviceType) /\ \A p \in 1 .. Len(devs) : devs[p] \in DeviceType
      BY DEF IInv, Typed
    <3> HIDE DEF d
    <3>3. d \in 1 .. Len(devs) => e \in DeviceType /\ e.id = devs[d].id
      BY <3>2, OneField, Zenon
    <3> HIDE DEF e
    <3> QED BY <3>1, <3>2, <3>3, FieldStore, Zenon
  <2>2. CASE ~SweepStore
    <3>1. devs' = devs
      BY <2>2 DEF SweepStep, SweepStart, SweepLoad, SweepEnd, DumpStart, DumpStep,
                  DumpTemp, DumpHumid, DumpEnd, DumpReturn, Tick
    <3> QED BY <3>1 DEF IInv, Typed
  <2> QED BY <2>1, <2>2
<1> QED BY <1>1, <1>2, <1>3 DEF IInv, Typed, SameDevices

(* What the thread that looked an id up goes on with. *)
LEMMA ReturnTyped ==
  ASSUME Typed, NEW t \in Threads, NEW d \in Nat, Return(t, d)
  PROVE  /\ th' \in [Threads -> Caller]
         /\ \A u \in Threads : th'[u].pc \in {"find", "create"} => th'[u].id \in Ids
<1> DEFINE pc == IF t \in Workers THEN "active" ELSE IF d = NULL THEN "idle" ELSE "seen"
           c == [th[t] EXCEPT !.dev = d, !.pc = pc]
<1>1. th' = [th EXCEPT ![t].dev = d, ![t].pc = pc]
  BY DEF Return
<1>2. c \in Caller /\ c.pc \notin {"find", "create"}
  BY Zenon DEF Typed, Caller
<1>3. th' = [th EXCEPT ![t] = c]
  BY <1>1, Zenon DEF Typed
<1> HIDE DEF c
<1> QED BY <1>2, <1>3, CallerTyped, Zenon

(* The new device is the only one with its id, and is where its id belongs. *)
LEMMA LinkStep ==
  ASSUME IInv, NEW t \in Threads, th[t].pc = "create", find_locked(th[t].id) = NULL,
         Link(t), UNCHANGED <<now, used>>
  PROVE  /\ IInv'
         /\ th[t].id \in Ids
         /\ {devs[p].id : p \in Listed}' = {devs[p].id : p \in Listed} \cup {th[t].id}
         /\ th[t].id \notin {devs[p].id : p \in Listed}
         /\ device_count' = device_count + 1
         /\ Listed' = Listed \cup {Len(devs) + 1}
<1> DEFINE id == th[t].id
           new == Len(devs) + 1
           h == dt_hash(id)
<1>a. id \in Ids /\ id \in Nat /\ h \in 0 .. TABLE_BUCKETS - 1
  BY HashInRange, TableAssumption, Zenon DEF IInv, Typed
<1>b. /\ devs \in Seq(DeviceType) /\ buckets \in [0 .. TABLE_BUCKETS - 1 -> Seq(Nat)]
      /\ Len(devs) \in Nat
  BY DEF IInv, Typed
<1>c. /\ devs' = Append(devs, NewDevice(t)) /\ device_count' = device_count + 1
      /\ buckets' = [buckets EXCEPT ![h] = <<new>> \o @] /\ Return(t, new)
  BY DEF Link
<1>d. NewDevice(t) \in DeviceType /\ NewDevice(t).id = id
  BY <1>a, TableAssumption DEF NewDevice, DeviceType, IInv, Typed
<1> HIDE DEF h, new
<1>1. /\ devs' \in Seq(DeviceType) /\ Len(devs') = new /\ devs'[new].id = id
      /\ \A p \in 1 .. Len(devs) : devs'[p] = devs[p]
  BY <1>b, <1>c, <1>d DEF new
<1>2. new \in Nat /\ new \notin 1 .. Len(devs)
  BY <1>b DEF new
<1>3. /\ buckets' \in [0 .. TABLE_BUCKETS - 1 -> Seq(Nat)]
      /\ Len(buckets'[h]) = Len(buckets[h]) + 1 /\ buckets'[h][1] = new
      /\ \A k \in 1 .. Len(buckets[h]) : buckets'[h][k + 1] = buckets[h][k]
      /\ \A g \in 0 .. TABLE_BUCKETS - 1 : g # h => buckets'[g] = buckets[g]
  <2>1. buckets[h] \in Seq(Nat) /\ <<new>> \in Seq(Nat) /\ Len(<<new>>) = 1
    BY <1>a, <1>b, <1>2
  <2>2. <<new>> \o buckets[h] \in Seq(Nat)
    BY <2>1
  <2>3. /\ Len(<<new>> \o buckets[h]) = Len(buckets[h]) + 1 /\ (<<new>> \o buckets[h])[1] = new
        /\ \A k \in 1 .. Len(buckets[h]) : (<<new>> \o buckets[h])[k + 1] = buckets[h][k]
    BY <2>1
  <2>4. /\ buckets'[h] = <<new>> \o buckets[h]
        /\ \A g \in 0 .. TABLE_BUCKETS - 1 : g # h => buckets'[g] = buckets[g]
    BY <1>a, <1>b, <1>c
  <2>5. buckets' \in [0 .. TABLE_BUCKETS - 1 -> Seq(Nat)]
    BY <1>a, <1>b, <1>c, <2>2
  <2> QED BY <2>3, <2>4, <2>5, Zenon
<1>4. Typed'
  <2>1. /\ th' \in [Threads -> Caller]
        /\ \A u \in Threads : th'[u].pc \in {"find", "create"} => th'[u].id \in Ids
    BY <1>2, <1>c, ReturnTyped DEF IInv
  <2> QED BY <1>1, <1>3, <1>c, <2>1 DEF IInv, Typed
<1>5. \A p \in Listed : p \in 1 .. Len(devs) /\ devs[p].id # id
  <2>1. \A p \in Listed : p \in 1 .. Len(devs)
    BY ListedForm DEF IInv, ChainsAreSorted
  <2>2. \A p \in Listed : devs[p].id # id
    BY <1>a, NotFound
  <2> QED BY <2>1, <2>2
<1>6. Listed' = Listed \cup {new}
  <2>1. ASSUME NEW p
        PROVE  p \in Listed' <=>
                 \E g \in 0 .. TABLE_BUCKETS - 1 : \E k \in 1 .. Len(buckets'[g]) : p = buckets'[g][k]
    <3>1. DOMAIN buckets' = 0 .. TABLE_BUCKETS - 1
      BY <1>3
    <3>2. \A g \in 0 .. TABLE_BUCKETS - 1 : DOMAIN (buckets'[g]) = 1 .. Len(buckets'[g])
      BY <1>3
    <3> QED BY <3>1, <3>2 DEF Listed
  <2>2. ASSUME NEW p \in Listed' PROVE p \in Listed \cup {new}
    <3>1. PICK g \in 0 .. TABLE_BUCKETS - 1 : \E k \in 1 .. Len(buckets'[g]) : p = buckets'[g][k]
      BY <2>1, <2>2
    <3>2. PICK k \in 1 .. Len(buckets'[g]) : p = buckets'[g][k]
      BY <3>1
    <3>3. CASE g # h
      BY <1>3, <3>2, <3>3, ListedForm DEF IInv
    <3>4. CASE g = h
      <4>1. CASE k = 1
        BY <1>3, <3>2, <3>4, <4>1
      <4>2. CASE k # 1
        <5>1. k - 1 \in 1 .. Len(buckets[h]) /\ (k - 1) + 1 = k
          BY <1>a, <1>b, <1>3, <3>4, <4>2
        <5>2. p = buckets[h][k - 1]
          BY <1>3, <3>2, <3>4, <5>1
        <5> QED BY <1>a, <5>1, <5>2, ListedForm DEF IInv
      <4> QED BY <4>1, <4>2
    <3> QED BY <3>3, <3>4
  <2>3. ASSUME NEW p \in Listed PROVE p \in Listed'
    <3>1. PICK g \in 0 .. TABLE_BUCKETS - 1 : \E k \in 1 .. Len(buckets[g]) : p = buckets[g][k]
      BY ListedForm DEF IInv
    <3>2. PICK k \in 1 .. Len(buckets[g]) : p = buckets[g][k]
      BY <3>1
    <3>3. CASE g # h
      BY <1>3, <2>1, <3>2, <3>3
    <3>4. CASE g = h
      <4>1. buckets'[h][k + 1] = buckets[h][k]
        BY <1>3, <3>4, Zenon
      <4>2. Len(buckets[h]) \in Nat /\ Len(buckets'[h]) = Len(buckets[h]) + 1
        BY <1>a, <1>b, <1>3
      <4>3. k + 1 \in 1 .. Len(buckets'[h])
        BY <3>4, <4>2
      <4> QED BY <1>a, <2>1, <3>2, <3>4, <4>1, <4>3, Zenon
    <3> QED BY <3>3, <3>4
  <2>4. new \in Listed'
    <3>1. 1 \in 1 .. Len(buckets'[h])
      BY <1>a, <1>b, <1>3
    <3> QED BY <1>a, <1>3, <2>1, <3>1
  <2> QED BY <2>2, <2>3, <2>4
<1>7. ChainsAreSorted'
  <2>1. ASSUME NEW g \in 0 .. TABLE_BUCKETS - 1, NEW k \in 1 .. Len(buckets'[g])
        PROVE  buckets'[g][k] \in 1 .. Len(devs') /\ dt_hash(devs'[buckets'[g][k]].id) = g
    <3>1. ASSUME NEW j \in 1 .. Len(buckets[g]), buckets'[g][k] = buckets[g][j]
          PROVE  buckets'[g][k] \in 1 .. Len(devs') /\ dt_hash(devs'[buckets'[g][k]].id) = g
      <4>1. buckets[g][j] \in 1 .. Len(devs) /\ dt_hash(devs[buckets[g][j]].id) = g
        BY DEF IInv, ChainsAreSorted
      <4>2. 1 .. Len(devs) \subseteq 1 .. Len(devs')
        BY <1>b, <1>1 DEF new
      <4> QED BY <1>1, <3>1, <4>1, <4>2
    <3>2. CASE g # h
      BY <1>3, <3>1, <3>2
    <3>3. CASE g = h /\ k = 1
      <4>1. new \in 1 .. Len(devs')
        BY <1>b, <1>1 DEF new
      <4> QED BY <1>1, <1>3, <3>3, <4>1 DEF h
    <3>4. CASE g = h /\ k # 1
      <4>1. k - 1 \in 1 .. Len(buckets[h]) /\ (k - 1) + 1 = k
        BY <1>a, <1>b, <1>3, <3>4
      <4>2. buckets'[g][k] = buckets[g][k - 1]
        BY <1>3, <3>4, <4>1, Zenon
      <4> QED BY <3>1, <3>4, <4>1, <4>2
    <3> QED BY <3>2, <3>3, <3>4
  <2> QED BY <2>1 DEF ChainsAreSorted, dt_hash
<1>8. NoDuplicateDevice'
  BY <1>1, <1>5, <1>6 DEF IInv, NoDuplicateDevice
<1>9. /\ {devs[p].id : p \in Listed}' = {devs[p].id : p \in Listed} \cup {id}
      /\ id \notin {devs[p].id : p \in Listed}
  BY <1>1, <1>5, <1>6
<1>10. Listed' = Listed \cup {Len(devs) + 1}
  BY <1>6 DEF new
<1> QED BY <1>a, <1>c, <1>4, <1>7, <1>8, <1>9, <1>10, Zenon DEF IInv

(* The second look under the write lock decides: a device is found, there   *)
(* is no memory, or it is new.                                              *)
LEMMA CreateStep ==
  ASSUME IInv, NEW t \in Threads, FindOrCreate(t)
  PROVE  \/ Typed' /\ SameDevices
         \/ /\ th[t].pc = "create" /\ find_locked(th[t].id) = NULL
            /\ Link(t) /\ UNCHANGED <<now, used>>
<1>1. CASE Link(t) /\ find_locked(th[t].id) = NULL
  BY <1>1 DEF FindOrCreate
<1>2. ASSUME NEW d \in Nat, Return(t, d), UNCHANGED <<buckets, devs, device_count>>
      PROVE  Typed' /\ SameDevices
  <2>1. /\ th' \in [Threads -> Caller]
        /\ \A u \in Threads : th'[u].pc \in {"find", "create"} => th'[u].id \in Ids
    BY <1>2, ReturnTyped DEF IInv
  <2>2. UNCHANGED <<now, used>>
    BY DEF FindOrCreate
  <2> QED BY <1>2, <2>1, <2>2 DEF IInv, Typed, SameDevices
<1>3. find_locked(th[t].id) \in Nat /\ NULL \in Nat
  BY FoundType DEF IInv, Typed, FindOrCreate, NULL
<1> QED BY <1>1, <1>2, <1>3, Zenon DEF FindOrCreate

(* Every step keeps the invariant, and adds a device to the registry or     *)
(* leaves it alone.                                                         *)
LEMMA NextStep ==
  ASSUME IInv, [Next]_vars
  PROVE  /\ IInv'
         /\ \/ Registry!Next
            \/ UNCHANGED <<{devs[p].id : p \in Listed}, device_count>>
<1>1. ASSUME Typed', SameDevices
      PROVE  IInv' /\ UNCHANGED <<{devs[p].id : p \in Listed}, device_count>>
  <2>1. IInv' /\ Listed' = Listed
    BY <1>1, SameDevicesIInv
  <2>2. \A p \in Listed : p \in 1 .. Len(devs)
    BY ListedForm DEF IInv, ChainsAreSorted
  <2> QED BY <1>1, <2>1, <2>2 DEF SameDevices
<1>2. ASSUME NEW t \in Threads, th[t].pc = "create", find_locked(th[t].id) = NULL,
             Link(t), UNCHANGED <<now, used>>
      PROVE  IInv' /\ Registry!Next
  <2>1. /\ IInv'
        /\ th[t].id \in Ids
        /\ {devs[p].id : p \in Listed}' = {devs[p].id : p \in Listed} \cup {th[t].id}
        /\ th[t].id \notin {devs[p].id : p \in Listed}
        /\ device_count' = device_count + 1
    BY <1>2, LinkStep, Zenon
  <2>2. Registry!Next
    BY <2>1, Zenon DEF Registry!Next, Registry!Register
  <2> QED BY <2>1, <2>2
<1>3. CASE UNCHANGED vars
  <2>1. Typed' /\ SameDevices
    BY <1>3 DEF vars, IInv, Typed, SameDevices
  <2> QED BY <1>1, <2>1, Zenon
<1>4. ASSUME NEW t \in Threads, FindOrCreate(t)
      PROVE  IInv' /\ (Registry!Next \/ UNCHANGED <<{devs[p].id : p \in Listed}, device_count>>)
  BY <1>1, <1>2, <1>4, CreateStep, Zenon
<1>5. CASE SweepStep \/ DumpStart \/ DumpStep \/ Tick
  BY <1>1, <1>5, ReaperSteps, Zenon
<1>6. ASSUME NEW t \in Threads, HelloCall(t) \/ TouchCall(t) \/ FindFast(t) \/ Disconnect(t)
      PROVE  IInv' /\ UNCHANGED <<{devs[p].id : p \in Listed}, device_count>>
  BY <1>1, <1>6, CallSteps, Zenon
<1>7. ASSUME NEW t \in Threads,
             \/ RecordTemp(t) \/ RecordHumid(t) \/ RecordSeen(t) \/ RecordState(t)
             \/ RecordOk(t) \/ BadPacket(t)
      PROVE  IInv' /\ UNCHANGED <<{devs[p].id : p \in Listed}, device_count>>
  BY <1>1, <1>7, StoreSteps, Zenon
<1> QED BY <1>3, <1>4, <1>5, <1>6, <1>7, Zenon DEF Next, TableStep

LEMMA Inductive == Spec => []IInv
BY InitIInv, NextStep, PTL DEF Spec

-----------------------------------------------------------------------------
(* However many threads race through dt_get_or_create, each with its look   *)
(* under the read lock and its second look under the write lock, the table  *)
(* holds one device per id.                                                 *)
THEOREM OneDevicePerId == Spec => []NoDuplicateDevice
BY Inductive, PTL DEF IInv

(* The table implements the registry of device_table.h: dt_get_or_create     *)
(* registers a device on the first sight of its id and counts it, and no     *)
(* update, sweep, dump or disconnect adds, removes or renames one.           *)
THEOREM Refinement == Spec => ImplementsRegistry
<1>1. Init => Registry!Init
  BY DEF Init, Registry!Init, Listed
<1>2. IInv /\ [Next]_vars => [Registry!Next]_<<{devs[p].id : p \in Listed}, device_count>>
  BY NextStep, Zenon
<1> QED BY <1>1, <1>2, Inductive, PTL DEF Spec, ImplementsRegistry, Registry!Spec

-----------------------------------------------------------------------------
(* Induction up to N, over a set: Total and Rows are recursive functions,   *)
(* and what they compute is proved with it.                                 *)
LEMMA UpTo ==
  ASSUME NEW N \in Nat, NEW S, 0 \in S, \A n \in Nat : n < N /\ n \in S => n + 1 \in S
  PROVE  \A n \in 0 .. N : n \in S
<1> DEFINE T == {n \in Nat : n <= N /\ n \notin S}
<1>1. SUFFICES ASSUME T # {} PROVE FALSE
  OBVIOUS
<1>2. T \subseteq Nat
  OBVIOUS
<1>3. PICK x \in T : \A y \in T : x <= y
  <2> HIDE DEF T
  <2> QED BY <1>1, <1>2, Smallest, Zenon
<1>4. x \in Nat /\ x # 0 /\ x <= N /\ x \notin S
  OBVIOUS
<1>5. x - 1 \in Nat /\ x - 1 < N /\ (x - 1) + 1 = x /\ ~(x <= x - 1)
  BY <1>4
<1>6. x - 1 \in S
  BY <1>3, <1>5
<1> QED BY <1>4, <1>5, <1>6

(* A function defined step by step on 0 .. N exists, and has its values     *)
(* where the steps stay.                                                    *)
Stays(G, N, A) == \A n \in 1 .. N, a \in A : G[<<n, a>>] \in A
Steps(f, z, G, N, A) ==
  f \in [0 .. N -> A] /\ f[0] = z /\ \A n \in 1 .. N : f[n] = G[<<n, f[n - 1]>>]

LEMMA StepByStep ==
  ASSUME NEW N \in Nat, NEW A, NEW z \in A, NEW G, Stays(G, N, A)
  PROVE  \E f : Steps(f, z, G, N, A)
<1> DEFINE F(m, f) == Steps(f, z, G, m, A)
           S == {m \in Nat : \E f : F(m, f)}
<1>1. 0 \in S
  <2>1. F(0, [n \in 0 .. 0 |-> z])
    BY DEF Steps
  <2> HIDE DEF F
  <2> QED BY <2>1
<1>2. ASSUME NEW m \in Nat, m < N, m \in S PROVE m + 1 \in S
  <2> HIDE DEF F
  <2>1. PICK f : F(m, f)
    BY <1>2
  <2> USE DEF F, Steps
  <2> DEFINE g == [n \in 0 .. m + 1 |-> IF n <= m THEN f[n] ELSE G[<<m + 1, f[m]>>]]
  <2>2. m \in 0 .. m /\ m + 1 \in 1 .. N /\ m + 1 \in Nat /\ 0 \in 0 .. m
    BY <1>2
  <2>3. f[m] \in A
    BY <2>1, <2>2
  <2>4. G[<<m + 1, f[m]>>] \in A
    BY <2>2, <2>3 DEF Stays
  <2>5. g \in [0 .. m + 1 -> A] /\ g[0] = z
    BY <2>1, <2>2, <2>4
  <2>6. ASSUME NEW n \in 1 .. m + 1 PROVE g[n] = G[<<n, g[n - 1]>>]
    <3>1. n - 1 \in 0 .. m /\ n - 1 \in 0 .. m + 1 /\ n - 1 <= m /\ n \in 0 .. m + 1
      BY <1>2, <2>6
    <3>2. g[n - 1] = f[n - 1]
      BY <3>1
    <3>3. CASE n <= m
      <4>1. n \in 1 .. m
        BY <3>3
      <4> QED BY <2>1, <3>1, <3>2, <3>3, <4>1
    <3>4. CASE ~(n <= m)
      <4>1. n = m + 1 /\ n - 1 = m
        BY <3>4
      <4> QED BY <3>1, <3>2, <3>4, <4>1
    <3> QED BY <3>3, <3>4
  <2>7. F(m + 1, g)
    BY <2>5, <2>6, Zenon
  <2> HIDE DEF F, g
  <2> QED BY <2>2, <2>7
<1>3. N \in S
  <2> HIDE DEF S
  <2>1. \A n \in 0 .. N : n \in S
    BY <1>1, <1>2, UpTo
  <2> QED BY <2>1
<1> QED BY <1>3

-----------------------------------------------------------------------------
(* f[n] is the sum of the first n values of v. *)
Sums(f, v, N) ==
  /\ v \in [1 .. N -> Nat] /\ f \in [0 .. N -> Nat]
  /\ f[0] = 0 /\ \A n \in 1 .. N : f[n] = f[n - 1] + v[n]

(* w exceeds v at d by e. *)
Exceeds(w, v, d, e, N) == \A n \in 1 .. N : w[n] = v[n] + (IF n = d THEN e ELSE 0)

(* The sums differ by e from there on. *)
LEMMA SumsDiffer ==
  ASSUME NEW N \in Nat, NEW v, NEW w, NEW f, NEW g, Sums(f, v, N), Sums(g, w, N),
         NEW d \in Nat \ {0}, NEW e \in Nat, Exceeds(w, v, d, e, N)
  PROVE  g[N] = f[N] + (IF d <= N THEN e ELSE 0)
<1> DEFINE S == {n \in Nat : n <= N /\ g[n] = f[n] + (IF d <= n THEN e ELSE 0)}
<1>1. 0 \in S
  BY DEF Sums
<1>2. ASSUME NEW n \in Nat, n < N, n \in S PROVE n + 1 \in S
  <2>1. /\ n + 1 \in 1 .. N /\ (n + 1) - 1 = n /\ n \in 0 .. N /\ n + 1 \in 0 .. N
        /\ n + 1 <= N /\ n + 1 \in Nat
    BY <1>2
  <2>2. g[n + 1] = g[n] + w[n + 1] /\ f[n + 1] = f[n] + v[n + 1]
    BY <2>1 DEF Sums
  <2>3. f[n] \in Nat /\ v[n + 1] \in Nat
    BY <2>1 DEF Sums
  <2>4. g[n] = f[n] + (IF d <= n THEN e ELSE 0)
    BY <1>2
  <2>5. w[n + 1] = v[n + 1] + (IF n + 1 = d THEN e ELSE 0)
    BY <2>1 DEF Exceeds
  <2>6. g[n + 1] = f[n + 1] + (IF d <= n + 1 THEN e ELSE 0)
    <3>1. d <= n + 1 <=> (d <= n \/ n + 1 = d)
      OBVIOUS
    <3> QED BY <2>2, <2>3, <2>4, <2>5, <3>1
  <2> QED BY <2>1, <2>6
<1>3. N \in S
  <2> HIDE DEF S
  <2>1. \A n \in 0 .. N : n \in S
    BY <1>1, <1>2, UpTo
  <2> QED BY <2>1
<1> QED BY <1>3

(* The sum of a counter over the devices D that are listed in L. *)
Counters(D, L, field) == [n \in 1 .. Len(D) |-> IF n \in L THEN D[n][field] ELSE 0]
SumOf(D, L, field) ==
  LET sum[n \in 0 .. Len(D)] ==
        IF n = 0 THEN 0 ELSE sum[n - 1] + IF n \in L THEN D[n][field] ELSE 0
  IN  sum[Len(D)]

LEMMA TotalForm ==
  ASSUME NEW field
  PROVE  /\ Total(field) = SumOf(devs, Listed, field)
         /\ Total(field)' = SumOf(devs', Listed', field)
  BY DEF Total, SumOf

(* The field holds numbers, so that there is a sum. *)
Counts(D, field) == \A n \in 1 .. Len(D) : D[n][field] \in Nat

(* SumOf is the last of the sums. *)
LEMMA SumForm ==
  ASSUME NEW D, NEW N \in Nat, N = Len(D), NEW L, NEW field, Counts(D, field)
  PROVE  \E v, f : v = Counters(D, L, field) /\ Sums(f, v, N) /\ SumOf(D, L, field) = f[N]
<1> DEFINE v == Counters(D, L, field)
           G == [p \in (1 .. N) \X Nat |-> p[2] + v[p[1]]]
<1>1. v \in [1 .. N -> Nat]
  BY DEF Counters, Counts
<1>2. \A n \in 1 .. N : v[n] = IF n \in L THEN D[n][field] ELSE 0
  BY DEF Counters
<1>3. \A n \in 1 .. N, a \in Nat : G[<<n, a>>] = a + v[n]
  <2> HIDE DEF v
  <2> QED OBVIOUS
<1>4. \A n \in 1 .. N, a \in Nat : G[<<n, a>>] \in Nat
  <2> HIDE DEF v, G
  <2>1. ASSUME NEW n \in 1 .. N, NEW a \in Nat PROVE G[<<n, a>>] \in Nat
    <3>1. v[n] \in Nat /\ G[<<n, a>>] = a + v[n]
      BY <1>1, <1>3
    <3> QED BY <3>1
  <2> QED BY <2>1, Zenon
<1>5. PICK f \in [0 .. N -> Nat] : f[0] = 0 /\ \A n \in 1 .. N : f[n] = G[<<n, f[n - 1]>>]
  <2> HIDE DEF G, v
  <2>1. PICK A : A = Nat
    BY Zenon
  <2>2. PICK z \in A : z = 0
    BY <2>1
  <2>3. Stays(G, N, A)
    BY <1>4, <2>1, Zenon DEF Stays
  <2>4. PICK f : Steps(f, z, G, N, A)
    BY <2>3, StepByStep
  <2> QED BY <2>1, <2>2, <2>4, Zenon DEF Steps
<1>6. \A n \in 1 .. N : n - 1 \in 0 .. N /\ f[n - 1] \in Nat
  OBVIOUS
<1>7. \A n \in 1 .. N : f[n] = f[n - 1] + v[n]
  <2> HIDE DEF G, v
  <2> QED BY <1>3, <1>5, <1>6, Zenon
<1> DEFINE Unrolled(s) == s = [n \in 0 .. N |->
             IF n = 0 THEN 0 ELSE s[n - 1] + IF n \in L THEN D[n][field] ELSE 0]
           sum == CHOOSE s : Unrolled(s)
<1>8. Unrolled(f)
  <2> HIDE DEF G, v
  <2>1. \A n \in 0 .. N : n # 0 => n \in 1 .. N
    OBVIOUS
  <2>2. \A n \in 0 .. N : f[n] = IF n = 0 THEN 0 ELSE f[n - 1] + IF n \in L THEN D[n][field] ELSE 0
    BY <1>2, <1>5, <1>7, <2>1
  <2> QED BY <2>2
<1>9. Unrolled(sum)
  <2> HIDE DEF Unrolled
  <2> QED BY <1>8
<1>10. SumOf(D, L, field) = sum[N]
  BY DEF SumOf
<1> HIDE DEF sum
<1>11. \A n \in 0 .. N : sum[n] = f[n]
  <2> DEFINE S == {n \in Nat : n <= N /\ sum[n] = f[n]}
  <2>1. sum[0] = 0 /\ \A n \in 1 .. N : sum[n] = sum[n - 1] + v[n]
    <3> HIDE DEF v
    <3>1. \A n \in 0 .. N : sum[n] = IF n = 0 THEN 0 ELSE sum[n - 1] + IF n \in L THEN D[n][field] ELSE 0
      BY <1>9
    <3>2. \A n \in 1 .. N : n \in 0 .. N /\ n # 0
      OBVIOUS
    <3>3. 0 \in 0 .. N
      OBVIOUS
    <3> QED BY <1>2, <3>1, <3>2, <3>3
  <2> HIDE DEF v, G, Unrolled
  <2>2. 0 \in S
    BY <1>5, <2>1
  <2>3. ASSUME NEW n \in Nat, n < N, n \in S PROVE n + 1 \in S
    <3>1. n + 1 \in 1 .. N /\ (n + 1) - 1 = n /\ n + 1 \in Nat /\ n + 1 <= N
      BY <2>3
    <3>2. sum[n + 1] = sum[n] + v[n + 1] /\ f[n + 1] = f[n] + v[n + 1]
      BY <1>7, <2>1, <3>1
    <3> QED BY <2>3, <3>1, <3>2
  <2>4. \A n \in 0 .. N : n \in S
    <3> HIDE DEF S
    <3> QED BY <2>2, <2>3, UpTo, Zenon
  <2> QED BY <2>4
<1>12. Sums(f, v, N) /\ SumOf(D, L, field) = f[N]
  BY <1>1, <1>5, <1>7, <1>10, <1>11 DEF Sums
<1> HIDE DEF v, G, Unrolled
<1>13. v = Counters(D, L, field)
  BY DEF v
<1> QED BY <1>12, <1>13

(* In E the field of device d is e more than in D. *)
Grows(D, E, field, d, e) ==
  \A n \in 1 .. Len(D) : E[n][field] = D[n][field] + (IF n = d THEN e ELSE 0)

LEMMA SumType ==
  ASSUME NEW D, Len(D) \in Nat, NEW L, NEW field, Counts(D, field)
  PROVE  SumOf(D, L, field) \in Nat
<1>1. PICK N \in Nat : N = Len(D)
  OBVIOUS
<1>2. PICK v, f : Sums(f, v, N) /\ SumOf(D, L, field) = f[N]
  BY <1>1, SumForm
<1> QED BY <1>2 DEF Sums

(* A listed device's counter grows by e. *)
LEMMA SumChange ==
  ASSUME NEW D, NEW E, Len(D) \in Nat, Len(E) = Len(D), NEW L, NEW field,
         Counts(D, field), Counts(E, field), NEW d \in Nat \ {0}, NEW e \in Nat,
         d \in 1 .. Len(D) => d \in L,
         Grows(D, E, field, d, e)
  PROVE  SumOf(E, L, field) = SumOf(D, L, field) + (IF d <= Len(D) THEN e ELSE 0)
<1>1. PICK N \in Nat : N = Len(D) /\ N = Len(E)
  OBVIOUS
<1>2. PICK v, f :
        v = Counters(D, L, field) /\ Sums(f, v, N) /\ SumOf(D, L, field) = f[N]
  BY <1>1, SumForm
<1>3. PICK w, g :
        w = Counters(E, L, field) /\ Sums(g, w, N) /\ SumOf(E, L, field) = g[N]
  BY <1>1, SumForm
<1>4. ASSUME NEW n \in 1 .. N PROVE w[n] = v[n] + (IF n = d THEN e ELSE 0)
  <2>0. D[n][field] \in Nat
    BY <1>1 DEF Counts
  <2>1. v[n] = (IF n \in L THEN D[n][field] ELSE 0) /\ w[n] = (IF n \in L THEN E[n][field] ELSE 0)
    BY <1>1, <1>2, <1>3 DEF Counters
  <2>2. E[n][field] = D[n][field] + (IF n = d THEN e ELSE 0) /\ (n = d => n \in L)
    BY <1>1 DEF Grows
  <2> QED BY <2>0, <2>1, <2>2
<1>5. Exceeds(w, v, d, e, N)
  BY <1>4 DEF Exceeds
<1>6. g[N] = f[N] + (IF d <= N THEN e ELSE 0)
  BY <1>2, <1>3, <1>5, SumsDiffer
<1> QED BY <1>1, <1>2, <1>3, <1>6

(* No counter changes. *)
LEMMA SumSame ==
  ASSUME NEW D, NEW E, Len(D) \in Nat, Len(E) = Len(D), NEW L, NEW field,
         Counts(D, field), \A n \in 1 .. Len(D) : E[n][field] = D[n][field]
  PROVE  SumOf(E, L, field) = SumOf(D, L, field)
<1>1. PICK d \in Nat \ {0} : d = Len(D) + 1
  OBVIOUS
<1>2. Counts(E, field)
  BY DEF Counts
<1>3. PICK e \in Nat : e = 0
  OBVIOUS
<1>4. Grows(D, E, field, d, e)
  BY <1>3 DEF Counts, Grows
<1>5. ~(d \in 1 .. Len(D)) /\ ~(d <= Len(D))
  BY <1>1
<1>6. SumOf(E, L, field) = SumOf(D, L, field) + (IF d <= Len(D) THEN e ELSE 0)
  BY <1>2, <1>4, <1>5, SumChange
<1> QED BY <1>3, <1>6, SumType

(* A new device starts at zero. *)
LEMMA SumLonger ==
  ASSUME NEW D, NEW E, Len(D) \in Nat, Len(E) = Len(D) + 1, NEW L, NEW M, NEW field,
         Counts(D, field), E[Len(E)][field] = 0,
         \A n \in 1 .. Len(D) : E[n] = D[n] /\ (n \in M <=> n \in L)
  PROVE  SumOf(E, M, field) = SumOf(D, L, field)
<1>1. PICK N \in Nat : N = Len(D) /\ Len(E) = N + 1
  OBVIOUS
<1>2. Counts(E, field)
  <2>1. \A n \in 1 .. N + 1 : n \in 1 .. N \/ n = N + 1
    OBVIOUS
  <2> QED BY <1>1, <2>1 DEF Counts
<1>3. PICK v, f :
        v = Counters(D, L, field) /\ Sums(f, v, N) /\ SumOf(D, L, field) = f[N]
  BY <1>1, SumForm
<1>4. PICK w, g :
        w = Counters(E, M, field) /\ Sums(g, w, N + 1) /\ SumOf(E, M, field) = g[N + 1]
  <2>1. PICK m \in Nat : m = N + 1
    OBVIOUS
  <2>2. m = Len(E)
    BY <1>1, <2>1
  <2> QED BY <1>1, <1>2, <2>1, <2>2, SumForm
<1> DEFINE u == [n \in 1 .. N |-> w[n]]
           h == [n \in 0 .. N |-> g[n]]
<1>5. u \in [1 .. N -> Nat] /\ h \in [0 .. N -> Nat] /\ h[N] = g[N]
  <2>1. /\ \A n \in 1 .. N : n \in 1 .. N + 1
        /\ \A n \in 0 .. N : n \in 0 .. N + 1
        /\ N \in 0 .. N
    OBVIOUS
  <2>2. u \in [1 .. N -> Nat]
    BY <1>4, <2>1 DEF Sums
  <2>3. h \in [0 .. N -> Nat] /\ h[N] = g[N]
    BY <1>4, <2>1 DEF Sums
  <2> QED BY <2>2, <2>3
<1>6. Sums(h, u, N)
  <2>1. h[0] = 0
    BY <1>4 DEF Sums
  <2>2. ASSUME NEW n \in 1 .. N PROVE h[n] = h[n - 1] + u[n]
    <3>1. n \in 1 .. N + 1 /\ n \in 0 .. N /\ n - 1 \in 0 .. N
      OBVIOUS
    <3>2. g[n] = g[n - 1] + w[n]
      BY <1>4, <3>1 DEF Sums
    <3> QED BY <3>1, <3>2
  <2> HIDE DEF h, u
  <2> QED BY <1>5, <2>1, <2>2 DEF Sums
<1>7. \A n \in 1 .. N : w[n] = v[n]
  <2>1. ASSUME NEW n \in 1 .. N PROVE w[n] = v[n]
    <3>1. n \in 1 .. Len(E) /\ n \in 1 .. Len(D)
      BY <1>1
    <3>2. w[n] = (IF n \in M THEN E[n][field] ELSE 0) /\ v[n] = (IF n \in L THEN D[n][field] ELSE 0)
      BY <1>3, <1>4, <3>1 DEF Counters
    <3> QED BY <3>1, <3>2
  <2> QED BY <2>1
<1>8. h[N] = f[N]
  <2>1. PICK d \in Nat \ {0}, e \in Nat : d = N + 1 /\ e = 0
    OBVIOUS
  <2>2. Exceeds(u, v, d, e, N)
    BY <1>3, <1>7, <2>1 DEF Exceeds, Sums
  <2> HIDE DEF h, u
  <2>3. h[N] = f[N] + (IF d <= N THEN e ELSE 0)
    BY <1>3, <1>5, <1>6, <2>1, <2>2, SumsDiffer
  <2>4. f[N] \in Nat
    BY <1>3 DEF Sums
  <2> QED BY <2>1, <2>3, <2>4
<1>9. g[N + 1] = g[N] + w[N + 1] /\ w[N + 1] = 0
  <2>1. N + 1 \in 1 .. N + 1 /\ (N + 1) - 1 = N
    OBVIOUS
  <2>2. g[N + 1] = g[N] + w[N + 1]
    BY <1>4, <2>1 DEF Sums
  <2>3. w[N + 1] = IF N + 1 \in M THEN E[N + 1][field] ELSE 0
    BY <1>1, <1>4, <2>1 DEF Counters
  <2> QED BY <1>1, <2>2, <2>3
<1>10. f[N] \in Nat
  BY <1>3 DEF Sums
<1> QED BY <1>3, <1>4, <1>5, <1>8, <1>9, <1>10

-----------------------------------------------------------------------------
(* The order in which sweep and dump visit the chains B. *)
RowsOf(B) ==
  LET upto[h \in 0 .. TABLE_BUCKETS] ==
        IF h = 0 THEN << >> ELSE upto[h - 1] \o B[h - 1]
  IN  upto[TABLE_BUCKETS]

LEMMA RowsForm == Rows = RowsOf(buckets) /\ Rows' = RowsOf(buckets')
  BY DEF Rows, RowsOf

Chains == [0 .. TABLE_BUCKETS - 1 -> Seq(Nat)]

(* u[h] is what the first h chains hold, one after the other. *)
Lines(u, B) ==
  /\ \A h \in 0 .. TABLE_BUCKETS : u[h] \in Seq(Nat)
  /\ u[0] = << >> /\ \A h \in 1 .. TABLE_BUCKETS : u[h] = u[h - 1] \o B[h - 1]

(* RowsOf is the last of the lines. *)
LEMMA LinesForm ==
  ASSUME NEW B \in Chains
  PROVE  \E u : Lines(u, B) /\ RowsOf(B) = u[TABLE_BUCKETS]
<1> DEFINE N == TABLE_BUCKETS
           A == Seq(Nat)
           G == [p \in (1 .. N) \X A |-> p[2] \o B[p[1] - 1]]
<1>0. N \in Nat /\ << >> \in A
  BY TableAssumption
<1>1. \A h \in 1 .. N : h - 1 \in 0 .. N - 1 /\ h - 1 \in 0 .. N /\ B[h - 1] \in A
  BY <1>0 DEF Chains
<1>2. \A h \in 1 .. N, a \in A : G[<<h, a>>] = a \o B[h - 1]
  BY Zenon
<1>3. \A h \in 1 .. N, a \in A : a \o B[h - 1] \in A
  <2>1. ASSUME NEW h \in 1 .. N, NEW a \in A PROVE a \o B[h - 1] \in A
    <3>1. PICK c \in A : c = B[h - 1]
      BY <1>1
    <3>2. a \o c \in A
      OBVIOUS
    <3> QED BY <3>1, <3>2
  <2> QED BY <2>1
<1>4. Stays(G, N, A)
  <2> HIDE DEF G, A, N
  <2> QED BY <1>2, <1>3, Zenon DEF Stays
<1>5. PICK f : Steps(f, << >>, G, N, A)
  <2> HIDE DEF G, A, N
  <2> QED BY <1>0, <1>4, StepByStep
<1>6. /\ f \in [0 .. N -> A] /\ f[0] = << >>
      /\ \A h \in 1 .. N : f[h] = f[h - 1] \o B[h - 1]
  <2> HIDE DEF G, A, N
  <2>1. f \in [0 .. N -> A] /\ f[0] = << >> /\ \A h \in 1 .. N : f[h] = G[<<h, f[h - 1]>>]
    BY <1>5 DEF Steps
  <2>2. \A h \in 1 .. N : f[h - 1] \in A
    BY <1>1, <2>1
  <2> QED BY <1>2, <2>1, <2>2, Zenon
<1> HIDE DEF G
<1> DEFINE Unrolled(s) == s = [h \in 0 .. N |-> IF h = 0 THEN << >> ELSE s[h - 1] \o B[h - 1]]
           upto == CHOOSE s : Unrolled(s)
<1>7. Unrolled(f)
  <2>1. \A h \in 0 .. N : h # 0 => h \in 1 .. N
    BY <1>0
  <2> HIDE DEF A, N
  <2>2. \A h \in 0 .. N : f[h] = IF h = 0 THEN << >> ELSE f[h - 1] \o B[h - 1]
    BY <1>6, <2>1, Zenon
  <2> QED BY <1>6, <2>2, Zenon
<1>8. Unrolled(upto)
  <2> HIDE DEF Unrolled
  <2> QED BY <1>7
<1>9. RowsOf(B) = upto[N]
  BY DEF RowsOf
<1> HIDE DEF upto
<1>10. upto[0] = << >> /\ \A h \in 1 .. N : upto[h] = upto[h - 1] \o B[h - 1]
  <2>1. \A h \in 1 .. N : h \in 0 .. N /\ h # 0
    BY <1>0
  <2>2. 0 \in 0 .. N
    BY <1>0
  <2> HIDE DEF A, N
  <2> QED BY <1>8, <2>1, <2>2, Zenon
<1>11. \A h \in 0 .. N : upto[h] \in A
  <2> DEFINE S == {h \in Nat : h <= N /\ upto[h] \in A}
  <2>0. upto[0] \in A
    BY <1>0, <1>10, Zenon
  <2>1. 0 \in S
    BY <1>0, <2>0
  <2>2. ASSUME NEW h \in Nat, h < N, h \in S PROVE h + 1 \in S
    <3>1. h + 1 \in 1 .. N /\ (h + 1) - 1 = h /\ h + 1 \in Nat /\ h + 1 <= N
      BY <1>0, <2>2
    <3>2. upto[h + 1] = upto[h] \o B[h] /\ upto[h] \in A /\ B[h] \in A
      BY <1>1, <1>10, <2>2, <3>1, Zenon
    <3>3. upto[h + 1] \in A
      BY <1>3, <3>1, <3>2
    <3> QED BY <3>1, <3>3
  <2>3. \A h \in 0 .. N : h \in S
    <3> HIDE DEF S, A, N
    <3> QED BY <1>0, <2>1, <2>2, UpTo
  <2> QED BY <2>3
<1>12. Lines(upto, B)
  BY <1>10, <1>11, Zenon DEF Lines
<1> QED BY <1>9, <1>12

(* What follows when r is s with t behind it, and where the entries of r come from. *)
Joined(s, t, r) ==
  /\ s \in Seq(Nat) /\ t \in Seq(Nat) /\ Len(r) = Len(s) + Len(t)
  /\ \A k \in 1 .. Len(s) : k \in 1 .. Len(r) /\ r[k] = s[k]
  /\ \A k \in 1 .. Len(r) : k \notin 1 .. Len(s) =>
       k - Len(s) \in 1 .. Len(t) /\ r[k] = t[k - Len(s)]

LEMMA JoinedForm ==
  ASSUME NEW s \in Seq(Nat), NEW t \in Seq(Nat)
  PROVE  Joined(s, t, s \o t)
BY DEF Joined

(* Reading one more chain puts its entries behind the rows read before. *)
LEMMA NextLine ==
  ASSUME NEW B, B \in Chains, NEW u, Lines(u, B), NEW h \in Nat, h < TABLE_BUCKETS
  PROVE  h \in 0 .. TABLE_BUCKETS - 1 /\ Joined(u[h], B[h], u[h + 1])
<1>0. TABLE_BUCKETS \in Nat
  BY TableAssumption
<1>1. /\ h \in 0 .. TABLE_BUCKETS - 1 /\ h \in 0 .. TABLE_BUCKETS
      /\ h + 1 \in 1 .. TABLE_BUCKETS /\ (h + 1) - 1 = h
  BY <1>0
<1>2. u[h] \in Seq(Nat) /\ B[h] \in Seq(Nat) /\ u[h + 1] = u[h] \o B[h]
  BY <1>1, Zenon DEF Lines, Chains
<1>3. Joined(u[h], B[h], u[h] \o B[h])
  BY <1>2, JoinedForm
<1> QED BY <1>1, <1>2, <1>3

(* A row is an entry of a chain. *)
LEMMA RowsListed ==
  ASSUME NEW B \in Chains
  PROVE  /\ RowsOf(B) \in Seq(Nat)
         /\ \A k \in 1 .. Len(RowsOf(B)) :
              \E g \in 0 .. TABLE_BUCKETS - 1 : \E j \in 1 .. Len(B[g]) : RowsOf(B)[k] = B[g][j]
<1>0. TABLE_BUCKETS \in Nat /\ TABLE_BUCKETS \in 0 .. TABLE_BUCKETS
  BY TableAssumption
<1>1. PICK u : Lines(u, B) /\ RowsOf(B) = u[TABLE_BUCKETS]
  BY LinesForm
<1> DEFINE P(h) == \A k \in 1 .. Len(u[h]) :
              \E g \in 0 .. TABLE_BUCKETS - 1 : \E j \in 1 .. Len(B[g]) : u[h][k] = B[g][j]
           S == {h \in Nat : P(h)}
<1>2. 0 \in S
  BY <1>1 DEF Lines
<1>3. ASSUME NEW h \in Nat, h < TABLE_BUCKETS, h \in S PROVE h + 1 \in S
  <2>1. P(h)
    BY <1>3
  <2>j. h \in 0 .. TABLE_BUCKETS - 1 /\ Joined(u[h], B[h], u[h + 1])
    BY <1>1, <1>3, NextLine
  <2>2. ASSUME NEW k \in 1 .. Len(u[h + 1])
        PROVE  \E g \in 0 .. TABLE_BUCKETS - 1 : \E j \in 1 .. Len(B[g]) : u[h + 1][k] = B[g][j]
    <3>1. CASE k \in 1 .. Len(u[h])
      <4>1. u[h + 1][k] = u[h][k]
        BY <2>j, <3>1, Zenon DEF Joined
      <4> QED BY <2>1, <3>1, <4>1
    <3>2. CASE k \notin 1 .. Len(u[h])
      <4>1. /\ h \in 0 .. TABLE_BUCKETS - 1 /\ k - Len(u[h]) \in 1 .. Len(B[h])
            /\ u[h + 1][k] = B[h][k - Len(u[h])]
        BY <2>j, <3>2, Zenon DEF Joined
      <4> QED BY <4>1
    <3> QED BY <3>1, <3>2
  <2>3. P(h + 1)
    BY <2>2
  <2> QED BY <2>3
<1>4. TABLE_BUCKETS \in S
  <2> HIDE DEF S
  <2>1. \A h \in 0 .. TABLE_BUCKETS : h \in S
    BY <1>0, <1>2, <1>3, UpTo
  <2> QED BY <1>0, <2>1
<1>5. P(TABLE_BUCKETS)
  BY <1>4
<1>6. u[TABLE_BUCKETS] \in Seq(Nat)
  BY <1>0, <1>1 DEF Lines
<1> QED BY <1>1, <1>5, <1>6

(* No entry occurs twice, in one chain or in two. *)
Separate(B) ==
  \A g, h \in 0 .. TABLE_BUCKETS - 1 : \A i \in 1 .. Len(B[g]), j \in 1 .. Len(B[h]) :
    B[g][i] = B[h][j] => g = h /\ i = j

LEMMA SeparateAt ==
  ASSUME NEW B, Separate(B), NEW f \in 0 .. TABLE_BUCKETS - 1, NEW g \in 0 .. TABLE_BUCKETS - 1,
         NEW i \in 1 .. Len(B[f]), NEW j \in 1 .. Len(B[g]), B[f][i] = B[g][j]
  PROVE  f = g /\ i = j
BY DEF Separate

LEMMA RowsSeparate ==
  ASSUME NEW B \in Chains, Separate(B)
  PROVE  \A j, k \in 1 .. Len(RowsOf(B)) : RowsOf(B)[j] = RowsOf(B)[k] => j = k
<1>0. TABLE_BUCKETS \in Nat /\ TABLE_BUCKETS \in 0 .. TABLE_BUCKETS
  BY TableAssumption
<1>1. PICK u : Lines(u, B) /\ RowsOf(B) = u[TABLE_BUCKETS]
  BY LinesForm
<1> DEFINE From(h) == \A k \in 1 .. Len(u[h]) : \E g \in 0 .. h - 1 : \E i \in 1 .. Len(B[g]) : u[h][k] = B[g][i]
           Once(h) == \A j, k \in 1 .. Len(u[h]) : u[h][j] = u[h][k] => j = k
           S == {h \in Nat : From(h) /\ Once(h)}
<1>2. 0 \in S
  BY <1>1 DEF Lines
<1>3. ASSUME NEW h \in Nat, h < TABLE_BUCKETS, h \in S PROVE h + 1 \in S
  <2>j. h \in 0 .. TABLE_BUCKETS - 1 /\ Joined(u[h], B[h], u[h + 1])
    BY <1>1, <1>3, NextLine
  <2>f. From(h) /\ Once(h)
    BY <1>3
  <2>0. /\ h \in 0 .. (h + 1) - 1 /\ h \in 0 .. TABLE_BUCKETS - 1
        /\ \A g \in 0 .. h - 1 : g \in 0 .. (h + 1) - 1 /\ g \in 0 .. TABLE_BUCKETS - 1 /\ g # h
    BY <1>0, <1>3
  <2>1. /\ u[h] \in Seq(Nat) /\ B[h] \in Seq(Nat)
        /\ \A k \in 1 .. Len(u[h]) : k \in 1 .. Len(u[h + 1]) /\ u[h + 1][k] = u[h][k]
        /\ \A k \in 1 .. Len(u[h + 1]) : k \notin 1 .. Len(u[h]) =>
             k - Len(u[h]) \in 1 .. Len(B[h]) /\ u[h + 1][k] = B[h][k - Len(u[h])]
    BY <2>j, Zenon DEF Joined
  <2>2. From(h + 1)
    <3>1. ASSUME NEW k \in 1 .. Len(u[h + 1])
          PROVE  \E g \in 0 .. (h + 1) - 1 : \E i \in 1 .. Len(B[g]) : u[h + 1][k] = B[g][i]
      <4>1. CASE k \in 1 .. Len(u[h])
        <5>1. PICK g \in 0 .. h - 1 : \E i \in 1 .. Len(B[g]) : u[h][k] = B[g][i]
          BY <2>f, <4>1
        <5>2. u[h + 1][k] = u[h][k] /\ g \in 0 .. (h + 1) - 1
          BY <2>0, <2>1, <4>1
        <5> QED BY <5>1, <5>2
      <4>2. CASE k \notin 1 .. Len(u[h])
        BY <2>0, <2>1, <4>2, Zenon
      <4> QED BY <4>1, <4>2
    <3> QED BY <3>1, Zenon
  <2>3. Once(h + 1)
    <3> SUFFICES ASSUME NEW j \in 1 .. Len(u[h + 1]), NEW k \in 1 .. Len(u[h + 1]),
                        u[h + 1][j] = u[h + 1][k]
                 PROVE  j = k
      OBVIOUS
    <3>0. \A i \in 1 .. Len(u[h]), l \in 1 .. Len(B[h]) : u[h][i] # B[h][l]
      <4> SUFFICES ASSUME NEW i \in 1 .. Len(u[h]), NEW l \in 1 .. Len(B[h]), u[h][i] = B[h][l]
                   PROVE  FALSE
        OBVIOUS
      <4>1. PICK g \in 0 .. h - 1 : \E m \in 1 .. Len(B[g]) : u[h][i] = B[g][m]
        BY <2>f
      <4>2. PICK m \in 1 .. Len(B[g]) : u[h][i] = B[g][m]
        BY <4>1
      <4>3. g \in 0 .. TABLE_BUCKETS - 1 /\ g # h /\ B[g][m] = B[h][l]
        BY <2>0, <4>2
      <4> QED BY <2>0, <4>3 DEF Separate
    <3>1. CASE j \in 1 .. Len(u[h]) /\ k \in 1 .. Len(u[h])
      <4>1. u[h][j] = u[h][k]
        BY <2>1, <3>1
      <4> QED BY <2>f, <3>1, <4>1
    <3>2. CASE j \in 1 .. Len(u[h]) /\ k \notin 1 .. Len(u[h])
      BY <2>1, <3>0, <3>2, Zenon
    <3>3. CASE j \notin 1 .. Len(u[h]) /\ k \in 1 .. Len(u[h])
      BY <2>1, <3>0, <3>3, Zenon
    <3>4. CASE j \notin 1 .. Len(u[h]) /\ k \notin 1 .. Len(u[h])
      <4>1. /\ j - Len(u[h]) \in 1 .. Len(B[h]) /\ k - Len(u[h]) \in 1 .. Len(B[h])
            /\ B[h][j - Len(u[h])] = B[h][k - Len(u[h])]
        BY <2>1, <3>4
      <4>2. j - Len(u[h]) = k - Len(u[h])
        BY <2>0, <4>1 DEF Separate
      <4>3. Len(u[h]) \in Nat /\ j \in Int /\ k \in Int
        BY <2>1
      <4> QED BY <4>2, <4>3
    <3> QED BY <3>1, <3>2, <3>3, <3>4
  <2> HIDE DEF From, Once
  <2> QED BY <2>2, <2>3
<1>4. TABLE_BUCKETS \in S
  <2> HIDE DEF S
  <2>1. \A h \in 0 .. TABLE_BUCKETS : h \in S
    BY <1>0, <1>2, <1>3, UpTo
  <2> QED BY <1>0, <2>1
<1>5. Once(TABLE_BUCKETS)
  BY <1>4
<1> QED BY <1>1, <1>5

(* One chain is longer by e. *)
Lengthens(B, C, g, e) ==
  \A h \in 0 .. TABLE_BUCKETS - 1 : Len(C[h]) = Len(B[h]) + (IF h = g THEN e ELSE 0)

LEMMA RowsGrow ==
  ASSUME NEW B, B \in Chains, NEW C, C \in Chains, NEW g \in 0 .. TABLE_BUCKETS - 1,
         NEW e \in Nat, Lengthens(B, C, g, e)
  PROVE  Len(RowsOf(C)) = Len(RowsOf(B)) + e
<1>0. TABLE_BUCKETS \in Nat /\ TABLE_BUCKETS \in 0 .. TABLE_BUCKETS
  BY TableAssumption
<1>1. PICK u : Lines(u, B) /\ RowsOf(B) = u[TABLE_BUCKETS]
  BY LinesForm
<1>2. PICK w : Lines(w, C) /\ RowsOf(C) = w[TABLE_BUCKETS]
  BY LinesForm
<1> DEFINE S == {h \in Nat : h <= TABLE_BUCKETS /\ Len(w[h]) = Len(u[h]) + (IF g < h THEN e ELSE 0)}
<1>3. 0 \in S
  <2>1. Len(w[0]) = 0 /\ Len(u[0]) = 0 /\ ~(g < 0)
    BY <1>1, <1>2 DEF Lines
  <2> QED BY <1>0, <2>1
<1>4. ASSUME NEW h \in Nat, h < TABLE_BUCKETS, h \in S PROVE h + 1 \in S
  <2>j. h \in 0 .. TABLE_BUCKETS - 1 /\ Joined(u[h], B[h], u[h + 1])
    BY <1>1, <1>4, NextLine
  <2>k. Joined(w[h], C[h], w[h + 1])
    BY <1>2, <1>4, NextLine
  <2>1. /\ h \in 0 .. TABLE_BUCKETS - 1 /\ Len(u[h + 1]) = Len(u[h]) + Len(B[h])
        /\ u[h] \in Seq(Nat) /\ B[h] \in Seq(Nat)
    BY <2>j DEF Joined
  <2>2. Len(w[h + 1]) = Len(w[h]) + Len(C[h])
    BY <2>k DEF Joined
  <2>3. Len(C[h]) = Len(B[h]) + (IF h = g THEN e ELSE 0) /\ Len(w[h]) = Len(u[h]) + (IF g < h THEN e ELSE 0)
    BY <1>4, <2>1, Zenon DEF Lengthens
  <2>4. Len(u[h]) \in Nat /\ Len(B[h]) \in Nat
    BY <2>1
  <2>5. g < h + 1 <=> (g < h \/ h = g)
    OBVIOUS
  <2>6. Len(w[h + 1]) = Len(u[h + 1]) + (IF g < h + 1 THEN e ELSE 0)
    <3> DEFINE a == Len(u[h])  b == Len(B[h])
    <3>1. a \in Nat /\ b \in Nat
      BY <2>4
    <3>2. Len(w[h + 1]) = (a + (IF g < h THEN e ELSE 0)) + (b + (IF h = g THEN e ELSE 0))
      BY <2>2, <2>3
    <3>3. Len(u[h + 1]) = a + b
      BY <2>1
    <3> HIDE DEF a, b
    <3> QED BY <2>5, <3>1, <3>2, <3>3
  <2>7. h + 1 \in Nat /\ h + 1 <= TABLE_BUCKETS
    BY <1>0, <1>4
  <2> QED BY <2>6, <2>7, Zenon
<1>5. TABLE_BUCKETS \in S
  <2> HIDE DEF S
  <2>1. \A h \in 0 .. TABLE_BUCKETS : h \in S
    BY <1>0, <1>3, <1>4, UpTo
  <2> QED BY <1>0, <2>1
<1>6. g < TABLE_BUCKETS
  BY <1>0
<1> QED BY <1>1, <1>2, <1>5, <1>6

LEMMA RowsEmpty ==
  ASSUME NEW B \in Chains, \A h \in 0 .. TABLE_BUCKETS - 1 : B[h] = << >>
  PROVE  Len(RowsOf(B)) = 0
<1>1. RowsOf(B) \in Seq(Nat) /\ \A k \in 1 .. Len(RowsOf(B)) : FALSE
  BY RowsListed
<1> QED BY <1>1

-----------------------------------------------------------------------------
(* dt_dump.  While the reaper holds the read lock nobody links a device, so *)
(* the rows printed so far are the first rows of a table that stays, and    *)
(* there are as many rows in all as the heading said.                       *)
RowType == [id : Ids, temp : 0 .. MaxReadings, humid : 0 .. MaxReadings]

DumpType ==
  [pc : {"idle", "load", "store", "temp", "humid", "dumped"}, row : Nat \ {0},
   at : 0 .. MaxTime, header : Nat, temp : 0 .. MaxReadings, rows : Seq(RowType)]

Printed ==
  rp.pc \in {"temp", "humid"} =>
    /\ rp.header = device_count /\ Len(rp.rows) = rp.row - 1 /\ rp.row <= device_count + 1
    /\ rp.pc = "humid" => rp.row <= device_count
    /\ \A j \in 1 .. Len(rp.rows) : rp.rows[j].id = devs[Rows[j]].id

DumpInv ==
  /\ rp \in DumpType
  /\ Separate(buckets) /\ Len(Rows) = device_count
  /\ rp.pc \in {"load", "store", "temp", "humid"} => Reaper \in readlock
  /\ Printed
  /\ DumpMatchesHeading

LEMMA RowsAreDevices ==
  ASSUME IInv
  PROVE  /\ buckets \in Chains /\ Rows \in Seq(Nat)
         /\ \A k \in 1 .. Len(Rows) : Rows[k] \in Listed /\ Rows[k] \in 1 .. Len(devs)
<1>1. buckets \in Chains
  BY DEF IInv, Typed, Chains
<1>2. /\ RowsOf(buckets) \in Seq(Nat)
      /\ \A k \in 1 .. Len(RowsOf(buckets)) :
           \E g \in 0 .. TABLE_BUCKETS - 1 : \E j \in 1 .. Len(buckets[g]) :
             RowsOf(buckets)[k] = buckets[g][j]
  BY <1>1, RowsListed
<1>3. /\ Rows \in Seq(Nat)
      /\ \A k \in 1 .. Len(Rows) :
           \E g \in 0 .. TABLE_BUCKETS - 1 : \E j \in 1 .. Len(buckets[g]) : Rows[k] = buckets[g][j]
  BY <1>2, RowsForm
<1>4. \A k \in 1 .. Len(Rows) : Rows[k] \in Listed
  BY <1>3, ListedForm DEF IInv
<1>5. \A p \in Listed : p \in 1 .. Len(devs)
  BY ListedForm DEF IInv, ChainsAreSorted
<1> QED BY <1>1, <1>3, <1>4, <1>5

LEMMA SameRows ==
  ASSUME IInv, SameDevices, Len(Rows) = device_count, Separate(buckets)
  PROVE  /\ Rows' = Rows /\ Separate(buckets)' /\ Len(Rows)' = device_count'
         /\ \A k \in 1 .. Len(Rows) : devs'[Rows[k]].id = devs[Rows[k]].id
<1>1. Rows' = Rows
  BY RowsForm DEF SameDevices
<1>2. \A k \in 1 .. Len(Rows) : Rows[k] \in 1 .. Len(devs)
  BY RowsAreDevices
<1>3. Separate(buckets)'
  BY DEF Separate, SameDevices
<1> QED BY <1>1, <1>2, <1>3 DEF SameDevices

LEMMA InitDump ==
  ASSUME Init, IInv
  PROVE  DumpInv
<1>1. rp \in DumpType
  BY TableAssumption DEF Init, IdleReaper, DumpType
<1>2. buckets \in Chains /\ \A h \in 0 .. TABLE_BUCKETS - 1 : buckets[h] = << >>
  BY RowsAreDevices DEF Init
<1>3. Len(RowsOf(buckets)) = 0
  BY <1>2, RowsEmpty
<1>4. Len(Rows) = device_count
  BY <1>3, RowsForm DEF Init
<1>5. Separate(buckets)
  BY <1>2 DEF Separate
<1>6. rp.pc = "idle"
  BY DEF Init, IdleReaper
<1> QED BY <1>1, <1>4, <1>5, <1>6 DEF DumpInv, Printed, DumpMatchesHeading

(* The reaper rests, and no device is linked. *)
LEMMA RestDump ==
  ASSUME IInv, DumpInv, SameDevices, UNCHANGED <<rp, readlock>>
  PROVE  DumpInv'
<1>1. /\ Rows' = Rows /\ Separate(buckets)' /\ Len(Rows)' = device_count'
      /\ \A k \in 1 .. Len(Rows) : devs'[Rows[k]].id = devs[Rows[k]].id
  BY SameRows DEF DumpInv
<1>2. Printed'
  <2> SUFFICES ASSUME rp.pc \in {"temp", "humid"}
               PROVE  Printed'
    BY DEF Printed
  <2>1. /\ rp.header = device_count /\ Len(rp.rows) = rp.row - 1 /\ rp.row <= device_count + 1
        /\ rp.pc = "humid" => rp.row <= device_count
        /\ \A j \in 1 .. Len(rp.rows) : rp.rows[j].id = devs[Rows[j]].id
    BY DEF DumpInv, Printed
  <2>2. device_count \in Nat /\ rp.row \in Nat /\ Len(Rows) = device_count
    BY DEF DumpInv, DumpType, IInv, Typed
  <2>3. \A j \in 1 .. Len(rp.rows) : j \in 1 .. Len(Rows)
    BY <2>1, <2>2
  <2>4. \A j \in 1 .. Len(rp.rows) : rp.rows[j].id = devs'[Rows'[j]].id
    BY <1>1, <2>1, <2>3
  <2>5. device_count' = device_count
    BY DEF SameDevices
  <2> QED BY <2>1, <2>4, <2>5 DEF Printed
<1>3. DumpMatchesHeading'
  BY DEF DumpInv, DumpMatchesHeading
<1> QED BY <1>1, <1>2, <1>3 DEF DumpInv

(* The walk of the sweep, and the end of a dump's report. *)
LEMMA SweepDump ==
  ASSUME IInv, DumpInv, SameDevices, SweepStep \/ DumpReturn
  PROVE  DumpInv'
<1>a. /\ Separate(buckets)' /\ Len(Rows)' = device_count'
  BY SameRows DEF DumpInv
<1>b. rp \in DumpType /\ now \in 0 .. MaxTime
  BY DEF DumpInv, IInv, Typed
<1>c. IdleReaper \in DumpType
  BY TableAssumption DEF IdleReaper, DumpType
<1>1. CASE SweepStart
  <2>1. rp' \in DumpType /\ rp'.pc = "load" /\ Reaper \in readlock'
    BY <1>1, <1>b, <1>c, Zenon DEF SweepStart, DumpType, IdleReaper
  <2> QED BY <1>a, <2>1 DEF DumpInv, Printed, DumpMatchesHeading
<1>2. CASE SweepLoad \/ SweepStore
  <2>0. ASSUME NEW n \in Nat \ {0}
        PROVE  /\ [rp EXCEPT !.pc = "store"] \in DumpType
               /\ [rp EXCEPT !.row = n] \in DumpType
               /\ [rp EXCEPT !.pc = "load", !.row = n] \in DumpType
               /\ [rp EXCEPT !.pc = "store"].pc = "store"
               /\ [rp EXCEPT !.row = n].pc = rp.pc
               /\ [rp EXCEPT !.pc = "load", !.row = n].pc = "load"
    BY <1>b, Zenon DEF DumpType
  <2>n. rp.row + 1 \in Nat \ {0}
    BY <1>b DEF DumpType
  <2>1. /\ \/ rp' = [rp EXCEPT !.pc = "store"]
           \/ rp' = [rp EXCEPT !.row = rp.row + 1] /\ rp.pc = "load"
           \/ rp' = [rp EXCEPT !.pc = "load", !.row = rp.row + 1]
        /\ readlock' = readlock /\ rp.pc \in {"load", "store"}
    BY <1>2 DEF SweepLoad, SweepStore
  <2>2. rp' \in DumpType /\ rp'.pc \in {"load", "store"}
    BY <2>0, <2>1, <2>n, Zenon
  <2>3. Reaper \in readlock'
    BY <2>1 DEF DumpInv
  <2> QED BY <1>a, <2>2, <2>3 DEF DumpInv, Printed, DumpMatchesHeading
<1>3. CASE SweepEnd \/ DumpReturn
  <2>1. rp' \in DumpType /\ rp'.pc = "idle"
    BY <1>3, <1>c DEF SweepEnd, DumpReturn, IdleReaper
  <2> QED BY <1>a, <2>1 DEF DumpInv, Printed, DumpMatchesHeading
<1> QED BY <1>1, <1>2, <1>3 DEF SweepStep

(* The dump prints one row after the other. *)
LEMMA RowDump ==
  ASSUME IInv, DumpInv, SameDevices, DumpStart \/ DumpTemp \/ DumpHumid
  PROVE  DumpInv'
<1>a. /\ Rows' = Rows /\ Separate(buckets)' /\ Len(Rows)' = device_count'
      /\ \A k \in 1 .. Len(Rows) : devs'[Rows[k]].id = devs[Rows[k]].id
  BY SameRows DEF DumpInv
<1>b. /\ rp \in DumpType /\ device_count \in Nat /\ device_count' = device_count
      /\ Len(Rows) = device_count /\ devs' = devs
  BY DEF DumpInv, IInv, Typed, SameDevices, DumpStart, DumpTemp, DumpHumid
<1>c. IdleReaper \in DumpType
  BY TableAssumption DEF IdleReaper, DumpType
<1>1. CASE DumpStart
  <2>1. /\ rp' \in DumpType /\ rp'.pc = "temp" /\ Reaper \in readlock'
        /\ rp'.header = device_count /\ rp'.row = 1 /\ rp'.rows = << >>
    BY <1>1, <1>b, <1>c, Zenon DEF DumpStart, DumpType, IdleReaper
  <2>2. Printed'
    BY <1>b, <2>1 DEF Printed
  <2> QED BY <1>a, <2>1, <2>2 DEF DumpInv, DumpMatchesHeading
<1>2. ASSUME rp.pc \in {"temp", "humid"}, rp.row <= Len(Rows)
      PROVE  /\ devs[Rows[rp.row]] \in DeviceType
             /\ rp.header = device_count /\ Len(rp.rows) = rp.row - 1
             /\ \A j \in 1 .. Len(rp.rows) : rp.rows[j].id = devs[Rows[j]].id
  <2>1. rp.row \in 1 .. Len(Rows)
    BY <1>b, <1>2 DEF DumpType
  <2>2. Rows[rp.row] \in 1 .. Len(devs)
    BY <2>1, RowsAreDevices
  <2>3. devs[Rows[rp.row]] \in DeviceType
    BY <2>2 DEF IInv, Typed
  <2> QED BY <1>2, <2>3 DEF DumpInv, Printed
<1>3. CASE DumpTemp
  <2>0. rp.pc = "temp" /\ rp.row <= Len(Rows) /\ readlock' = readlock
    BY <1>3 DEF DumpTemp
  <2> DEFINE v == devs[Rows[rp.row]].last_temp
  <2>1. v \in 0 .. MaxReadings
    BY <1>2, <2>0 DEF DeviceType
  <2>2. rp' = [rp EXCEPT !.pc = "humid", !.temp = v]
    BY <1>3 DEF DumpTemp
  <2> HIDE DEF v
  <2>3. /\ rp' \in DumpType /\ rp'.pc = "humid" /\ rp'.header = rp.header
        /\ rp'.row = rp.row /\ rp'.rows = rp.rows
    BY <1>b, <2>1, <2>2, Zenon DEF DumpType
  <2>4. Printed'
    BY <1>a, <1>b, <1>2, <2>0, <2>3 DEF Printed, DumpType
  <2>5. Reaper \in readlock'
    BY <2>0 DEF DumpInv
  <2> QED BY <1>a, <2>3, <2>4, <2>5 DEF DumpInv, DumpMatchesHeading
<1>4. CASE DumpHumid
  <2>0. rp.pc = "humid" /\ rp.row <= Len(Rows) /\ readlock' = readlock
    BY <1>4, <1>b DEF DumpHumid, DumpInv, Printed
  <2> DEFINE d == devs[Rows[rp.row]]
             r == [id |-> d.id, temp |-> rp.temp, humid |-> d.last_humid]
  <2>1. d \in DeviceType /\ r.id = devs[Rows[rp.row]].id
    BY <1>2, <2>0
  <2>2. rp' = [rp EXCEPT !.pc = "temp", !.row = rp.row + 1, !.rows = Append(rp.rows, r)]
    BY <1>4 DEF DumpHumid
  <2> HIDE DEF d
  <2>3. r \in RowType
    BY <1>b, <2>1 DEF DeviceType, RowType, DumpType
  <2> HIDE DEF r
  <2>4. rp.rows \in Seq(RowType) /\ rp.row \in Nat \ {0}
    BY <1>b DEF DumpType
  <2>5. /\ Append(rp.rows, r) \in Seq(RowType) /\ Len(Append(rp.rows, r)) = Len(rp.rows) + 1
        /\ Append(rp.rows, r)[Len(rp.rows) + 1] = r
        /\ \A j \in 1 .. Len(rp.rows) : Append(rp.rows, r)[j] = rp.rows[j]
    BY <2>3, <2>4
  <2>6. /\ rp' \in DumpType /\ rp'.pc = "temp" /\ rp'.header = rp.header
        /\ rp'.row = rp.row + 1 /\ rp'.rows = Append(rp.rows, r)
    <3>1. PICK n \in Nat \ {0} : n = rp.row + 1
      BY <2>4
    <3>2. PICK s \in Seq(RowType) : s = Append(rp.rows, r)
      BY <2>5, Zenon
    <3>3. rp' = [rp EXCEPT !.pc = "temp", !.row = n, !.rows = s]
      BY <2>2, <3>1, <3>2
    <3>4. /\ rp' \in DumpType /\ rp'.pc = "temp" /\ rp'.header = rp.header
          /\ rp'.row = n /\ rp'.rows = s
      BY <1>b, <3>3, Zenon DEF DumpType
    <3> QED BY <3>1, <3>2, <3>4
  <2>7. /\ rp.header = device_count /\ Len(rp.rows) = rp.row - 1
        /\ \A j \in 1 .. Len(rp.rows) : rp.rows[j].id = devs[Rows[j]].id
    BY <1>2, <2>0
  <2>8. \A j \in 1 .. Len(rp'.rows) : rp'.rows[j].id = devs'[Rows'[j]].id
    <3> SUFFICES ASSUME NEW j \in 1 .. Len(rp'.rows) PROVE rp'.rows[j].id = devs[Rows[j]].id
      BY <1>a, <1>b
    <3>1. j \in 1 .. Len(rp.rows) \/ j = Len(rp.rows) + 1
      BY <2>4, <2>5, <2>6
    <3>2. CASE j \in 1 .. Len(rp.rows)
      BY <2>5, <2>6, <2>7, <3>2
    <3>3. CASE j = Len(rp.rows) + 1
      <4>1. j = rp.row
        BY <2>4, <2>7, <3>3
      <4>2. rp'.rows[j] = r
        BY <2>5, <2>6, <3>3
      <4> QED BY <2>1, <4>1, <4>2
    <3> QED BY <3>1, <3>2, <3>3
  <2>9. Len(rp'.rows) = rp'.row - 1 /\ rp'.row <= device_count' + 1
    BY <1>b, <2>0, <2>4, <2>5, <2>6, <2>7
  <2>10. Printed'
    BY <1>b, <2>6, <2>7, <2>8, <2>9 DEF Printed
  <2>11. Reaper \in readlock'
    BY <2>0 DEF DumpInv
  <2> QED BY <1>a, <2>6, <2>10, <2>11 DEF DumpInv, DumpMatchesHeading
<1> QED BY <1>1, <1>3, <1>4

(* The dump has printed every row, each of another device. *)
LEMMA EndDump ==
  ASSUME IInv, DumpInv, SameDevices, DumpEnd
  PROVE  DumpInv'
<1>a. /\ Separate(buckets)' /\ Len(Rows)' = device_count'
  BY SameRows DEF DumpInv
<1>b. /\ rp \in DumpType /\ device_count \in Nat /\ Len(Rows) = device_count
      /\ rp.pc = "temp" /\ rp.row > Len(Rows) /\ rp' = [rp EXCEPT !.pc = "dumped"]
  BY DEF DumpInv, IInv, Typed, DumpEnd
<1>1. rp' \in DumpType /\ rp'.pc = "dumped" /\ rp'.header = rp.header /\ rp'.rows = rp.rows
  BY <1>b DEF DumpType
<1>2. /\ rp.header = device_count /\ Len(rp.rows) = rp.row - 1 /\ rp.row <= device_count + 1
      /\ \A j \in 1 .. Len(rp.rows) : rp.rows[j].id = devs[Rows[j]].id
  BY <1>b DEF DumpInv, Printed
<1>3. rp.row \in Nat /\ rp.rows \in Seq(RowType)
  BY <1>b DEF DumpType
<1>4. Len(rp.rows) = device_count /\ DOMAIN rp.rows = 1 .. Len(Rows)
  BY <1>b, <1>2, <1>3
<1>5. ASSUME NEW j \in 1 .. Len(Rows), NEW k \in 1 .. Len(Rows), rp.rows[j].id = rp.rows[k].id
      PROVE  j = k
  <2>1. devs[Rows[j]].id = devs[Rows[k]].id
    BY <1>b, <1>2, <1>4, <1>5
  <2>2. Rows[j] \in Listed /\ Rows[k] \in Listed /\ buckets \in Chains
    BY RowsAreDevices
  <2>3. Rows[j] = Rows[k]
    BY <2>1, <2>2 DEF IInv, NoDuplicateDevice
  <2>4. \A m, n \in 1 .. Len(RowsOf(buckets)) : RowsOf(buckets)[m] = RowsOf(buckets)[n] => m = n
    BY <2>2, RowsSeparate DEF DumpInv
  <2> QED BY <2>3, <2>4, RowsForm
<1>6. DumpMatchesHeading'
  BY <1>1, <1>2, <1>4, <1>5 DEF DumpMatchesHeading
<1> QED BY <1>a, <1>1, <1>6 DEF DumpInv, Printed

(* A device is linked: one more row.  No dump is under way then. *)
LEMMA LinkDump ==
  ASSUME IInv, DumpInv, NEW t \in Threads, th[t].pc = "create", Link(t),
         readlock = {}, UNCHANGED <<rp, readlock>>
  PROVE  DumpInv'
<1> DEFINE id == th[t].id
           new == Len(devs) + 1
           h == dt_hash(id)
<1>a. h \in 0 .. TABLE_BUCKETS - 1
  BY HashInRange, TableAssumption, Zenon DEF IInv, Typed
<1>b. /\ buckets \in Chains /\ Len(devs) \in Nat /\ new \in Nat /\ new \notin 1 .. Len(devs)
      /\ device_count \in Nat
  BY RowsAreDevices DEF IInv, Typed
<1>c. device_count' = device_count + 1 /\ buckets' = [buckets EXCEPT ![h] = <<new>> \o @]
  BY DEF Link
<1> HIDE DEF h, new
<1>1. /\ buckets' \in Chains
      /\ Len(buckets'[h]) = Len(buckets[h]) + 1 /\ buckets'[h][1] = new
      /\ \A k \in 1 .. Len(buckets[h]) : buckets'[h][k + 1] = buckets[h][k]
      /\ \A g \in 0 .. TABLE_BUCKETS - 1 : g # h => buckets'[g] = buckets[g]
      /\ buckets[h] \in Seq(Nat)
  <2>1. buckets[h] \in Seq(Nat) /\ <<new>> \in Seq(Nat) /\ Len(<<new>>) = 1
    BY <1>a, <1>b DEF Chains
  <2>2. <<new>> \o buckets[h] \in Seq(Nat)
    BY <2>1
  <2>3. /\ Len(<<new>> \o buckets[h]) = Len(buckets[h]) + 1 /\ (<<new>> \o buckets[h])[1] = new
        /\ \A k \in 1 .. Len(buckets[h]) : (<<new>> \o buckets[h])[k + 1] = buckets[h][k]
    BY <2>1
  <2>4. /\ buckets'[h] = <<new>> \o buckets[h]
        /\ \A g \in 0 .. TABLE_BUCKETS - 1 : g # h => buckets'[g] = buckets[g]
    BY <1>a, <1>b, <1>c DEF Chains
  <2>5. buckets' \in Chains
    BY <1>a, <1>b, <1>c, <2>2 DEF Chains
  <2> QED BY <2>1, <2>3, <2>4, <2>5, Zenon
<1>2. Len(RowsOf(buckets')) = Len(RowsOf(buckets)) + 1
  <2>1. ASSUME NEW g \in 0 .. TABLE_BUCKETS - 1
        PROVE  Len(buckets'[g]) = Len(buckets[g]) + (IF g = h THEN 1 ELSE 0)
    <3>0. buckets[g] \in Seq(Nat)
      BY <1>b DEF Chains
    <3>1. Len(buckets[g]) \in Nat
      BY <3>0
    <3>2. CASE g = h
      BY <1>1, <3>2
    <3>3. CASE g # h
      BY <1>1, <3>1, <3>3
    <3> QED BY <3>2, <3>3, Zenon
  <2>2. Lengthens(buckets, buckets', h, 1)
    BY <2>1, Zenon DEF Lengthens
  <2> QED BY <1>a, <1>b, <1>1, <2>2, RowsGrow
<1>3. Len(Rows)' = device_count'
  BY <1>c, <1>2, RowsForm DEF DumpInv
<1>4. \A g \in 0 .. TABLE_BUCKETS - 1 : \A k \in 1 .. Len(buckets[g]) : buckets[g][k] # new
  BY <1>b DEF IInv, ChainsAreSorted
<1>5. ASSUME NEW g \in 0 .. TABLE_BUCKETS - 1, NEW k \in 1 .. Len(buckets'[g])
      PROVE  \/ g = h /\ k = 1 /\ buckets'[g][k] = new
             \/ \E i \in 1 .. Len(buckets[g]) :
                  buckets'[g][k] = buckets[g][i] /\ i = (IF g = h THEN k - 1 ELSE k)
  <2>1. CASE g # h
    BY <1>1, <2>1
  <2>2. CASE g = h /\ k = 1
    BY <1>1, <2>2
  <2>3. CASE g = h /\ k # 1
    <3>1. k - 1 \in 1 .. Len(buckets[h]) /\ (k - 1) + 1 = k
      BY <1>1, <2>3
    <3>2. buckets'[g][k] = buckets[g][k - 1]
      BY <1>1, <2>3, <3>1
    <3> QED BY <2>3, <3>1, <3>2
  <2> QED BY <2>1, <2>2, <2>3
<1>6. Separate(buckets')
  <2> SUFFICES ASSUME NEW f \in 0 .. TABLE_BUCKETS - 1, NEW g \in 0 .. TABLE_BUCKETS - 1,
                      NEW j \in 1 .. Len(buckets'[f]), NEW k \in 1 .. Len(buckets'[g]),
                      buckets'[f][j] = buckets'[g][k]
               PROVE  f = g /\ j = k
    BY DEF Separate
  <2>1. CASE buckets'[f][j] = new
    <3>1. f = h /\ j = 1
      BY <1>4, <1>5, <2>1, Zenon
    <3>n. buckets'[g][k] = new
      BY <2>1
    <3>2. g = h /\ k = 1
      BY <1>4, <1>5, <3>n
    <3> QED BY <3>1, <3>2
  <2>2. CASE buckets'[f][j] # new
    <3>1. PICK i \in 1 .. Len(buckets[f]) :
            buckets'[f][j] = buckets[f][i] /\ i = (IF f = h THEN j - 1 ELSE j)
      BY <1>5, <2>2
    <3>2. PICK l \in 1 .. Len(buckets[g]) :
            buckets'[g][k] = buckets[g][l] /\ l = (IF g = h THEN k - 1 ELSE k)
      BY <1>5, <2>2
    <3>e. buckets[f][i] = buckets[g][l] /\ Separate(buckets)
      BY <3>1, <3>2, Zenon DEF DumpInv
    <3>3. f = g /\ i = l
      BY <3>e, SeparateAt
    <3>4. j \in Int /\ k \in Int
      OBVIOUS
    <3> QED BY <3>1, <3>2, <3>3, <3>4
  <2> QED BY <2>1, <2>2
<1>7. Separate(buckets)'
  BY <1>6 DEF Separate
<1>8. rp.pc \notin {"load", "store", "temp", "humid"}
  BY DEF DumpInv
<1> QED BY <1>3, <1>7, <1>8 DEF DumpInv, Printed, DumpMatchesHeading

LEMMA DumpStays ==
  ASSUME IInv, DumpInv, [Next]_vars
  PROVE  DumpInv'
<1>1. CASE UNCHANGED vars
  <2>1. SameDevices /\ UNCHANGED <<rp, readlock>>
    BY <1>1 DEF vars, IInv, Typed, SameDevices
  <2> QED BY <2>1, RestDump
<1>2. ASSUME NEW t \in Threads, FindOrCreate(t) PROVE DumpInv'
  <2>1. UNCHANGED <<rp, readlock>> /\ readlock = {}
    BY <1>2 DEF FindOrCreate
  <2>2. \/ SameDevices
        \/ th[t].pc = "create" /\ Link(t)
    BY <1>2, CreateStep
  <2> QED BY <2>1, <2>2, RestDump, LinkDump
<1>3. CASE SweepStep \/ DumpReturn
  <2>1. SameDevices
    BY <1>3, ReaperSteps DEF DumpStep
  <2> QED BY <1>3, <2>1, SweepDump
<1>4. CASE DumpStart \/ DumpTemp \/ DumpHumid
  <2>1. SameDevices
    BY <1>4, ReaperSteps DEF DumpStep
  <2> QED BY <1>4, <2>1, RowDump
<1>5. CASE DumpEnd
  <2>1. SameDevices
    BY <1>5, ReaperSteps DEF DumpStep
  <2> QED BY <1>5, <2>1, EndDump
<1>6. CASE Tick
  <2>1. SameDevices /\ UNCHANGED <<rp, readlock>>
    BY <1>6, ReaperSteps DEF Tick
  <2> QED BY <2>1, RestDump
<1>7. ASSUME NEW t \in Threads, HelloCall(t) \/ TouchCall(t) \/ FindFast(t) \/ Disconnect(t)
      PROVE  DumpInv'
  <2>1. SameDevices
    BY <1>7, CallSteps
  <2>2. UNCHANGED <<rp, readlock>>
    BY <1>7, Zenon DEF HelloCall, TouchCall, FindFast, Disconnect
  <2> QED BY <2>1, <2>2, RestDump
<1>8. ASSUME NEW t \in Threads,
             \/ RecordTemp(t) \/ RecordHumid(t) \/ RecordSeen(t) \/ RecordState(t)
             \/ RecordOk(t) \/ BadPacket(t)
      PROVE  DumpInv'
  <2>1. SameDevices
    BY <1>8, StoreSteps
  <2>2. UNCHANGED <<rp, readlock>>
    BY <1>8 DEF RecordTemp, RecordHumid, RecordSeen, RecordState, RecordOk, BadPacket
  <2> QED BY <2>1, <2>2, RestDump
<1> QED BY <1>1, <1>2, <1>3, <1>4, <1>5, <1>6, <1>7, <1>8, Zenon DEF Next, TableStep, DumpStep

(* A dump under the read lock prints as many rows as its heading announces, *)
(* each for another device, however many devices connect while it runs.     *)
THEOREM DumpsAreConsistent == Spec => []DumpMatchesHeading
<1>1. Init => IInv /\ DumpInv
  BY InitIInv, InitDump
<1>2. IInv /\ DumpInv /\ [Next]_vars => (IInv /\ DumpInv)'
  BY NextStep, DumpStays
<1>3. IInv /\ DumpInv => DumpMatchesHeading
  BY DEF DumpInv
<1> QED BY <1>1, <1>2, <1>3, PTL DEF Spec

-----------------------------------------------------------------------------
(* The counters.  The pointer that a thread keeps after dt_get_or_create is *)
(* NULL or of a device in the table, one it stores through is not NULL, and *)
(* the heartbeat thread never records a reading.                            *)
Recording == {"humid", "seen", "state", "ok"}

Points(T, L) ==
  /\ \A t \in Threads : T[t].pc \in Recording \cup {"active"} => T[t].dev = NULL \/ T[t].dev \in L
  /\ \A t \in Threads : T[t].pc \in Recording => T[t].dev # NULL
  /\ T[Udp].pc \in {"idle", "find", "create", "seen", "state"}

(* The same of one thread, t, that goes on with c. *)
Aims(t, c, L) ==
  /\ c.pc \in Recording \cup {"active"} => c.dev = NULL \/ c.dev \in L
  /\ c.pc \in Recording => c.dev # NULL
  /\ t = Udp => c.pc \in {"idle", "find", "create", "seen", "state"}

(* Thread t goes from b to c and does not enter or leave dt_record_sensor. *)
SamePlace(t, b, c) == t \in Workers => (b.pc \in Recording <=> c.pc \in Recording)

(* The workers inside dt_record_sensor. *)
InRecord(T) == {t \in Workers : T[t].pc \in Recording}

(* The counters of the listed devices L of D, and the workers still on      *)
(* their way, add up to n.                                                  *)
Adds(n, D, L, T) ==
  n = SumOf(D, L, "packets_ok") + SumOf(D, L, "packets_bad") + Cardinality(InRecord(T))

(* EveryPacketCounted, before and after a step, in terms of these. *)
LEMMA CountedForm ==
  /\ EveryPacketCounted <=> Adds(used.readings, devs, Listed, th)
  /\ EveryPacketCounted' <=> Adds(used'.readings, devs', Listed', th')
<1>1. /\ Total("packets_ok") = SumOf(devs, Listed, "packets_ok")
      /\ Total("packets_ok")' = SumOf(devs', Listed', "packets_ok")
  BY TotalForm
<1>2. /\ Total("packets_bad") = SumOf(devs, Listed, "packets_bad")
      /\ Total("packets_bad")' = SumOf(devs', Listed', "packets_bad")
  BY TotalForm
<1>3. EveryPacketCounted <=> Adds(used.readings, devs, Listed, th)
  BY <1>1, <1>2 DEF EveryPacketCounted, Adds, InRecord, Recording
<1>4. EveryPacketCounted' <=> Adds(used'.readings, devs', Listed', th')
  BY <1>1, <1>2 DEF EveryPacketCounted, Adds, InRecord, Recording
<1> QED BY <1>3, <1>4

LEMMA InRecordFinite ==
  ASSUME NEW T
  PROVE  IsFiniteSet(InRecord(T)) /\ Cardinality(InRecord(T)) \in Nat
<1>1. InRecord(T) \in SUBSET Workers
  BY DEF InRecord
<1> QED BY <1>1, TableAssumption, FS_Subset, FS_CardinalityType

(* U is T but for thread t. *)
Only(T, U, t) == \A u \in Threads : u # t => U[u] = T[u]

LEMMA Enters ==
  ASSUME NEW T, NEW U, NEW t \in Workers, Only(T, U, t),
         T[t].pc \notin Recording, U[t].pc \in Recording
  PROVE  Cardinality(InRecord(U)) = Cardinality(InRecord(T)) + 1
<1>1. InRecord(U) = InRecord(T) \cup {t} /\ t \notin InRecord(T)
  BY DEF InRecord, Only, Threads
<1> QED BY <1>1, InRecordFinite, FS_AddElement, Zenon

LEMMA Leaves ==
  ASSUME NEW T, NEW U, NEW t \in Workers, Only(T, U, t),
         T[t].pc \in Recording, U[t].pc \notin Recording
  PROVE  Cardinality(InRecord(T)) = Cardinality(InRecord(U)) + 1
<1>1. InRecord(T) = InRecord(U) \cup {t} /\ t \notin InRecord(U)
  BY DEF InRecord, Only, Threads
<1> QED BY <1>1, InRecordFinite, FS_AddElement, Zenon

LEMMA Remains ==
  ASSUME NEW T, NEW U, NEW t \in Threads, Only(T, U, t),
         t \in Workers => (T[t].pc \in Recording <=> U[t].pc \in Recording)
  PROVE  InRecord(U) = InRecord(T)
BY DEF InRecord, Only, Threads

LEMMA PointsMoved ==
  ASSUME NEW T, NEW U, NEW L, NEW M, Points(T, L), L \subseteq M,
         NEW t \in Threads, Only(T, U, t), Aims(t, U[t], M)
  PROVE  Points(U, M)
<1>1. Udp \in Threads
  BY DEF Threads
<1>2. ASSUME NEW u \in Threads, U[u].pc \in Recording \cup {"active"}
      PROVE  U[u].dev = NULL \/ U[u].dev \in M
  BY <1>2 DEF Points, Only, Aims
<1>3. ASSUME NEW u \in Threads, U[u].pc \in Recording PROVE U[u].dev # NULL
  BY <1>3 DEF Points, Only, Aims
<1>4. U[Udp].pc \in {"idle", "find", "create", "seen", "state"}
  BY <1>1 DEF Points, Only, Aims
<1> QED BY <1>2, <1>3, <1>4 DEF Points

(* find_locked returns a device of the table, or NULL. *)
LEMMA FoundListed ==
  ASSUME IInv, NEW id \in Ids
  PROVE  find_locked(id) = NULL \/ find_locked(id) \in Listed
<1> DEFINE chain == buckets[dt_hash(id)]
           hits == {j \in DOMAIN chain : devs[chain[j]].id = id}
           first == CHOOSE j \in hits : \A i \in hits : j <= i
<1>0. dt_hash(id) \in 0 .. TABLE_BUCKETS - 1
  BY HashInRange, TableAssumption
<1>1. chain \in Seq(Nat) /\ DOMAIN chain \subseteq Nat /\ DOMAIN chain = 1 .. Len(chain)
  <2>2. \A h \in 0 .. TABLE_BUCKETS - 1 : /\ buckets[h] \in Seq(Nat) /\ DOMAIN buckets[h] \subseteq Nat
                                          /\ DOMAIN buckets[h] = 1 .. Len(buckets[h])
    BY DEF IInv, Typed
  <2> QED BY <1>0, <2>2, Zenon
<1>2. CASE hits = {}
  BY <1>2, Zenon DEF find_locked
<1>3. CASE hits # {}
  <2>1. first \in hits
    <3>1. \E j \in hits : \A i \in hits : j <= i
      BY <1>1, <1>3, Smallest, Zenon
    <3> QED BY <3>1, Zenon
  <2>2. find_locked(id) = chain[first]
    BY <1>3, Zenon DEF find_locked
  <2> HIDE DEF first
  <2>3. first \in 1 .. Len(chain)
    BY <1>1, <2>1
  <2>4. chain[first] \in Listed
    BY <1>0, <2>3, ListedForm DEF IInv
  <2> QED BY <2>2, <2>4
<1> QED BY <1>2, <1>3

-----------------------------------------------------------------------------
LEMMA CountersTyped ==
  ASSUME NEW D \in Seq(DeviceType)
  PROVE  Counts(D, "packets_ok") /\ Counts(D, "packets_bad") /\ Len(D) \in Nat
<1>1. \A r \in DeviceType : r["packets_ok"] \in Nat /\ r["packets_bad"] \in Nat
  BY DEF DeviceType
<1>2. \A n \in 1 .. Len(D) : D[n] \in DeviceType
  OBVIOUS
<1> QED BY <1>1, <1>2 DEF Counts

(* The counters of the devices stay. *)
SameCounters(D, E) ==
  Len(E) = Len(D) /\ \A n \in 1 .. Len(D) : /\ E[n].packets_ok = D[n].packets_ok
                                            /\ E[n].packets_bad = D[n].packets_bad

LEMMA AddsStays ==
  ASSUME NEW n, NEW D \in Seq(DeviceType), NEW E, NEW L, NEW T, NEW U,
         Adds(n, D, L, T), SameCounters(D, E), InRecord(U) = InRecord(T)
  PROVE  Adds(n, E, L, U)
<1>0. Counts(D, "packets_ok") /\ Counts(D, "packets_bad") /\ Len(D) \in Nat /\ Len(E) = Len(D)
  BY CountersTyped DEF SameCounters
<1>1. SumOf(E, L, "packets_ok") = SumOf(D, L, "packets_ok")
  <2>1. \A m \in 1 .. Len(D) : E[m]["packets_ok"] = D[m]["packets_ok"]
    BY DEF SameCounters
  <2> QED BY <1>0, <2>1, SumSame
<1>2. SumOf(E, L, "packets_bad") = SumOf(D, L, "packets_bad")
  <2>1. \A m \in 1 .. Len(D) : E[m]["packets_bad"] = D[m]["packets_bad"]
    BY DEF SameCounters
  <2> QED BY <1>0, <2>1, SumSame
<1> QED BY <1>1, <1>2 DEF Adds

(* One more in the counter field of the listed device d. *)
LEMMA AddsOne ==
  ASSUME NEW D \in Seq(DeviceType), NEW E \in Seq(DeviceType), NEW L, Len(E) = Len(D),
         NEW d \in 1 .. Len(D), d \in L,
         NEW field \in {"packets_ok", "packets_bad"}, NEW other \in {"packets_ok", "packets_bad"},
         other # field,
         Grows(D, E, field, d, 1), Grows(D, E, other, d, 0)
  PROVE  /\ SumOf(E, L, "packets_ok") + SumOf(E, L, "packets_bad")
            = SumOf(D, L, "packets_ok") + SumOf(D, L, "packets_bad") + 1
         /\ SumOf(D, L, "packets_ok") \in Nat /\ SumOf(D, L, "packets_bad") \in Nat
         /\ SumOf(E, L, "packets_ok") \in Nat /\ SumOf(E, L, "packets_bad") \in Nat
<1>0. /\ Counts(D, field) /\ Counts(D, other) /\ Counts(E, field) /\ Counts(E, other)
      /\ Len(D) \in Nat /\ d \in Nat \ {0} /\ d <= Len(D)
  BY CountersTyped
<1>1. SumOf(E, L, field) = SumOf(D, L, field) + (IF d <= Len(D) THEN 1 ELSE 0)
  BY <1>0, SumChange
<1>2. SumOf(E, L, other) = SumOf(D, L, other) + (IF d <= Len(D) THEN 0 ELSE 0)
  BY <1>0, SumChange
<1>3. SumOf(D, L, field) \in Nat /\ SumOf(D, L, other) \in Nat
  BY <1>0, SumType
<1>4. CASE field = "packets_ok"
  <2>1. other = "packets_bad"
    BY <1>4
  <2> QED BY <1>0, <1>1, <1>2, <1>3, <1>4, <2>1
<1>5. CASE field = "packets_bad"
  <2>1. other = "packets_ok"
    BY <1>5
  <2> QED BY <1>0, <1>1, <1>2, <1>3, <1>5, <2>1
<1> QED BY <1>4, <1>5

(* The inductive invariant of the counters, beside IInv. *)
PacketInv == Points(th, Listed) /\ EveryPacketCounted

LEMMA InitPackets ==
  ASSUME Init, IInv
  PROVE  PacketInv
<1>1. Udp \in Threads /\ \A t \in Threads : th[t].pc = "idle"
  BY DEF Init, IdleThread, Threads
<1>2. Points(th, Listed)
  BY <1>1 DEF Points, Recording
<1>3. InRecord(th) = {}
  BY <1>1 DEF InRecord, Recording, Threads
<1>4. Cardinality(InRecord(th)) = 0
  BY <1>3, FS_EmptySet
<1>5. devs \in Seq(DeviceType) /\ Len(devs) = 0 /\ used.readings = 0
  BY DEF Init, IInv, Typed
<1>6. ASSUME NEW field \in {"packets_ok", "packets_bad"} PROVE SumOf(devs, Listed, field) = 0
  <2>0. Counts(devs, field) /\ Len(devs) \in Nat /\ Len(devs) = 0
    BY <1>5, CountersTyped, Zenon
  <2>1. \E v, f : v = Counters(devs, Listed, field) /\ Sums(f, v, Len(devs))
                  /\ SumOf(devs, Listed, field) = f[Len(devs)]
    BY <2>0, SumForm
  <2> QED BY <2>0, <2>1 DEF Sums
<1>7. Adds(used.readings, devs, Listed, th)
  <2>1. SumOf(devs, Listed, "packets_ok") = 0 /\ SumOf(devs, Listed, "packets_bad") = 0
    BY <1>6
  <2> QED BY <1>4, <1>5, <2>1 DEF Adds
<1> QED BY <1>2, <1>7, CountedForm DEF PacketInv

(* Thread t goes on with c; no counter, and no list of devices, changes. *)
LEMMA QuietPackets ==
  ASSUME IInv, PacketInv, SameDevices, NEW t \in Threads, NEW c, th' = [th EXCEPT ![t] = c],
         SameCounters(devs, devs'), used'.readings = used.readings,
         SamePlace(t, th[t], c), Aims(t, c, Listed)
  PROVE  PacketInv'
<1>1. Only(th, th', t) /\ th'[t] = c
  BY DEF IInv, Typed, Only
<1>2. Listed' = Listed
  BY SameListed, Zenon
<1>3. Points(th', Listed)
  BY <1>1, PointsMoved, Zenon DEF PacketInv
<1>4. InRecord(th') = InRecord(th)
  BY <1>1, Remains, Zenon DEF SamePlace
<1>5. Adds(used.readings, devs, Listed, th) /\ devs \in Seq(DeviceType)
  BY CountedForm DEF PacketInv, IInv, Typed
<1>6. Adds(used.readings, devs', Listed, th')
  BY <1>4, <1>5, AddsStays, Zenon
<1>7. EveryPacketCounted'
  BY <1>2, <1>6, CountedForm
<1> QED BY <1>2, <1>3, <1>7 DEF PacketInv, Points

(* dt_get_or_create is entered or answers, or a connection ends. *)
LEMMA CallPackets ==
  ASSUME IInv, PacketInv, NEW t \in Threads,
         HelloCall(t) \/ TouchCall(t) \/ FindFast(t) \/ Disconnect(t)
  PROVE  PacketInv'
<1>a. th \in [Threads -> Caller] /\ th[t] \in Caller
  BY DEF IInv, Typed
<1>b. SameDevices
  BY CallSteps
<1>c. SameCounters(devs, devs')
  BY Zenon DEF SameCounters, HelloCall, TouchCall, FindFast, Disconnect
<1>d. used'.readings = used.readings
  BY Zenon DEF HelloCall, TouchCall, FindFast, Disconnect, IInv, Typed
<1>u. t \notin Workers => t = Udp
  BY DEF Threads
<1>v. Udp \notin Workers /\ th[Udp].pc \in {"idle", "find", "create", "seen", "state"}
  BY TableAssumption DEF PacketInv, Points
<1>1. CASE HelloCall(t) \/ TouchCall(t)
  <2>1. PICK c : /\ th' = [th EXCEPT ![t] = c] /\ c.pc = "find" /\ th[t].pc = "idle"
    BY <1>1, Zenon DEF HelloCall, TouchCall, IdleThread
  <2>9. SamePlace(t, th[t], c) /\ Aims(t, c, Listed)
    BY <2>1 DEF SamePlace, Aims, Recording
  <2> QED BY <1>b, <1>c, <1>d, <2>1, <2>9, QuietPackets, Zenon
<1>2. CASE FindFast(t) /\ find_locked(th[t].id) # NULL
  <2> DEFINE d == find_locked(th[t].id)
             pc == IF t \in Workers THEN "active" ELSE IF d = NULL THEN "idle" ELSE "seen"
             c == [th[t] EXCEPT !.dev = d, !.pc = pc]
  <2>1. th' = [th EXCEPT ![t].dev = d, ![t].pc = pc] /\ th[t].pc = "find"
    BY <1>2 DEF FindFast, Return
  <2>2. d \in Listed /\ d # NULL
    BY <1>2, <2>1, FoundListed DEF IInv, Typed
  <2> HIDE DEF d
  <2>3. c.dev = d /\ c.pc = pc /\ pc = (IF t \in Workers THEN "active" ELSE "seen")
    BY <1>a, <2>2 DEF Caller
  <2>4. th' = [th EXCEPT ![t] = c]
    BY <1>a, <2>1, Zenon
  <2> HIDE DEF c, pc
  <2>5. SamePlace(t, th[t], c) /\ Aims(t, c, Listed)
    BY <1>u, <1>v, <2>1, <2>2, <2>3 DEF SamePlace, Aims, Recording
  <2> QED BY <1>b, <1>c, <1>d, <2>4, <2>5, QuietPackets, Zenon
<1>3. CASE FindFast(t) /\ find_locked(th[t].id) = NULL
  <2> DEFINE c == [th[t] EXCEPT !.pc = "create"]
  <2>1. th' = [th EXCEPT ![t] = c] /\ c.pc = "create" /\ th[t].pc = "find"
    BY <1>a, <1>3 DEF FindFast, Caller
  <2> HIDE DEF c
  <2>9. SamePlace(t, th[t], c) /\ Aims(t, c, Listed)
    BY <2>1 DEF SamePlace, Aims, Recording
  <2> QED BY <1>b, <1>c, <1>d, <2>1, <2>9, QuietPackets, Zenon
<1>4. CASE Disconnect(t)
  <2>1. th' = [th EXCEPT ![t] = IdleThread] /\ IdleThread.pc = "idle" /\ th[t].pc = "active"
    BY <1>4 DEF Disconnect, IdleThread
  <2>2. SamePlace(t, th[t], IdleThread) /\ Aims(t, IdleThread, Listed)
    BY <2>1 DEF SamePlace, Aims, Recording
  <2> QED BY <1>b, <1>c, <1>d, <2>1, <2>2, QuietPackets, Zenon
<1> QED BY <1>1, <1>2, <1>3, <1>4

(* The second look finds a device, or there is no memory for one. *)
LEMMA RecheckPackets ==
  ASSUME IInv, PacketInv, NEW t \in Threads, FindOrCreate(t), SameDevices, ~Link(t)
  PROVE  PacketInv'
<1>a. th \in [Threads -> Caller] /\ th[t] \in Caller
  BY DEF IInv, Typed
<1>u. t \notin Workers => t = Udp
  BY DEF Threads
<1>v. Udp \notin Workers
  BY TableAssumption
<1>1. PICK d : (d = NULL \/ d \in Listed) /\ Return(t, d) /\ devs' = devs
  <2>1. find_locked(th[t].id) = NULL \/ find_locked(th[t].id) \in Listed
    BY FoundListed DEF IInv, Typed, FindOrCreate
  <2> QED BY <2>1 DEF FindOrCreate
<1> DEFINE pc == IF t \in Workers THEN "active" ELSE IF d = NULL THEN "idle" ELSE "seen"
           c == [th[t] EXCEPT !.dev = d, !.pc = pc]
<1>2. th' = [th EXCEPT ![t].dev = d, ![t].pc = pc] /\ th[t].pc = "create" /\ used' = used
  BY <1>1 DEF FindOrCreate, Return
<1>3. c.dev = d /\ c.pc = pc
  BY <1>a DEF Caller
<1>4. th' = [th EXCEPT ![t] = c]
  BY <1>a, <1>2, Zenon
<1>5. SameCounters(devs, devs')
  BY <1>1 DEF SameCounters
<1> HIDE DEF c
<1>6. SamePlace(t, th[t], c) /\ Aims(t, c, Listed)
  BY <1>1, <1>2, <1>3, <1>u, <1>v DEF SamePlace, Aims, Recording
<1> QED BY <1>2, <1>4, <1>5, <1>6, QuietPackets, Zenon

(* A new device: its counters are 0. *)
LEMMA LinkPackets ==
  ASSUME IInv, PacketInv, NEW t \in Threads, th[t].pc = "create", find_locked(th[t].id) = NULL,
         Link(t), UNCHANGED <<now, used>>
  PROVE  PacketInv'
<1> DEFINE new == Len(devs) + 1
           pc == IF t \in Workers THEN "active" ELSE IF new = NULL THEN "idle" ELSE "seen"
           c == [th[t] EXCEPT !.dev = new, !.pc = pc]
<1>a. th \in [Threads -> Caller] /\ th[t] \in Caller /\ devs \in Seq(DeviceType) /\ Len(devs) \in Nat
  BY DEF IInv, Typed
<1>u. (t \notin Workers => t = Udp) /\ Udp \notin Workers
  BY TableAssumption DEF Threads
<1>b. Listed' = Listed \cup {new} /\ \A p \in Listed : p \in 1 .. Len(devs)
  <2>1. Listed' = Listed \cup {Len(devs) + 1}
    BY LinkStep
  <2> QED BY <2>1, ListedForm DEF IInv, ChainsAreSorted
<1>1. th' = [th EXCEPT ![t].dev = new, ![t].pc = pc]
  BY DEF Link, Return
<1>2. new \in Nat /\ new # NULL /\ new \notin 1 .. Len(devs)
  BY <1>a DEF NULL
<1>d. /\ devs' = Append(devs, NewDevice(t)) /\ Len(devs') = new
      /\ devs'[new] = NewDevice(t) /\ \A n \in 1 .. Len(devs) : devs'[n] = devs[n]
  <2>1. devs' = Append(devs, NewDevice(t))
    BY Zenon DEF Link
  <2> QED BY <1>a, <2>1
<1> HIDE DEF new
<1>3. c.dev = new /\ c.pc = (IF t \in Workers THEN "active" ELSE "seen")
  BY <1>a, <1>2 DEF Caller
<1>4. th' = [th EXCEPT ![t] = c]
  BY <1>a, <1>1, Zenon
<1> HIDE DEF c
<1>5. Only(th, th', t) /\ th'[t] = c
  BY <1>a, <1>4 DEF Only
<1>6. Points(th', Listed')
  <2>1. Aims(t, th'[t], Listed')
    BY <1>u, <1>b, <1>2, <1>3, <1>5 DEF Aims, Recording
  <2> QED BY <1>b, <1>5, <2>1, PointsMoved, Zenon DEF PacketInv
<1>7. InRecord(th') = InRecord(th)
  BY <1>3, <1>5, Remains DEF Recording
<1>8. Counts(devs, "packets_ok") /\ Counts(devs, "packets_bad") /\ Len(devs') = Len(devs) + 1
  BY <1>a, <1>d, CountersTyped DEF new
<1>9. devs'[Len(devs')]["packets_ok"] = 0 /\ devs'[Len(devs')]["packets_bad"] = 0
  BY <1>d DEF NewDevice
<1>10. \A n \in 1 .. Len(devs) : devs'[n] = devs[n] /\ (n \in Listed' <=> n \in Listed)
  BY <1>b, <1>d, <1>2
<1>11. /\ SumOf(devs', Listed', "packets_ok") = SumOf(devs, Listed, "packets_ok")
       /\ SumOf(devs', Listed', "packets_bad") = SumOf(devs, Listed, "packets_bad")
  BY <1>a, <1>8, <1>9, <1>10, SumLonger
<1>12. Adds(used.readings, devs, Listed, th) /\ used' = used
  BY CountedForm DEF PacketInv
<1>13. Adds(used'.readings, devs', Listed', th')
  BY <1>7, <1>11, <1>12 DEF Adds
<1>14. EveryPacketCounted'
  BY <1>13, CountedForm
<1> QED BY <1>6, <1>14 DEF PacketInv, Points

(* A store of another field leaves the counters. *)
LEMMA OtherField ==
  ASSUME NEW r \in DeviceType, NEW v, NEW field \in {"last_temp", "last_humid", "last_seen", "state"},
         NEW e, e = [r EXCEPT ![field] = v]
  PROVE  e.packets_ok = r.packets_ok /\ e.packets_bad = r.packets_bad
BY DEF DeviceType

LEMMA OtherStore ==
  ASSUME IInv, NEW d, NEW e, devs' = [devs EXCEPT ![d] = e],
         d \in 1 .. Len(devs) => e.packets_ok = devs[d].packets_ok /\ e.packets_bad = devs[d].packets_bad
  PROVE  SameCounters(devs, devs')
<1>1. devs \in Seq(DeviceType)
  BY DEF IInv, Typed
<1>2. Len(devs') = Len(devs) /\ \A n \in 1 .. Len(devs) : devs'[n] = IF n = d THEN e ELSE devs[n]
  BY <1>1
<1> QED BY <1>2 DEF SameCounters

(* The stores before the last of dt_record_sensor, and those of dt_touch. *)
LEMMA FieldPackets ==
  ASSUME IInv, PacketInv, NEW t \in Threads, RecordHumid(t) \/ RecordSeen(t) \/ RecordState(t)
  PROVE  PacketInv'
<1> DEFINE d == th[t].dev
<1>a. /\ th \in [Threads -> Caller] /\ th[t] \in Caller
      /\ \A p \in 1 .. Len(devs) : devs[p] \in DeviceType
  BY DEF IInv, Typed
<1>b. SameDevices
  BY StoreSteps
<1>c. used'.readings = used.readings
  BY DEF RecordHumid, RecordSeen, RecordState
<1>u. (t \notin Workers => t = Udp) /\ Udp \notin Workers
  BY TableAssumption DEF Threads
<1>v. /\ th[Udp].pc \in {"idle", "find", "create", "seen", "state"}
      /\ th[t].pc \in Recording => d \in Listed /\ d # NULL
  BY DEF PacketInv, Points
<1>1. CASE RecordHumid(t)
  <2> DEFINE e == [devs[d] EXCEPT !.last_humid = th[t].reading]
             c == [th[t] EXCEPT !.pc = "seen"]
  <2>1. devs' = [devs EXCEPT ![d] = e] /\ th' = [th EXCEPT ![t] = c] /\ th[t].pc = "humid"
    BY <1>1, <1>a DEF RecordHumid
  <2>2. d \in 1 .. Len(devs) => e.packets_ok = devs[d].packets_ok /\ e.packets_bad = devs[d].packets_bad
    BY <1>a, OtherField
  <2>3. c.pc = "seen" /\ c.dev = d
    BY <1>a DEF Caller
  <2> HIDE DEF e, c, d
  <2>4. SameCounters(devs, devs')
    BY <2>1, <2>2, OtherStore, Zenon
  <2>5. SamePlace(t, th[t], c) /\ Aims(t, c, Listed)
    BY <1>u, <1>v, <2>1, <2>3 DEF SamePlace, Aims, Recording
  <2> QED BY <1>b, <1>c, <2>1, <2>4, <2>5, QuietPackets, Zenon
<1>2. CASE RecordSeen(t)
  <2> DEFINE e == [devs[d] EXCEPT !.last_seen = th[t].at]
             c == [th[t] EXCEPT !.pc = "state"]
  <2>1. devs' = [devs EXCEPT ![d] = e] /\ th' = [th EXCEPT ![t] = c] /\ th[t].pc = "seen"
    BY <1>2, <1>a DEF RecordSeen
  <2>2. d \in 1 .. Len(devs) => e.packets_ok = devs[d].packets_ok /\ e.packets_bad = devs[d].packets_bad
    BY <1>a, OtherField
  <2>3. c.pc = "state" /\ c.dev = d
    BY <1>a DEF Caller
  <2> HIDE DEF e, c, d
  <2>4. SameCounters(devs, devs')
    BY <2>1, <2>2, OtherStore, Zenon
  <2>5. SamePlace(t, th[t], c) /\ Aims(t, c, Listed)
    BY <1>u, <1>v, <2>1, <2>3 DEF SamePlace, Aims, Recording
  <2> QED BY <1>b, <1>c, <2>1, <2>4, <2>5, QuietPackets, Zenon
<1>3. CASE RecordState(t)
  <2> DEFINE e == [devs[d] EXCEPT !.state = "ONLINE"]
             c == IF t \in Workers THEN [th[t] EXCEPT !.pc = "ok"] ELSE IdleThread
  <2>1. devs' = [devs EXCEPT ![d] = e] /\ th' = [th EXCEPT ![t] = c] /\ th[t].pc = "state"
    BY <1>3, <1>a DEF RecordState
  <2>2. d \in 1 .. Len(devs) => e.packets_ok = devs[d].packets_ok /\ e.packets_bad = devs[d].packets_bad
    BY <1>a, OtherField
  <2>3. IF t \in Workers THEN c.pc = "ok" /\ c.dev = d ELSE c.pc = "idle"
    BY <1>a DEF Caller, IdleThread
  <2> HIDE DEF e, c, d
  <2>4. SameCounters(devs, devs')
    BY <2>1, <2>2, OtherStore, Zenon
  <2>5. SamePlace(t, th[t], c) /\ Aims(t, c, Listed)
    BY <1>u, <1>v, <2>1, <2>3 DEF SamePlace, Aims, Recording
  <2> QED BY <1>b, <1>c, <2>1, <2>4, <2>5, QuietPackets, Zenon
<1> QED BY <1>1, <1>2, <1>3

(* A reading begins: it is counted while its worker is on its way. *)
LEMMA BeginPackets ==
  ASSUME IInv, PacketInv, NEW t \in Threads, RecordTemp(t)
  PROVE  PacketInv'
<1> DEFINE d == th[t].dev
           e == [devs[d] EXCEPT !.last_temp = used.readings + 1]
           c == [th[t] EXCEPT !.pc = "humid", !.at = now, !.reading = used.readings + 1]
<1>a. /\ th \in [Threads -> Caller] /\ th[t] \in Caller
      /\ \A p \in 1 .. Len(devs) : devs[p] \in DeviceType
      /\ devs \in Seq(DeviceType) /\ used.readings \in Nat
      /\ used \in [readings : 0 .. MaxReadings, beats : Nat, conns : Nat]
  BY TableAssumption DEF IInv, Typed
<1>b. SameDevices
  BY StoreSteps
<1>1. /\ devs' = [devs EXCEPT ![d] = e] /\ th' = [th EXCEPT ![t] = c]
      /\ th[t].pc = "active" /\ d # NULL /\ used'.readings = used.readings + 1
  BY <1>a, Zenon DEF RecordTemp
<1>2. t \in Workers /\ t # Udp
  BY <1>1, TableAssumption DEF PacketInv, Points, Threads
<1>3. d \in Listed
  BY <1>1 DEF PacketInv, Points
<1>4. d \in 1 .. Len(devs) => e.packets_ok = devs[d].packets_ok /\ e.packets_bad = devs[d].packets_bad
  BY <1>a, OtherField
<1>5. c.pc = "humid" /\ c.dev = d
  BY <1>a DEF Caller
<1> HIDE DEF e, c, d
<1>6. SameCounters(devs, devs')
  BY <1>1, <1>4, OtherStore, Zenon
<1>7. Only(th, th', t) /\ th'[t] = c
  BY <1>a, <1>1 DEF Only
<1>8. Listed' = Listed
  BY <1>b, SameListed, Zenon
<1>9. Points(th', Listed)
  <2>1. Aims(t, th'[t], Listed)
    BY <1>1, <1>2, <1>3, <1>5, <1>7 DEF Aims, Recording
  <2> QED BY <1>7, <2>1, PointsMoved, Zenon DEF PacketInv
<1>10. Cardinality(InRecord(th')) = Cardinality(InRecord(th)) + 1
  BY <1>1, <1>2, <1>5, <1>7, Enters, Zenon DEF Recording
<1>11. Adds(used.readings, devs, Listed, th)
  BY CountedForm DEF PacketInv
<1>12. Adds(used.readings, devs', Listed, th)
  BY <1>a, <1>6, <1>11, AddsStays
<1>13. Adds(used'.readings, devs', Listed', th')
  <2>1. PICK a, b : /\ a = SumOf(devs', Listed, "packets_ok") /\ b = SumOf(devs', Listed, "packets_bad")
    OBVIOUS
  <2>2. a \in Nat /\ b \in Nat /\ Cardinality(InRecord(th)) \in Nat
    <3>1. devs' \in Seq(DeviceType)
      BY StoreSteps DEF Typed
    <3>2. Counts(devs', "packets_ok") /\ Counts(devs', "packets_bad") /\ Len(devs') \in Nat
      BY <3>1, CountersTyped
    <3> QED BY <2>1, <3>2, SumType, InRecordFinite
  <2>3. used.readings = a + b + Cardinality(InRecord(th))
    BY <1>12, <2>1 DEF Adds
  <2>4. used'.readings = a + b + Cardinality(InRecord(th'))
    BY <1>1, <1>10, <2>2, <2>3
  <2> QED BY <1>8, <2>1, <2>4 DEF Adds
<1>14. EveryPacketCounted'
  BY <1>13, CountedForm
<1> QED BY <1>8, <1>9, <1>14 DEF PacketInv, Points

LEMMA OneMoreCounted ==
  ASSUME NEW r \in DeviceType
  PROVE  /\ [r EXCEPT !.packets_ok = r.packets_ok + 1]["packets_ok"] = r["packets_ok"] + 1
         /\ [r EXCEPT !.packets_ok = r.packets_ok + 1]["packets_bad"] = r["packets_bad"]
         /\ [r EXCEPT !.packets_bad = r.packets_bad + 1]["packets_bad"] = r["packets_bad"] + 1
         /\ [r EXCEPT !.packets_bad = r.packets_bad + 1]["packets_ok"] = r["packets_ok"]
         /\ r["packets_ok"] \in Nat /\ r["packets_bad"] \in Nat
BY DEF DeviceType

LEMMA CounterStore ==
  ASSUME NEW D \in Seq(DeviceType), NEW E, NEW d \in 1 .. Len(D), NEW e,
         E = [D EXCEPT ![d] = e],
         NEW field \in {"packets_ok", "packets_bad"}, NEW n \in Nat,
         e[field] = D[d][field] + n
  PROVE  Grows(D, E, field, d, n)
<1>1. \A m \in 1 .. Len(D) : E[m] = IF m = d THEN e ELSE D[m]
  OBVIOUS
<1>2. \A m \in 1 .. Len(D) : D[m][field] \in Nat
  BY CountersTyped DEF Counts
<1>3. ASSUME NEW m \in 1 .. Len(D) PROVE E[m][field] = D[m][field] + (IF m = d THEN n ELSE 0)
  <2>1. CASE m = d
    BY <1>1, <2>1
  <2>2. CASE m # d
    BY <1>1, <1>2, <2>2
  <2> QED BY <2>1, <2>2
<1> QED BY <1>3 DEF Grows

(* The last store of dt_record_sensor, and dt_record_bad: one counter goes up. *)
LEMMA CountPackets ==
  ASSUME IInv, PacketInv, NEW t \in Threads, RecordOk(t) \/ BadPacket(t)
  PROVE  PacketInv'
<1> DEFINE d == th[t].dev
<1>a. /\ th \in [Threads -> Caller] /\ th[t] \in Caller
      /\ devs \in Seq(DeviceType) /\ used.readings \in Nat
      /\ used \in [readings : 0 .. MaxReadings, beats : Nat, conns : Nat]
  BY TableAssumption DEF IInv, Typed
<1>b. SameDevices /\ devs' \in Seq(DeviceType)
  BY StoreSteps DEF Typed
<1>8. Listed' = Listed /\ Len(devs') = Len(devs)
  BY <1>b, SameListed, Zenon DEF SameDevices
<1>1. th[t].pc \in {"ok", "active"} /\ (th[t].pc = "active" => d # NULL)
  BY DEF RecordOk, BadPacket
<1>2. t \in Workers /\ t # Udp
  BY <1>1, TableAssumption DEF PacketInv, Points, Threads
<1>3. d \in Listed /\ d # NULL
  BY <1>1 DEF PacketInv, Points, Recording
<1>4. d \in 1 .. Len(devs) /\ devs[d] \in DeviceType
  <2>1. d \in 1 .. Len(devs)
    BY <1>3, ListedForm DEF IInv, ChainsAreSorted
  <2> QED BY <1>a, <2>1
<1>5. Adds(used.readings, devs, Listed, th)
  BY CountedForm DEF PacketInv
<1>6. ASSUME NEW field \in {"packets_ok", "packets_bad"}, NEW other \in {"packets_ok", "packets_bad"},
             other # field, Grows(devs, devs', field, d, 1), Grows(devs, devs', other, d, 0),
             used'.readings + Cardinality(InRecord(th)) = used.readings + 1 + Cardinality(InRecord(th')),
             used'.readings \in Nat
      PROVE  EveryPacketCounted'
  <2>1. /\ SumOf(devs', Listed, "packets_ok") + SumOf(devs', Listed, "packets_bad")
           = SumOf(devs, Listed, "packets_ok") + SumOf(devs, Listed, "packets_bad") + 1
        /\ SumOf(devs, Listed, "packets_ok") \in Nat /\ SumOf(devs, Listed, "packets_bad") \in Nat
        /\ SumOf(devs', Listed, "packets_ok") \in Nat /\ SumOf(devs', Listed, "packets_bad") \in Nat
    <3> HIDE DEF d
    <3> QED BY <1>a, <1>b, <1>3, <1>4, <1>6, <1>8, AddsOne
  <2>2. Cardinality(InRecord(th)) \in Nat /\ Cardinality(InRecord(th')) \in Nat
    BY InRecordFinite
  <2>3. Adds(used'.readings, devs', Listed, th')
    <3>1. PICK a, b, m : /\ a = SumOf(devs, Listed, "packets_ok") /\ b = SumOf(devs, Listed, "packets_bad")
                         /\ m = Cardinality(InRecord(th))
      OBVIOUS
    <3>2. PICK f, g, n : /\ f = SumOf(devs', Listed, "packets_ok") /\ g = SumOf(devs', Listed, "packets_bad")
                         /\ n = Cardinality(InRecord(th'))
      OBVIOUS
    <3>3. /\ a \in Nat /\ b \in Nat /\ m \in Nat /\ f \in Nat /\ g \in Nat /\ n \in Nat
          /\ f + g = a + b + 1
      BY <2>1, <2>2, <3>1, <3>2
    <3>4. used.readings = a + b + m
      BY <1>5, <3>1 DEF Adds
    <3>5. used'.readings + m = used.readings + 1 + n
      BY <1>6, <3>1, <3>2
    <3>6. used'.readings = f + g + n
      BY <1>6, <3>3, <3>4, <3>5
    <3> QED BY <3>2, <3>6 DEF Adds
  <2> QED BY <1>8, <2>3, CountedForm
<1>7. CASE RecordOk(t)
  <2> DEFINE e == [devs[d] EXCEPT !.packets_ok = devs[d].packets_ok + 1]
             c == [th[t] EXCEPT !.pc = "active"]
  <2>1. /\ devs' = [devs EXCEPT ![d] = e] /\ th' = [th EXCEPT ![t] = c] /\ used' = used
        /\ th[t].pc = "ok"
    BY <1>7, <1>a DEF RecordOk
  <2>2. e["packets_ok"] = devs[d]["packets_ok"] + 1 /\ e["packets_bad"] = devs[d]["packets_bad"] + 0
    BY <1>4, OneMoreCounted
  <2>3. c.pc = "active" /\ c.dev = d
    BY <1>a DEF Caller
  <2> HIDE DEF c, d, e
  <2>4. Grows(devs, devs', "packets_ok", d, 1) /\ Grows(devs, devs', "packets_bad", d, 0)
    BY <1>a, <1>4, <2>1, <2>2, CounterStore, Zenon
  <2>5. Only(th, th', t) /\ th'[t] = c
    BY <1>a, <2>1 DEF Only
  <2>6. Points(th', Listed)
    <3>1. Aims(t, th'[t], Listed)
      BY <1>2, <1>3, <2>3, <2>5 DEF Aims, Recording
    <3> QED BY <2>5, <3>1, PointsMoved, Zenon DEF PacketInv
  <2>7. Cardinality(InRecord(th)) = Cardinality(InRecord(th')) + 1
    BY <1>2, <2>1, <2>3, <2>5, Leaves, Zenon DEF Recording
  <2>8. used'.readings + Cardinality(InRecord(th)) = used.readings + 1 + Cardinality(InRecord(th'))
    BY <1>a, <2>1, <2>7, InRecordFinite
  <2>9. EveryPacketCounted'
    BY <1>a, <1>6, <2>1, <2>4, <2>8
  <2> QED BY <1>8, <2>6, <2>9 DEF PacketInv, Points
<1>9. CASE BadPacket(t)
  <2> DEFINE e == [devs[d] EXCEPT !.packets_bad = devs[d].packets_bad + 1]
  <2>1. devs' = [devs EXCEPT ![d] = e] /\ th' = th /\ used'.readings = used.readings + 1
    BY <1>9, <1>a DEF BadPacket
  <2>2. e["packets_bad"] = devs[d]["packets_bad"] + 1 /\ e["packets_ok"] = devs[d]["packets_ok"] + 0
    BY <1>4, OneMoreCounted
  <2> HIDE DEF d, e
  <2>4. Grows(devs, devs', "packets_bad", d, 1) /\ Grows(devs, devs', "packets_ok", d, 0)
    BY <1>a, <1>4, <2>1, <2>2, CounterStore, Zenon
  <2>8. used'.readings + Cardinality(InRecord(th)) = used.readings + 1 + Cardinality(InRecord(th'))
    BY <2>1
  <2>9. EveryPacketCounted'
    BY <1>a, <1>6, <2>1, <2>4, <2>8
  <2> QED BY <1>8, <2>1, <2>9 DEF PacketInv, Points
<1> QED BY <1>7, <1>9

(* The reaper and the clock. *)
LEMMA ReaperPackets ==
  ASSUME IInv, PacketInv, SweepStep \/ DumpStart \/ DumpStep \/ Tick \/ UNCHANGED vars
  PROVE  PacketInv'
<1>1. UNCHANGED <<buckets, th, used>>
  BY DEF SweepStep, SweepStart, SweepLoad, SweepStore, SweepEnd, DumpStart, DumpStep,
         DumpTemp, DumpHumid, DumpEnd, DumpReturn, Tick, vars
<1>2. Listed' = Listed
  BY <1>1 DEF Listed
<1>3. SameCounters(devs, devs')
  <2>1. CASE SweepStore
    <3> DEFINE d == Rows[rp.row]
               e == [devs[d] EXCEPT !.state = "OFFLINE"]
    <3>1. devs' = [devs EXCEPT ![d] = e]
      BY <2>1 DEF SweepStore
    <3>2. \A p \in 1 .. Len(devs) : devs[p] \in DeviceType
      BY DEF IInv, Typed
    <3> HIDE DEF d
    <3>3. d \in 1 .. Len(devs) => e.packets_ok = devs[d].packets_ok /\ e.packets_bad = devs[d].packets_bad
      BY <3>2, OtherField
    <3> HIDE DEF e
    <3> QED BY <3>1, <3>3, OtherStore, Zenon
  <2>2. CASE ~SweepStore
    <3>1. devs' = devs
      BY <2>2 DEF SweepStep, SweepStart, SweepLoad, SweepEnd, DumpStart, DumpStep,
                  DumpTemp, DumpHumid, DumpEnd, DumpReturn, Tick, vars
    <3> QED BY <3>1 DEF SameCounters
  <2> QED BY <2>1, <2>2
<1>4. Adds(used.readings, devs, Listed, th) /\ devs \in Seq(DeviceType)
  BY CountedForm DEF PacketInv, IInv, Typed
<1>5. Adds(used.readings, devs', Listed, th)
  BY <1>3, <1>4, AddsStays
<1>6. EveryPacketCounted'
  BY <1>1, <1>2, <1>5, CountedForm
<1> QED BY <1>1, <1>2, <1>6 DEF PacketInv, Points

LEMMA PacketsStay ==
  ASSUME IInv, PacketInv, [Next]_vars
  PROVE  PacketInv'
<1>1. CASE SweepStep \/ DumpStart \/ DumpStep \/ Tick \/ UNCHANGED vars
  BY <1>1, ReaperPackets
<1>2. ASSUME NEW t \in Threads, FindOrCreate(t) PROVE PacketInv'
  <2>1. CASE Link(t) /\ find_locked(th[t].id) = NULL
    BY <1>2, <2>1, LinkPackets DEF FindOrCreate
  <2>2. CASE ~Link(t)
    <3>1. SameDevices
      BY <1>2, <2>2, CreateStep
    <3> QED BY <1>2, <2>2, <3>1, RecheckPackets
  <2>3. CASE Link(t) /\ find_locked(th[t].id) # NULL
    <3>1. buckets' = buckets /\ device_count' = device_count /\ device_count \in Nat
      BY <1>2, <2>3 DEF FindOrCreate, IInv, Typed
    <3> QED BY <2>3, <3>1 DEF Link
  <2> QED BY <2>1, <2>2, <2>3
<1>3. ASSUME NEW t \in Threads, HelloCall(t) \/ TouchCall(t) \/ FindFast(t) \/ Disconnect(t)
      PROVE  PacketInv'
  BY <1>3, CallPackets
<1>4. ASSUME NEW t \in Threads, RecordHumid(t) \/ RecordSeen(t) \/ RecordState(t) PROVE PacketInv'
  BY <1>4, FieldPackets
<1>5. ASSUME NEW t \in Threads, RecordTemp(t) PROVE PacketInv'
  BY <1>5, BeginPackets
<1>6. ASSUME NEW t \in Threads, RecordOk(t) \/ BadPacket(t) PROVE PacketInv'
  BY <1>6, CountPackets
<1> QED BY <1>1, <1>2, <1>3, <1>4, <1>5, <1>6, Zenon DEF Next, TableStep

(* No packet is lost to a race: however the threads interleave their stores, *)
(* the counters of the devices in the table add up to the packets handed    *)
(* in, less those whose dt_record_sensor has not reached its last store.    *)
THEOREM NoPacketLost == Spec => []EveryPacketCounted
<1>1. Init => IInv /\ PacketInv
  BY InitIInv, InitPackets
<1>2. IInv /\ PacketInv /\ [Next]_vars => (IInv /\ PacketInv)'
  BY NextStep, PacketsStay
<1>3. IInv /\ PacketInv => EveryPacketCounted
  BY DEF PacketInv
<1> QED BY <1>1, <1>2, <1>3, PTL DEF Spec
=============================================================================
