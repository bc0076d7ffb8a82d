--------------------------- MODULE Session_proofs ---------------------------
(***************************************************************************)
(* Proofs about the device and about its sessions with the server.  First  *)
(* the device, alone and in session: for every queue length, number of     *)
(* samples and set of times that FwAssumption admits, the counters account *)
(* for every sample and net_task feeds its watchdog in time.  Then the     *)
(* readings on their way: each is stored at most once, and those of one    *)
(* connection in order, for any number of connections.                     *)
(***************************************************************************)
EXTENDS Session, TLAPS

-----------------------------------------------------------------------------
(* net_task holds a sample exactly between xQueueReceive and tcp.write. *)
HeldToWrite == net = "write" <=> held # None

(* The longest that the watchdog can have been left alone at each place of  *)
(* net_task's loop.  A pass by way of a connect is fed before the connect,  *)
(* one over a live connection at the last poll of wifi_ensure.              *)
FedBefore ==
  /\ net = "connect" => unfed <= POLL
  /\ net = "hello" => unfed <= CONNECT
  /\ net = "ack" => unfed <= CONNECT + WRITE
  /\ net = "receive" => unfed <= POLL \/ unfed <= CONNECT + WRITE
  /\ net = "write" => unfed <= POLL + RECEIVE \/ unfed <= CONNECT + WRITE + RECEIVE
  /\ unfed <= WDT_TIMEOUT

(* The inductive invariant. *)
IInv == TypeOK /\ HeldToWrite /\ StatsAccount /\ FedBefore

LEMMA InitIInv == Init => IInv
<1> SUFFICES ASSUME Init PROVE IInv
  OBVIOUS
<1>1. TypeOK
  <2>1. good \in BOOLEAN /\ wifi \in BOOLEAN /\ tcp \in BOOLEAN
        /\ connected \in BOOLEAN /\ led \in BOOLEAN
    BY DEF Init
  <2>2. queue \in Seq(Samples) /\ Len(queue) = 0
    BY DEF Init
  <2>3. backoff \in BACKOFF_MIN_MS .. BACKOFF_MAX_MS
    BY FwAssumption DEF Init
  <2> QED BY <2>1, <2>2, <2>3, FwAssumption DEF Init, TypeOK, None
<1>2. HeldToWrite /\ FedBefore
  BY FwAssumption DEF Init, HeldToWrite, FedBefore, None
<1>3. StatsAccount
  BY DEF Init, StatsAccount, None
<1> QED BY <1>1, <1>2, <1>3 DEF IInv

(* The environment and the display touch nothing that IInv speaks of but    *)
(* their own Booleans.                                                      *)
LEMMA EnvIInv ==
  ASSUME IInv, GoodChange \/ WifiUp \/ WifiDown \/ LinkLost \/ Show
  PROVE  IInv'
<1>1. UNCHANGED <<sampler, queue, uplink>>
  BY DEF GoodChange, WifiUp, WifiDown, LinkLost, Show
<1>2. good' \in BOOLEAN /\ wifi' \in BOOLEAN /\ tcp' \in BOOLEAN /\ led' \in BOOLEAN
  <2>1. CASE GoodChange BY <2>1, Zenon DEF GoodChange, IInv, TypeOK
  <2>2. CASE WifiUp BY <2>2, Zenon DEF WifiUp, IInv, TypeOK
  <2>3. CASE WifiDown BY <2>3, Zenon DEF WifiDown, IInv, TypeOK
  <2>4. CASE LinkLost BY <2>4, Zenon DEF LinkLost, IInv, TypeOK
  <2>5. CASE Show BY <2>5 DEF Show, IInv, TypeOK, env
  <2> QED BY <2>1, <2>2, <2>3, <2>4, <2>5
<1>3. TypeOK'
  BY <1>1, <1>2 DEF IInv, TypeOK, sampler, uplink
<1>4. HeldToWrite' /\ StatsAccount' /\ FedBefore'
  BY <1>1 DEF IInv, HeldToWrite, StatsAccount, FedBefore, sampler, uplink
<1> QED BY <1>3, <1>4 DEF IInv

(* sensor_task, on its core: the queue and the counters it owns. *)
LEMMA SensorIInv ==
  ASSUME IInv, SensorStep
  PROVE  IInv'
<1> USE DEF IInv, TypeOK, env, uplink, Samples
<1>1. CASE SampleQueue
  <2>1. HeldToWrite' /\ FedBefore'
    BY <1>1 DEF SampleQueue, HeldToWrite, FedBefore
  <2>2. TypeOK'
    BY <1>1, FwAssumption DEF SampleQueue
  <2>3. StatsAccount'
    <3>1. CASE sensor' = "queued"
      <4>1. queue' = Append(queue, seq + 1) /\ seq + 1 \in Samples /\ sensor = "sample"
        BY <1>1, <3>1, FwAssumption DEF SampleQueue
      <4>2. Len(queue') = Len(queue) + 1
        BY <4>1
      <4> QED BY <1>1, <3>1, <4>1, <4>2 DEF SampleQueue, StatsAccount
    <3>2. CASE sensor' = "full"
      BY <1>1, <3>2 DEF SampleQueue, StatsAccount
    <3> QED BY <1>1, <3>1, <3>2 DEF SampleQueue
  <2> QED BY <2>1, <2>2, <2>3
<1>2. CASE SampleCount
  <2>1. HeldToWrite' /\ FedBefore'
    BY <1>2 DEF SampleCount, HeldToWrite, FedBefore
  <2>2. TypeOK'
    BY <1>2 DEF SampleCount
  <2>3. StatsAccount'
    BY <1>2 DEF SampleCount, StatsAccount
  <2> QED BY <2>1, <2>2, <2>3
<1> QED BY <1>1, <1>2 DEF SensorStep

(* backoff_wait's next wait is again one of the code's waits. *)
LEMMA DoubledType ==
  ASSUME NEW ms \in BACKOFF_MIN_MS .. BACKOFF_MAX_MS
  PROVE  Doubled(ms) \in BACKOFF_MIN_MS .. BACKOFF_MAX_MS
  BY FwAssumption DEF Doubled

(* net_task up to the handshake: no sample is touched, only the watchdog. *)
LEMMA ConnectIInv ==
  ASSUME IInv,
         \/ WifiReady \/ WifiTimeout \/ ConnectOk \/ ConnectFails
         \/ HelloSend \/ HelloOk \/ HelloFails
  PROVE  IInv'
<1>1. UNCHANGED <<good, wifi, sampler, queue, consumed, held, lost, led>>
  BY DEF WifiReady, WifiTimeout, ConnectOk, ConnectFails, HelloSend, HelloOk, HelloFails, env
<1>2. tcp' \in BOOLEAN /\ connected' \in BOOLEAN
  BY DEF IInv, TypeOK, WifiReady, WifiTimeout, ConnectOk, ConnectFails, HelloSend, HelloOk, HelloFails, env, Fails
<1>3. /\ net' \in {"wifi", "connect", "hello", "ack", "receive", "drain", "wait"}
      /\ net # "write"
      /\ backoff' \in BACKOFF_MIN_MS .. BACKOFF_MAX_MS
  BY FwAssumption DEF IInv, TypeOK, WifiReady, WifiTimeout, ConnectOk, ConnectFails, HelloSend, HelloOk, HelloFails, Fails
<1>4. unfed' \in Nat /\ FedBefore'
  <2> USE FwAssumption DEF IInv, TypeOK, FedBefore, Fed, Spent, Fails
  <2>1. CASE WifiReady BY <2>1 DEF WifiReady
  <2>2. CASE WifiTimeout BY <2>2 DEF WifiTimeout
  <2>3. CASE ConnectOk BY <2>3 DEF ConnectOk
  <2>4. CASE ConnectFails BY <2>4 DEF ConnectFails
  <2>5. CASE HelloSend BY <2>5 DEF HelloSend
  <2>6. CASE HelloOk BY <2>6 DEF HelloOk
  <2>7. CASE HelloFails BY <2>7 DEF HelloFails
  <2> QED BY <2>1, <2>2, <2>3, <2>4, <2>5, <2>6, <2>7
<1>5. TypeOK'
  BY <1>1, <1>2, <1>3, <1>4 DEF IInv, TypeOK, sampler
<1>6. HeldToWrite' /\ StatsAccount'
  BY <1>1, <1>3 DEF IInv, HeldToWrite, StatsAccount, sampler
<1> QED BY <1>4, <1>5, <1>6 DEF IInv

(* net_task with a connection: a sample goes from the queue through its     *)
(* hands to the server, or is lost.                                         *)
LEMMA StreamIInv ==
  ASSUME IInv,
         Receive \/ ReceiveNothing \/ WriteOk \/ WriteFails \/ Drain \/ Backoff
  PROVE  IInv'
<1> USE FwAssumption DEF IInv, TypeOK, env, sampler, Samples, None, Fed, Spent, Fails
<1>1. CASE Receive
  <2>1. /\ Head(queue) \in Samples
        /\ Tail(queue) \in Seq(Samples)
        /\ Len(Tail(queue)) = Len(queue) - 1
    BY <1>1 DEF Receive
  <2>2. TypeOK'
    BY <1>1, <2>1 DEF Receive
  <2>3. HeldToWrite' /\ FedBefore'
    BY <1>1, <2>1 DEF Receive, HeldToWrite, FedBefore
  <2>4. StatsAccount'
    <3>1. held = None /\ held' # None
      BY <1>1, <2>1 DEF Receive, HeldToWrite
    <3>2. /\ UNCHANGED <<seq, produced, dropped, sensor, consumed, lost>>
          /\ queue' = Tail(queue)
      BY <1>1 DEF Receive
    <3>3. Len(queue') = Len(queue) - 1 /\ Len(queue) \in Nat
      BY <2>1, <3>2
    <3>4. /\ StatsAccount
          /\ produced \in Nat /\ consumed \in Nat /\ lost \in Nat /\ dropped \in Nat
      OBVIOUS
    <3> HIDE FwAssumption DEF IInv, TypeOK, env, sampler, Samples, Fed, Spent, Fails
    <3>5. produced + (IF sensor = "queued" THEN 1 ELSE 0) = consumed + Len(queue) + 0 + lost
      BY <3>1, <3>4 DEF StatsAccount
    <3>6. produced + (IF sensor = "queued" THEN 1 ELSE 0) = consumed + Len(queue') + 1 + lost
      BY <3>3, <3>4, <3>5
    <3>7. seq' = produced' + dropped' + (IF sensor' = "sample" THEN 0 ELSE 1)
      BY <3>2, <3>4 DEF StatsAccount
    <3> QED BY <3>1, <3>2, <3>6, <3>7 DEF StatsAccount
  <2> QED BY <2>2, <2>3, <2>4
<1>2. CASE ReceiveNothing
  BY <1>2 DEF ReceiveNothing, HeldToWrite, FedBefore, StatsAccount
<1>3. CASE WriteOk
  BY <1>3 DEF WriteOk, HeldToWrite, FedBefore, StatsAccount
<1>4. CASE WriteFails
  <2>1. tcp' = FALSE /\ connected' = FALSE /\ unfed' = unfed + WRITE
    BY <1>4, Zenon DEF WriteFails
  <2>2. TypeOK'
    <3>1. /\ UNCHANGED <<good, wifi, sampler, queue, consumed, backoff, led>>
          /\ net' = "wait" /\ held' = None /\ lost' = lost + 1
      BY <1>4 DEF WriteFails
    <3>2. tcp' \in BOOLEAN /\ connected' \in BOOLEAN
      BY <2>1, Zenon
    <3>3. unfed' \in Nat
      BY <2>1
    <3> QED BY <3>1, <3>2, <3>3
  <2>3. HeldToWrite' /\ FedBefore'
    BY <1>4 DEF WriteFails, HeldToWrite, FedBefore
  <2>4. StatsAccount'
    BY <1>4 DEF WriteFails, HeldToWrite, StatsAccount
  <2> QED BY <2>2, <2>3, <2>4
<1>5. CASE Drain
  BY <1>5 DEF Drain, HeldToWrite, FedBefore, StatsAccount
<1>6. CASE Backoff
  BY <1>6, DoubledType DEF Backoff, HeldToWrite, FedBefore, StatsAccount
<1> QED BY <1>1, <1>2, <1>3, <1>4, <1>5, <1>6

LEMMA StutterIInv == ASSUME IInv, UNCHANGED vars PROVE IInv'
<1>1. TypeOK'
  BY DEF vars, env, sampler, uplink, IInv, TypeOK
<1>2. HeldToWrite' /\ StatsAccount' /\ FedBefore'
  BY DEF vars, env, sampler, uplink, IInv, HeldToWrite, StatsAccount, FedBefore
<1> QED BY <1>1, <1>2 DEF IInv

LEMMA NextIInv == IInv /\ [Next]_vars => IInv'
<1> SUFFICES ASSUME IInv, [Next]_vars PROVE IInv'
  OBVIOUS
<1>1. CASE Next
  BY <1>1, EnvIInv, SensorIInv, ConnectIInv, StreamIInv DEF Next, NetStep
<1>2. CASE UNCHANGED vars
  BY <1>2, StutterIInv
<1> QED BY <1>1, <1>2

LEMMA Inductive == Spec => []IInv
  BY InitIInv, NextIInv, PTL DEF Spec

(* What stats_task prints accounts for every sample that sensor_task took,  *)
(* however the two tasks on their two cores interleave.                     *)
THEOREM CountersAccount == Spec => []StatsAccount
<1>1. IInv => StatsAccount BY DEF IInv
<1> QED BY <1>1, Inductive, PTL

(* net_task resets its watchdog in time on every path through its loop, for *)
(* all times that meet the three inequalities of FwAssumption.              *)
THEOREM WatchdogIsFed == Spec => []WatchdogFed
<1>1. IInv => WatchdogFed BY DEF IInv, FedBefore, WatchdogFed
<1> QED BY <1>1, Inductive, PTL

-----------------------------------------------------------------------------
(* The session.  Types of the connections and of the test client. *)
Packet == [type : {"hello", "sensor", "frame"}, seq : Nat, ok : BOOLEAN]
Reply == [type : {"hello_ack", "ack", "error"}, seq : Nat]
ConnType ==
  [up : Seq(Packet), down : Seq(Reply), side : {"open", "closed", "gone"},
   srv : {"closed", "backlog", "WAIT_HELLO", "ACTIVE"},
   strikes : Nat, idle : Nat, count : Nat, wrote : SUBSET Nat]
FcType ==
  [pc : {"connect", "hello", "ack", "frame", "send", "poll", "join", "done", "failed"},
   mode : Modes, fd : Conns, seq : Nat, sent : Nat, errors : Nat]

LinkTypeOK ==
  /\ conn \in [Conns -> ConnType] /\ stored \in Seq(Nat)
  /\ fc \in FcType /\ cur \in Conns /\ who \in {"device", "tool"}

(* s is what remains of the stream t when its ends are cut off. *)
Part(s, t) ==
  \E o \in Nat : \A i \in 1 .. Len(s) : i + o \in 1 .. Len(t) /\ s[i] = t[i + o]

LEMMA PartSame == \A t \in Seq(Packet) : Part(t, t) /\ Part(<< >>, t)
<1> TAKE t \in Seq(Packet)
<1>1. \A i \in 1 .. Len(t) : i + 0 \in 1 .. Len(t) /\ t[i] = t[i + 0]
  OBVIOUS
<1>2. \A i \in 1 .. Len(<< >>) : i + 0 \in 1 .. Len(t) /\ << >>[i] = t[i + 0]
  OBVIOUS
<1> QED BY <1>1, <1>2 DEF Part

LEMMA PartTail ==
  ASSUME NEW t \in Seq(Packet), t # << >>
  PROVE  Tail(t) \in Seq(Packet) /\ Part(Tail(t), t)
<1>1. \A i \in 1 .. Len(Tail(t)) : i + 1 \in 1 .. Len(t) /\ Tail(t)[i] = t[i + 1]
  OBVIOUS
<1>2. Tail(t) \in Seq(Packet)
  OBVIOUS
<1> DEFINE s == Tail(t)
<1>3. \A i \in 1 .. Len(s) : i + 1 \in 1 .. Len(t) /\ s[i] = t[i + 1]
  BY <1>1
<1> HIDE DEF s
<1>4. Part(s, t)
  BY <1>3 DEF Part
<1> QED BY <1>2, <1>4 DEF s

LEMMA PartPrefix ==
  ASSUME NEW t \in Seq(Packet), NEW n \in 0 .. Len(t)
  PROVE  SubSeq(t, 1, n) \in Seq(Packet) /\ Part(SubSeq(t, 1, n), t)
<1>1. /\ SubSeq(t, 1, n) \in Seq(Packet)
      /\ \A i \in 1 .. Len(SubSeq(t, 1, n)) :
           i + 0 \in 1 .. Len(t) /\ SubSeq(t, 1, n)[i] = t[i + 0]
  OBVIOUS
<1> QED BY <1>1 DEF Part

(* No stream grows and nothing is stored. *)
Thinned ==
  /\ stored' = stored /\ conn' \in [Conns -> ConnType]
  /\ \A l \in Conns : Part(conn'[l].up, conn[l].up)

LEMMA UnusedType == Unused \in ConnType /\ Unused.up = << >>
  BY DEF Unused, ConnType

LEMMA KeptType ==
  ASSUME NEW c \in ConnType
  PROVE  Kept(c) \in ConnType /\ (Kept(c).up = c.up \/ Kept(c).up = << >>)
  BY UnusedType DEF Kept

LEMMA ThinOne ==
  ASSUME LinkTypeOK, NEW k \in Conns, NEW c \in ConnType,
         Part(c.up, conn[k].up) \/ c.up = conn[k].up \/ c.up = << >>,
         conn' = [conn EXCEPT ![k] = c], stored' = stored
  PROVE  Thinned
<1>1. \A l \in Conns : conn[l].up \in Seq(Packet)
  BY DEF LinkTypeOK, ConnType
<1>2. Part(c.up, conn[k].up)
  BY <1>1, PartSame
<1>3. /\ conn' \in [Conns -> ConnType] /\ conn'[k] = c
      /\ \A l \in Conns : l # k => conn'[l] = conn[l]
  BY DEF LinkTypeOK
<1>4. \A l \in Conns : Part(conn'[l].up, conn[l].up)
  BY <1>1, <1>2, <1>3, PartSame
<1> QED BY <1>3, <1>4 DEF Thinned

LEMMA ThinNone == ASSUME LinkTypeOK, UNCHANGED linkvars PROVE Thinned
<1>1. \A l \in Conns : conn[l].up \in Seq(Packet)
  BY DEF LinkTypeOK, ConnType
<1> QED BY <1>1, PartSame DEF Thinned, LinkTypeOK, linkvars

(* The client's calls that write nothing. *)
LEMMA DialThins ==
  ASSUME LinkTypeOK, NEW k \in Conns, Dial(k), stored' = stored
  PROVE  Thinned
<1>1. [Unused EXCEPT !.side = "open", !.srv = "backlog"] \in ConnType
  BY UnusedType DEF ConnType
<1>2. [Unused EXCEPT !.side = "open", !.srv = "backlog"].up = << >>
  BY DEF Unused
<1> QED BY <1>1, <1>2, ThinOne DEF Dial

LEMMA GetThins ==
  ASSUME LinkTypeOK, NEW k \in Conns, NEW d \in Seq(Reply),
         conn' = [conn EXCEPT ![k].down = d], stored' = stored
  PROVE  Thinned
<1>0. conn[k] \in ConnType
  BY DEF LinkTypeOK
<1>1. [conn[k] EXCEPT !.down = d] \in ConnType
  BY <1>0 DEF ConnType
<1>2. [conn[k] EXCEPT !.down = d].up = conn[k].up
  BY <1>0 DEF ConnType
<1>3. conn' = [conn EXCEPT ![k] = [conn[k] EXCEPT !.down = d]]
  OBVIOUS
<1> QED BY <1>1, <1>2, <1>3, ThinOne

LEMMA LeftType ==
  ASSUME NEW c \in ConnType, NEW u \in Seq(Packet), NEW side \in {"closed", "gone"}
  PROVE  /\ [c EXCEPT !.up = u, !.side = side, !.down = << >>] \in ConnType
         /\ [c EXCEPT !.up = u, !.side = side, !.down = << >>].up = u
<1>1. << >> \in Seq(Reply)
  OBVIOUS
<1> QED BY <1>1 DEF ConnType

LEMMA HangUpThins ==
  ASSUME LinkTypeOK, NEW k \in Conns, NEW sound \in BOOLEAN, HangUp(k, sound), stored' = stored
  PROVE  Thinned
<1>0. conn[k] \in ConnType /\ conn[k].up \in Seq(Packet)
  BY DEF LinkTypeOK, ConnType
<1>1. PICK n \in 0 .. Len(conn[k].up), side \in {"closed", "gone"} :
        conn' = [conn EXCEPT ![k] = Kept([conn[k] EXCEPT !.up = SubSeq(conn[k].up, 1, n),
                                                         !.side = side, !.down = << >>])]
  BY Zenon DEF HangUp
<1> DEFINE c == [conn[k] EXCEPT !.up = SubSeq(conn[k].up, 1, n), !.side = side, !.down = << >>]
<1>2. SubSeq(conn[k].up, 1, n) \in Seq(Packet) /\ Part(SubSeq(conn[k].up, 1, n), conn[k].up)
  BY <1>0, PartPrefix
<1>3. c \in ConnType /\ c.up = SubSeq(conn[k].up, 1, n)
  BY <1>0, <1>2, LeftType
<1>5. conn' = [conn EXCEPT ![k] = Kept(c)]
  BY <1>1
<1> HIDE DEF c
<1>6. Kept(c) \in ConnType /\ (Kept(c).up = c.up \/ Kept(c).up = << >>)
  BY <1>3, KeptType
<1> QED BY <1>2, <1>3, <1>5, <1>6, ThinOne

(* The server's steps but WorkReading: a packet is handled, or none. *)
Srv == {"closed", "backlog", "WAIT_HELLO", "ACTIVE"}

Worked(c, u, st, sv, d) ==
  [c EXCEPT !.up = u, !.idle = 0, !.strikes = st, !.srv = sv, !.down = d]

LEMMA WorkedType ==
  ASSUME NEW c \in ConnType, NEW u \in Seq(Packet), NEW st \in Nat, NEW sv \in Srv,
         NEW d \in Seq(Reply)
  PROVE  Worked(c, u, st, sv, d) \in ConnType /\ Worked(c, u, st, sv, d).up = u
  BY DEF ConnType, Srv, Worked

LEMMA HandledType ==
  ASSUME LinkTypeOK, NEW k \in Conns, conn[k].up # << >>,
         NEW reply \in Seq(Reply), NEW st \in Nat, NEW sv \in Srv
  PROVE  /\ Handled(k, reply, st, sv) \in ConnType
         /\ \/ Handled(k, reply, st, sv).up = Tail(conn[k].up)
            \/ Handled(k, reply, st, sv).up = << >>
<1>1. conn[k] \in ConnType /\ conn[k].up \in Seq(Packet) /\ conn[k].down \in Seq(Reply)
  BY DEF LinkTypeOK, ConnType
<1>2. Tail(conn[k].up) \in Seq(Packet)
  BY <1>1, PartTail
<1> DEFINE e == IF conn[k].side = "open" THEN conn[k].down \o reply ELSE conn[k].down
<1>3. e \in Seq(Reply)
  BY <1>1
<1> HIDE DEF e
<1>4. PICK c \in ConnType, u \in Seq(Packet), d \in Seq(Reply) :
        c = conn[k] /\ u = Tail(conn[k].up) /\ d = e
  BY <1>1, <1>2, <1>3
<1>5. Handled(k, reply, st, sv) = Kept(Worked(c, u, st, sv, d))
  BY <1>4 DEF Handled, Worked, e
<1>6. Worked(c, u, st, sv, d) \in ConnType /\ Worked(c, u, st, sv, d).up = u
  BY WorkedType
<1> QED BY <1>4, <1>5, <1>6, KeptType

LEMMA HandledThins ==
  ASSUME LinkTypeOK, NEW k \in Conns, conn[k].up # << >>,
         NEW reply \in Seq(Reply), NEW st \in Nat, NEW sv \in Srv,
         conn' = [conn EXCEPT ![k] = Handled(k, reply, st, sv)], stored' = stored
  PROVE  Thinned
<1>1. Part(Tail(conn[k].up), conn[k].up)
  BY PartTail DEF LinkTypeOK, ConnType
<1>2. /\ Handled(k, reply, st, sv) \in ConnType
      /\ \/ Handled(k, reply, st, sv).up = Tail(conn[k].up)
         \/ Handled(k, reply, st, sv).up = << >>
  BY HandledType
<1> QED BY <1>1, <1>2, ThinOne

LEMMA ServerThins ==
  ASSUME LinkTypeOK, NEW k \in Conns,
         Admit(k) \/ WorkReject(k) \/ WorkHello(k) \/ WorkFrame(k) \/ WorkEof(k) \/ WorkTick(k)
  PROVE  Thinned
<1>0. conn[k] \in ConnType /\ conn[k].strikes \in Nat /\ conn[k].srv \in Srv /\ conn[k].idle \in Nat
  BY DEF LinkTypeOK, ConnType, Srv
<1>1. CASE Admit(k)
  <2> DEFINE sv == IF Cardinality(Busy) < max_clients THEN "WAIT_HELLO" ELSE "closed"
             c == [conn[k] EXCEPT !.srv = sv]
  <2>1. sv \in Srv
    BY DEF Srv
  <2>2. conn' = [conn EXCEPT ![k] = Kept(c)] /\ stored' = stored
    BY <1>1 DEF Admit
  <2> HIDE DEF sv
  <2>3. c \in ConnType /\ c.up = conn[k].up
    BY <1>0, <2>1 DEF ConnType, Srv
  <2> HIDE DEF c
  <2> QED BY <2>2, <2>3, KeptType, ThinOne
<1>2. CASE WorkReject(k)
  <2> DEFINE st == conn[k].strikes + 1
             sv == IF st >= MAX_STRIKES THEN "closed" ELSE conn[k].srv
  <2>1. st \in Nat /\ sv \in Srv /\ <<ERROR>> \in Seq(Reply)
    BY <1>0 DEF Srv, ERROR, Reply
  <2>2. /\ conn[k].up # << >> /\ stored' = stored
        /\ conn' = [conn EXCEPT ![k] = Handled(k, <<ERROR>>, st, sv)]
    BY <1>2 DEF WorkReject
  <2> HIDE DEF st, sv
  <2> QED BY <2>1, <2>2, HandledThins
<1>3. CASE WorkHello(k)
  <2>1. <<HELLO_ACK>> \in Seq(Reply) /\ << >> \in Seq(Reply) /\ "ACTIVE" \in Srv /\ "closed" \in Srv
    BY DEF HELLO_ACK, Reply, Srv
  <2>2. /\ conn[k].up # << >> /\ stored' = stored
        /\ \/ conn' = [conn EXCEPT ![k] = Handled(k, <<HELLO_ACK>>, 0, "ACTIVE")]
           \/ conn' = [conn EXCEPT ![k] = Handled(k, << >>, conn[k].strikes, "closed")]
    BY <1>3 DEF WorkHello, Received
  <2> QED BY <1>0, <2>1, <2>2, HandledThins
<1>4. CASE WorkFrame(k)
  <2>1. << >> \in Seq(Reply) /\ "ACTIVE" \in Srv
    BY DEF Srv
  <2>2. /\ conn[k].up # << >> /\ stored' = stored
        /\ conn' = [conn EXCEPT ![k] = Handled(k, << >>, 0, "ACTIVE")]
    BY <1>4 DEF WorkFrame, Received
  <2> QED BY <2>1, <2>2, HandledThins
<1>5. CASE WorkEof(k)
  BY <1>5, UnusedType, ThinOne DEF WorkEof
<1>6. CASE WorkTick(k)
  <2> DEFINE i == conn[k].idle + 1
             c == [conn[k] EXCEPT !.idle = i]
             d == [conn[k] EXCEPT !.srv = "closed"]
  <2>1. i \in Nat
    BY <1>0
  <2>2. /\ stored' = stored
        /\ conn' = [conn EXCEPT ![k] = c] \/ conn' = [conn EXCEPT ![k] = Kept(d)]
    BY <1>6 DEF WorkTick
  <2> HIDE DEF i
  <2>3. c \in ConnType /\ c.up = conn[k].up /\ d \in ConnType /\ d.up = conn[k].up
    BY <1>0, <2>1 DEF ConnType
  <2> HIDE DEF c, d
  <2> QED BY <2>2, <2>3, KeptType, ThinOne
<1> QED BY <1>1, <1>2, <1>3, <1>4, <1>5, <1>6

(* Samples wait in the order they were taken. *)
InLine ==
  /\ \A i \in DOMAIN queue : queue[i] <= seq /\ held < queue[i]
  /\ \A i, j \in DOMAIN queue : i < j => queue[i] < queue[j]
  /\ held <= seq

(* A reading that was written on a connection and not cut off. *)
Sent(n) ==
  \/ \E j \in 1 .. Len(stored) : stored[j] = n
  \/ \E k \in Conns : \E i \in OnTheWay(k) : conn[k].up[i].seq = n

(* What a client has yet to write is later than all that it has written. *)
Later ==
  \A n \in Nat : Sent(n) =>
    /\ who = "device" => /\ n <= seq /\ (held # None => n < held)
                         /\ \A i \in DOMAIN queue : n < queue[i]
    /\ who = "tool" => /\ fc.pc \in {"connect", "hello", "ack", "frame", "send"} => n < fc.seq
                       /\ fc.pc = "poll" => n <= fc.seq

(* No reading is on two connections. *)
OneWay ==
  \A k, l \in Conns : k # l =>
    \A i \in OnTheWay(k), j \in OnTheWay(l) : conn[k].up[i].seq # conn[l].up[j].seq

(* The inductive invariant of a session. *)
SInv == IInv /\ LinkTypeOK /\ InLine /\ Later /\ OneWay /\ StoredOnceInOrder

(* What is cut off loses nothing but readings. *)
LEMMA ThinnedKeeps ==
  ASSUME LinkTypeOK, OneWay, StoredOnceInOrder, Thinned
  PROVE  OneWay' /\ StoredOnceInOrder' /\ \A n : Sent(n)' => Sent(n)
<1>1. \A l \in Conns : \E o \in Nat : \A i \in OnTheWay(l)' :
        i \in Nat /\ i + o \in OnTheWay(l) /\ conn'[l].up[i].seq = conn[l].up[i + o].seq
  <2> TAKE l \in Conns
  <2>1. conn'[l].up \in Seq(Packet) /\ conn[l].up \in Seq(Packet)
    BY DEF Thinned, LinkTypeOK, ConnType
  <2>2. PICK o \in Nat : \A i \in 1 .. Len(conn'[l].up) :
          i + o \in 1 .. Len(conn[l].up) /\ conn'[l].up[i] = conn[l].up[i + o]
    BY DEF Thinned, Part
  <2> WITNESS o \in Nat
  <2> TAKE i \in OnTheWay(l)'
  <2>3. i \in 1 .. Len(conn'[l].up) /\ conn'[l].up[i].type = "sensor" /\ i \in Nat
    BY <2>1 DEF OnTheWay
  <2>4. i + o \in 1 .. Len(conn[l].up) /\ conn'[l].up[i] = conn[l].up[i + o]
    BY <2>2, <2>3
  <2> QED BY <2>3, <2>4 DEF OnTheWay
<1>2. stored' = stored
  BY DEF Thinned
<1>3. ASSUME NEW n, Sent(n)' PROVE Sent(n)
  <2>1. CASE \E j \in 1 .. Len(stored') : stored'[j] = n
    BY <1>2, <2>1 DEF Sent
  <2>2. CASE \E l \in Conns : \E i \in OnTheWay(l)' : conn'[l].up[i].seq = n
    BY <1>1, <2>2 DEF Sent
  <2> QED BY <1>3, <2>1, <2>2 DEF Sent
<1>4. OneWay'
  <2> SUFFICES ASSUME NEW k \in Conns, NEW l \in Conns, k # l,
                      NEW i \in OnTheWay(k)', NEW j \in OnTheWay(l)'
               PROVE  conn'[k].up[i].seq # conn'[l].up[j].seq
    BY DEF OneWay
  <2>1. PICK a : a \in OnTheWay(k) /\ conn'[k].up[i].seq = conn[k].up[a].seq
    BY <1>1
  <2>2. PICK b : b \in OnTheWay(l) /\ conn'[l].up[j].seq = conn[l].up[b].seq
    BY <1>1
  <2> QED BY <2>1, <2>2 DEF OneWay
<1>5. \A k \in Conns : \A i, j \in OnTheWay(k)' : i < j => conn'[k].up[i].seq < conn'[k].up[j].seq
  <2> SUFFICES ASSUME NEW k \in Conns, NEW i \in OnTheWay(k)', NEW j \in OnTheWay(k)', i < j
               PROVE  conn'[k].up[i].seq < conn'[k].up[j].seq
    OBVIOUS
  <2>1. PICK o \in Nat : \A a \in OnTheWay(k)' :
          a \in Nat /\ a + o \in OnTheWay(k) /\ conn'[k].up[a].seq = conn[k].up[a + o].seq
    BY <1>1
  <2>2. /\ i \in Nat /\ i + o \in OnTheWay(k) /\ conn'[k].up[i].seq = conn[k].up[i + o].seq
        /\ j \in Nat /\ j + o \in OnTheWay(k) /\ conn'[k].up[j].seq = conn[k].up[j + o].seq
    BY <2>1
  <2>3. i + o < j + o
    BY <2>2
  <2>4. \A a, b \in OnTheWay(k) : a < b => conn[k].up[a].seq < conn[k].up[b].seq
    BY DEF StoredOnceInOrder
  <2> QED BY <2>2, <2>3, <2>4
<1>6. \A k \in Conns : \A i \in OnTheWay(k)', j \in 1 .. Len(stored) : conn'[k].up[i].seq # stored[j]
  BY <1>1 DEF StoredOnceInOrder
<1> QED BY <1>2, <1>3, <1>4, <1>5, <1>6 DEF StoredOnceInOrder

(* A write: a reading later than all before it joins the end of its stream. *)
LEMMA PutType ==
  ASSUME LinkTypeOK, NEW k \in Conns, NEW p \in Packet, Put(k, p)
  PROVE  /\ conn' \in [Conns -> ConnType]
         /\ conn'[k].up = Append(conn[k].up, p)
         /\ \A l \in Conns : l # k => conn'[l] = conn[l]
<1>1. conn[k] \in ConnType /\ conn[k].up \in Seq(Packet) /\ conn[k].wrote \in SUBSET Nat
  BY DEF LinkTypeOK, ConnType
<1>2. p.seq \in Nat
  BY DEF Packet
<1> DEFINE u == Append(conn[k].up, p)
           w == IF p.type = "sensor" THEN conn[k].wrote \cup {p.seq} ELSE conn[k].wrote
<1>3. u \in Seq(Packet)
  BY <1>1
<1>4. w \in SUBSET Nat
  BY <1>1, <1>2
<1>5. conn' = [conn EXCEPT ![k].up = u, ![k].wrote = w]
  BY DEF Put
<1>6. u = Append(conn[k].up, p)
  OBVIOUS
<1> HIDE DEF u, w
<1>7. /\ \A l \in Conns : l # k => conn'[l] = conn[l]
      /\ conn'[k] = [conn[k] EXCEPT !.up = u, !.wrote = w]
      /\ conn' = [l \in Conns |-> conn'[l]]
  BY <1>5 DEF LinkTypeOK
<1>8. [conn[k] EXCEPT !.up = u, !.wrote = w] \in ConnType
  BY <1>1, <1>3, <1>4 DEF ConnType
<1>9. [conn[k] EXCEPT !.up = u, !.wrote = w].up = u
  BY <1>1 DEF ConnType
<1>10. \A l \in Conns : conn'[l] \in ConnType
  BY <1>7, <1>8 DEF LinkTypeOK
<1> QED BY <1>6, <1>7, <1>9, <1>10

LEMMA PutKeeps ==
  ASSUME LinkTypeOK, OneWay, StoredOnceInOrder, NEW k \in Conns, NEW p \in Packet, Put(k, p),
         stored' = stored, p.type = "sensor" => \A n \in Nat : Sent(n) => n < p.seq
  PROVE  /\ OneWay' /\ StoredOnceInOrder'
         /\ \A n : Sent(n)' => Sent(n) \/ (p.type = "sensor" /\ n = p.seq)
<1> DEFINE z == Len(conn[k].up) + 1
<1>1. /\ conn' \in [Conns -> ConnType] /\ conn'[k].up = Append(conn[k].up, p)
      /\ \A l \in Conns : l # k => conn'[l] = conn[l]
  BY PutType
<1>2. \A l \in Conns : conn[l].up \in Seq(Packet)
  BY DEF LinkTypeOK, ConnType
<1>3. p.seq \in Nat
  BY DEF Packet
<1>4. /\ Len(conn'[k].up) = z /\ conn'[k].up[z] = p /\ z \in Nat
      /\ \A i \in 1 .. Len(conn[k].up) : conn'[k].up[i] = conn[k].up[i]
  BY <1>1, <1>2
<1> HIDE DEF z
<1>z. z = Len(conn[k].up) + 1 /\ Len(conn[k].up) \in Nat
  BY <1>2 DEF z
<1>5. \A l \in Conns : l # k => OnTheWay(l)' = OnTheWay(l)
  BY <1>1 DEF OnTheWay
<1>6. ASSUME NEW i \in OnTheWay(k)'
      PROVE  /\ i \in Nat
             /\ \/ i \in OnTheWay(k) /\ conn'[k].up[i] = conn[k].up[i] /\ i < z
                \/ i = z /\ p.type = "sensor" /\ conn'[k].up[i] = p
  <2>1. i \in 1 .. z /\ conn'[k].up[i].type = "sensor"
    BY <1>4 DEF OnTheWay
  <2>2. CASE i = z
    BY <1>4, <2>1, <2>2
  <2>3. CASE i # z
    <3>1. i \in 1 .. Len(conn[k].up) /\ i < z
      BY <1>z, <2>1, <2>3
    <3>2. conn'[k].up[i] = conn[k].up[i]
      BY <1>4, <3>1
    <3> QED BY <2>1, <3>1, <3>2 DEF OnTheWay
  <2> QED BY <2>2, <2>3
<1>7. \A l \in Conns : \A i \in OnTheWay(l) :
        conn[l].up[i].seq \in Nat /\ Sent(conn[l].up[i].seq)
  <2> TAKE l \in Conns
  <2> TAKE i \in OnTheWay(l)
  <2>1. conn[l].up[i] \in Packet
    BY <1>2 DEF OnTheWay
  <2> QED BY <2>1 DEF Packet, Sent
<1>8. \A i \in 1 .. Len(stored) : stored[i] \in Nat /\ Sent(stored[i])
  <2>1. \A i \in 1 .. Len(stored) : stored[i] \in Nat
    BY DEF LinkTypeOK
  <2>2. \A i \in 1 .. Len(stored) : Sent(stored[i])
    BY Zenon DEF Sent
  <2> QED BY <2>1, <2>2
<1>9. ASSUME NEW n, Sent(n)' PROVE Sent(n) \/ (p.type = "sensor" /\ n = p.seq)
  <2>1. CASE \E i \in 1 .. Len(stored') : stored'[i] = n
    BY <2>1 DEF Sent
  <2>2. CASE \E l \in Conns : \E i \in OnTheWay(l)' : conn'[l].up[i].seq = n
    <3>1. PICK l \in Conns : \E i \in OnTheWay(l)' : conn'[l].up[i].seq = n
      BY <2>2
    <3>2. PICK i \in OnTheWay(l)' : conn'[l].up[i].seq = n
      BY <3>1
    <3>3. CASE l = k BY <1>6, <3>2, <3>3 DEF Sent
    <3>4. CASE l # k BY <1>1, <1>5, <3>2, <3>4 DEF Sent
    <3> QED BY <3>3, <3>4
  <2> QED BY <1>9, <2>1, <2>2 DEF Sent
<1>10. OneWay'
  <2> SUFFICES ASSUME NEW l \in Conns, NEW m \in Conns, l # m,
                      NEW i \in OnTheWay(l)', NEW j \in OnTheWay(m)'
               PROVE  conn'[l].up[i].seq # conn'[m].up[j].seq
    BY DEF OneWay
  <2>1. ASSUME NEW b \in Conns, b # k, NEW e \in OnTheWay(k)', NEW f \in OnTheWay(b)'
        PROVE  conn'[k].up[e].seq # conn'[b].up[f].seq
    <3>1. f \in OnTheWay(b) /\ conn'[b] = conn[b]
      BY <1>1, <1>5, <2>1
    <3>2. CASE e \in OnTheWay(k) /\ conn'[k].up[e] = conn[k].up[e]
      BY <2>1, <3>1, <3>2 DEF OneWay
    <3>3. CASE p.type = "sensor" /\ conn'[k].up[e] = p
      BY <1>3, <1>7, <3>1, <3>3
    <3> QED BY <1>6, <3>2, <3>3
  <2>2. CASE l = k BY <2>1, <2>2
  <2>3. CASE m = k BY <2>1, <2>3
  <2>4. CASE l # k /\ m # k BY <1>1, <1>5, <2>4 DEF OneWay
  <2> QED BY <2>2, <2>3, <2>4
<1>11. \A l \in Conns : \A i, j \in OnTheWay(l)' : i < j => conn'[l].up[i].seq < conn'[l].up[j].seq
  <2> SUFFICES ASSUME NEW l \in Conns, NEW i \in OnTheWay(l)', NEW j \in OnTheWay(l)', i < j
               PROVE  conn'[l].up[i].seq < conn'[l].up[j].seq
    OBVIOUS
  <2>1. \A a, b \in OnTheWay(l) : a < b => conn[l].up[a].seq < conn[l].up[b].seq
    BY DEF StoredOnceInOrder
  <2>2. CASE l # k BY <1>1, <1>5, <2>1, <2>2
  <2>3. CASE l = k
    <3>1. i \in OnTheWay(k) /\ conn'[k].up[i] = conn[k].up[i]
      BY <1>6, <2>3, <1>4
    <3>2. CASE j \in OnTheWay(k) /\ conn'[k].up[j] = conn[k].up[j]
      BY <2>1, <2>3, <3>1, <3>2
    <3>3. CASE p.type = "sensor" /\ conn'[k].up[j] = p
      BY <1>7, <2>3, <3>1, <3>3
    <3> QED BY <1>6, <2>3, <3>2, <3>3
  <2> QED BY <2>2, <2>3
<1>12. \A l \in Conns : \A i \in OnTheWay(l)', j \in 1 .. Len(stored) :
         conn'[l].up[i].seq # stored[j]
  <2> SUFFICES ASSUME NEW l \in Conns, NEW i \in OnTheWay(l)', NEW j \in 1 .. Len(stored)
               PROVE  conn'[l].up[i].seq # stored[j]
    OBVIOUS
  <2>1. \A a \in OnTheWay(l) : conn[l].up[a].seq # stored[j]
    BY DEF StoredOnceInOrder
  <2>2. CASE l # k BY <1>1, <1>5, <2>1, <2>2
  <2>3. CASE l = k
    <3>1. CASE i \in OnTheWay(k) /\ conn'[k].up[i] = conn[k].up[i]
      BY <2>1, <2>3, <3>1
    <3>2. CASE p.type = "sensor" /\ conn'[k].up[i] = p
      BY <1>3, <1>8, <2>3, <3>2
    <3> QED BY <1>6, <2>3, <3>1, <3>2
  <2> QED BY <2>2, <2>3
<1> QED BY <1>9, <1>10, <1>11, <1>12 DEF StoredOnceInOrder

(* A reading is handled: it leaves the head of its stream and is stored. *)
LEMMA ReadingType ==
  ASSUME LinkTypeOK, NEW k \in Conns, WorkReading(k)
  PROVE  /\ conn' \in [Conns -> ConnType]
         /\ conn'[k].up = Tail(conn[k].up) \/ conn'[k].up = << >>
         /\ \A l \in Conns : l # k => conn'[l] = conn[l]
         /\ 1 \in OnTheWay(k) /\ stored' = Append(stored, conn[k].up[1].seq)
<1> DEFINE n == (conn[k].count + 1) % ACK_EVERY
           reply == IF n = 0 THEN <<ACK(Pkt(k).seq)>> ELSE << >>
<1>1. /\ conn[k].up # << >> /\ Pkt(k).type = "sensor"
      /\ conn' = [conn EXCEPT ![k] = [Handled(k, reply, 0, "ACTIVE") EXCEPT !.count = n]]
      /\ stored' = Append(stored, Pkt(k).seq)
  BY DEF WorkReading, Received
<1>2. conn[k].up \in Seq(Packet) /\ conn[k].count \in Nat
  BY DEF LinkTypeOK, ConnType
<1>3. Pkt(k) = conn[k].up[1] /\ Pkt(k) \in Packet /\ 1 \in 1 .. Len(conn[k].up)
  BY <1>1, <1>2 DEF Pkt
<1>4. n \in Nat
  BY <1>2, LinkAssumption
<1>5. reply \in Seq(Reply)
  <2>1. ACK(Pkt(k).seq) \in Reply
    BY <1>3 DEF ACK, Reply, Packet
  <2> QED BY <2>1
<1> HIDE DEF n, reply
<1>6. PICK c \in ConnType :
        c = Handled(k, reply, 0, "ACTIVE") /\ (c.up = Tail(conn[k].up) \/ c.up = << >>)
  BY <1>1, <1>5, HandledType DEF Srv
<1>7. [c EXCEPT !.count = n] \in ConnType /\ [c EXCEPT !.count = n].up = c.up
  BY <1>4 DEF ConnType
<1>8. conn' = [conn EXCEPT ![k] = [c EXCEPT !.count = n]]
  BY <1>1, <1>6
<1>9. PICK d \in ConnType : d = [c EXCEPT !.count = n] /\ d.up = c.up
  BY <1>7
<1>10. /\ conn' \in [Conns -> ConnType] /\ conn'[k] = d
       /\ \A l \in Conns : l # k => conn'[l] = conn[l]
  BY <1>8, <1>9 DEF LinkTypeOK
<1> QED BY <1>1, <1>3, <1>6, <1>9, <1>10 DEF OnTheWay

LEMMA ReadingKeeps ==
  ASSUME LinkTypeOK, OneWay, StoredOnceInOrder, NEW k \in Conns, WorkReading(k)
  PROVE  /\ stored' \in Seq(Nat) /\ OneWay' /\ StoredOnceInOrder'
         /\ \A n : Sent(n)' => Sent(n)
<1> DEFINE h == conn[k].up[1].seq
<1>1. /\ conn' \in [Conns -> ConnType]
      /\ conn'[k].up = Tail(conn[k].up) \/ conn'[k].up = << >>
      /\ \A l \in Conns : l # k => conn'[l] = conn[l]
      /\ 1 \in OnTheWay(k) /\ stored' = Append(stored, h)
  BY ReadingType
<1>2. \A l \in Conns : conn[l].up \in Seq(Packet) /\ conn'[l].up \in Seq(Packet)
  BY <1>1 DEF LinkTypeOK, ConnType
<1>3. h \in Nat /\ Sent(h)
  <2>1. conn[k].up[1] \in Packet
    BY <1>1, <1>2 DEF OnTheWay
  <2> QED BY <1>1, <2>1 DEF Packet, Sent
<1>4. /\ stored' \in Seq(Nat) /\ Len(stored') = Len(stored) + 1 /\ Len(stored) \in Nat
      /\ stored'[Len(stored) + 1] = h
      /\ \A i \in 1 .. Len(stored) : stored'[i] = stored[i]
  BY <1>1, <1>3 DEF LinkTypeOK
<1>5. \A l \in Conns : l # k => OnTheWay(l)' = OnTheWay(l)
  BY <1>1 DEF OnTheWay
<1>6. ASSUME NEW i \in OnTheWay(k)'
      PROVE  /\ i \in Nat /\ i + 1 \in OnTheWay(k) /\ 1 < i + 1
             /\ conn'[k].up[i] = conn[k].up[i + 1]
  <2>1. i \in 1 .. Len(conn'[k].up) /\ conn'[k].up[i].type = "sensor" /\ conn'[k].up # << >>
    BY <1>2 DEF OnTheWay
  <2>2. conn'[k].up = Tail(conn[k].up) /\ conn[k].up # << >>
    BY <1>1, <1>2, <2>1 DEF OnTheWay
  <2>3. i + 1 \in 1 .. Len(conn[k].up) /\ Tail(conn[k].up)[i] = conn[k].up[i + 1]
    BY <1>2, <2>1, <2>2
  <2> QED BY <2>1, <2>2, <2>3 DEF OnTheWay
<1> HIDE DEF h
<1>h. h = conn[k].up[1].seq
  BY DEF h
<1>7. \A i, j \in OnTheWay(k) : i < j => conn[k].up[i].seq < conn[k].up[j].seq
  BY DEF StoredOnceInOrder
<1>8. \A l \in Conns : \A i \in OnTheWay(l)' : conn'[l].up[i].seq # h
  <2> SUFFICES ASSUME NEW l \in Conns, NEW i \in OnTheWay(l)' PROVE conn'[l].up[i].seq # h
    OBVIOUS
  <2>1. CASE l = k
    <3>1. h < conn'[k].up[i].seq
      BY <1>1, <1>6, <1>7, <1>h, <2>1
    <3> QED BY <1>3, <2>1, <3>1
  <2>2. CASE l # k
    BY <1>1, <1>5, <1>h, <2>2 DEF OneWay
  <2> QED BY <2>1, <2>2
<1>9. \A i \in 1 .. Len(stored) : stored[i] # h
  BY <1>1, <1>h DEF StoredOnceInOrder
<1>10. ASSUME NEW n, Sent(n)' PROVE Sent(n)
  <2>1. CASE \E i \in 1 .. Len(stored') : stored'[i] = n
    <3>1. PICK i \in 1 .. Len(stored') : stored'[i] = n
      BY <2>1
    <3>2. i \in 1 .. Len(stored) \/ i = Len(stored) + 1
      BY <1>4
    <3>3. n = h \/ \E e \in 1 .. Len(stored) : stored[e] = n
      BY <1>4, <3>1, <3>2
    <3> QED BY <1>3, <3>3 DEF Sent
  <2>2. CASE \E l \in Conns : \E i \in OnTheWay(l)' : conn'[l].up[i].seq = n
    <3>1. PICK l \in Conns : \E i \in OnTheWay(l)' : conn'[l].up[i].seq = n
      BY <2>2
    <3>2. CASE l = k BY <1>6, <3>1, <3>2 DEF Sent
    <3>3. CASE l # k BY <1>1, <1>5, <3>1, <3>3 DEF Sent
    <3> QED BY <3>2, <3>3
  <2> QED BY <1>10, <2>1, <2>2 DEF Sent
<1>11. OneWay'
  <2> SUFFICES ASSUME NEW l \in Conns, NEW m \in Conns, l # m,
                      NEW i \in OnTheWay(l)', NEW j \in OnTheWay(m)'
               PROVE  conn'[l].up[i].seq # conn'[m].up[j].seq
    BY DEF OneWay
  <2>1. PICK a : a \in OnTheWay(l) /\ conn'[l].up[i].seq = conn[l].up[a].seq
    BY <1>1, <1>5, <1>6
  <2>2. PICK b : b \in OnTheWay(m) /\ conn'[m].up[j].seq = conn[m].up[b].seq
    BY <1>1, <1>5, <1>6
  <2> QED BY <2>1, <2>2 DEF OneWay
<1>12. \A i, j \in 1 .. Len(stored') : i # j => stored'[i] # stored'[j]
  <2> SUFFICES ASSUME NEW i \in 1 .. Len(stored'), NEW j \in 1 .. Len(stored'), i # j
               PROVE  stored'[i] # stored'[j]
    OBVIOUS
  <2>1. /\ i \in 1 .. Len(stored) \/ i = Len(stored) + 1
        /\ j \in 1 .. Len(stored) \/ j = Len(stored) + 1
    BY <1>4
  <2>2. \A a, b \in 1 .. Len(stored) : a # b => stored[a] # stored[b]
    BY DEF StoredOnceInOrder
  <2> QED BY <1>4, <1>9, <2>1, <2>2
<1>13. \A l \in Conns : \A i, j \in OnTheWay(l)' : i < j => conn'[l].up[i].seq < conn'[l].up[j].seq
  <2> SUFFICES ASSUME NEW l \in Conns, NEW i \in OnTheWay(l)', NEW j \in OnTheWay(l)', i < j
               PROVE  conn'[l].up[i].seq < conn'[l].up[j].seq
    OBVIOUS
  <2>1. CASE l # k BY <1>1, <1>5, <2>1 DEF StoredOnceInOrder
  <2>2. CASE l = k
    <3>1. /\ i \in Nat /\ i + 1 \in OnTheWay(k) /\ conn'[k].up[i] = conn[k].up[i + 1]
          /\ j \in Nat /\ j + 1 \in OnTheWay(k) /\ conn'[k].up[j] = conn[k].up[j + 1]
      BY <1>6, <2>2
    <3>2. i + 1 < j + 1
      BY <3>1
    <3> QED BY <1>7, <2>2, <3>1, <3>2
  <2> QED BY <2>1, <2>2
<1>14. \A l \in Conns : \A i \in OnTheWay(l)', j \in 1 .. Len(stored') : conn'[l].up[i].seq # stored'[j]
  <2> SUFFICES ASSUME NEW l \in Conns, NEW i \in OnTheWay(l)', NEW j \in 1 .. Len(stored')
               PROVE  conn'[l].up[i].seq # stored'[j]
    OBVIOUS
  <2>1. CASE j = Len(stored) + 1
    BY <1>4, <1>8, <2>1
  <2>2. CASE j \in 1 .. Len(stored)
    <3>1. PICK a : a \in OnTheWay(l) /\ conn'[l].up[i].seq = conn[l].up[a].seq
      BY <1>1, <1>5, <1>6
    <3>2. conn[l].up[a].seq # stored[j]
      BY <2>2, <3>1 DEF StoredOnceInOrder
    <3>3. stored'[j] = stored[j]
      BY <1>4, <2>2
    <3> QED BY <3>1, <3>2, <3>3
  <2> QED BY <1>4, <2>1, <2>2
<1> QED BY <1>4, <1>10, <1>11, <1>12, <1>13, <1>14 DEF StoredOnceInOrder

-----------------------------------------------------------------------------
(* The clients: what is yet to be written stays later than what has been. *)
LEMMA InitSInv == SessionInit => SInv
<1> SUFFICES ASSUME SessionInit PROVE SInv
  OBVIOUS
<1>1. IInv
  BY InitIInv DEF SessionInit
<1>2. /\ conn = [k \in Conns |-> Unused] /\ stored = << >>
      /\ \A k \in Conns : conn[k].up = << >>
  BY UnusedType DEF SessionInit, LinkInit
<1>3. LinkTypeOK
  <2>1. conn \in [Conns -> ConnType] /\ stored \in Seq(Nat)
    BY <1>2, UnusedType
  <2>2. (CHOOSE k \in Conns : TRUE) \in Conns
    BY LinkAssumption
  <2>3. fc \in FcType
    BY <2>2 DEF SessionInit, FcInit, FcType
  <2>4. cur \in Conns
    BY <2>3 DEF SessionInit, FcType
  <2>5. who \in {"device", "tool"}
    BY DEF SessionInit
  <2> QED BY <2>1, <2>3, <2>4, <2>5 DEF LinkTypeOK
<1>4. \A k \in Conns : OnTheWay(k) = {}
  BY <1>2 DEF OnTheWay
<1>5. Later /\ OneWay /\ StoredOnceInOrder
  BY <1>2, <1>4 DEF Later, Sent, OneWay, StoredOnceInOrder
<1>6. InLine
  BY DEF SessionInit, Init, InLine, None
<1> QED BY <1>1, <1>3, <1>5, <1>6 DEF SInv

LEMMA UnmovedLater ==
  ASSUME InLine, Later, UNCHANGED <<who, vars, fc>>, \A n : Sent(n)' => Sent(n)
  PROVE  InLine' /\ Later'
  BY DEF InLine, Later, vars, sampler, uplink

LEMMA StillLater ==
  ASSUME IInv, InLine, Later, who = "device", who' = who, UNCHANGED <<seq, queue>>,
         held' = held \/ held' = None, \A n : Sent(n)' => Sent(n)
  PROVE  InLine' /\ Later'
<1>1. \A i \in DOMAIN queue : queue[i] \in Samples
  BY DEF IInv, TypeOK
<1>2. seq \in Nat /\ \A i \in Samples : 0 < i
  BY DEF IInv, TypeOK, Samples
<1>3. InLine'
  BY <1>1, <1>2 DEF InLine, None
<1>4. Later'
  BY DEF Later
<1> QED BY <1>3, <1>4

LEMMA SampleLater ==
  ASSUME IInv, InLine, Later, who = "device", who' = who, SampleQueue, \A n : Sent(n)' => Sent(n)
  PROVE  InLine' /\ Later'
<1>1. /\ queue \in Seq(Samples) /\ seq \in Nat /\ held \in Nat
      /\ seq' = seq + 1 /\ held' = held /\ seq + 1 \in Samples
      /\ queue' = Append(queue, seq + 1) \/ queue' = queue
  BY FwAssumption DEF IInv, TypeOK, SampleQueue, uplink, Samples, None
<1>2. \A i \in DOMAIN queue : queue[i] \in Nat
  <2>1. \A i \in DOMAIN queue : queue[i] \in Samples
    BY <1>1
  <2>2. \A n \in Samples : n \in Nat
    BY DEF Samples
  <2> QED BY <2>1, <2>2
<1>3. CASE queue' = queue
  <2>1. InLine'
    BY <1>1, <1>2, <1>3 DEF InLine
  <2>2. Later'
    BY <1>1, <1>3 DEF Later
  <2> QED BY <2>1, <2>2
<1>4. CASE queue' = Append(queue, seq + 1)
  <2>1. /\ Len(queue) \in Nat /\ DOMAIN queue = 1 .. Len(queue)
        /\ DOMAIN queue' = 1 .. Len(queue) + 1
        /\ queue'[Len(queue) + 1] = seq + 1
        /\ \A i \in DOMAIN queue : queue'[i] = queue[i]
    BY <1>1, <1>4
  <2>2. \A i \in DOMAIN queue' : i \in DOMAIN queue \/ i = Len(queue) + 1
    BY <2>1
  <2>3. InLine'
    <3>1. \A i \in DOMAIN queue' : queue'[i] <= seq' /\ held' < queue'[i]
      BY <1>1, <1>2, <2>1, <2>2 DEF InLine
    <3>2. ASSUME NEW i \in DOMAIN queue', NEW e \in DOMAIN queue', i < e
          PROVE  queue'[i] < queue'[e]
      <4>1. i \in DOMAIN queue
        BY <2>1, <3>2
      <4>2. CASE e \in DOMAIN queue
        BY <2>1, <3>2, <4>1, <4>2 DEF InLine
      <4>3. CASE e = Len(queue) + 1
        BY <1>1, <1>2, <2>1, <4>1, <4>3 DEF InLine
      <4> QED BY <2>2, <4>2, <4>3
    <3> QED BY <1>1, <3>1, <3>2 DEF InLine
  <2>4. Later'
    BY <1>1, <2>1, <2>2 DEF Later
  <2> QED BY <2>3, <2>4
<1> QED BY <1>1, <1>3, <1>4

LEMMA ReceiveLater ==
  ASSUME IInv, InLine, Later, who = "device", who' = who, Receive, \A n : Sent(n)' => Sent(n)
  PROVE  InLine' /\ Later'
<1>1. /\ queue \in Seq(Samples) /\ queue # << >> /\ seq' = seq
      /\ held' = Head(queue) /\ queue' = Tail(queue)
  BY DEF IInv, TypeOK, Receive, sampler
<1>2. /\ 1 \in DOMAIN queue /\ held' = queue[1]
      /\ \A i \in DOMAIN queue' : i \in Nat /\ 1 < i + 1 /\ i + 1 \in DOMAIN queue /\ queue'[i] = queue[i + 1]
  BY <1>1
<1>3. InLine'
  <2>1. \A i \in DOMAIN queue' : queue'[i] <= seq' /\ held' < queue'[i]
    BY <1>1, <1>2 DEF InLine
  <2>2. ASSUME NEW i \in DOMAIN queue', NEW e \in DOMAIN queue', i < e
        PROVE  queue'[i] < queue'[e]
    <3>1. i + 1 < e + 1
      BY <1>2, <2>2
    <3> QED BY <1>2, <3>1 DEF InLine
  <2>3. held' <= seq'
    BY <1>1, <1>2 DEF InLine
  <2> QED BY <2>1, <2>2, <2>3 DEF InLine
<1>4. Later'
  BY <1>1, <1>2 DEF Later
<1> QED BY <1>3, <1>4

(* net_task's other steps leave the queue alone and take up no sample. *)
DeviceStill ==
  \/ GoodChange \/ WifiUp \/ WifiDown \/ LinkLost \/ SampleCount
  \/ WifiReady \/ WifiTimeout \/ ConnectOk \/ ConnectFails
  \/ HelloSend \/ HelloOk \/ HelloFails
  \/ ReceiveNothing \/ WriteOk \/ WriteFails \/ Drain \/ Backoff

LEMMA StillLeaves ==
  ASSUME IInv, DeviceStill
  PROVE  IInv' /\ UNCHANGED <<seq, queue>> /\ (held' = held \/ held' = None)
<1>1. IInv'
  BY EnvIInv, SensorIInv, ConnectIInv, StreamIInv DEF DeviceStill, SensorStep
<1>2. UNCHANGED <<seq, queue>> /\ (held' = held \/ held' = None)
  <2> USE DEF env, sampler, uplink
  <2>1. CASE GoodChange \/ WifiUp \/ WifiDown \/ LinkLost \/ SampleCount
    BY <2>1 DEF GoodChange, WifiUp, WifiDown, LinkLost, SampleCount
  <2>2. CASE WifiReady \/ WifiTimeout \/ ConnectOk \/ ConnectFails
    BY <2>2 DEF WifiReady, WifiTimeout, ConnectOk, ConnectFails
  <2>3. CASE HelloSend \/ HelloOk \/ HelloFails
    BY <2>3 DEF HelloSend, HelloOk, HelloFails
  <2>4. CASE ReceiveNothing \/ WriteOk \/ WriteFails \/ Drain \/ Backoff
    BY <2>4 DEF ReceiveNothing, WriteOk, WriteFails, Drain, Backoff
  <2> QED BY <2>1, <2>2, <2>3, <2>4 DEF DeviceStill
<1> QED BY <1>1, <1>2

(* A step of the device that writes nothing. *)
LEMMA ThinDevice ==
  ASSUME SInv, Thinned, who = "device", UNCHANGED <<who, fc>>, cur' \in Conns,
         DeviceStill \/ SampleQueue \/ Receive
  PROVE  SInv'
<1>1. OneWay' /\ StoredOnceInOrder' /\ \A n : Sent(n)' => Sent(n)
  BY ThinnedKeeps DEF SInv
<1>2. LinkTypeOK'
  BY DEF SInv, LinkTypeOK, Thinned
<1>3. IInv' /\ InLine' /\ Later'
  <2>1. CASE DeviceStill
    BY <1>1, <2>1, StillLeaves, StillLater DEF SInv
  <2>2. CASE SampleQueue
    BY <1>1, <2>2, SensorIInv, SampleLater DEF SInv, SensorStep
  <2>3. CASE Receive
    BY <1>1, <2>3, StreamIInv, ReceiveLater DEF SInv
  <2> QED BY <2>1, <2>2, <2>3
<1> QED BY <1>1, <1>2, <1>3 DEF SInv

LEMMA HelloSInv ==
  ASSUME SInv, who = "device", SendHello, UNCHANGED <<who, fc, cur, stored>>
  PROVE  SInv'
<1>1. HELLO \in Packet /\ HELLO.type # "sensor"
  BY DEF HELLO, Packet
<1>2. HelloSend /\ Put(cur, HELLO) /\ cur \in Conns
  BY DEF SendHello, SInv, LinkTypeOK
<1>3. LinkTypeOK'
  BY <1>1, <1>2, PutType DEF SInv, LinkTypeOK
<1>4. OneWay' /\ StoredOnceInOrder' /\ \A n : Sent(n)' => Sent(n)
  BY <1>1, <1>2, PutKeeps DEF SInv
<1>5. IInv' /\ InLine' /\ Later'
  BY <1>2, <1>4, StillLeaves, StillLater DEF SInv, DeviceStill
<1> QED BY <1>3, <1>4, <1>5 DEF SInv

LEMMA SensorType ==
  ASSUME NEW n \in Nat, NEW ok \in BOOLEAN
  PROVE  SENSOR(n, ok) \in Packet /\ SENSOR(n, ok).type = "sensor" /\ SENSOR(n, ok).seq = n
  BY DEF SENSOR, Packet

(* The sample in net_task's hands is later than all before it, and earlier  *)
(* than all that wait.                                                      *)
LEMMA SampleSInv ==
  ASSUME SInv, who = "device", SendSample, UNCHANGED <<who, fc, cur, stored>>
  PROVE  SInv'
<1>1. WriteOk /\ Put(cur, SENSOR(held, TRUE)) /\ cur \in Conns
  BY DEF SendSample, SInv, LinkTypeOK
<1>2. held # None /\ held \in Nat
  BY <1>1 DEF WriteOk, SInv, IInv, HeldToWrite, TypeOK, Samples, None
<1>3. PICK p \in Packet : p = SENSOR(held, TRUE) /\ p.type = "sensor" /\ p.seq = held
  BY <1>2, SensorType
<1>4. \A n \in Nat : Sent(n) => n < p.seq
  BY <1>2, <1>3 DEF SInv, Later
<1>5. Put(cur, p)
  BY <1>1, <1>3
<1>6. LinkTypeOK'
  BY <1>1, <1>5, PutType DEF SInv, LinkTypeOK
<1>7. OneWay' /\ StoredOnceInOrder' /\ \A n : Sent(n)' => Sent(n) \/ n = held
  BY <1>1, <1>3, <1>4, <1>5, PutKeeps DEF SInv
<1>8. IInv' /\ UNCHANGED <<seq, queue>> /\ held' = None
  BY <1>1, StillLeaves DEF SInv, DeviceStill, WriteOk
<1>9. InLine'
  <2>1. \A i \in DOMAIN queue : queue[i] \in Samples
    BY DEF SInv, IInv, TypeOK
  <2>2. seq \in Nat /\ \A i \in Samples : 0 < i
    BY DEF SInv, IInv, TypeOK, Samples
  <2> QED BY <1>8, <2>1, <2>2 DEF SInv, InLine, None
<1>10. Later'
  BY <1>2, <1>7, <1>8 DEF SInv, InLine, Later
<1> QED BY <1>6, <1>7, <1>8, <1>9, <1>10 DEF SInv

LEMMA CloseThins ==
  ASSUME LinkTypeOK, IInv, Close, stored' = stored
  PROVE  Thinned
<1>1. cur \in Conns /\ good \in BOOLEAN
  BY DEF LinkTypeOK, IInv, TypeOK
<1>2. CASE tcp
  BY <1>1, <1>2, HangUpThins DEF Close
<1>3. CASE ~tcp
  BY <1>3, ThinNone DEF Close, linkvars
<1> QED BY <1>2, <1>3

LEMMA NetTaskSInv == ASSUME SInv, NetTask PROVE SInv'
<1>0. /\ LinkTypeOK /\ IInv /\ who = "device" /\ UNCHANGED <<who, fc>> /\ cur \in Conns
      /\ Local \/ DialUp \/ OnLink
  BY DEF SInv, LinkTypeOK, NetTask
<1>d. conn[cur].down \in Seq(Reply)
  BY <1>0 DEF LinkTypeOK, ConnType
<1>1. CASE Local
  <2>1. Thinned /\ cur' \in Conns
    BY <1>0, <1>1, ThinNone DEF Local
  <2>2. DeviceStill \/ Receive
    BY <1>1 DEF Local, DeviceStill
  <2> QED BY <1>0, <2>1, <2>2, ThinDevice
<1>2. CASE DialUp
  <2>1. cur' \in Conns /\ Dial(cur') /\ stored' = stored /\ ConnectOk
    BY <1>2 DEF DialUp
  <2>2. PICK k \in Conns : k = cur'
    BY <2>1
  <2>3. Thinned
    BY <1>0, <2>1, <2>2, DialThins
  <2> QED BY <1>0, <2>1, <2>3, ThinDevice DEF DeviceStill
<1>3. CASE OnLink
  <2>0. UNCHANGED <<cur, stored>>
    BY <1>3 DEF OnLink
  <2>1. CASE SendHello
    BY <1>0, <2>0, <2>1, HelloSInv
  <2>2. CASE Welcome
    <3>1. Tail(conn[cur].down) \in Seq(Reply) /\ Get(cur) /\ HelloOk
      BY <1>d, <2>2 DEF Welcome
    <3>2. Thinned
      BY <1>0, <2>0, <3>1, GetThins DEF Get
    <3> QED BY <1>0, <2>0, <3>1, <3>2, ThinDevice DEF DeviceStill
  <2>3. CASE Unwelcome
    <3>1. Thinned
      BY <1>0, <2>0, <2>3, CloseThins DEF Unwelcome
    <3> QED BY <1>0, <2>0, <2>3, <3>1, ThinDevice DEF DeviceStill, Unwelcome
  <2>4. CASE SendSample
    BY <1>0, <2>0, <2>4, SampleSInv
  <2>5. CASE LoseSample
    <3>1. Thinned
      BY <1>0, <2>0, <2>5, CloseThins DEF LoseSample
    <3> QED BY <1>0, <2>0, <2>5, <3>1, ThinDevice DEF DeviceStill, LoseSample
  <2>6. CASE ReadReplies
    <3>1. Drain /\ (conn' = [conn EXCEPT ![cur].down = << >>] \/ conn' = conn)
      BY <2>6 DEF ReadReplies
    <3>2. << >> \in Seq(Reply)
      OBVIOUS
    <3>3. Thinned
      BY <1>0, <2>0, <3>1, <3>2, GetThins, ThinNone DEF linkvars
    <3> QED BY <1>0, <2>0, <3>1, <3>3, ThinDevice DEF DeviceStill
  <2> QED BY <1>3, <2>1, <2>2, <2>3, <2>4, <2>5, <2>6 DEF OnLink
<1> QED BY <1>0, <1>1, <1>2, <1>3

(* sensor_task, the radio, and a connection that ends. *)
LEMMA AroundSInv ==
  ASSUME SInv, SensorTask \/ Radio \/ Join \/ DropLink \/ SeeClosed
  PROVE  SInv'
<1>0. LinkTypeOK /\ IInv /\ cur \in Conns
  BY DEF SInv, LinkTypeOK
<1>1. who = "device" /\ UNCHANGED <<who, cur, fc>>
  BY DEF SensorTask, Radio, Join, DropLink, SeeClosed
<1>2. DeviceStill \/ SampleQueue
  BY DEF SensorTask, SensorStep, Radio, Join, DropLink, SeeClosed, DeviceStill
<1>3. Thinned
  <2>1. CASE SensorTask \/ Radio \/ Join
    BY <1>0, <2>1, ThinNone DEF SensorTask, Radio, Join
  <2>2. CASE DropLink \/ SeeClosed
    BY <1>0, <2>2, HangUpThins DEF DropLink, SeeClosed
  <2> QED BY <2>1, <2>2
<1> QED BY <1>0, <1>1, <1>2, <1>3, ThinDevice

(* The server. *)
LEMMA ServerSInv ==
  ASSUME SInv, NEW k \in Conns, Server(k) \/ Reap(k)
  PROVE  SInv'
<1>0. LinkTypeOK /\ OneWay /\ StoredOnceInOrder
  BY DEF SInv
<1>1. UNCHANGED <<who, cur, vars, fc>>
  BY DEF Server, Reap
<1>2. IInv'
  BY <1>1, StutterIInv DEF SInv
<1>3. /\ conn' \in [Conns -> ConnType] /\ stored' \in Seq(Nat)
      /\ OneWay' /\ StoredOnceInOrder' /\ \A n : Sent(n)' => Sent(n)
  <2>1. CASE WorkReading(k)
    BY <1>0, <2>1, ReadingType, ReadingKeeps
  <2>2. CASE ~WorkReading(k)
    <3>1. Thinned
      BY <1>0, <2>2, ServerThins DEF Server, Reap, WorkStep
    <3> QED BY <1>0, <3>1, ThinnedKeeps DEF Thinned, LinkTypeOK
  <2> QED BY <2>1, <2>2
<1>4. LinkTypeOK'
  BY <1>0, <1>1, <1>3 DEF LinkTypeOK
<1>5. InLine' /\ Later'
  BY <1>1, <1>3, UnmovedLater DEF SInv
<1> QED BY <1>2, <1>3, <1>4, <1>5 DEF SInv

(* The test client: its next reading is later than those it has sent. *)
LEMMA FcMoves ==
  ASSUME fc \in FcType, NEW pc, fc' = [fc EXCEPT !.pc = pc],
         pc \in {"hello", "ack", "frame", "send", "join", "done", "failed"}
  PROVE  fc' \in FcType /\ fc'.pc = pc /\ fc'.seq = fc.seq
  BY DEF FcType

FcSent(f, n) == [f EXCEPT !.pc = "poll", !.sent = n]
FcPolled(f, n) == [f EXCEPT !.pc = "send", !.seq = n]
FcRead(f, n, e) == [f EXCEPT !.pc = "send", !.seq = n, !.errors = e]

LEMMA FcEdits ==
  ASSUME NEW f \in FcType, NEW n \in Nat, NEW e \in Nat
  PROVE  /\ FcSent(f, n) \in FcType /\ FcSent(f, n).pc = "poll" /\ FcSent(f, n).seq = f.seq
         /\ FcPolled(f, n) \in FcType /\ FcPolled(f, n).pc = "send" /\ FcPolled(f, n).seq = n
         /\ FcRead(f, n, e) \in FcType /\ FcRead(f, n, e).pc = "send" /\ FcRead(f, n, e).seq = n
<1>1. FcSent(f, n) \in FcType /\ FcSent(f, n).pc = "poll" /\ FcSent(f, n).seq = f.seq
  BY DEF FcSent, FcType
<1>2. FcPolled(f, n) \in FcType /\ FcPolled(f, n).pc = "send" /\ FcPolled(f, n).seq = n
  BY DEF FcPolled, FcType
<1>3. FcRead(f, n, e) \in FcType /\ FcRead(f, n, e).pc = "send" /\ FcRead(f, n, e).seq = n
  BY DEF FcRead, FcType
<1> QED BY <1>1, <1>2, <1>3

LEMMA ToolThins ==
  ASSUME SInv, Thinned, who = "tool", UNCHANGED <<who, cur, vars>>, fc' \in FcType,
         \/ fc'.pc \in {"join", "done", "failed"}
         \/ /\ fc.pc \in {"connect", "hello", "ack", "frame", "send"}
            /\ fc'.pc \in {"connect", "hello", "ack", "frame", "send"} /\ fc.seq <= fc'.seq
         \/ fc.pc = "poll" /\ fc'.pc = "send" /\ fc'.seq = fc.seq + 1
  PROVE  SInv'
<1>1. OneWay' /\ StoredOnceInOrder' /\ \A n : Sent(n)' => Sent(n)
  BY ThinnedKeeps DEF SInv
<1>2. LinkTypeOK'
  BY DEF SInv, LinkTypeOK, Thinned
<1>3. IInv' /\ InLine'
  <2>1. IInv'
    BY StutterIInv DEF SInv
  <2>2. InLine'
    BY DEF SInv, vars, sampler, uplink, InLine
  <2> QED BY <2>1, <2>2
<1>4. fc.seq \in Nat /\ fc'.seq \in Nat
  BY DEF SInv, LinkTypeOK, FcType
<1>5. Later'
  BY <1>1, <1>4 DEF SInv, Later
<1> QED BY <1>1, <1>2, <1>3, <1>5 DEF SInv

LEMMA ToolPuts ==
  ASSUME SInv, who = "tool", UNCHANGED <<who, cur, vars, stored>>, fc' \in FcType,
         NEW p \in Packet, Put(fc.fd, p),
         \/ /\ p.type # "sensor" /\ fc.pc \in {"hello", "frame"} /\ fc'.pc \in {"ack", "frame"}
            /\ fc.seq <= fc'.seq
         \/ /\ p.type = "sensor" /\ p.seq = fc.seq /\ fc.pc = "send" /\ fc'.pc = "poll"
            /\ fc'.seq = fc.seq
  PROVE  SInv'
<1>1. fc.fd \in Conns /\ fc.seq \in Nat /\ fc'.seq \in Nat
  BY DEF SInv, LinkTypeOK, FcType
<1>2. p.type = "sensor" => \A n \in Nat : Sent(n) => n < p.seq
  BY DEF SInv, Later
<1>3. /\ OneWay' /\ StoredOnceInOrder'
      /\ \A n : Sent(n)' => Sent(n) \/ (p.type = "sensor" /\ n = p.seq)
  BY <1>1, <1>2, PutKeeps DEF SInv
<1>4. LinkTypeOK'
  BY <1>1, PutType DEF SInv, LinkTypeOK
<1>5. IInv' /\ InLine'
  <2>1. IInv'
    BY StutterIInv DEF SInv
  <2>2. InLine'
    BY DEF SInv, vars, sampler, uplink, InLine
  <2> QED BY <2>1, <2>2
<1>6. Later'
  BY <1>1, <1>3 DEF SInv, Later
<1> QED BY <1>3, <1>4, <1>5, <1>6 DEF SInv

LEMMA ToolSInv == ASSUME SInv, Tool \/ ToolBeat PROVE SInv'
<1>0. /\ LinkTypeOK /\ fc \in FcType /\ fc.fd \in Conns /\ fc.mode \in Modes
      /\ fc.seq \in Nat /\ fc.sent \in Nat /\ fc.errors \in Nat
      /\ who = "tool" /\ UNCHANGED <<who, cur, vars>>
  BY DEF SInv, LinkTypeOK, FcType, Tool, ToolBeat
<1>d. conn[fc.fd].down \in Seq(Reply)
  BY <1>0 DEF LinkTypeOK, ConnType
<1> USE DEF At, Goto
<1>1. CASE FcConnect
  BY <1>0, <1>1, DialThins, ThinNone, FcMoves, ToolThins DEF FcConnect, linkvars
<1>2. CASE FcHello
  <2>1. HELLO \in Packet /\ HELLO.type # "sensor"
    BY DEF HELLO, Packet
  <2>2. stored' = stored /\ fc.pc = "hello"
    BY <1>2 DEF FcHello
  <2>3. CASE Put(fc.fd, HELLO) /\ fc' = [fc EXCEPT !.pc = "ack"]
    <3>1. fc' \in FcType /\ fc'.pc = "ack" /\ fc'.seq = fc.seq /\ fc.seq <= fc.seq
      BY <1>0, <2>3, FcMoves
    <3> QED BY <1>0, <2>1, <2>2, <2>3, <3>1, ToolPuts
  <2>4. CASE HangUp(fc.fd, TRUE) /\ fc' = [fc EXCEPT !.pc = "failed"]
    BY <1>0, <2>2, <2>4, HangUpThins, FcMoves, ToolThins
  <2> QED BY <1>2, <2>3, <2>4 DEF FcHello
<1>3. CASE FcAck
  <2>1. Tail(conn[fc.fd].down) \in Seq(Reply) /\ stored' = stored
    BY <1>d, <1>3 DEF FcAck, Acked
  <2>2. Thinned
    BY <1>0, <1>3, <2>1, GetThins DEF FcAck, Get
  <2> QED BY <1>0, <1>3, <2>2, FcMoves, ToolThins DEF FcAck
<1>4. CASE FcNoAck
  BY <1>0, <1>4, HangUpThins, FcMoves, ToolThins DEF FcNoAck
<1>5. CASE FcChunk
  <2>1. CASE Put(fc.fd, FRAME(fc.seq)) /\ fc' = [fc EXCEPT !.seq = @ + 1]
    <3>1. fc' \in FcType /\ fc'.pc = "frame" /\ fc'.seq = fc.seq + 1
      BY <1>0, <1>5, <2>1 DEF FcChunk, FcType
    <3>2. FRAME(fc.seq) \in Packet /\ FRAME(fc.seq).type # "sensor"
      BY <1>0 DEF FRAME, Packet
    <3> QED BY <1>0, <1>5, <2>1, <3>1, <3>2, ToolPuts DEF FcChunk
  <2>2. CASE fc' = [fc EXCEPT !.seq = cc + 1] /\ UNCHANGED conn
    <3>1. fc' \in FcType /\ fc'.pc = "frame" /\ fc'.seq = cc + 1 /\ fc.seq <= cc + 1
      BY <1>0, <1>5, <2>2, FcAssumption DEF FcChunk, FcType
    <3>2. Thinned
      BY <1>0, <1>5, <2>2, ThinNone DEF FcChunk, linkvars
    <3> QED BY <1>0, <1>5, <3>1, <3>2, ToolThins DEF FcChunk
  <2> QED BY <1>5, <2>1, <2>2 DEF FcChunk
<1>6. CASE FcFrameEnd
  <2>1. Thinned
    BY <1>0, <1>6, HangUpThins DEF FcFrameEnd
  <2>2. fc' = [fc EXCEPT !.pc = "done"] \/ fc' = [fc EXCEPT !.pc = "failed"]
    BY <1>6 DEF FcFrameEnd
  <2> QED BY <1>0, <2>1, <2>2, FcMoves, ToolThins
<1>7. CASE FcSend
  <2>1. PICK ok \in BOOLEAN : Put(fc.fd, SENSOR(fc.seq, ok))
    BY <1>7, Zenon DEF FcSend
  <2>2. PICK p \in Packet : p = SENSOR(fc.seq, ok) /\ p.type = "sensor" /\ p.seq = fc.seq
    BY <1>0, SensorType
  <2>3. fc.pc = "send" /\ fc' = FcSent(fc, fc.sent + 1) /\ stored' = stored
    BY <1>7 DEF FcSend, FcSent
  <2>4. fc' \in FcType /\ fc'.pc = "poll" /\ fc'.seq = fc.seq
    <3>1. PICK f \in FcType, n \in Nat : f = fc /\ n = fc.sent + 1
      BY <1>0
    <3>2. FcSent(f, n) \in FcType /\ FcSent(f, n).pc = "poll" /\ FcSent(f, n).seq = f.seq
      BY FcEdits
    <3>3. fc' = FcSent(f, n)
      BY <2>3, <3>1
    <3> QED BY <3>1, <3>2, <3>3
  <2>5. Put(fc.fd, p)
    BY <2>1, <2>2
  <2> QED BY <1>0, <2>2, <2>3, <2>4, <2>5, ToolPuts
<1>8. CASE FcSendEnd \/ FcPollEof
  <2>1. Thinned
    BY <1>0, <1>8, ThinNone DEF FcSendEnd, FcPollEof
  <2>2. fc' = [fc EXCEPT !.pc = "join"]
    BY <1>8 DEF FcSendEnd, FcPollEof, FcLeave
  <2> QED BY <1>0, <2>1, <2>2, FcMoves, ToolThins
<1>9. CASE FcPollReply
  <2>1. Tail(conn[fc.fd].down) \in Seq(Reply) /\ stored' = stored
    BY <1>d, <1>9 DEF FcPollReply
  <2>2. Thinned
    BY <1>0, <1>9, <2>1, GetThins DEF FcPollReply, Get
  <2> DEFINE err == fc.errors + (IF Head(conn[fc.fd].down).type = "error" THEN 1 ELSE 0)
  <2>3. fc' = FcRead(fc, fc.seq + 1, err) /\ err \in Nat
    BY <1>0, <1>9 DEF FcPollReply, FcRead
  <2> HIDE DEF err
  <2>4. fc' \in FcType /\ fc'.pc = "send" /\ fc'.seq = fc.seq + 1
    <3>1. PICK f \in FcType, n \in Nat, e \in Nat : f = fc /\ n = fc.seq + 1 /\ e = err
      BY <1>0, <2>3
    <3>2. FcRead(f, n, e) \in FcType /\ FcRead(f, n, e).pc = "send" /\ FcRead(f, n, e).seq = n
      BY FcEdits
    <3>3. fc' = FcRead(f, n, e)
      BY <2>3, <3>1
    <3> QED BY <3>1, <3>2, <3>3
  <2> QED BY <1>0, <1>9, <2>2, <2>4, ToolThins DEF FcPollReply
<1>10. CASE FcPollNothing
  <2>1. fc' \in FcType /\ fc'.pc = "send" /\ fc'.seq = fc.seq + 1
    <3>1. PICK f \in FcType, n \in Nat : f = fc /\ n = fc.seq + 1
      BY <1>0
    <3>2. fc' = FcPolled(fc, fc.seq + 1)
      BY <1>10 DEF FcPollNothing, FcPolled
    <3>3. FcPolled(f, n) \in FcType /\ FcPolled(f, n).pc = "send" /\ FcPolled(f, n).seq = n
      BY FcEdits
    <3>4. fc' = FcPolled(f, n)
      BY <3>1, <3>2
    <3> QED BY <3>1, <3>3, <3>4
  <2> QED BY <1>0, <1>10, <2>1, ThinNone, ToolThins DEF FcPollNothing
<1>11. CASE FcJoin
  BY <1>0, <1>11, HangUpThins, FcMoves, ToolThins DEF FcJoin
<1>12. CASE HbStep
  <2>1. UNCHANGED <<fc, linkvars>>
    BY <1>12 DEF HbStep, HbStart, HbEnd
  <2>2. Thinned
    BY <1>0, <2>1, ThinNone
  <2>3. IInv' /\ LinkTypeOK'
    BY <1>0, <2>1, StutterIInv DEF SInv, LinkTypeOK, linkvars
  <2>4. OneWay' /\ StoredOnceInOrder' /\ \A n : Sent(n)' => Sent(n)
    BY <2>2, ThinnedKeeps DEF SInv
  <2>5. InLine' /\ Later'
    BY <1>0, <2>1, <2>4, UnmovedLater DEF SInv
  <2> QED BY <2>3, <2>4, <2>5 DEF SInv
<1> HIDE DEF At, Goto
<1> QED BY <1>1, <1>2, <1>3, <1>4, <1>5, <1>6, <1>7, <1>8, <1>9, <1>10, <1>11, <1>12
        DEF Tool, ToolBeat, FcStep

LEMMA NextSInv == SInv /\ [SessionNext]_all => SInv'
<1> SUFFICES ASSUME SInv, [SessionNext]_all PROVE SInv'
  OBVIOUS
<1>1. CASE SessionNext
  BY <1>1, NetTaskSInv, AroundSInv, ToolSInv, ServerSInv DEF SessionNext
<1>2. CASE UNCHANGED all
  <2>1. UNCHANGED <<who, cur, vars, fc, linkvars>>
    BY <1>2 DEF all
  <2>2. IInv' /\ LinkTypeOK'
    BY <2>1, StutterIInv DEF SInv, LinkTypeOK, linkvars
  <2>3. Thinned
    BY <2>1, ThinNone DEF SInv
  <2>4. OneWay' /\ StoredOnceInOrder' /\ \A n : Sent(n)' => Sent(n)
    BY <2>3, ThinnedKeeps DEF SInv
  <2>5. InLine' /\ Later'
    BY <2>1, <2>4, UnmovedLater DEF SInv
  <2> QED BY <2>2, <2>4, <2>5 DEF SInv
<1> QED BY <1>1, <1>2

LEMMA SessionInductive == SessionSpec => []SInv
  BY InitSInv, NextSInv, PTL DEF SessionSpec

(* In session with the server too, over connections that come and go, what  *)
(* stats_task prints accounts for every sample, and net_task feeds its      *)
(* watchdog.                                                                *)
THEOREM DeviceInSession == SessionSpec => [](StatsAccount /\ WatchdogFed)
<1>1. SInv => StatsAccount /\ WatchdogFed BY DEF SInv, IInv, FedBefore, WatchdogFed
<1> QED BY <1>1, SessionInductive, PTL

(* Over any number of connections, lost, half open or anew, a reading       *)
(* reaches table and sink at most once, and those of one connection in the  *)
(* order in which they were taken: net_task takes a sample from the queue   *)
(* for good before it writes it, and the test client counts up.             *)
THEOREM ReadingsStoredOnce == SessionSpec => []StoredOnceInOrder
<1>1. SInv => StoredOnceInOrder BY DEF SInv
<1> QED BY <1>1, SessionInductive, PTL
=============================================================================
