------------------------- MODULE ClientWorker_proofs -------------------------
(***************************************************************************)
(* Proofs about ClientWorker: however long the connection, however its     *)
(* stream is cut and whatever the limits, the readings stored are readings *)
(* that the peer sent, in order and once each, the acknowledgements count  *)
(* them, and MAX_STRIKES rejected packets in a row end the worker.         *)
(***************************************************************************)
EXTENDS ClientWorker, TLAPS

(* The worker has hdrbuf in use; elsewhere it holds a packet already dealt  *)
(* with.                                                                    *)
Reading == pc \in {"header", "payload", "dispatch"}

FullRest == <<"h1", "h2", "payload">>

(* The packets whose first unit has gone out. *)
Begun == IF rest = FullRest THEN Len(sent) - 1 ELSE Len(sent)

Starts(u) == u.part = "h1"

(* Packets start in order on the wire, ... *)
WireOrdered ==
  \A i, j \in DOMAIN wire :
    i < j /\ Starts(wire[i]) /\ Starts(wire[j]) => wire[i].packet < wire[j].packet

(* ... none of them starts there before it is sent or after it is stored,   *)
Ahead ==
  \A i \in DOMAIN wire :
    Starts(wire[i]) => /\ wire[i].packet <= Begun
                       /\ \A k \in DOMAIN recorded : recorded[k] < wire[i].packet

(* nor is the packet in hand stored already or still to start on the wire,  *)
InHand ==
  Reading /\ hdrbuf # << >> /\ Starts(hdrbuf[1]) =>
    /\ hdrbuf[1].packet <= Begun
    /\ \A k \in DOMAIN recorded : recorded[k] < hdrbuf[1].packet
    /\ \A i \in DOMAIN wire : Starts(wire[i]) => hdrbuf[1].packet < wire[i].packet

(* and what is stored has been sent.  At the k-th reading the peer has sent *)
(* k packets, which bounds the counters.                                    *)
Past ==
  /\ sensor_count = Len(recorded)
  /\ \A k \in DOMAIN recorded : k <= recorded[k] /\ recorded[k] <= Begun

Stream == WireOrdered /\ Ahead /\ InHand /\ Past

(* Where the worker is, its buffer, its counters and its peer agree. *)
Control ==
  /\ Len(sent) <= MaxPackets
  /\ rest # << >> => Len(sent) > 0
  /\ pc \in {"payload", "dispatch"} => Len(hdrbuf) = 2
  /\ pc # "exit" => idle_ticks < DEAD_PEER_S
  /\ badrun = strikes
  /\ strikes >= MAX_STRIKES => pc = "exit" \/ (pc = "loop" /\ state = "CLOSING")

(* The inductive invariant. *)
IInv == TypeOK /\ Control /\ Stream /\ RecordsAreReadings /\ AcksAreCumulative
-----------------------------------------------------------------------------
(* Facts about sequences and products. *)

(* What is on the wire after its first unit has been read. *)
LEMMA TailOf ==
  ASSUME NEW S, NEW s \in Seq(S), s # << >>
  PROVE  /\ Tail(s) \in Seq(S) /\ Head(s) \in S /\ Head(s) = s[1]
         /\ 1 \in DOMAIN s
         /\ \A i \in DOMAIN Tail(s) : i + 1 \in DOMAIN s /\ i + 1 > 1 /\ Tail(s)[i] = s[i + 1]
         /\ \A i, j \in DOMAIN Tail(s) : i < j => i + 1 < j + 1
OBVIOUS

LEMMA AppendOf ==
  ASSUME NEW S, NEW s \in Seq(S), NEW e \in S
  PROVE  /\ Append(s, e) \in Seq(S) /\ Len(Append(s, e)) = Len(s) + 1
         /\ Append(s, e)[Len(s) + 1] = e
         /\ \A i \in DOMAIN s : Append(s, e)[i] = s[i]
         /\ DOMAIN s = 1 .. Len(s) /\ Len(s) \in Nat
         /\ DOMAIN Append(s, e) = 1 .. Len(s) + 1
         /\ \A i \in DOMAIN Append(s, e) : i \in DOMAIN s \/ i = Len(s) + 1
OBVIOUS

(* Every ACK_EVERY-th reading is the one that sensor_count % ACK_EVERY      *)
(* finds.                                                                   *)
LEMMA EveryNth ==
  ASSUME NEW n \in Nat \ {0}, NEW q \in Nat, NEW r \in 0 .. n - 1
  PROVE  (q * n + r + 1) % n = 0 <=> r = n - 1
<1> DEFINE a == q * n + r + 1
           p == a \div n
           m == a % n
<1>1. q * n \in Nat /\ a \in Nat
  OBVIOUS
<1>2. m \in 0 .. n - 1 /\ p \in Int /\ a = p * n + m
  BY <1>1
<1> HIDE DEF p, m
<1>3. (p - q) \in Int /\ (p - q) * n = (r + 1) - m
  BY <1>2
<1>4. (p - q) <= -1 => (p - q) * n <= -n
  BY <1>2
<1>5. (p - q) >= 2 => (p - q) * n >= 2 * n
  BY <1>2
<1>6. (p - q) = 0 \/ (p - q) = 1
  BY <1>2, <1>3, <1>4, <1>5
<1>7. CASE (p - q) = 0
  BY <1>2, <1>3, <1>7 DEF m
<1>8. CASE (p - q) = 1
  BY <1>2, <1>3, <1>8 DEF m
<1> QED BY <1>6, <1>7, <1>8

LEMMA Multiples ==
  ASSUME NEW n \in Nat, NEW q \in Nat, NEW a \in Nat \ {0}, 1 <= n, n <= q
  PROVE  n * a \in Nat /\ 1 <= n * a /\ n * a <= q * a
<1>1. PICK d \in Nat : q = n + d
  <2>1. q - n \in Nat /\ q = n + (q - n)
    OBVIOUS
  <2> QED BY <2>1
<1>2. q * a = n * a + d * a /\ d * a >= 0
  BY <1>1
<1>3. n * a \in Nat /\ n * a >= n
  OBVIOUS
<1> QED BY <1>2, <1>3

LEMMA Shift == \A l, m \in Nat : (l + 1) - m = (l - m) + 1
OBVIOUS

(* A peer is silent for fewer ticks than seconds. *)
LEMMA TicksBounded ==
  ASSUME NEW t \in Nat, NEW T \in Nat \ {0}, NEW D \in Nat, t * T < D
  PROVE  t < D
<1>1. t * T >= t
  OBVIOUS
<1> QED BY <1>1
-----------------------------------------------------------------------------
(* Steps of the peer.  None of them lets a packet start on the wire twice.  *)

LEMMA BegunType ==
  ASSUME IInv
  PROVE  Begun \in Nat /\ Begun <= Len(sent) /\ Len(sent) \in Nat /\ Len(sent) <= MaxPackets
<1>1. Len(sent) \in Nat /\ Len(sent) <= MaxPackets /\ (rest # << >> => Len(sent) > 0)
  BY DEF IInv, TypeOK, Control
<1>2. FullRest # << >>
  BY DEF FullRest
<1> QED BY <1>1, <1>2 DEF Begun

(* What the members of the sequences are. *)
LEMMA Members ==
  ASSUME IInv
  PROVE  /\ \A i \in DOMAIN wire : wire[i] \in Unit /\ wire[i].packet \in Nat
         /\ hdrbuf # << >> => hdrbuf[1] \in Unit /\ hdrbuf[1].packet \in Nat
         /\ \A k \in DOMAIN recorded : recorded[k] \in Nat /\ 1 <= recorded[k] /\ recorded[k] <= Begun
         /\ recorded \in Seq(1 .. MaxPackets)
<1>1. wire \in Seq(Unit) /\ hdrbuf \in Seq(Unit) /\ recorded \in Seq(1 .. MaxPackets)
  BY DEF IInv, TypeOK
<1>2. \A u \in Unit : u.packet \in Nat
  BY DEF Unit
<1>3. \A k \in DOMAIN recorded : recorded[k] <= Begun
  BY DEF IInv, Stream, Past
<1>4. \A i \in DOMAIN wire : wire[i] \in Unit
  BY <1>1
<1>5. hdrbuf # << >> => hdrbuf[1] \in Unit
  BY <1>1
<1>6. \A k \in DOMAIN recorded : recorded[k] \in Nat /\ 1 <= recorded[k]
  BY <1>1, WorkerAssumption
<1> QED BY <1>1, <1>2, <1>3, <1>4, <1>5, <1>6

LEMMA RestParts ==
  ASSUME NEW r \in {<< >>, <<"payload">>, <<"h2", "payload">>, FullRest}, r # << >>
  PROVE  /\ Head(r) \in {"h1", "h2", "payload"}
         /\ Head(r) = "h1" <=> r = FullRest
         /\ Tail(r) \in {<< >>, <<"payload">>, <<"h2", "payload">>}
         /\ Tail(r) # FullRest
<1> USE DEF FullRest
<1>1. CASE r = <<"payload">>
  BY <1>1
<1>2. CASE r = <<"h2", "payload">>
  <2>1. Head(r) = "h2" /\ Tail(r) = <<"payload">> /\ r # FullRest
    BY <1>2
  <2> QED BY <2>1
<1>3. CASE r = FullRest
  <2>1. Head(r) = "h1" /\ Tail(r) = <<"h2", "payload">>
    BY <1>3
  <2> QED BY <1>3, <2>1
<1> QED BY <1>1, <1>2, <1>3

(* Stored readings stay what they are while the peer goes on sending. *)
LEMMA PeerKeeps ==
  ASSUME IInv, UNCHANGED <<pc, hdrbuf, idle_ticks, connvars>>,
         Begun' \in Nat, Begun <= Begun',
         \A p \in DOMAIN sent : p \in DOMAIN sent' /\ sent'[p] = sent[p]
  PROVE  Past' /\ RecordsAreReadings' /\ AcksAreCumulative'
<1> USE BegunType DEF IInv, connvars
<1>1. Past'
  BY Members DEF Stream, Past
<1>2. \A k \in DOMAIN recorded : recorded[k] \in DOMAIN sent
  <2>1. sent \in Seq(Kinds)
    BY DEF TypeOK
  <2> QED BY <2>1, Members
<1>3. RecordsAreReadings'
  BY <1>2 DEF RecordsAreReadings
<1>4. AcksAreCumulative'
  BY DEF AcksAreCumulative
<1> QED BY <1>1, <1>3, <1>4

LEMMA PeerPacketIInv ==
  ASSUME IInv, NEW kind \in Kinds, PeerPacket(kind)
  PROVE  IInv'
<1> USE BegunType DEF PeerPacket
<1>1. /\ rest = << >> /\ rest' = FullRest /\ Len(sent') = Len(sent) + 1 /\ sent' \in Seq(Kinds)
      /\ \A p \in DOMAIN sent : p \in DOMAIN sent' /\ sent'[p] = sent[p]
  BY AppendOf DEF IInv, TypeOK, FullRest
<1>2. Begun' = Begun /\ Begun = Len(sent)
  BY <1>1 DEF Begun, FullRest
<1>3. TypeOK'
  BY <1>1 DEF IInv, TypeOK, connvars, FullRest
<1>4. Control'
  BY <1>1, WorkerAssumption DEF IInv, TypeOK, Control, connvars
<1>5. Past' /\ RecordsAreReadings' /\ AcksAreCumulative'
  BY <1>1, <1>2, PeerKeeps
<1>6. WireOrdered' /\ Ahead' /\ InHand'
  BY <1>2 DEF IInv, Stream, WireOrdered, Ahead, InHand, Reading, Starts, connvars
<1> QED BY <1>3, <1>4, <1>5, <1>6 DEF IInv, Stream

LEMMA PeerUnitIInv ==
  ASSUME IInv, PeerUnit
  PROVE  IInv'
<1> USE BegunType DEF PeerUnit
<1> DEFINE u == [part |-> Head(rest), packet |-> Len(sent)]
<1>1. /\ Len(sent) \in 1 .. MaxPackets
      /\ Head(rest) \in {"h1", "h2", "payload"}
      /\ Head(rest) = "h1" <=> rest = FullRest
      /\ rest' \in {<< >>, <<"payload">>, <<"h2", "payload">>}
      /\ rest' # FullRest
  <2>1. rest \in {<< >>, <<"payload">>, <<"h2", "payload">>, FullRest}
    BY DEF IInv, TypeOK, FullRest
  <2>2. Len(sent) > 0
    BY DEF IInv, Control
  <2>3. Len(sent) \in 1 .. MaxPackets
    BY <2>2
  <2>4. rest # << >> /\ rest' = Tail(rest)
    OBVIOUS
  <2> HIDE BegunType DEF PeerUnit
  <2>5. /\ Head(rest) \in {"h1", "h2", "payload"}
        /\ Head(rest) = "h1" <=> rest = FullRest
        /\ Tail(rest) \in {<< >>, <<"payload">>, <<"h2", "payload">>}
        /\ Tail(rest) # FullRest
    BY <2>1, <2>4, RestParts, Zenon
  <2> QED BY <2>3, <2>4, <2>5
<1>2. Begun' = Len(sent) /\ (rest = FullRest => Begun = Len(sent) - 1)
  BY <1>1 DEF Begun
<1>3. u \in Unit /\ wire \in Seq(Unit) /\ wire' = Append(wire, u)
  BY <1>1 DEF Unit, IInv, TypeOK
<1>4. Starts(u) => u.packet = Begun'/\ Begun < Begun'
  BY <1>1, <1>2 DEF Starts
<1> HIDE DEF u
<1>5. /\ wire' \in Seq(Unit)
      /\ \A i \in DOMAIN wire : wire'[i] = wire[i]
      /\ \A i \in DOMAIN wire' : i \in DOMAIN wire \/ (i = Len(wire) + 1 /\ wire'[i] = u)
      /\ DOMAIN wire = 1 .. Len(wire) /\ Len(wire) \in Nat
  BY <1>3, AppendOf
<1>6. TypeOK'
  BY <1>1, <1>5 DEF IInv, TypeOK, connvars
<1>7. Control'
  BY <1>1 DEF IInv, Control, connvars
<1>8. Past' /\ RecordsAreReadings' /\ AcksAreCumulative'
  BY <1>2, PeerKeeps
<1>9. WireOrdered'
  <2> SUFFICES ASSUME NEW i \in DOMAIN wire', NEW j \in DOMAIN wire', i < j,
                      Starts(wire'[i]), Starts(wire'[j])
               PROVE  wire'[i].packet < wire'[j].packet
    BY DEF WireOrdered, Starts
  <2>1. i \in DOMAIN wire
    BY <1>5
  <2>2. CASE j \in DOMAIN wire
    BY <1>5, <2>1, <2>2 DEF IInv, Stream, WireOrdered
  <2>3. CASE wire'[j] = u
    <3>1. wire[i].packet <= Begun /\ wire[i].packet \in Nat
      BY <1>5, <2>1, Members DEF IInv, Stream, Ahead
    <3>2. u.packet = Begun' /\ Begun < Begun'
      BY <1>4, <2>3
    <3> QED BY <1>5, <2>1, <2>3, <3>1, <3>2, <1>2
  <2> QED BY <1>5, <2>2, <2>3
<1>10. Ahead'
  <2> SUFFICES ASSUME NEW i \in DOMAIN wire', Starts(wire'[i])
               PROVE  /\ wire'[i].packet <= Begun'
                      /\ \A k \in DOMAIN recorded : recorded[k] < wire'[i].packet
    BY DEF Ahead, Starts, connvars
  <2>1. CASE i \in DOMAIN wire
    <3>1. wire'[i] = wire[i] /\ wire[i].packet \in Nat
      BY <1>5, <2>1, Members
    <3>2. wire[i].packet <= Begun /\ \A k \in DOMAIN recorded : recorded[k] < wire[i].packet
      BY <2>1, <3>1 DEF IInv, Stream, Ahead
    <3> QED BY <1>2, <3>1, <3>2
  <2>2. CASE wire'[i] = u
    <3>1. u.packet = Begun' /\ Begun < Begun'
      BY <1>4, <2>2
    <3>2. \A k \in DOMAIN recorded : recorded[k] \in Nat /\ recorded[k] <= Begun
      BY Members
    <3> QED BY <1>2, <2>2, <3>1, <3>2
  <2> QED BY <1>5, <2>1, <2>2
<1>11. InHand'
  <2> SUFFICES ASSUME Reading, hdrbuf # << >>, Starts(hdrbuf[1])
               PROVE  /\ hdrbuf[1].packet <= Begun'
                      /\ \A k \in DOMAIN recorded : recorded[k] < hdrbuf[1].packet
                      /\ \A i \in DOMAIN wire' : Starts(wire'[i]) => hdrbuf[1].packet < wire'[i].packet
    BY DEF InHand, Starts, Reading, connvars
  <2>1. hdrbuf[1].packet \in Nat
    BY Members
  <2>2. /\ hdrbuf[1].packet <= Begun
        /\ \A k \in DOMAIN recorded : recorded[k] < hdrbuf[1].packet
        /\ \A i \in DOMAIN wire : Starts(wire[i]) => hdrbuf[1].packet < wire[i].packet
    BY DEF IInv, Stream, InHand
  <2>3. ASSUME NEW i \in DOMAIN wire', Starts(wire'[i])
        PROVE  hdrbuf[1].packet < wire'[i].packet
    <3>1. CASE i \in DOMAIN wire
      BY <1>5, <2>2, <2>3, <3>1
    <3>2. CASE wire'[i] = u
      <4>1. u.packet = Begun' /\ Begun < Begun'
        BY <1>4, <2>3, <3>2
      <4> QED BY <1>2, <2>1, <2>2, <3>2, <4>1
    <3> QED BY <1>5, <3>1, <3>2
  <2> QED BY <1>2, <2>1, <2>2, <2>3
<1> QED BY <1>6, <1>7, <1>8, <1>9, <1>10, <1>11 DEF IInv, Stream

LEMMA PeerOrStopIInv ==
  ASSUME IInv, PeerClose \/ PeerReset \/ Stop
  PROVE  IInv'
<1> USE BegunType
<1>1. /\ UNCHANGED <<sent, pc, hdrbuf, idle_ticks, connvars>>
      /\ rest' = rest \/ rest' = << >>
      /\ wire' = wire \/ wire' = << >>
  BY DEF PeerClose, PeerReset, Stop, peervars
<1>2. running' \in BOOLEAN /\ eof' \in BOOLEAN
  <2>1. /\ running' = running \/ running' = FALSE
        /\ eof' = eof \/ eof' = TRUE
    BY Zenon DEF PeerClose, PeerReset, Stop, peervars
  <2> QED BY <2>1, Zenon DEF IInv, TypeOK
<1>3. Begun' \in Nat /\ Begun <= Begun'
  <2>1. CASE rest' = rest
    <3>1. Begun' = Begun
      BY <1>1, <2>1 DEF Begun
    <3> QED BY <3>1
  <2>2. CASE rest' = << >>
    <3>1. << >> # FullRest
      BY DEF FullRest
    <3>2. Begun' = Len(sent)
      BY <1>1, <2>2, <3>1 DEF Begun
    <3> QED BY <3>2
  <2> QED BY <1>1, <2>1, <2>2
<1>4. TypeOK'
  <2>1. wire' \in Seq(Unit)
    <3>1. wire \in Seq(Unit) /\ << >> \in Seq(Unit)
      BY DEF IInv, TypeOK
    <3> QED BY <1>1, <3>1, Zenon
  <2>2. rest' \in {<< >>, <<"payload">>, <<"h2", "payload">>, <<"h1", "h2", "payload">>}
    <3>1. rest \in {<< >>, <<"payload">>, <<"h2", "payload">>, <<"h1", "h2", "payload">>}
      BY DEF IInv, TypeOK
    <3> QED BY <1>1, <3>1, Zenon
  <2> QED BY <1>1, <1>2, <2>1, <2>2 DEF IInv, TypeOK, connvars, Unit
<1>5. Control'
  BY <1>1 DEF IInv, Control, connvars
<1>6. Past' /\ RecordsAreReadings' /\ AcksAreCumulative'
  BY <1>1, <1>3, PeerKeeps
<1>7. /\ \A i \in DOMAIN wire' : i \in DOMAIN wire /\ wire'[i] = wire[i]
      /\ recorded' = recorded /\ pc' = pc /\ hdrbuf' = hdrbuf
  BY <1>1 DEF connvars
<1>8. WireOrdered'
  BY <1>7 DEF IInv, Stream, WireOrdered, Starts
<1>9. Ahead' /\ InHand'
  BY <1>3, <1>7, Members DEF IInv, Stream, Ahead, InHand, Reading, Starts
<1> QED BY <1>4, <1>5, <1>6, <1>8, <1>9 DEF IInv, Stream

-----------------------------------------------------------------------------
(* Steps of the worker that store nothing. *)

(* Units leave the wire at its head, and the packet in hand stays, is let   *)
(* go, or comes from the wire.                                              *)
LEMMA WireShrinks ==
  ASSUME IInv, UNCHANGED <<peervars, sensor_count, recorded>>,
         wire' = wire \/ (wire # << >> /\ wire' = Tail(wire)),
         \/ ~Reading' \/ hdrbuf' = << >>
         \/ Reading /\ hdrbuf # << >> /\ hdrbuf'[1] = hdrbuf[1]
         \/ wire # << >> /\ wire' = Tail(wire) /\ hdrbuf'[1] = wire[1]
  PROVE  Stream'
<1> USE DEF peervars
<1>1. Begun' = Begun
  BY DEF Begun
<1>2. /\ \A i \in DOMAIN wire' : \E m \in DOMAIN wire :
           /\ wire'[i] = wire[m]
           /\ wire # << >> /\ wire' = Tail(wire) => 1 \in DOMAIN wire /\ 1 < m
      /\ \A i, j \in DOMAIN wire' : i < j =>
           \E m, n \in DOMAIN wire : m < n /\ wire'[i] = wire[m] /\ wire'[j] = wire[n]
  <2>1. CASE wire # << >> /\ wire' = Tail(wire)
    <3>1. wire \in Seq(Unit)
      BY DEF IInv, TypeOK
    <3> QED BY <2>1, <3>1, TailOf
  <2>2. CASE ~(wire # << >> /\ wire' = Tail(wire))
    <3>1. wire' = wire
      BY <2>2
    <3> QED BY <2>2, <3>1
  <2> QED BY <2>1, <2>2
<1>3. WireOrdered'
  BY <1>2 DEF IInv, Stream, WireOrdered, Starts
<1>4. Ahead'
  BY <1>1, <1>2 DEF IInv, Stream, Ahead, Starts
<1>5. Past'
  BY <1>1 DEF IInv, Stream, Past
<1>6. InHand'
  <2>1. CASE ~Reading' \/ hdrbuf' = << >>
    BY <2>1 DEF InHand
  <2>2. CASE Reading /\ hdrbuf # << >> /\ hdrbuf'[1] = hdrbuf[1]
    BY <1>1, <1>2, <2>2 DEF IInv, Stream, InHand, Starts
  <2>3. CASE wire # << >> /\ wire' = Tail(wire) /\ hdrbuf'[1] = wire[1]
    <3> SUFFICES ASSUME Starts(wire[1])
                 PROVE  /\ wire[1].packet <= Begun
                        /\ \A k \in DOMAIN recorded : recorded[k] < wire[1].packet
                        /\ \A i \in DOMAIN wire' : Starts(wire'[i]) => wire[1].packet < wire'[i].packet
      BY <1>1, <2>3 DEF InHand, Starts
    <3>1. 1 \in DOMAIN wire
      BY <2>3, TailOf DEF IInv, TypeOK
    <3>2. wire[1].packet <= Begun /\ \A k \in DOMAIN recorded : recorded[k] < wire[1].packet
      BY <3>1 DEF IInv, Stream, Ahead
    <3>3. ASSUME NEW i \in DOMAIN wire', Starts(wire'[i]) PROVE wire[1].packet < wire'[i].packet
      <4>1. PICK m \in DOMAIN wire : wire'[i] = wire[m] /\ 1 < m
        BY <1>2, <2>3
      <4> QED BY <3>1, <3>3, <4>1 DEF IInv, Stream, WireOrdered
    <3> QED BY <3>2, <3>3
  <2> QED BY <2>1, <2>2, <2>3
<1> QED BY <1>3, <1>4, <1>5, <1>6 DEF Stream

(* Nothing is stored and nothing acknowledged. *)
LEMMA StoresNothing ==
  ASSUME IInv, UNCHANGED <<peervars, recorded, acked>>, state' # state => state' # "WAIT_HELLO"
  PROVE  RecordsAreReadings' /\ AcksAreCumulative'
BY DEF IInv, RecordsAreReadings, AcksAreCumulative, peervars

(* The kind of the packet in hand is one that the peer sends, or badmagic. *)
LEMMA KindType ==
  ASSUME IInv, pc \in {"payload", "dispatch"} \/ (pc = "header" /\ Len(hdrbuf) = 2)
  PROVE  /\ Kind # "badmagic" => Starts(hdrbuf[1]) /\ hdrbuf[1].packet \in DOMAIN sent
         /\ hdrbuf # << >> /\ Reading
<1>1. hdrbuf # << >> /\ Reading
  <2>1. Len(hdrbuf) = 2
    BY DEF IInv, Control
  <2> QED BY <2>1 DEF Reading
<1>2. ASSUME Kind # "badmagic" PROVE Starts(hdrbuf[1]) /\ hdrbuf[1].packet \in DOMAIN sent
  <2>1. Starts(hdrbuf[1])
    BY <1>2 DEF Kind, Starts
  <2>2. hdrbuf[1] \in Unit /\ hdrbuf[1].packet <= Begun /\ sent \in Seq(Kinds)
    BY <1>1, <2>1, Members DEF IInv, Stream, InHand, TypeOK
  <2>3. hdrbuf[1].packet \in Nat /\ 1 <= hdrbuf[1].packet
    BY <2>2, WorkerAssumption DEF Unit
  <2> QED BY <2>1, <2>2, <2>3, BegunType
<1> QED BY <1>1, <1>2

LEMMA ReadIInv ==
  ASSUME IInv,
         \/ LoopHead \/ RecvHeader \/ HeaderTimeout \/ HeaderEof \/ CheckHeader \/ PayloadFails
         \/ RecvPayload
  PROVE  IInv'
<1> USE DEF peervars, connvars
<1>1. UNCHANGED <<running, peervars, state, registered, sensor_count, recorded, acked>>
  BY DEF LoopHead, RecvHeader, HeaderTimeout, HeaderEof, CheckHeader, PayloadFails, RecvPayload
<1>2. /\ wire' = wire \/ (wire # << >> /\ wire' = Tail(wire))
      /\ wire' \in Seq(Unit)
  <2>1. wire' = wire \/ (wire # << >> /\ wire' = Tail(wire))
    BY DEF LoopHead, RecvHeader, HeaderTimeout, HeaderEof, CheckHeader, PayloadFails, RecvPayload
  <2>2. wire \in Seq(Unit)
    BY DEF IInv, TypeOK
  <2> QED BY <2>1, <2>2, TailOf
<1>3. /\ hdrbuf' \in Seq(Unit) /\ Len(hdrbuf') <= 2
      /\ pc' \in {"payload", "dispatch"} => Len(hdrbuf') = 2
      /\ \/ ~Reading' \/ hdrbuf' = << >>
         \/ Reading /\ hdrbuf # << >> /\ hdrbuf'[1] = hdrbuf[1]
         \/ wire # << >> /\ wire' = Tail(wire) /\ hdrbuf'[1] = wire[1]
  <2>1. /\ hdrbuf \in Seq(Unit) /\ Len(hdrbuf) <= 2 /\ Len(hdrbuf) \in Nat
        /\ pc \in {"payload", "dispatch"} => Len(hdrbuf) = 2
    BY DEF IInv, TypeOK, Control
  <2>2. CASE LoopHead \/ HeaderTimeout
    <3>1. hdrbuf' = << >> /\ pc' \in {"loop", "header", "exit"}
      BY <2>2 DEF LoopHead, HeaderTimeout
    <3> QED BY <3>1
  <2>3. CASE HeaderEof \/ PayloadFails
    <3>1. hdrbuf' = hdrbuf /\ pc' = "exit" /\ ~Reading'
      BY <2>3 DEF HeaderEof, PayloadFails, Reading
    <3> QED BY <2>1, <3>1
  <2>4. CASE CheckHeader \/ RecvPayload
    <3>1. Len(hdrbuf) = 2 /\ hdrbuf' = hdrbuf /\ Reading
      BY <2>1, <2>4 DEF CheckHeader, RecvPayload, Reading
    <3> QED BY <2>1, <3>1
  <2>5. CASE RecvHeader
    <3>1. /\ pc = "header" /\ pc' = "header" /\ wire # << >> /\ Len(hdrbuf) < 2
          /\ hdrbuf' = Append(hdrbuf, Head(wire)) /\ wire' = Tail(wire)
      BY <2>5 DEF RecvHeader
    <3>2. Head(wire) \in Unit /\ Head(wire) = wire[1]
      BY <3>1, TailOf DEF IInv, TypeOK
    <3>3. /\ hdrbuf' \in Seq(Unit) /\ Len(hdrbuf') = Len(hdrbuf) + 1
          /\ hdrbuf'[Len(hdrbuf) + 1] = wire[1]
          /\ \A i \in 1 .. Len(hdrbuf) : hdrbuf'[i] = hdrbuf[i]
      BY <2>1, <3>1, <3>2, AppendOf
    <3>4. CASE hdrbuf = << >>
      <4>1. Len(hdrbuf) = 0
        BY <3>4
      <4> QED BY <3>1, <3>3, <4>1
    <3>5. CASE hdrbuf # << >>
      <4>1. 1 \in 1 .. Len(hdrbuf)
        BY <2>1, <3>5
      <4> QED BY <2>1, <3>1, <3>3, <3>5, <4>1 DEF Reading
    <3> QED BY <3>4, <3>5
  <2> QED BY <2>2, <2>3, <2>4, <2>5
<1>4. Stream'
  BY <1>1, <1>2, <1>3, WireShrinks
<1>5. /\ pc' \in {"loop", "header", "payload", "dispatch", "exit", "crashed"}
      /\ strikes' \in 0 .. MAX_STRIKES /\ badrun' = strikes'
      /\ strikes' >= MAX_STRIKES => pc' = "exit"
  <2>1. /\ strikes \in 0 .. MAX_STRIKES /\ badrun = strikes /\ MAX_STRIKES \in Nat
        /\ strikes >= MAX_STRIKES => pc = "exit" \/ (pc = "loop" /\ state = "CLOSING")
    BY WorkerAssumption DEF IInv, TypeOK, Control
  <2>2. CASE LoopHead
    BY <2>1, <2>2 DEF LoopHead
  <2>3. CASE RecvHeader \/ HeaderTimeout \/ HeaderEof \/ PayloadFails
    BY <2>1, <2>3 DEF RecvHeader, HeaderTimeout, HeaderEof, PayloadFails
  <2>4. CASE CheckHeader \/ RecvPayload
    BY <2>1, <2>4 DEF CheckHeader, RecvPayload, Strike
  <2> QED BY <2>2, <2>3, <2>4
<1>6. /\ idle_ticks' \in 0 .. DEAD_PEER_S
      /\ pc' # "exit" => idle_ticks' < DEAD_PEER_S
  <2>1. /\ idle_ticks \in 0 .. DEAD_PEER_S /\ DEAD_PEER_S \in Nat \ {0} /\ WORKER_TICK_S \in Nat \ {0}
        /\ pc # "exit" => idle_ticks < DEAD_PEER_S
    BY WorkerAssumption DEF IInv, TypeOK, Control
  <2>2. CASE HeaderTimeout
    <3>1. /\ pc = "header" /\ idle_ticks' = idle_ticks + 1
          /\ pc' # "exit" => ~((idle_ticks + 1) * WORKER_TICK_S >= DEAD_PEER_S)
      BY <2>2 DEF HeaderTimeout
    <3>2. (idle_ticks + 1) * WORKER_TICK_S \in Nat
      BY <2>1
    <3>3. (idle_ticks + 1) * WORKER_TICK_S < DEAD_PEER_S => idle_ticks + 1 < DEAD_PEER_S
      BY <2>1, TicksBounded
    <3> QED BY <2>1, <3>1, <3>2, <3>3
  <2>3. CASE CheckHeader
    BY <2>1, <2>3 DEF CheckHeader
  <2>4. CASE LoopHead \/ RecvHeader \/ HeaderEof \/ PayloadFails \/ RecvPayload
    BY <2>1, <2>4 DEF LoopHead, RecvHeader, HeaderEof, PayloadFails, RecvPayload
  <2> QED BY <2>2, <2>3, <2>4
<1>7. TypeOK'
  <2>1. /\ running' \in BOOLEAN /\ eof' \in BOOLEAN /\ registered' \in BOOLEAN
    BY <1>1, Zenon DEF IInv, TypeOK
  <2>2. badrun' \in Nat
    BY <1>5, WorkerAssumption
  <2> QED BY <1>1, <1>2, <1>3, <1>5, <1>6, <2>1, <2>2 DEF IInv, TypeOK, Unit
<1>8. Control'
  BY <1>1, <1>3, <1>5, <1>6 DEF IInv, Control
<1> QED BY <1>1, <1>4, <1>7, <1>8, StoresNothing DEF IInv
-----------------------------------------------------------------------------
(* Steps of the worker that answer a packet. *)

(* A packet that is not a reading changes only state, device and strikes. *)
LEMMA OtherPacketIInv ==
  ASSUME IInv, NoHello \/ Hello \/ Frame \/ BadFrameOrType \/ DuplicateHello
  PROVE  IInv'
<1> USE DEF peervars, connvars, Dispatch
<1>1. /\ UNCHANGED <<running, peervars, wire, hdrbuf, idle_ticks, sensor_count, recorded, acked>>
      /\ pc = "dispatch" /\ pc' \in {"loop", "exit"}
      /\ state' \in {"WAIT_HELLO", "ACTIVE", "CLOSING"} /\ (state' # state => state' # "WAIT_HELLO")
  <2>1. CASE NoHello \/ DuplicateHello
    BY <2>1 DEF NoHello, DuplicateHello, IInv, TypeOK
  <2>2. CASE Hello
    BY <2>2 DEF Hello, IInv, TypeOK
  <2>3. CASE Frame \/ BadFrameOrType
    BY <2>3 DEF Frame, BadFrameOrType, IInv, TypeOK
  <2> QED BY <2>1, <2>2, <2>3
<1>2. registered' \in BOOLEAN
  <2>1. registered' = registered \/ registered' \in BOOLEAN
    BY Zenon DEF NoHello, Hello, Frame, BadFrameOrType, DuplicateHello
  <2> QED BY <2>1, Zenon DEF IInv, TypeOK
<1>3. /\ strikes' \in 0 .. MAX_STRIKES /\ badrun' = strikes'
      /\ strikes' >= MAX_STRIKES => pc' = "loop" /\ state' = "CLOSING"
  <2>1. /\ strikes \in 0 .. MAX_STRIKES /\ badrun = strikes /\ MAX_STRIKES \in Nat \ {0}
        /\ strikes < MAX_STRIKES
    BY <1>1, WorkerAssumption DEF IInv, TypeOK, Control
  <2>2. CASE NoHello \/ DuplicateHello
    BY <2>1, <2>2 DEF NoHello, DuplicateHello
  <2>3. CASE Hello \/ Frame
    BY <2>1, <2>3 DEF Hello, Frame
  <2>4. CASE BadFrameOrType
    BY <2>1, <2>4 DEF BadFrameOrType, Strike
  <2> QED BY <2>2, <2>3, <2>4
<1>4. Stream'
  <2>1. ~Reading'
    BY <1>1 DEF Reading
  <2> QED BY <1>1, <2>1, WireShrinks
<1>5. TypeOK'
  <2>1. badrun' \in Nat
    BY <1>3, WorkerAssumption
  <2> QED BY <1>1, <1>2, <1>3, <2>1 DEF IInv, TypeOK, Unit
<1>6. Control'
  BY <1>1, <1>3 DEF IInv, Control
<1> QED BY <1>1, <1>4, <1>5, <1>6, StoresNothing DEF IInv

(* The next acknowledgement names the reading just stored. *)
LEMMA AckStep ==
  ASSUME IInv, NEW e \in 1 .. MaxPackets,
         recorded' = Append(recorded, e),
         acked' = IF (sensor_count + 1) % ACK_EVERY = 0 THEN Append(acked, e) ELSE acked
  PROVE  AcksAreCumulative' /\ acked' \in Seq(1 .. MaxPackets)
<1> DEFINE q == Len(acked)
           r == Len(recorded) - q * ACK_EVERY
<1>1. /\ recorded \in Seq(1 .. MaxPackets) /\ acked \in Seq(1 .. MaxPackets)
      /\ q \in Nat /\ Len(recorded) \in Nat /\ ACK_EVERY \in Nat \ {0}
      /\ sensor_count = Len(recorded)
  BY WorkerAssumption DEF IInv, TypeOK, Stream, Past
<1>2. r \in 0 .. ACK_EVERY - 1 /\ \A n \in DOMAIN acked : acked[n] = recorded[n * ACK_EVERY]
  BY DEF IInv, AcksAreCumulative
<1>3. /\ Len(recorded') = Len(recorded) + 1 /\ recorded'[Len(recorded) + 1] = e
      /\ \A i \in 1 .. Len(recorded) : recorded'[i] = recorded[i]
  BY <1>1, AppendOf
<1>4. q * ACK_EVERY \in Nat /\ Len(recorded) = q * ACK_EVERY + r
  BY <1>1, <1>2
<1>5. \A n \in DOMAIN acked : acked[n] = recorded'[n * ACK_EVERY]
  <2> SUFFICES ASSUME NEW n \in DOMAIN acked PROVE acked[n] = recorded'[n * ACK_EVERY]
    OBVIOUS
  <2>1. n \in Nat /\ 1 <= n /\ n <= q
    BY <1>1
  <2>2. n * ACK_EVERY \in Nat /\ 1 <= n * ACK_EVERY /\ n * ACK_EVERY <= q * ACK_EVERY
    <3> HIDE DEF q
    <3> QED BY <1>1, <2>1, Multiples
  <2>3. n * ACK_EVERY \in 1 .. Len(recorded)
    BY <1>1, <1>2, <1>4, <2>2
  <2> QED BY <1>2, <1>3, <2>3
<1>6. CASE (sensor_count + 1) % ACK_EVERY = 0
  <2>1. acked' = Append(acked, e)
    BY <1>6
  <2>2. /\ acked' \in Seq(1 .. MaxPackets) /\ Len(acked') = q + 1 /\ acked'[q + 1] = e
        /\ \A n \in DOMAIN acked' : n \in DOMAIN acked \/ n = q + 1
        /\ \A n \in DOMAIN acked : acked'[n] = acked[n]
    <3>1. /\ Append(acked, e) \in Seq(1 .. MaxPackets) /\ Len(Append(acked, e)) = Len(acked) + 1
          /\ Append(acked, e)[Len(acked) + 1] = e
          /\ \A n \in DOMAIN Append(acked, e) : n \in DOMAIN acked \/ n = Len(acked) + 1
          /\ \A n \in DOMAIN acked : Append(acked, e)[n] = acked[n]
      BY <1>1, AppendOf
    <3> QED BY <2>1, <3>1, Zenon
  <2>3. r = ACK_EVERY - 1
    <3>1. (q * ACK_EVERY + r + 1) % ACK_EVERY = 0 <=> r = ACK_EVERY - 1
      <4> HIDE DEF q, r
      <4> QED BY <1>1, <1>2, EveryNth
    <3>2. q * ACK_EVERY + r + 1 = sensor_count + 1
      BY <1>1, <1>4
    <3> QED BY <1>6, <3>1, <3>2
  <2>4. (q + 1) * ACK_EVERY = Len(recorded) + 1
    BY <1>1, <1>4, <2>3
  <2>5. Len(recorded') - Len(acked') * ACK_EVERY = 0
    BY <1>1, <1>3, <2>2, <2>4
  <2>6. \A n \in DOMAIN acked' : acked'[n] = recorded'[n * ACK_EVERY]
    BY <1>3, <1>5, <2>2, <2>4
  <2>7. 0 \in 0 .. ACK_EVERY - 1
    BY <1>1
  <2> HIDE DEF q, r
  <2> QED BY <2>2, <2>5, <2>6, <2>7, Zenon DEF AcksAreCumulative
<1>7. CASE ~((sensor_count + 1) % ACK_EVERY = 0)
  <2>1. acked' = acked
    BY <1>7
  <2>2. r # ACK_EVERY - 1
    <3>1. (q * ACK_EVERY + r + 1) % ACK_EVERY = 0 <=> r = ACK_EVERY - 1
      <4> HIDE DEF q, r
      <4> QED BY <1>1, <1>2, EveryNth
    <3>2. q * ACK_EVERY + r + 1 = sensor_count + 1
      BY <1>1, <1>4
    <3> QED BY <1>7, <3>1, <3>2
  <2>3. Len(recorded') - Len(acked') * ACK_EVERY = r + 1
    <3>1. Len(acked') = q
      BY <2>1
    <3>2. Len(acked') * ACK_EVERY = q * ACK_EVERY
      BY <3>1
    <3> DEFINE m == q * ACK_EVERY
    <3>3. m \in Nat /\ Len(acked') * ACK_EVERY = m /\ r = Len(recorded) - m
      BY <1>4, <3>2
    <3>4. (Len(recorded) + 1) - m = (Len(recorded) - m) + 1
      BY <1>1, <3>3, Shift
    <3> HIDE DEF q, r, m
    <3> QED BY <1>3, <3>3, <3>4, Zenon
  <2>4. r + 1 \in 0 .. ACK_EVERY - 1
    <3> HIDE DEF r
    <3> QED BY <1>1, <1>2, <2>2
  <2> HIDE DEF r, q
  <2> QED BY <1>1, <1>5, <2>1, <2>3, <2>4 DEF AcksAreCumulative
<1> QED BY <1>6, <1>7

LEMMA SensorIInv ==
  ASSUME IInv, Sensor
  PROVE  IInv'
<1> USE DEF peervars, connvars, Dispatch
<1>1. /\ UNCHANGED <<running, peervars, wire, hdrbuf, idle_ticks, state, registered>>
      /\ pc = "dispatch" /\ pc' \in {"loop", "crashed"} /\ Kind = "sensor" /\ state = "ACTIVE"
      /\ ~Reading'
  BY DEF Sensor, Reading
<1>2. /\ strikes' \in 0 .. MAX_STRIKES /\ badrun' = strikes' /\ strikes' < MAX_STRIKES
      /\ badrun' \in Nat
  <2>1. /\ strikes \in 0 .. MAX_STRIKES /\ badrun = strikes /\ MAX_STRIKES \in Nat \ {0}
        /\ strikes < MAX_STRIKES
    BY <1>1, WorkerAssumption DEF IInv, TypeOK, Control
  <2> QED BY <2>1 DEF Sensor
<1>3. running' \in BOOLEAN /\ eof' \in BOOLEAN /\ registered' \in BOOLEAN
  BY <1>1, Zenon DEF IInv, TypeOK
<1>4. Control'
  <2>1. ~(strikes' >= MAX_STRIKES)
    BY <1>2, WorkerAssumption
  <2> QED BY <1>1, <1>2, <2>1 DEF IInv, Control
<1>5. CASE UNCHANGED <<sensor_count, recorded, acked>>
  <2>1. Stream'
    BY <1>1, <1>5, WireShrinks
  <2>2. TypeOK'
    BY <1>1, <1>2, <1>3, <1>5 DEF IInv, TypeOK, Unit
  <2>3. RecordsAreReadings' /\ AcksAreCumulative'
    BY <1>1, <1>5, StoresNothing
  <2> QED BY <1>4, <2>1, <2>2, <2>3 DEF IInv
<1> DEFINE e == hdrbuf[1].packet
<1>6. CASE /\ sensor_count' = sensor_count + 1 /\ recorded' = Append(recorded, e)
           /\ acked' = IF (sensor_count + 1) % ACK_EVERY = 0 THEN Append(acked, e) ELSE acked
  <2>1. /\ Starts(hdrbuf[1]) /\ e \in DOMAIN sent /\ hdrbuf # << >> /\ Reading
        /\ sent[e] = "sensor" /\ sent \in Seq(Kinds)
    <3>1. /\ Starts(hdrbuf[1]) /\ e \in DOMAIN sent /\ hdrbuf # << >> /\ Reading
      BY <1>1, KindType
    <3> QED BY <1>1, <3>1 DEF Kind, Starts, IInv, TypeOK
  <2>2. /\ e <= Begun
        /\ \A k \in DOMAIN recorded : recorded[k] < e
        /\ \A i \in DOMAIN wire : Starts(wire[i]) => e < wire[i].packet
    BY <2>1 DEF IInv, Stream, InHand
  <2>3. e \in Nat /\ e \in 1 .. MaxPackets
    <3>1. DOMAIN sent = 1 .. Len(sent) /\ Len(sent) \in Nat /\ Len(sent) <= MaxPackets
      BY <2>1, BegunType
    <3> HIDE DEF e
    <3> QED BY <2>1, <3>1, WorkerAssumption
  <2> HIDE DEF e
  <2>4. recorded \in Seq(1 .. MaxPackets) /\ Len(recorded) \in Nat /\ sensor_count = Len(recorded)
    BY DEF IInv, TypeOK, Stream, Past
  <2>5. /\ recorded' \in Seq(1 .. MaxPackets) /\ Len(recorded') = Len(recorded) + 1
        /\ recorded'[Len(recorded) + 1] = e
        /\ DOMAIN recorded = 1 .. Len(recorded)
        /\ \A k \in DOMAIN recorded' : k \in DOMAIN recorded \/ k = Len(recorded) + 1
        /\ \A k \in DOMAIN recorded : recorded'[k] = recorded[k]
    BY <1>6, <2>3, <2>4, AppendOf
  <2>6. Len(recorded) < e
    <3>1. CASE Len(recorded) = 0
      BY <2>3, <3>1
    <3>2. CASE Len(recorded) # 0
      <4>1. Len(recorded) \in DOMAIN recorded
        BY <2>4, <2>5, <3>2
      <4>2. Len(recorded) <= recorded[Len(recorded)] /\ recorded[Len(recorded)] \in Nat
        BY <4>1, Members DEF IInv, Stream, Past
      <4> QED BY <2>2, <2>3, <2>4, <4>1, <4>2
    <3> QED BY <3>1, <3>2
  <2>7. Begun' = Begun /\ Begun \in Nat
    BY <1>1, BegunType DEF Begun
  <2>8. AcksAreCumulative' /\ acked' \in Seq(1 .. MaxPackets)
    BY <1>6, <2>3, AckStep
  <2>9. RecordsAreReadings'
    <3>1. \A k \in DOMAIN recorded' : sent[recorded'[k]] = "sensor"
      BY <2>1, <2>5 DEF IInv, RecordsAreReadings
    <3>2. ASSUME NEW k \in 2 .. Len(recorded') PROVE recorded'[k - 1] < recorded'[k]
      <4>1. k - 1 \in DOMAIN recorded /\ (k \in 2 .. Len(recorded) \/ k = Len(recorded) + 1)
        BY <2>4, <2>5
      <4>2. CASE k \in 2 .. Len(recorded)
        BY <2>5, <4>1, <4>2 DEF IInv, RecordsAreReadings
      <4>3. CASE k = Len(recorded) + 1
        BY <2>2, <2>5, <4>1, <4>3
      <4> QED BY <4>1, <4>2, <4>3
    <3> QED BY <1>1, <3>1, <3>2 DEF RecordsAreReadings
  <2>10. Past'
    BY <1>6, <2>2, <2>4, <2>5, <2>6, <2>7, <2>3 DEF IInv, Stream, Past
  <2>11. WireOrdered'
    BY <1>1 DEF IInv, Stream, WireOrdered, Starts
  <2>12. Ahead'
    <3> SUFFICES ASSUME NEW i \in DOMAIN wire, Starts(wire[i])
                 PROVE  /\ wire[i].packet <= Begun
                        /\ \A k \in DOMAIN recorded' : recorded'[k] < wire[i].packet
      BY <1>1, <2>7 DEF Ahead, Starts
    <3>1. wire[i].packet <= Begun /\ \A k \in DOMAIN recorded : recorded[k] < wire[i].packet
      BY DEF IInv, Stream, Ahead
    <3>2. e < wire[i].packet
      BY <2>2
    <3> QED BY <2>5, <3>1, <3>2
  <2>13. InHand'
    BY <1>1 DEF InHand
  <2>14. TypeOK'
    <3>1. sensor_count' \in 0 .. MaxPackets
      BY <1>6, <2>3, <2>4, <2>6, WorkerAssumption
    <3> QED BY <1>1, <1>2, <1>3, <2>5, <2>8, <3>1 DEF IInv, TypeOK, Unit
  <2> QED BY <1>4, <2>8, <2>9, <2>10, <2>11, <2>12, <2>13, <2>14 DEF IInv, Stream
<1> QED BY <1>5, <1>6, Zenon DEF Sensor

-----------------------------------------------------------------------------
LEMMA InitIInv == Init => IInv
<1> SUFFICES ASSUME Init PROVE IInv
  OBVIOUS
<1> USE WorkerAssumption DEF Init
<1>1. running \in BOOLEAN /\ eof \in BOOLEAN /\ registered \in BOOLEAN
  BY Zenon
<1>2. TypeOK
  BY <1>1 DEF TypeOK
<1>3. Control
  BY DEF Control
<1>4. Stream
  BY DEF Stream, WireOrdered, Ahead, InHand, Past
<1>5. RecordsAreReadings /\ AcksAreCumulative
  BY DEF RecordsAreReadings, AcksAreCumulative
<1> QED BY <1>2, <1>3, <1>4, <1>5 DEF IInv

LEMMA NextIInv == IInv /\ [Next]_vars => IInv'
<1> SUFFICES ASSUME IInv, [Next]_vars PROVE IInv'
  OBVIOUS
<1>1. CASE UNCHANGED vars
  <2> USE <1>1 DEF vars, peervars, connvars
  <2>1. TypeOK' /\ Control'
    BY DEF IInv, TypeOK, Control, Unit
  <2>2. Stream'
    BY DEF IInv, Stream, WireOrdered, Ahead, InHand, Past, Reading, Begun, Starts, FullRest
  <2>3. RecordsAreReadings' /\ AcksAreCumulative'
    BY StoresNothing
  <2> QED BY <2>1, <2>2, <2>3 DEF IInv
<1>2. CASE Next
  BY <1>2, PeerPacketIInv, PeerUnitIInv, PeerOrStopIInv, ReadIInv, OtherPacketIInv, SensorIInv
     DEF Next, WorkerStep
<1> QED BY <1>1, <1>2

LEMMA Inductive == Spec => []IInv
BY InitIInv, NextIInv, PTL DEF Spec

(* Type correctness: sensor_count, strikes and idle_ticks stay within their *)
(* limits, and hdrbuf never holds more than a header.                       *)
THEOREM TypeCorrect == Spec => []TypeOK
<1>1. IInv => TypeOK BY DEF IInv
<1> QED BY <1>1, Inductive, PTL

(* The worker stores readings that the peer sent, after the handshake, in   *)
(* the order sent and none twice, however TCP cuts the stream and whatever  *)
(* packets it rejects, whose payloads it leaves unread, in between.         *)
THEOREM ReadingsAreTrue == Spec => []RecordsAreReadings
<1>1. IInv => RecordsAreReadings BY DEF IInv
<1> QED BY <1>1, Inductive, PTL

(* The n-th PKT_ACK names the n * ACK_EVERY-th reading stored, and no       *)
(* acknowledgement is missing.                                              *)
THEOREM AcksCount == Spec => []AcksAreCumulative
<1>1. IInv => AcksAreCumulative BY DEF IInv
<1> QED BY <1>1, Inductive, PTL

(* MAX_STRIKES rejected packets in a row end the connection, by the break   *)
(* of a header or checksum check or by CLOSING, before another is read.     *)
THEOREM StrikesEnd == Spec => []StrikesEndIt
<1>1. IInv => StrikesEndIt BY DEF IInv, Control, StrikesEndIt
<1> QED BY <1>1, Inductive, PTL
=============================================================================
