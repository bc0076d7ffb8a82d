---------------------------- MODULE ClientWorker ----------------------------
(***************************************************************************)
(* server/client_handler.c: one worker and its TCP peer, with read_n of    *)
(* common/netutil.c.  The byte stream is a sequence of units: a header is  *)
(* two units, so that it can arrive in parts, and a payload is one.  A     *)
(* packet is abstracted to its kind, which is what the worker's checks     *)
(* tell apart, and its number; read at any place but the start of a        *)
(* packet, a header has the wrong magic.                                   *)
(***************************************************************************)
EXTENDS Integers, Sequences

CONSTANTS
  Kinds,          (* the kinds of packet that the peer sends               *)
  WORKER_TICK_S, DEAD_PEER_S, MAX_STRIKES, ACK_EVERY,
  MaxPackets      (* bound: packets that the peer sends                    *)

AllKinds ==
  {"hello", "sensor", "frame", "badframe", "other", "badmagic", "badversion", "toobig", "badsum"}

ASSUME WorkerAssumption ==
  /\ Kinds \subseteq AllKinds
  /\ WORKER_TICK_S \in Nat \ {0} /\ DEAD_PEER_S \in Nat \ {0}
  /\ MAX_STRIKES \in Nat \ {0} /\ ACK_EVERY \in Nat \ {0} /\ MaxPackets \in Nat

VARIABLES
  running,        (* ctx->running                                          *)
  sent,           (* history: the kinds of the packets the peer began      *)
  rest,           (* parts of the current packet the peer has yet to send  *)
  eof,            (* the peer has closed its side                          *)
  wire,           (* units on their way                                    *)
  pc, hdrbuf,     (* the worker: pc, and the part of a header read so far  *)
  state, registered, strikes, idle_ticks, sensor_count,
  recorded,       (* history: readings stored in table and sink, in order  *)
  acked,          (* history: readings acknowledged, in order              *)
  badrun          (* history: packets rejected since the last accepted one *)

peervars == <<sent, rest, eof>>
connvars == <<state, registered, strikes, sensor_count, recorded, acked, badrun>>
vars == <<running, peervars, wire, pc, hdrbuf, idle_ticks, connvars>>

Init ==
  /\ running = TRUE
  /\ sent = << >> /\ rest = << >> /\ eof = FALSE /\ wire = << >>
  /\ pc = "loop" /\ hdrbuf = << >>
  /\ state = "WAIT_HELLO" /\ registered = FALSE
  /\ strikes = 0 /\ idle_ticks = 0 /\ sensor_count = 0
  /\ recorded = << >> /\ acked = << >> /\ badrun = 0
-----------------------------------------------------------------------------
(* The peer and the rest of the server. *)

PeerPacket(kind) ==
  /\ ~eof /\ rest = << >> /\ Len(sent) < MaxPackets
  /\ sent' = Append(sent, kind)
  /\ rest' = <<"h1", "h2", "payload">>
  /\ UNCHANGED <<running, eof, wire, pc, hdrbuf, idle_ticks, connvars>>

(* TCP delivers in order but in pieces of any size. *)
PeerUnit ==
  /\ rest # << >>
  /\ wire' = Append(wire, [part |-> Head(rest), packet |-> Len(sent)])
  /\ rest' = Tail(rest)
  /\ UNCHANGED <<running, sent, eof, pc, hdrbuf, idle_ticks, connvars>>

(* The peer closes, possibly in the middle of a packet. *)
PeerClose ==
  /\ ~eof
  /\ eof' = TRUE /\ rest' = << >>
  /\ UNCHANGED <<running, sent, wire, pc, hdrbuf, idle_ticks, connvars>>

(* The connection is reset: what was on its way is lost, and recv fails. *)
PeerReset ==
  /\ ~eof \/ wire # << >>
  /\ eof' = TRUE /\ rest' = << >> /\ wire' = << >>
  /\ UNCHANGED <<running, sent, pc, hdrbuf, idle_ticks, connvars>>

Stop ==
  /\ running
  /\ running' = FALSE
  /\ UNCHANGED <<peervars, wire, pc, hdrbuf, idle_ticks, connvars>>
-----------------------------------------------------------------------------
(* The worker's loop. *)

LoopHead ==
  /\ pc = "loop"
  /\ pc' = IF running /\ state # "CLOSING" THEN "header" ELSE "exit"
  /\ hdrbuf' = << >>
  /\ UNCHANGED <<running, peervars, wire, idle_ticks, connvars>>

(* read_n of the header: take what is there. *)
RecvHeader ==
  /\ pc = "header" /\ wire # << >> /\ Len(hdrbuf) < 2
  /\ hdrbuf' = Append(hdrbuf, Head(wire))
  /\ wire' = Tail(wire)
  /\ UNCHANGED <<running, peervars, pc, idle_ticks, connvars>>

(* Mutant: a silent peer is waited for. *)
HeaderTimeout_NoReap ==
  /\ pc = "header" /\ wire = << >> /\ ~eof /\ Len(hdrbuf) < 2
  /\ pc' = "loop"
  /\ hdrbuf' = << >>
  /\ UNCHANGED <<running, peervars, wire, idle_ticks, connvars>>

(* SO_RCVTIMEO: read_n returns -1, and whatever part of the header it had   *)
(* is forgotten; a peer silent for too long is reaped.                     *)
HeaderTimeout ==
  /\ pc = "header" /\ wire = << >> /\ ~eof /\ Len(hdrbuf) < 2
  /\ idle_ticks' = idle_ticks + 1
  /\ pc' = IF (idle_ticks + 1) * WORKER_TICK_S >= DEAD_PEER_S THEN "exit" ELSE "loop"
  /\ hdrbuf' = << >>
  /\ UNCHANGED <<running, peervars, wire, connvars>>

(* The end of the stream, between packets or inside a header, or an error. *)
HeaderEof ==
  /\ pc = "header" /\ wire = << >> /\ eof /\ Len(hdrbuf) < 2
  /\ pc' = "exit"
  /\ UNCHANGED <<running, peervars, wire, hdrbuf, idle_ticks, connvars>>

(* The kind of the packet whose header was read. *)
Kind == IF hdrbuf[1].part = "h1" THEN sent[hdrbuf[1].packet] ELSE "badmagic"

(* A rejected packet: an error goes to the peer, dt_record_bad counts it    *)
(* against the device if there is one, and enough strikes end the worker.  *)
Strike ==
  /\ strikes' = strikes + 1
  /\ badrun' = badrun + 1

(* pl_parse_header and the checks on magic, version and length, which leave *)
(* the payload of a rejected packet unread.                                *)
CheckHeader ==
  /\ pc = "header" /\ Len(hdrbuf) = 2
  /\ idle_ticks' = 0
  /\ IF Kind \in {"badmagic", "badversion", "toobig"}
     THEN /\ Strike
          /\ pc' = IF strikes + 1 >= MAX_STRIKES THEN "exit" ELSE "loop"
     ELSE pc' = "payload" /\ UNCHANGED <<strikes, badrun>>
  /\ UNCHANGED <<running, peervars, wire, hdrbuf, state, registered, sensor_count, recorded, acked>>

(* read_n of the payload: a timeout or the end of the stream ends it all. *)
PayloadFails ==
  /\ pc = "payload" /\ wire = << >>
  /\ pc' = "exit"
  /\ UNCHANGED <<running, peervars, wire, hdrbuf, idle_ticks, connvars>>

RecvPayload ==
  /\ pc = "payload" /\ wire # << >>
  /\ wire' = Tail(wire)
  /\ IF Kind = "badsum"
     THEN /\ Strike
          /\ pc' = IF strikes + 1 >= MAX_STRIKES THEN "exit" ELSE "loop"
     ELSE pc' = "dispatch" /\ UNCHANGED <<strikes, badrun>>
  /\ UNCHANGED <<running, peervars, hdrbuf, idle_ticks, state, registered, sensor_count,
                 recorded, acked>>
-----------------------------------------------------------------------------
(* Dispatch on the state and the type. *)

Dispatch(type, st) ==
  /\ pc = "dispatch" /\ state = st /\ type = Kind
  /\ UNCHANGED <<running, peervars, wire, hdrbuf, idle_ticks>>

NoHello ==
  /\ \E kind \in Kinds \ {"hello"} : Dispatch(kind, "WAIT_HELLO")
  /\ pc' = "exit"
  /\ UNCHANGED connvars

(* dt_get_or_create may fail to allocate, and HELLO_ACK may fail to go out; *)
(* only the second ends the worker.                                        *)
Hello ==
  /\ Dispatch("hello", "WAIT_HELLO")
  /\ registered' \in BOOLEAN
  /\ \/ pc' = "exit" /\ UNCHANGED <<state, strikes, badrun>>
     \/ pc' = "loop" /\ state' = "ACTIVE" /\ strikes' = 0 /\ badrun' = 0
  /\ UNCHANGED <<sensor_count, recorded, acked>>

(* Mutants: readings count in any state; the acknowledgement looks at the   *)
(* count before it is incremented.                                         *)
Sensor_AnyState ==
  /\ Dispatch("sensor", state)
  /\ pc' = "loop"
  /\ recorded' = Append(recorded, hdrbuf[1].packet)
  /\ UNCHANGED <<state, registered, strikes, sensor_count, acked, badrun>>

Sensor_AckEarly ==
  /\ Dispatch("sensor", "ACTIVE")
  /\ registered
  /\ pc' = "loop"
  /\ strikes' = 0 /\ badrun' = 0
  /\ sensor_count' = sensor_count + 1
  /\ recorded' = Append(recorded, hdrbuf[1].packet)
  /\ acked' = IF sensor_count % ACK_EVERY = 0 THEN Append(acked, hdrbuf[1].packet) ELSE acked
  /\ UNCHANGED <<state, registered>>

(* A reading goes to the table and the sink; every ACK_EVERY-th one is      *)
(* acknowledged.  Without a device, dt_record_sensor has no valid pointer. *)
Sensor ==
  /\ Dispatch("sensor", "ACTIVE")
  /\ IF registered
     THEN /\ pc' = "loop"
          /\ strikes' = 0 /\ badrun' = 0
          /\ sensor_count' = sensor_count + 1
          /\ recorded' = Append(recorded, hdrbuf[1].packet)
          /\ acked' = IF (sensor_count + 1) % ACK_EVERY = 0
                      THEN Append(acked, hdrbuf[1].packet) ELSE acked
     ELSE pc' = "crashed" /\ UNCHANGED <<strikes, badrun, sensor_count, recorded, acked>>
  /\ UNCHANGED <<state, registered>>

(* frame_asm_feed accepted the chunk; a finished frame is processed. *)
Frame ==
  /\ Dispatch("frame", "ACTIVE")
  /\ pc' = "loop" /\ strikes' = 0 /\ badrun' = 0
  /\ UNCHANGED <<state, registered, sensor_count, recorded, acked>>

(* Mutant: strikes of this kind are counted and have no consequence. *)
BadFrameOrType_NoLimit ==
  /\ \E kind \in {"frame", "badframe", "other"} : Dispatch(kind, "ACTIVE")
  /\ Strike
  /\ pc' = "loop"
  /\ UNCHANGED <<state, registered, sensor_count, recorded, acked>>

(* A chunk that frame_asm_feed rejects, a good one that it has no memory    *)
(* for, or a type that has no business here.                               *)
BadFrameOrType ==
  /\ \E kind \in {"frame", "badframe", "other"} : Dispatch(kind, "ACTIVE")
  /\ Strike
  /\ state' = IF strikes + 1 >= MAX_STRIKES THEN "CLOSING" ELSE state
  /\ pc' = "loop"
  /\ UNCHANGED <<registered, sensor_count, recorded, acked>>

DuplicateHello ==
  /\ Dispatch("hello", "ACTIVE")
  /\ pc' = "loop"
  /\ UNCHANGED connvars
-----------------------------------------------------------------------------
WorkerStep ==
  \/ LoopHead \/ RecvHeader \/ HeaderTimeout \/ HeaderEof \/ CheckHeader \/ PayloadFails
  \/ RecvPayload \/ NoHello \/ Hello \/ Sensor \/ Frame \/ BadFrameOrType \/ DuplicateHello

Next ==
  \/ \E kind \in Kinds : PeerPacket(kind)
  \/ PeerUnit \/ PeerClose \/ PeerReset \/ Stop
  \/ WorkerStep

Spec == Init /\ [][Next]_vars

(* The worker runs and its timeouts fire; the peer does as it likes. *)
FairSpec == Spec /\ WF_vars(WorkerStep)
-----------------------------------------------------------------------------
Unit == [part : {"h1", "h2", "payload"}, packet : 1 .. MaxPackets]

(* The values of the variables; strikes never go past MAX_STRIKES. *)
TypeOK ==
  /\ running \in BOOLEAN /\ eof \in BOOLEAN /\ registered \in BOOLEAN
  /\ sent \in Seq(Kinds)
  /\ rest \in {<< >>, <<"payload">>, <<"h2", "payload">>, <<"h1", "h2", "payload">>}
  /\ wire \in Seq(Unit) /\ hdrbuf \in Seq(Unit) /\ Len(hdrbuf) <= 2
  /\ pc \in {"loop", "header", "payload", "dispatch", "exit", "crashed"}
  /\ state \in {"WAIT_HELLO", "ACTIVE", "CLOSING"}
  /\ strikes \in 0 .. MAX_STRIKES /\ badrun \in Nat
  /\ idle_ticks \in 0 .. DEAD_PEER_S /\ sensor_count \in 0 .. MaxPackets
  /\ recorded \in Seq(1 .. MaxPackets) /\ acked \in Seq(1 .. MaxPackets)

(* No reading is stored before the handshake, and what is stored are        *)
(* readings of the peer, in the order sent and none of them twice, however *)
(* the stream was cut and whatever was rejected in between.                *)
RecordsAreReadings ==
  /\ recorded # << >> => state # "WAIT_HELLO"
  /\ \A k \in DOMAIN recorded : sent[recorded[k]] = "sensor"
  /\ \A k \in 2 .. Len(recorded) : recorded[k - 1] < recorded[k]

(* "cumulative ACK: PKT_ACK with the latest seq every 8th sensor packet":   *)
(* the n-th acknowledgement names the n * ACK_EVERY-th reading stored.     *)
AcksAreCumulative ==
  /\ Len(recorded) - Len(acked) * ACK_EVERY \in 0 .. ACK_EVERY - 1
  /\ \A n \in DOMAIN acked : acked[n] = recorded[n * ACK_EVERY]

(* "3 strikes": MAX_STRIKES rejected packets in a row always end the        *)
(* connection, whichever checks rejected them and whatever was ignored in  *)
(* between, and the worker reads no further packet.                        *)
StrikesEndIt ==
  badrun >= MAX_STRIKES => pc = "exit" \/ (pc = "loop" /\ state = "CLOSING")

(* A worker comes to an end once its peer has said all it has to say: the   *)
(* peer leaves, falls silent in any part of a packet, or has misbehaved, or *)
(* the server stops, or the worker has crashed for want of a device.       *)
WorkerEnds == <>(pc \in {"exit", "crashed"})

(* "These helpers loop until the exact byte count is satisfied so the rest  *)
(* of the code can think in messages" (netutil.h): every header that the   *)
(* worker checks is the header of a packet, here of a peer that sends      *)
(* nothing but well-formed packets.                                        *)
HeadersAreWhole ==
  Len(hdrbuf) = 2 => hdrbuf[1].part = "h1" /\ hdrbuf[2].part = "h2"
=============================================================================
