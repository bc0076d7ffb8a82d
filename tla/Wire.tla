-------------------------------- MODULE Wire --------------------------------
(***************************************************************************)
(* The wire format: common/wire.c and common/checksum.c on the server,     *)
(* firmware/telemetry.c on the device.  One packet of either end crosses a *)
(* line that may flip one of its bits, to one of three receivers: the      *)
(* client worker, the heartbeat listener, the device.  A 32-bit field is the integer with its bits in   *)
(* two's complement, so every operator stays within TLC's integers.        *)
(***************************************************************************)
EXTENDS Integers, Sequences, FiniteSetsExt

CONSTANTS
  Readings,      (* sensor readings: [seq, time, temp, humid]              *)
  Counts,        (* values of the fields of HELLO and HEARTBEAT            *)
  Replies,       (* payloads of the server's packets, as byte sequences    *)
  DeviceIds      (* 32-bit device ids                                      *)

PL_MAGIC == 20556          \* 0x504C
PL_VERSION == 1
PL_HDR_SIZE == 12
PL_MAX_PAYLOAD == 1100
PL_FW_MAX == 64            \* the longest reply the firmware takes
PKT_HELLO == 1
PKT_HELLO_ACK == 2
PKT_SENSOR == 3
PKT_ACK == 4
PKT_HEARTBEAT == 5
PKT_ERROR == 7

Byte == 0 .. 255

(* put_u16 and put_u32 (htons and htonl on the server): big-endian bytes. *)
put_u16(v) == <<(v \div 256) % 256, v % 256>>
put_u32(v) == put_u16((v \div 65536) % 65536) \o put_u16(v % 65536)

(* pl_rd_u16, and pl_rd_u32 or ntohl: the field at offset o (0 the first). *)
rd_u16(d, o) == d[o + 1] * 256 + d[o + 2]
rd_u32(d, o) ==
  LET hi == rd_u16(d, o) lo == rd_u16(d, o + 2)
  IN  (IF hi >= 32768 THEN hi - 65536 ELSE hi) * 65536 + lo

(* Mutants: carries are dropped; the last word is not summed; the id is     *)
(* read one byte too far; temperature and humidity are exchanged.           *)
Fold_DropsCarry(s) == s % 65536

WordSum_SkipsLast(d) ==
  MapThenSumSet(LAMBDA i : d[i] * 256 + d[i + 1],
                {i \in 1 .. Len(d) - 2 : i % 2 = 1})

rd_header_WrongOffset(d) ==
  [magic |-> rd_u16(d, 0), version |-> d[3], type |-> d[4], id |-> rd_u32(d, 5),
   len |-> rd_u16(d, 8), checksum |-> rd_u16(d, 10)]

rd_sensor_Swapped(p) ==
  [seq |-> rd_u32(p, 0), temp |-> rd_u32(p, 12), humid |-> rd_u32(p, 8)]

(* The 16-bit word that starts at byte i; an odd last byte is the high half. *)
WordAt(d, i) ==
  IF i < Len(d) THEN d[i] * 256 + d[i + 1] ELSE d[i] * 256

WordSum(d) ==
  MapThenSumSet(LAMBDA i : WordAt(d, i), {i \in 1 .. Len(d) : i % 2 = 1})

(* while (sum >> 16) sum = (sum & 0xFFFF) + (sum >> 16) *)
Carry[s \in Nat] == IF s < 65536 THEN s ELSE Carry[(s % 65536) + (s \div 65536)]
Fold(s) == Carry[s]

pl_checksum(d) == 65535 - Fold(WordSum(d))

(* The server's encoder. *)
pl_build(type, id, payload) ==
  put_u16(PL_MAGIC) \o <<PL_VERSION, type>> \o put_u32(id)
    \o put_u16(Len(payload)) \o put_u16(pl_checksum(payload)) \o payload

(* The device's: a header in front of the finished payload. *)
put_header(type, id, payload) ==
  LET plen == put_u16(Len(payload)) sum == put_u16(pl_checksum(payload))
  IN  put_u16(PL_MAGIC) \o <<PL_VERSION, type>> \o put_u32(id) \o plen \o sum \o payload

(* The payloads of pl_build_sensor, and of pl_build_hello (version and      *)
(* capabilities) and pl_build_heartbeat (uptime and free heap).             *)
SensorPayload(r) ==
  put_u32(r.seq) \o put_u32(r.time) \o put_u32(r.temp) \o put_u32(r.humid)
PairPayload(a, b) == put_u32(a) \o put_u32(b)

(* pl_parse_header. *)
rd_header(d) ==
  [magic |-> rd_u16(d, 0), version |-> d[3], type |-> d[4], id |-> rd_u32(d, 4),
   len |-> rd_u16(d, 8), checksum |-> rd_u16(d, 10)]

(* What client_worker reads from a SENSOR payload: timestamp_ms is skipped. *)
rd_sensor(p) ==
  [seq |-> rd_u32(p, 0), temp |-> rd_u32(p, 8), humid |-> rd_u32(p, 12)]

(* What udp_listener_thread reads from a heartbeat. *)
rd_heartbeat(p) ==
  IF Len(p) >= 8 THEN <<rd_u32(p, 0), rd_u32(p, 4)>> ELSE <<0, 0>>

-----------------------------------------------------------------------------
VARIABLES
  made,      (* what the sender put in: type, id, payload, reading         *)
  line,      (* the bytes on the line                                      *)
  hit,       (* the position of the flipped bit: byte, or 0 for none       *)
  got        (* what the receiver made of them                             *)

vars == <<made, line, hit, got>>

Nothing == [type |-> 0]

TypeOK ==
  /\ line \in Seq(Byte)
  /\ hit \in 0 .. Len(line)
  /\ got.type \in {"none", "rejected", "starved", "accepted"}

Init ==
  /\ made = Nothing /\ line = << >> /\ hit = 0
  /\ got = [type |-> "none"]

Send(type, id, payload, bytes) ==
  /\ made = Nothing
  /\ made' = [type |-> type, id |-> id, payload |-> payload]
  /\ line' = bytes
  /\ UNCHANGED <<hit, got>>

pl_build_sensor == \E r \in Readings, id \in DeviceIds :
  LET p == SensorPayload(r) IN Send(PKT_SENSOR, id, p, put_header(PKT_SENSOR, id, p))
pl_build_hello == \E a, b \in Counts, id \in DeviceIds :
  LET p == PairPayload(a, b) IN Send(PKT_HELLO, id, p, put_header(PKT_HELLO, id, p))
pl_build_heartbeat == \E a, b \in Counts, id \in DeviceIds :
  LET p == PairPayload(a, b) IN Send(PKT_HEARTBEAT, id, p, put_header(PKT_HEARTBEAT, id, p))

send_packet == \E p \in Replies, id \in DeviceIds, type \in {PKT_HELLO_ACK, PKT_ACK, PKT_ERROR} :
  Send(type, id, p, pl_build(type, id, p))

Flipped(b, k) == IF (b \div 2^k) % 2 = 1 THEN b - 2^k ELSE b + 2^k

(* Line noise: one bit of one byte. *)
Noise ==
  /\ line # << >> /\ hit = 0 /\ got.type = "none"
  /\ \E i \in 1 .. Len(line), k \in 0 .. 7 :
       /\ line' = [line EXCEPT ![i] = Flipped(@, k)]
       /\ hit' = i
  /\ UNCHANGED <<made, got>>

(* What every receiver asks: magic and version, a payload of at most max    *)
(* bytes that has arrived, and its checksum.  On a stream a length beyond   *)
(* the bytes sent leaves the receiver waiting.                              *)
Verdict(h, max) ==
  LET p == SubSeq(line, PL_HDR_SIZE + 1, PL_HDR_SIZE + h.len)
  IN  IF h.magic # PL_MAGIC \/ h.version # PL_VERSION \/ h.len > max
      THEN [type |-> "rejected"]
      ELSE IF PL_HDR_SIZE + h.len > Len(line) THEN [type |-> "starved"]
      ELSE IF pl_checksum(p) # h.checksum THEN [type |-> "rejected"]
      ELSE [type |-> "accepted", header |-> h, payload |-> p]

(* The packet in front of a receiver. *)
Take(types, verdict) ==
  /\ line # << >> /\ got.type = "none" /\ made.type \in types
  /\ got' = verdict
  /\ UNCHANGED <<made, line, hit>>

client_worker == Take({PKT_HELLO, PKT_SENSOR}, Verdict(rd_header(line), PL_MAX_PAYLOAD))

(* The listener drops what is not a heartbeat, and a datagram shorter than  *)
(* it says.                                                                 *)
udp_listener_thread ==
  LET v == Verdict(rd_header(line), Len(line) - PL_HDR_SIZE)
  IN  Take({PKT_HEARTBEAT},
           IF v.type = "accepted" /\ v.header.type # PKT_HEARTBEAT THEN [type |-> "rejected"] ELSE v)

(* do_handshake and drain_replies, by pl_parse_header_fw. *)
drain_replies == Take({PKT_HELLO_ACK, PKT_ACK, PKT_ERROR}, Verdict(rd_header(line), PL_FW_MAX))

Next ==
  \/ pl_build_sensor \/ pl_build_hello \/ pl_build_heartbeat \/ send_packet
  \/ Noise
  \/ client_worker \/ udp_listener_thread \/ drain_replies

Spec == Init /\ [][Next]_vars

-----------------------------------------------------------------------------
(* What one end builds the other reads back: type, device id and payload,   *)
(* with the checksum it verifies, for every packet the line leaves intact   *)
(* (pl_build and pl_build_* against pl_parse_header and its firmware twin). *)
CleanPacketsArrive ==
  (got.type # "none" /\ hit = 0) =>
    /\ got.type = "accepted"
    /\ got.header.type = made.type /\ got.header.id = made.id
    /\ got.payload = made.payload

(* Negative temperatures included, the server stores the reading the device *)
(* took, and reports the uptime and heap of its heartbeat: pl_build_sensor  *)
(* and the SENSOR case of client_worker agree, and so do pl_build_heartbeat *)
(* and udp_listener_thread.                                                 *)
ReadingsSurvive ==
  (got.type = "accepted" /\ hit = 0) =>
    /\ made.type = PKT_SENSOR => \E r \in Readings :
         /\ made.payload = SensorPayload(r)
         /\ rd_sensor(got.payload) = [seq |-> r.seq, temp |-> r.temp, humid |-> r.humid]
    /\ made.type = PKT_HEARTBEAT => \E a, b \in Counts :
         /\ made.payload = PairPayload(a, b)
         /\ rd_heartbeat(got.payload) = <<a, b>>

(* checksum.c: it "detects all single-bit errors".  No packet with one bit  *)
(* of its payload, or of its checksum, flipped is accepted.                 *)
SingleBitErrorsDetected ==
  (hit > PL_HDR_SIZE - 2) => got.type # "accepted"

(* pl_checksum is RFC 1071's: the complement of the sum of the 16-bit words *)
(* in ones'-complement arithmetic, that is modulo 65535 with 65535 for a    *)
(* sum that is not zero.                                                    *)
Rfc1071(d) ==
  LET s == MapThenSumSet(LAMBDA i : d[i] * (IF i % 2 = 1 THEN 256 ELSE 1), 1 .. Len(d))
  IN  65535 - (IF s = 0 THEN 0 ELSE ((s - 1) % 65535) + 1)

ChecksumIsRfc1071 ==
  made # Nothing => pl_checksum(made.payload) = Rfc1071(made.payload)
=============================================================================
