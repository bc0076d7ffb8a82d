----------------------------- MODULE FakeClient -----------------------------
(***************************************************************************)
(* tools/fake_client.c: the test client, in its three modes: readings,     *)
(* readings with a bad checksum, and one frame.  Its main thread and its   *)
(* heartbeat thread; replies arrive whole.                                 *)
(***************************************************************************)
EXTENDS Link

CONSTANTS
  count,      (* readings to send (-n)                                     *)
  cc          (* chunks of its frame                                       *)

ASSUME FcAssumption == count \in Nat /\ cc \in Nat

VARIABLES
  fc,         (* main: pc, mode, its connection, seq, sent, errors         *)
  hb          (* hb.running, and the heartbeat thread's pc                 *)

Modes == {"readings", "bad-checksum", "frame"}

FcInit ==
  /\ fc \in [pc : {"connect"}, mode : Modes, fd : {CHOOSE k \in Conns : TRUE},
            seq : {1}, sent : {0}, errors : {0}]
  /\ hb = [running |-> FALSE, pc |-> "none"]

At(pc) == fc.pc = pc
Goto(pc) == fc' = [fc EXCEPT !.pc = pc]

(* A write fails only on a connection that the server has closed, and not   *)
(* always then.                                                            *)
Broken == conn[fc.fd].srv = "closed"

(* connect_to, which may fail, and main exits. *)
FcConnect ==
  /\ At("connect")
  /\ \/ Dial(fc.fd) /\ Goto("hello")
     \/ Goto("failed") /\ UNCHANGED conn
  /\ UNCHANGED <<hb, stored>>

FcHello ==
  /\ At("hello")
  /\ \/ Put(fc.fd, HELLO) /\ Goto("ack")
     \/ Broken /\ HangUp(fc.fd, TRUE) /\ Goto("failed")
  /\ UNCHANGED <<hb, stored>>

Acked == conn[fc.fd].down # << >> /\ Head(conn[fc.fd].down) = HELLO_ACK

(* HELLO_ACK within 2 s; then a frame, or readings with heartbeats beside. *)
FcAck ==
  /\ At("ack") /\ Acked
  /\ Get(fc.fd)
  /\ IF fc.mode = "frame" THEN Goto("frame") /\ UNCHANGED hb
     ELSE Goto("send") /\ hb' = [running |-> TRUE, pc |-> "start"]
  /\ UNCHANGED stored

(* The end of the stream, the timeout, or another reply. *)
FcNoAck ==
  /\ At("ack") /\ ~Acked
  /\ HangUp(fc.fd, TRUE) /\ Goto("failed")
  /\ UNCHANGED <<hb, stored>>

(* One chunk after another, or none for want of memory; replies are left    *)
(* unread.                                                                 *)
FcChunk ==
  /\ At("frame") /\ fc.seq <= cc
  /\ \/ Put(fc.fd, FRAME(fc.seq)) /\ fc' = [fc EXCEPT !.seq = @ + 1]
     \/ Broken /\ fc' = [fc EXCEPT !.seq = cc + 1] /\ UNCHANGED conn
  /\ UNCHANGED <<hb, stored>>

FcFrameEnd ==
  /\ At("frame") /\ (fc.seq > cc \/ fc.seq = 1)
  /\ HangUp(fc.fd, TRUE) /\ Goto(IF fc.seq > cc THEN "done" ELSE "failed")
  /\ UNCHANGED <<hb, stored>>

FcLeave == Goto("join") /\ hb' = [hb EXCEPT !.running = FALSE]

FcSend ==
  /\ At("send") /\ fc.seq <= count
  /\ Put(fc.fd, SENSOR(fc.seq, fc.mode # "bad-checksum"))
  /\ fc' = [fc EXCEPT !.pc = "poll", !.sent = @ + 1]
  /\ UNCHANGED <<hb, stored>>

(* All sent, or a write fails. *)
FcSendEnd ==
  /\ At("send") /\ (fc.seq > count \/ Broken)
  /\ FcLeave
  /\ UNCHANGED linkvars

(* One reply is read after each reading, if one comes within 150 ms. *)
FcPollReply ==
  /\ At("poll") /\ conn[fc.fd].down # << >>
  /\ Get(fc.fd)
  /\ fc' = [fc EXCEPT !.pc = "send", !.seq = @ + 1,
              !.errors = @ + (IF Head(conn[fc.fd].down).type = "error" THEN 1 ELSE 0)]
  /\ UNCHANGED <<hb, stored>>

(* The timeout, or the error that a reset leaves behind: it goes on. *)
FcPollNothing ==
  /\ At("poll") /\ conn[fc.fd].down = << >>
  /\ fc' = [fc EXCEPT !.pc = "send", !.seq = @ + 1]
  /\ UNCHANGED <<hb, linkvars>>

FcPollEof ==
  /\ At("poll") /\ AtEof(fc.fd)
  /\ FcLeave
  /\ UNCHANGED linkvars

FcJoin ==
  /\ At("join") /\ hb.pc = "done"
  /\ HangUp(fc.fd, TRUE) /\ Goto("done")
  /\ UNCHANGED <<hb, stored>>

(* heartbeat_thread: it beats, to the UDP listener, until it is told to end; *)
(* without a socket it ends at once.                                        *)
HbStart ==
  /\ hb.pc = "start"
  /\ \E pc \in {"beat", "done"} : hb' = [hb EXCEPT !.pc = pc]
  /\ UNCHANGED <<fc, linkvars>>

HbEnd ==
  /\ hb.pc = "beat" /\ ~hb.running
  /\ hb' = [hb EXCEPT !.pc = "done"]
  /\ UNCHANGED <<fc, linkvars>>

FcStep ==
  \/ FcConnect \/ FcHello \/ FcAck \/ FcNoAck \/ FcChunk \/ FcFrameEnd \/ FcSend \/ FcSendEnd
  \/ FcPollReply \/ FcPollNothing \/ FcPollEof \/ FcJoin

HbStep == HbStart \/ HbEnd
=============================================================================
