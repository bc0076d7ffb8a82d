------------------------------ MODULE Firmware ------------------------------
(***************************************************************************)
(* firmware/pulselink_fw.ino (and its single-file copy for the simulator): *)
(* sensor_task samples into a bounded FreeRTOS queue on one core while     *)
(* net_task, on the other, keeps a connection to telemetryd and streams    *)
(* the queue over it; led_task and display_task show g_connected.  The     *)
(* radio, the TCP library and the server are the environment: they may     *)
(* fail at any call while good is FALSE.                                   *)
(*                                                                         *)
(* net_task is watched: unfed is the longest time that can have passed     *)
(* since it last reset the task watchdog, every call on the way having     *)
(* taken as long as it may.                                                *)
(***************************************************************************)
EXTENDS Integers, Sequences

CONSTANTS
  QUEUE_LEN,        (* slots of g_queue (16 in the code)                   *)
  BACKOFF_MIN_MS,   (* first wait after a failure (500 in the code)        *)
  BACKOFF_MAX_MS,   (* longest wait (16000 in the code)                    *)
  WDT_TIMEOUT,      (* the watchdog's patience (10000 in the code)         *)
  POLL, PAUSE,      (* wifi_ensure's and backoff_wait's naps (250, 500)    *)
  CONNECT,          (* timeout of tcp.connect (4000)                       *)
  RECEIVE,          (* timeout of xQueueReceive (1000)                     *)
  WRITE,            (* the longest that tcp.write blocks: the library's    *)
  MaxSamples        (* bound: samples taken in one behaviour               *)

(* The code's own times fit under the watchdog if a write returns within    *)
(* (10000 - 4000 - 1000) / 2 = 2500 ms.                                    *)
ASSUME FwAssumption ==
  /\ QUEUE_LEN \in Nat \ {0} /\ MaxSamples \in Nat
  /\ BACKOFF_MIN_MS \in Nat \ {0}
  /\ BACKOFF_MAX_MS \in Nat /\ BACKOFF_MIN_MS <= BACKOFF_MAX_MS
  /\ WDT_TIMEOUT \in Nat /\ POLL \in Nat /\ PAUSE \in Nat /\ CONNECT \in Nat
  /\ RECEIVE \in Nat /\ WRITE \in Nat
  /\ CONNECT + WRITE + RECEIVE + WRITE <= WDT_TIMEOUT
  /\ POLL + RECEIVE + WRITE <= WDT_TIMEOUT
  /\ PAUSE <= WDT_TIMEOUT

VARIABLES
  good,         (* Wi-Fi, network and server do what is asked of them      *)
  wifi, tcp,    (* WiFi.status() = WL_CONNECTED, tcp.connected()           *)
  sensor, seq,  (* sensor_task: its position and its sample counter        *)
  queue,        (* g_queue                                                 *)
  produced, consumed, dropped, connected,    (* g_produced, ...            *)
  net, backoff, held,  (* net_task: position, backoff, the sample in r     *)
  unfed,        (* time since net_task reset the watchdog, at the longest  *)
  led,          (* what the LED and the display show: online or not        *)
  lost          (* history: samples taken from the queue and not sent      *)

env == <<good, wifi, tcp>>
sampler == <<sensor, seq, produced, dropped>>
uplink == <<consumed, connected, net, backoff, held, unfed, lost>>
vars == <<env, sampler, queue, uplink, led>>

None == 0
Samples == 1 .. MaxSamples

(* setup *)
Init ==
  /\ good \in BOOLEAN /\ wifi = FALSE /\ tcp = FALSE
  /\ sensor = "sample" /\ seq = 0 /\ produced = 0 /\ dropped = 0
  /\ queue = << >>
  /\ consumed = 0 /\ connected = FALSE
  /\ net = "wifi" /\ backoff = BACKOFF_MIN_MS /\ held = None
  /\ unfed = 0 /\ led = FALSE /\ lost = 0

-----------------------------------------------------------------------------
(* The environment. *)
GoodChange == good' = ~good /\ UNCHANGED <<wifi, tcp, sampler, queue, uplink, led>>
WifiUp == ~wifi /\ wifi' = TRUE /\ UNCHANGED <<good, tcp, sampler, queue, uplink, led>>
WifiDown == ~good /\ wifi /\ wifi' = FALSE /\ UNCHANGED <<good, tcp, sampler, queue, uplink, led>>
LinkLost == tcp /\ tcp' = FALSE /\ UNCHANGED <<good, wifi, sampler, queue, uplink, led>>

-----------------------------------------------------------------------------
(* sensor_task: the sample goes into the queue or, when it is full, away.   *)
SampleQueue ==
  /\ sensor = "sample" /\ seq < MaxSamples
  /\ seq' = seq + 1
  /\ \/ Len(queue) < QUEUE_LEN /\ queue' = Append(queue, seq + 1) /\ sensor' = "queued"
     \/ Len(queue) = QUEUE_LEN /\ queue' = queue /\ sensor' = "full"
  /\ UNCHANGED <<env, produced, dropped, uplink, led>>

(* The counter changes after xQueueSend: net_task may already have the sample. *)
SampleCount ==
  /\ sensor # "sample" /\ sensor' = "sample"
  /\ produced' = produced + (IF sensor = "queued" THEN 1 ELSE 0)
  /\ dropped' = dropped + (IF sensor = "full" THEN 1 ELSE 0)
  /\ UNCHANGED <<env, seq, queue, uplink, led>>

(* led_task and display_task look at g_connected in every round. *)
Show ==
  /\ led' = connected
  /\ UNCHANGED <<env, sampler, queue, uplink>>

-----------------------------------------------------------------------------
(* net_task, one pass of its loop.  A call that blocks for d adds d to the   *)
(* time since the watchdog was reset; a step that resets it starts anew.     *)
Spent(d) == unfed' = unfed + d
Fed(d) == unfed' = d

(* A failure: the socket is left to the caller, and backoff_wait follows. *)
Fails == connected' = FALSE /\ net' = "wait"

(* Mutants: a failed write is counted as sent; the watchdog starves while    *)
(* backoff_wait waits.                                                       *)
WriteFails_Counts ==
  /\ net = "write" /\ Fails /\ Spent(WRITE)
  /\ lost' = lost + 1 /\ held' = None /\ consumed' = consumed + 1 /\ tcp' = FALSE
  /\ UNCHANGED <<good, wifi, sampler, queue, backoff, led>>

Doubled(ms) == IF ms * 2 > BACKOFF_MAX_MS THEN BACKOFF_MAX_MS ELSE ms * 2

Backoff_Unfed ==
  /\ net = "wait"
  /\ Spent(backoff) /\ backoff' = Doubled(backoff) /\ net' = "wifi"
  /\ UNCHANGED <<env, sampler, queue, consumed, connected, held, lost, led>>

(* The head of the loop resets the watchdog, and so does every round of      *)
(* wifi_ensure, which gives up after 15 s.  tcp.connected() then skips the   *)
(* connect and the handshake.                                                *)
WifiReady ==
  /\ net = "wifi" /\ wifi
  /\ net' = (IF tcp THEN "receive" ELSE "connect") /\ Fed(POLL)
  /\ UNCHANGED <<env, sampler, queue, consumed, connected, backoff, held, lost, led>>

WifiTimeout ==
  /\ net = "wifi" /\ ~wifi
  /\ Fails /\ Fed(POLL)
  /\ UNCHANGED <<env, sampler, queue, consumed, backoff, held, lost, led>>

ConnectOk ==
  /\ net = "connect" /\ wifi
  /\ tcp' = TRUE /\ net' = "hello" /\ Fed(CONNECT)
  /\ UNCHANGED <<good, wifi, sampler, queue, consumed, connected, backoff, held, lost, led>>

ConnectFails ==
  /\ net = "connect"
  /\ Fails /\ Fed(CONNECT)
  /\ UNCHANGED <<env, sampler, queue, consumed, backoff, held, lost, led>>

(* do_handshake: HELLO goes out, then a well-formed HELLO_ACK comes within   *)
(* 2 s, with the watchdog reset whenever there is nothing to read; or any of *)
(* this goes wrong, and the socket is closed.                                *)
HelloSend ==
  /\ net = "hello" /\ tcp
  /\ net' = "ack" /\ Spent(WRITE)
  /\ UNCHANGED <<env, sampler, queue, consumed, connected, backoff, held, lost, led>>

HelloOk ==
  /\ net = "ack"
  /\ backoff' = BACKOFF_MIN_MS /\ connected' = TRUE /\ net' = "receive"
  /\ UNCHANGED <<env, sampler, queue, consumed, held, unfed, lost, led>>

HelloFails ==
  /\ \/ net = "hello" /\ Spent(WRITE)
     \/ net = "ack" /\ UNCHANGED unfed
  /\ Fails /\ tcp' = FALSE
  /\ UNCHANGED <<good, wifi, sampler, queue, consumed, backoff, held, lost, led>>

(* xQueueReceive returns a sample, or nothing after 1 s. *)
Receive ==
  /\ net = "receive" /\ queue # << >>
  /\ held' = Head(queue) /\ queue' = Tail(queue) /\ net' = "write" /\ Spent(RECEIVE)
  /\ UNCHANGED <<env, sampler, consumed, connected, backoff, lost, led>>

ReceiveNothing ==
  /\ net = "receive" /\ queue = << >>
  /\ net' = "drain" /\ Spent(RECEIVE)
  /\ UNCHANGED <<env, sampler, queue, consumed, connected, backoff, held, lost, led>>

WriteOk ==
  /\ net = "write" /\ tcp
  /\ held' = None /\ consumed' = consumed + 1 /\ net' = "drain" /\ Spent(WRITE)
  /\ UNCHANGED <<env, sampler, queue, connected, backoff, lost, led>>

(* The sample has left the queue and is not put back. *)
WriteFails ==
  /\ net = "write" /\ Fails /\ Spent(WRITE)
  /\ lost' = lost + 1 /\ held' = None /\ tcp' = FALSE
  /\ UNCHANGED <<good, wifi, sampler, queue, consumed, backoff, led>>

(* drain_replies reads what has come and changes nothing but the log. *)
Drain ==
  /\ net = "drain" /\ net' = "wifi"
  /\ UNCHANGED <<env, sampler, queue, consumed, connected, backoff, held, unfed, lost, led>>

(* backoff_wait resets the watchdog before each nap. *)
Backoff ==
  /\ net = "wait"
  /\ Fed(PAUSE) /\ backoff' = Doubled(backoff) /\ net' = "wifi"
  /\ UNCHANGED <<env, sampler, queue, consumed, connected, held, lost, led>>

-----------------------------------------------------------------------------
(* The device alone, with everything else as its environment. *)
SensorStep == SampleQueue \/ SampleCount

NetStep ==
  \/ WifiReady \/ ConnectOk \/ HelloSend \/ Receive \/ ReceiveNothing
  \/ WriteOk \/ Drain \/ Backoff
  \/ net = "ack" /\ tcp /\ HelloOk
  \/ ~good /\ (WifiTimeout \/ ConnectFails)
  \/ ~(good /\ tcp) /\ (HelloFails \/ WriteFails)

Next ==
  \/ GoodChange \/ WifiUp \/ WifiDown \/ (~good /\ LinkLost)
  \/ SensorStep \/ NetStep \/ Show

Spec == Init /\ [][Next]_vars

(* FreeRTOS runs a ready task, and a radio in range of its network joins it. *)
FairSpec ==
  /\ Spec
  /\ WF_vars(NetStep) /\ WF_vars(SensorStep) /\ WF_vars(Show) /\ WF_vars(good /\ WifiUp)

-----------------------------------------------------------------------------
(* The values of the variables; the queue stays within its length. *)
TypeOK ==
  /\ good \in BOOLEAN /\ wifi \in BOOLEAN /\ tcp \in BOOLEAN
  /\ sensor \in {"sample", "queued", "full"}
  /\ seq \in 0 .. MaxSamples
  /\ queue \in Seq(Samples) /\ Len(queue) <= QUEUE_LEN
  /\ produced \in Nat /\ consumed \in Nat /\ dropped \in Nat /\ lost \in Nat
  /\ connected \in BOOLEAN /\ led \in BOOLEAN
  /\ net \in {"wifi", "connect", "hello", "ack", "receive", "write", "drain", "wait"}
  /\ backoff \in BACKOFF_MIN_MS .. BACKOFF_MAX_MS
  /\ held \in Samples \cup {None}
  /\ unfed \in Nat

(* The counters of stats_task account for every sample: what was queued is  *)
(* sent, waiting, in net_task's hands or lost with a failed write, and      *)
(* g_consumed may run ahead of g_produced by the one sample whose           *)
(* xQueueSend has returned and whose count has not.                         *)
StatsAccount ==
  LET pending == IF sensor = "queued" THEN 1 ELSE 0
      hand    == IF held = None THEN 0 ELSE 1
  IN  /\ produced + pending = consumed + Len(queue) + hand + lost
      /\ seq = produced + dropped + (IF sensor = "sample" THEN 0 ELSE 1)

(* "A task watchdog resets the chip if net_task ever wedges", and only then: *)
(* on no path through its loop, with every call taking as long as it may,   *)
(* does net_task leave the watchdog alone for longer than its timeout.      *)
WatchdogFed == unfed <= WDT_TIMEOUT

(* led_task's comment: the LED "always reflects state", and "slow (~1 Hz) = *)
(* online / streaming".  Once the network and the server stay good, the     *)
(* device streams for ever and its LED shows online from some point on.     *)
ComesOnline == <>[]good => <>[]led
=============================================================================
