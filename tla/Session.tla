------------------------------ MODULE Session ------------------------------
(***************************************************************************)
(* A client of this repository in session with the server: the device      *)
(* (Firmware) or the test client (FakeClient), over the connections and    *)
(* workers of Link.  The device's calls on its socket are joined with what *)
(* they do to the connection; it may lose the connection, with or without  *)
(* the server noticing, dial again, and find its own dead sessions in the  *)
(* slots.                                                                  *)
(***************************************************************************)
EXTENDS Firmware, FakeClient

VARIABLES
  who,      (* which client runs: "device" or "tool"                       *)
  cur       (* the device's socket                                         *)

all == <<who, cur, vars, fc, hb, linkvars>>

SessionInit ==
  /\ Init /\ LinkInit /\ FcInit
  /\ cur = fc.fd
  /\ \/ who = "device" /\ fc.mode = "readings"
     \/ who = "tool" /\ good

(* tcp.stop: there is nothing to close if the connection is already lost. *)
Close == IF tcp THEN HangUp(cur, good) ELSE UNCHANGED conn

-----------------------------------------------------------------------------
(* What the device does on its own. *)
Local ==
  /\ \/ WifiReady \/ Receive \/ ReceiveNothing \/ Backoff
     \/ ~good /\ (WifiTimeout \/ ConnectFails)
  /\ UNCHANGED <<cur, linkvars>>

(* A connection, on a socket that is free; which one makes no difference. *)
DialUp ==
  /\ ConnectOk /\ (\E k \in Conns : Free(k))
  /\ cur' = CHOOSE k \in Conns : Free(k)
  /\ Dial(cur')
  /\ UNCHANGED stored

(* What it does to its connection. *)
SendHello == HelloSend /\ Put(cur, HELLO)

Welcome ==
  /\ HelloOk
  /\ tcp /\ conn[cur].down # << >> /\ Head(conn[cur].down) = HELLO_ACK
  /\ Get(cur)

(* No HELLO_ACK: the network is down, or the server has closed, for want of *)
(* a slot or because it took the device for dead.                          *)
Unwelcome == HelloFails /\ ~(good /\ tcp /\ ~AtEof(cur)) /\ Close

(* Mutant: a write that seems to have failed is repeated. *)
SendSample_Repeats ==
  /\ WriteOk
  /\ conn' = [conn EXCEPT ![cur].up = @ \o <<SENSOR(held, TRUE), SENSOR(held, TRUE)>>]

SendSample == WriteOk /\ Put(cur, SENSOR(held, TRUE))

LoseSample == WriteFails /\ (~(good /\ tcp) \/ conn[cur].srv = "closed") /\ Close

(* drain_replies takes all that has come. *)
ReadReplies ==
  /\ Drain
  /\ conn' = IF tcp THEN [conn EXCEPT ![cur].down = << >>] ELSE conn

OnLink ==
  /\ SendHello \/ Welcome \/ Unwelcome \/ SendSample \/ LoseSample \/ ReadReplies
  /\ UNCHANGED <<cur, stored>>

NetTask == who = "device" /\ (Local \/ DialUp \/ OnLink) /\ UNCHANGED <<who, fc, hb>>

SensorTask == who = "device" /\ SensorStep /\ UNCHANGED <<who, cur, fc, hb, linkvars>>

(* The network may fail at any call until it is good for good: whatever it   *)
(* does while it is good, it may do before.  Wi-Fi comes and goes where      *)
(* net_task looks at it; elsewhere nothing tells the difference.             *)
Radio ==
  /\ who = "device"
  /\ \/ ~good /\ GoodChange
     \/ net \in {"wifi", "connect"} /\ WifiDown
  /\ UNCHANGED <<who, cur, fc, hb, linkvars>>

Join ==
  /\ who = "device" /\ net \in {"wifi", "connect"} /\ WifiUp
  /\ UNCHANGED <<who, cur, fc, hb, linkvars>>

(* The connection is dropped, or shows that the server has closed it. *)
DropLink ==
  /\ who = "device" /\ ~good
  /\ LinkLost /\ HangUp(cur, FALSE)
  /\ UNCHANGED <<who, cur, fc, hb, stored>>

SeeClosed ==
  /\ who = "device" /\ LinkLost /\ AtEof(cur) /\ HangUp(cur, TRUE)
  /\ UNCHANGED <<who, cur, fc, hb, stored>>

Tool == who = "tool" /\ FcStep /\ UNCHANGED <<who, cur, vars>>
ToolBeat == who = "tool" /\ HbStep /\ UNCHANGED <<who, cur, vars>>

Server(k) == WorkStep(k) /\ UNCHANGED <<who, cur, vars, fc, hb>>

(* A worker's receive timeout needs 2 s without a byte: a device on a good  *)
(* network that holds the connection never stays silent until DEAD_PEER_S, *)
(* while the tool sleeps between readings for as long as it is told to.    *)
Quiet(k) ==
  \/ conn[k].side = "gone"
  \/ who = "device" /\ ~good
  \/ who = "tool" /\ At("send")

Reap(k) == Quiet(k) /\ WorkTick(k) /\ UNCHANGED <<who, cur, vars, fc, hb>>

SessionNext ==
  \/ NetTask \/ SensorTask
  \/ Radio \/ Join \/ DropLink \/ SeeClosed
  \/ Tool \/ ToolBeat
  \/ \E k \in Conns : Server(k) \/ Reap(k)

(* Tasks and threads run, timeouts fire, and on a good network the radio     *)
(* joins and a closed connection shows.                                     *)
SessionSpec ==
  /\ SessionInit /\ [][SessionNext]_all
  /\ WF_all(NetTask) /\ WF_all(SensorTask) /\ WF_all(Tool) /\ WF_all(ToolBeat)
  /\ WF_all(good /\ Join) /\ WF_all(good /\ SeeClosed)
  /\ \A k \in Conns : WF_all(Server(k)) /\ WF_all(conn[k].side = "gone" /\ Reap(k))

-----------------------------------------------------------------------------
OnTheWay(k) == {i \in 1 .. Len(conn[k].up) : conn[k].up[i].type = "sensor"}

(* Across lost connections, half-open ones and new ones, a reading reaches   *)
(* table and sink at most once, and those of one connection in the order     *)
(* they were taken: net_task never writes a sample again, not even one whose *)
(* write failed.                                                             *)
StoredOnceInOrder ==
  /\ \A i, j \in 1 .. Len(stored) : i # j => stored[i] # stored[j]
  /\ \A k \in Conns : \A i, j \in OnTheWay(k) :
       i < j => conn[k].up[i].seq < conn[k].up[j].seq
  /\ \A k \in Conns : \A i \in OnTheWay(k), j \in 1 .. Len(stored) :
       conn[k].up[i].seq # stored[j]

Replies(k, type) == {i \in 1 .. Len(conn[k].down) : conn[k].down[i].type = type}

(* What the server tells its clients is so: an acknowledgement of n on its   *)
(* way means that everything the client wrote on this connection up to n is  *)
(* stored ("cumulative ACK"), and the errors that the test client reports,   *)
(* with those it has yet to read, are the packets that were rejected.        *)
RepliesAreTrue ==
  /\ \A k \in Conns : \A i \in Replies(k, "ack") :
       \A n \in conn[k].wrote : n <= conn[k].down[i].seq => \E j \in 1 .. Len(stored) : stored[j] = n
  /\ who = "tool" /\ conn[cur].side = "open" =>
       fc.errors + Cardinality(Replies(cur, "error")) = conn[cur].strikes

(* Everyone gets there.  Once network and server stay good, the device's     *)
(* queue empties again and again: every failure path of net_task leads back  *)
(* to another attempt, and a server whose slots are taken by the device's    *)
(* own dead sessions gives them up.  The test client comes to its end        *)
(* whatever the server does, joining its heartbeat thread on the way.        *)
Progress ==
  <>[]good => []<>(IF who = "device" THEN queue = << >> ELSE fc.pc \in {"done", "failed"})
=============================================================================
