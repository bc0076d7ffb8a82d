-------------------------------- MODULE Link --------------------------------
(***************************************************************************)
(* The TCP connections between clients and telemetryd, and the server's    *)
(* side of them packet by packet: admission by tcp_listener.c and the      *)
(* worker of client_handler.c, for the packets that the clients of this    *)
(* repository send (ClientWorker has the worker byte by byte and for any   *)
(* packet, Telemetryd the threads).  A connection is two streams; what the *)
(* client sends may be cut short when it leaves, and its leaving may go    *)
(* unseen.                                                                 *)
(***************************************************************************)
EXTENDS Integers, Sequences, FiniteSets

CONSTANTS
  Conns,          (* bound: connections that exist at a time               *)
  max_clients,    (* slots of the server                                   *)
  DEAD_TICKS,     (* DEAD_PEER_S / WORKER_TICK_S (15 in the code)          *)
  MAX_STRIKES, ACK_EVERY

ASSUME LinkAssumption ==
  /\ IsFiniteSet(Conns) /\ Conns # {}
  /\ max_clients \in Nat \ {0} /\ DEAD_TICKS \in Nat \ {0}
  /\ MAX_STRIKES \in Nat \ {0} /\ ACK_EVERY \in Nat \ {0}

VARIABLES
  conn,     (* conn[k]: up and down, the streams of packets and replies; side,
               the client's side: open, closed, or gone without the server
               knowing; srv, the server's: waiting in the backlog, the worker's
               state, or closed; strikes, idle, count, the worker's locals;
               wrote, history: the readings the client has written          *)
  stored    (* history: readings stored in table and sink, in order        *)

linkvars == <<conn, stored>>

Unused == [up |-> << >>, down |-> << >>, side |-> "closed", srv |-> "closed",
           strikes |-> 0, idle |-> 0, count |-> 0, wrote |-> {}]

LinkInit == conn = [k \in Conns |-> Unused] /\ stored = << >>

HELLO == [type |-> "hello", seq |-> 0, ok |-> TRUE]
SENSOR(n, ok) == [type |-> "sensor", seq |-> n, ok |-> ok]
FRAME(n) == [type |-> "frame", seq |-> n, ok |-> TRUE]
HELLO_ACK == [type |-> "hello_ack", seq |-> 0]
ACK(n) == [type |-> "ack", seq |-> n]
ERROR == [type |-> "error", seq |-> 0]

-----------------------------------------------------------------------------
(* The client's calls on a connection. *)

Free(k) == conn[k].side # "open" /\ conn[k].srv = "closed"

(* connect: the kernel completes it, whatever the listener will say. *)
Dial(k) ==
  /\ Free(k)
  /\ conn' = [conn EXCEPT ![k] = [Unused EXCEPT !.side = "open", !.srv = "backlog"]]

(* A write that succeeds: the packet is on its way. *)
Put(k, p) ==
  conn' = [conn EXCEPT ![k].up = Append(@, p),
                       ![k].wrote = IF p.type = "sensor" THEN @ \cup {p.seq} ELSE @]

(* The first reply is read. *)
Get(k) == conn' = [conn EXCEPT ![k].down = Tail(@)]

(* A connection that neither side holds any more is forgotten. *)
Kept(c) == IF c.side # "open" /\ c.srv = "closed" THEN Unused ELSE c

(* close: everything written arrives, and then the end of the stream, if    *)
(* the network is sound and the client has left no reply unread.  A reply  *)
(* left unread makes it a reset, which may overtake what was written; and  *)
(* when the network is down, the end itself may never arrive.              *)
HangUp(k, sound) ==
  \E n \in 0 .. Len(conn[k].up), side \in {"closed", "gone"} :
    /\ sound => side = "closed"
    /\ sound /\ conn[k].down = << >> => n = Len(conn[k].up)
    /\ conn' = [conn EXCEPT ![k] = Kept([conn[k] EXCEPT !.up = SubSeq(@, 1, n),
                                                        !.side = side, !.down = << >>])]

(* The server has closed, and all it said has been read: recv returns 0. *)
AtEof(k) == conn[k].srv = "closed" /\ conn[k].down = << >>

-----------------------------------------------------------------------------
(* tcp_listener_thread: a connection gets a free slot or is closed. *)
Busy == {k \in Conns : conn[k].srv \in {"WAIT_HELLO", "ACTIVE"}}

Admit(k) ==
  /\ conn[k].srv = "backlog"
  /\ conn' = [conn EXCEPT ![k] = Kept([@ EXCEPT
       !.srv = IF Cardinality(Busy) < max_clients THEN "WAIT_HELLO" ELSE "closed"])]
  /\ UNCHANGED stored

(* The worker has received a packet as a whole; its type, if it is sound. *)
Pkt(k) == Head(conn[k].up)
Received(k, type) == k \in Busy /\ conn[k].up # << >> /\ Pkt(k).ok /\ Pkt(k).type \in type

(* What it leaves of the connection: the packet is gone, reply is on its way *)
(* unless the client has left, and the worker goes on or has closed.        *)
Handled(k, reply, strikes, srv) ==
  Kept([conn[k] EXCEPT !.up = Tail(@), !.idle = 0, !.strikes = strikes, !.srv = srv,
                       !.down = IF conn[k].side = "open" THEN @ \o reply ELSE @])

(* Mutants: the reading that is acknowledged is not stored; a silent peer is *)
(* waited for.                                                              *)
WorkReading_AcksFirst(k) ==
  /\ Received(k, {"sensor"}) /\ conn[k].srv = "ACTIVE"
  /\ LET n == (conn[k].count + 1) % ACK_EVERY
         due == n = 0
         reply == IF due THEN <<ACK(Pkt(k).seq)>> ELSE << >>
     IN  /\ conn' = [conn EXCEPT ![k] = [Handled(k, reply, 0, "ACTIVE") EXCEPT !.count = n]]
         /\ stored' = IF due THEN stored ELSE Append(stored, Pkt(k).seq)

WorkTick_NoReap(k) ==
  /\ k \in Busy /\ conn[k].up = << >> /\ conn[k].side # "closed"
  /\ UNCHANGED linkvars

(* A check before dispatch fails: the checksum, for the clients here. *)
WorkReject(k) ==
  /\ k \in Busy /\ conn[k].up # << >> /\ ~Pkt(k).ok
  /\ LET strikes == conn[k].strikes + 1
         srv == IF strikes >= MAX_STRIKES THEN "closed" ELSE conn[k].srv
     IN  conn' = [conn EXCEPT ![k] = Handled(k, <<ERROR>>, strikes, srv)]
  /\ UNCHANGED stored

(* A HELLO registers the device; an answer that cannot be sent ends it all. *)
WorkHello(k) ==
  /\ Received(k, {"hello"}) /\ conn[k].srv = "WAIT_HELLO"
  /\ \/ conn' = [conn EXCEPT ![k] = Handled(k, <<HELLO_ACK>>, 0, "ACTIVE")]
     \/ /\ conn[k].side # "open"
        /\ conn' = [conn EXCEPT ![k] = Handled(k, << >>, conn[k].strikes, "closed")]
  /\ UNCHANGED stored

(* A reading goes to table and sink; every ACK_EVERY-th is acknowledged. *)
WorkReading(k) ==
  /\ Received(k, {"sensor"}) /\ conn[k].srv = "ACTIVE"
  /\ LET n == (conn[k].count + 1) % ACK_EVERY
         reply == IF n = 0 THEN <<ACK(Pkt(k).seq)>> ELSE << >>
     IN  conn' = [conn EXCEPT ![k] = [Handled(k, reply, 0, "ACTIVE") EXCEPT !.count = n]]
  /\ stored' = Append(stored, Pkt(k).seq)

(* A chunk of a frame that the reassembler takes (FramePath). *)
WorkFrame(k) ==
  /\ Received(k, {"frame"}) /\ conn[k].srv = "ACTIVE"
  /\ conn' = [conn EXCEPT ![k] = Handled(k, << >>, 0, "ACTIVE")]
  /\ UNCHANGED stored

(* The end of the stream. *)
WorkEof(k) ==
  /\ k \in Busy /\ conn[k].up = << >> /\ conn[k].side = "closed"
  /\ conn' = [conn EXCEPT ![k] = Unused]
  /\ UNCHANGED stored

(* The receive timeout: enough of them in a row reap the peer. *)
WorkTick(k) ==
  /\ k \in Busy /\ conn[k].up = << >> /\ conn[k].side # "closed"
  /\ LET idle == conn[k].idle + 1
     IN  conn' = [conn EXCEPT ![k] = IF idle < DEAD_TICKS THEN [@ EXCEPT !.idle = idle]
                                     ELSE Kept([@ EXCEPT !.srv = "closed"])]
  /\ UNCHANGED stored

WorkStep(k) ==
  \/ Admit(k) \/ WorkReject(k) \/ WorkHello(k) \/ WorkReading(k) \/ WorkFrame(k) \/ WorkEof(k)
=============================================================================
