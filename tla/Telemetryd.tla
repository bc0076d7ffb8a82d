----------------------------- MODULE Telemetryd -----------------------------
(***************************************************************************)
(* The life of the server process: server/main.c, tcp_listener.c,          *)
(* udp_listener.c, reaper.c, and the life cycle of client_handler.c's      *)
(* workers.  What a worker does with the packets it receives is            *)
(* ClientWorker, what the table does is DeviceTable; here a worker only    *)
(* uses the shared state, or may be held up by its peer.                   *)
(*                                                                         *)
(* The stop handler runs on the main thread, which a process-directed      *)
(* signal reaches first, so main itself waits while it runs.  A thread     *)
(* reads running at the head of its loop together with the step before it, *)
(* which touches nothing that the handler or main touches.                 *)
(***************************************************************************)
EXTENDS Integers, FiniteSets

CONSTANTS
  Conns,          (* connections that clients open over a behaviour        *)
  NoConn,
  max_clients,    (* the -n option                                         *)
  SWEEP_PERIOD_TICKS

ASSUME DaemonAssumption ==
  /\ IsFiniteSet(Conns) /\ NoConn \notin Conns
  /\ max_clients \in Nat \ {0}
  /\ SWEEP_PERIOD_TICKS \in Nat \ {0}

VARIABLES
  running, dump_requested, active_workers, client_slots,   (* server_ctx_t *)
  pipe,       (* a byte is waiting in the shutdown pipe                    *)
  main,       (* main's pc                                                 *)
  handler,    (* the stop handler's pc, "idle" when it is not running      *)
  shared,     (* the sink, the table and the semaphore have been set up    *)
  tcp,        (* the listener: pc and the connection it is handling        *)
  udp,        (* the heartbeat thread's pc                                 *)
  reaper,     (* the reaper: pc and ticks                                  *)
  net,        (* per connection: none, pending, refused, taken             *)
  fd,         (* per connection: times its descriptor was opened, closed   *)
  wa,         (* per connection: worker argument none, live or freed       *)
  wk,         (* per connection: the worker's pc                           *)
  uncounted,  (* history: workers not started when the drain ended         *)
  gave_up,    (* history: the drain ran out of time                        *)
  owed        (* history: a SIGUSR1 came and no dump has started since     *)

ctxvars == <<running, dump_requested, active_workers, client_slots>>
connvars == <<net, fd, wa, wk>>
history == <<uncounted, gave_up, owed>>
vars == <<ctxvars, pipe, main, handler, shared, tcp, udp, reaper, connvars, history>>

(* main up to the three pthread_create calls; every one of its failures     *)
(* before that point ends the process.                                     *)
Init ==
  /\ running = TRUE /\ dump_requested = FALSE
  /\ active_workers = 0 /\ client_slots = max_clients
  /\ pipe = FALSE
  /\ main = "join_tcp" /\ handler = "idle"
  /\ shared = TRUE
  /\ tcp = [pc |-> "bind", c |-> NoConn]
  /\ udp = "bind"
  /\ reaper = [pc |-> "tick", ticks |-> 0]
  /\ net = [c \in Conns |-> "none"]
  /\ fd = [c \in Conns |-> [opened |-> 0, closed |-> 0]]
  /\ wa = [c \in Conns |-> "none"]
  /\ wk = [c \in Conns |-> "none"]
  /\ uncounted = {} /\ gave_up = FALSE /\ owed = FALSE

(* When main returns, the process and its threads are gone. *)
Alive == main # "done"
-----------------------------------------------------------------------------
(* Signals. *)

(* on_stop, for SIGINT, SIGTERM and the -T deadline: first the flag, *)
StopSignal ==
  /\ Alive /\ handler = "idle"
  /\ handler' = "write"
  /\ running' = FALSE
  /\ UNCHANGED <<dump_requested, active_workers, client_slots, pipe, main, shared, tcp, udp,
                 reaper, connvars, history>>

(* Mutant: no byte. *)
StopWrite_NoByte ==
  /\ Alive /\ handler = "write"
  /\ handler' = "idle"
  /\ UNCHANGED <<ctxvars, pipe, main, shared, tcp, udp, reaper, connvars, history>>

(* then the byte that wakes the listener. *)
StopWrite ==
  /\ Alive /\ handler = "write"
  /\ handler' = "idle"
  /\ pipe' = TRUE
  /\ UNCHANGED <<ctxvars, main, shared, tcp, udp, reaper, connvars, history>>

(* on_dump, for SIGUSR1. *)
DumpSignal ==
  /\ Alive
  /\ dump_requested' = TRUE
  /\ owed' = TRUE
  /\ UNCHANGED <<running, active_workers, client_slots, pipe, main, handler, shared, tcp, udp,
                 reaper, connvars, uncounted, gave_up>>
-----------------------------------------------------------------------------
(* main: the joins, the drain and the tidying up. *)

MainStep(from, to) ==
  /\ main = from /\ handler = "idle"
  /\ main' = to
  /\ UNCHANGED <<ctxvars, pipe, handler, tcp, udp, reaper, connvars, owed>>

JoinTcp ==
  tcp.pc = "exited" /\ MainStep("join_tcp", "join_udp") /\ UNCHANGED <<shared, uncounted, gave_up>>
(* Mutant: nobody waits for the heartbeat thread. *)
JoinUdp_Skipped ==
  MainStep("join_udp", "join_reaper") /\ UNCHANGED <<shared, uncounted, gave_up>>
JoinUdp ==
  udp = "exited" /\ MainStep("join_udp", "join_reaper") /\ UNCHANGED <<shared, uncounted, gave_up>>
JoinReaper ==
  reaper.pc = "exited" /\ MainStep("join_reaper", "drain") /\ UNCHANGED <<shared, uncounted, gave_up>>

(* Mutant: the drain is off by one. *)
Drained_OffByOne ==
  /\ active_workers <= 1
  /\ MainStep("drain", "tidy")
  /\ uncounted' = {c \in Conns : wk[c] = "spawned"}
  /\ UNCHANGED <<shared, gave_up>>

(* The drain loop ends when it sees no active worker, *)
Drained ==
  /\ active_workers = 0
  /\ MainStep("drain", "tidy")
  /\ uncounted' = {c \in Conns : wk[c] = "spawned"}
  /\ UNCHANGED <<shared, gave_up>>

(* or after five seconds, with a warning. *)
DrainTimeout ==
  /\ active_workers > 0
  /\ MainStep("drain", "tidy")
  /\ gave_up' = TRUE
  /\ UNCHANGED <<shared, uncounted>>

(* sink->close, dt_destroy, sem_destroy and the closing of the pipe. *)
TidyUp ==
  /\ MainStep("tidy", "return")
  /\ shared' = FALSE
  /\ UNCHANGED <<uncounted, gave_up>>

MainReturn == MainStep("return", "done") /\ UNCHANGED <<shared, uncounted, gave_up>>

MainSteps ==
  JoinTcp \/ JoinUdp \/ JoinReaper \/ Drained \/ DrainTimeout \/ TidyUp \/ MainReturn
-----------------------------------------------------------------------------
(* tcp_listener_thread *)

Connect(c) ==
  /\ Alive /\ net[c] = "none" /\ tcp.pc \notin {"bind", "exited"}
  /\ net' = [net EXCEPT ![c] = "pending"]
  /\ UNCHANGED <<ctxvars, pipe, main, handler, shared, tcp, udp, reaper, fd, wa, wk, history>>

TcpGoto(pc, c) == tcp' = [pc |-> pc, c |-> c]
TcpLoop == TcpGoto(IF running THEN "poll" ELSE "closing", NoConn)
TcpFrame == UNCHANGED <<dump_requested, active_workers, pipe, main, handler, shared, udp, reaper, history>>

(* make_listen_socket may fail, and then stops the server. *)
TcpBind ==
  /\ Alive /\ tcp.pc = "bind"
  /\ \/ TcpLoop /\ UNCHANGED running
     \/ TcpGoto("exited", NoConn) /\ running' = FALSE
  /\ TcpFrame /\ UNCHANGED <<client_slots, connvars>>

(* poll returns when there is a byte in the pipe or a connection to accept. *)
TcpPoll ==
  /\ Alive /\ tcp.pc = "poll"
  /\ \/ pipe /\ TcpGoto("closing", NoConn)
     \/ ~pipe /\ (\E c \in Conns : net[c] = "pending") /\ TcpGoto("accept", NoConn)
  /\ TcpFrame /\ UNCHANGED <<running, client_slots, connvars>>

(* An interrupted poll goes round the loop; any other failure ends it. *)
TcpPollFails ==
  /\ Alive /\ tcp.pc = "poll"
  /\ \/ ~pipe /\ (\A c \in Conns : net[c] # "pending") /\ TcpLoop
     \/ TcpGoto("closing", NoConn)
  /\ TcpFrame /\ UNCHANGED <<running, client_slots, connvars>>

(* accept takes a pending connection, or fails because its client is gone. *)
TcpAccept ==
  /\ Alive /\ tcp.pc = "accept"
  /\ \E c \in Conns :
       /\ net[c] = "pending"
       /\ \/ /\ net' = [net EXCEPT ![c] = "taken"]
             /\ fd' = [fd EXCEPT ![c].opened = @ + 1]
             /\ TcpGoto("slot", c)
          \/ /\ net' = [net EXCEPT ![c] = "refused"]
             /\ TcpLoop
             /\ UNCHANGED fd
  /\ TcpFrame /\ UNCHANGED <<running, client_slots, wa, wk>>

(* Any other failure of accept (no descriptor to be had, an interruption)   *)
(* leaves the connection where it is, and the loop goes on.                *)
TcpAcceptFails ==
  /\ Alive /\ tcp.pc = "accept"
  /\ TcpLoop
  /\ TcpFrame /\ UNCHANGED <<running, client_slots, connvars>>

CloseFd(c) == fd' = [fd EXCEPT ![c].closed = @ + 1]

(* Mutant: a limit that makes the listener wait. *)
TcpSlot_Waits ==
  /\ Alive /\ tcp.pc = "slot"
  /\ client_slots > 0
  /\ client_slots' = client_slots - 1
  /\ TcpGoto("alloc", tcp.c)
  /\ TcpFrame /\ UNCHANGED <<running, net, fd, wa, wk>>

(* sem_trywait: without a free slot the connection is closed at once. *)
TcpSlot ==
  /\ Alive /\ tcp.pc = "slot"
  /\ IF client_slots > 0
     THEN /\ client_slots' = client_slots - 1
          /\ TcpGoto("alloc", tcp.c)
          /\ UNCHANGED fd
     ELSE /\ CloseFd(tcp.c)
          /\ TcpLoop
          /\ UNCHANGED client_slots
  /\ TcpFrame /\ UNCHANGED <<running, net, wa, wk>>

(* Mutant: the failure path keeps the slot. *)
TcpAlloc_LeaksSlot ==
  /\ Alive /\ tcp.pc = "alloc"
  /\ \/ /\ wa' = [wa EXCEPT ![tcp.c] = "live"]
        /\ TcpGoto("spawn", tcp.c)
        /\ UNCHANGED fd
     \/ /\ CloseFd(tcp.c)
        /\ TcpLoop
        /\ UNCHANGED wa
  /\ TcpFrame /\ UNCHANGED <<running, client_slots, net, wk>>

(* malloc of the worker argument, which may fail. *)
TcpAlloc ==
  /\ Alive /\ tcp.pc = "alloc"
  /\ \/ /\ wa' = [wa EXCEPT ![tcp.c] = "live"]
        /\ TcpGoto("spawn", tcp.c)
        /\ UNCHANGED <<client_slots, fd>>
     \/ /\ client_slots' = client_slots + 1
        /\ CloseFd(tcp.c)
        /\ TcpLoop
        /\ UNCHANGED wa
  /\ TcpFrame /\ UNCHANGED <<running, net, wk>>

(* Mutant: the failure path keeps the descriptor. *)
TcpSpawn_LeaksFd ==
  /\ Alive /\ tcp.pc = "spawn"
  /\ \/ /\ wk' = [wk EXCEPT ![tcp.c] = "spawned"]
        /\ TcpGoto("log", tcp.c)
        /\ UNCHANGED <<client_slots, wa>>
     \/ /\ client_slots' = client_slots + 1
        /\ wa' = [wa EXCEPT ![tcp.c] = "freed"]
        /\ TcpLoop
        /\ UNCHANGED wk
  /\ TcpFrame /\ UNCHANGED <<running, net, fd>>

(* pthread_create of the detached worker, which may fail. *)
TcpSpawn ==
  /\ Alive /\ tcp.pc = "spawn"
  /\ \/ /\ wk' = [wk EXCEPT ![tcp.c] = "spawned"]
        /\ TcpGoto("log", tcp.c)
        /\ UNCHANGED <<client_slots, fd, wa>>
     \/ /\ client_slots' = client_slots + 1
        /\ CloseFd(tcp.c)
        /\ wa' = [wa EXCEPT ![tcp.c] = "freed"]
        /\ TcpLoop
        /\ UNCHANGED wk
  /\ TcpFrame /\ UNCHANGED <<running, net>>

(* The log line reads wa->peer. *)
TcpLog ==
  /\ Alive /\ tcp.pc = "log"
  /\ TcpLoop
  /\ TcpFrame /\ UNCHANGED <<running, client_slots, connvars>>

(* The listening socket is closed; whatever is still pending is reset. *)
TcpClose ==
  /\ Alive /\ tcp.pc = "closing"
  /\ TcpGoto("exited", NoConn)
  /\ net' = [c \in Conns |-> IF net[c] = "pending" THEN "refused" ELSE net[c]]
  /\ TcpFrame /\ UNCHANGED <<running, client_slots, fd, wa, wk>>

TcpStep ==
  \/ TcpBind \/ TcpPoll \/ TcpAccept \/ TcpSlot \/ TcpAlloc
  \/ TcpSpawn \/ TcpLog \/ TcpClose
-----------------------------------------------------------------------------
(* udp_listener_thread: it gives up at once if it has no socket, and        *)
(* otherwise wakes every 500 ms to look at running.                        *)

UdpGoto(from, to) ==
  /\ Alive /\ udp = from
  /\ udp' = to
  /\ UNCHANGED <<ctxvars, pipe, main, handler, shared, tcp, reaper, connvars, history>>

UdpLoop == IF running THEN "recv" ELSE "exited"

UdpBind == UdpGoto("bind", UdpLoop) \/ UdpGoto("bind", "exited")

(* A timeout or a datagram that is not a heartbeat goes back to the loop; a *)
(* heartbeat goes to the table first.                                      *)
UdpTimeout == UdpGoto("recv", UdpLoop)
UdpRecv == UdpGoto("recv", "touch")
UdpTouch == UdpGoto("touch", UdpLoop)

UdpStep == UdpBind \/ UdpTimeout \/ UdpTouch
-----------------------------------------------------------------------------
(* reaper_thread *)

ReaperFrame == UNCHANGED <<running, active_workers, client_slots, pipe, main, handler, shared,
                           tcp, udp, connvars, uncounted, gave_up>>

ReaperLoop == IF running THEN "tick" ELSE "exited"

(* Every SWEEP_PERIOD_TICKS ticks there is a sweep. *)
ReaperCount ==
  reaper' = IF reaper.ticks + 1 >= SWEEP_PERIOD_TICKS
            THEN [pc |-> "sweep", ticks |-> 0]
            ELSE [pc |-> ReaperLoop, ticks |-> reaper.ticks + 1]

(* After 500 ms: atomic_exchange of dump_requested, and the dump starts. *)
ReaperExchange ==
  /\ Alive /\ reaper.pc = "tick"
  /\ dump_requested' = FALSE
  /\ IF dump_requested
     THEN reaper' = [reaper EXCEPT !.pc = "dump"] /\ owed' = FALSE
     ELSE ReaperCount /\ UNCHANGED owed
  /\ ReaperFrame

(* Mutant: the flag is cleared again after the dump. *)
ReaperDump_ClearsLate ==
  /\ Alive /\ reaper.pc = "dump"
  /\ ReaperCount
  /\ dump_requested' = FALSE
  /\ ReaperFrame /\ UNCHANGED owed

(* dt_dump and the sink's dump are done. *)
ReaperDump ==
  /\ Alive /\ reaper.pc = "dump"
  /\ ReaperCount
  /\ ReaperFrame /\ UNCHANGED <<dump_requested, owed>>

ReaperSweep ==
  /\ Alive /\ reaper.pc = "sweep"
  /\ reaper' = [reaper EXCEPT !.pc = ReaperLoop]
  /\ ReaperFrame /\ UNCHANGED <<dump_requested, owed>>

ReaperStep == ReaperExchange \/ ReaperDump \/ ReaperSweep
-----------------------------------------------------------------------------
(* client_worker *)

WkGoto(c, from, to) ==
  /\ Alive /\ wk[c] = from
  /\ wk' = [wk EXCEPT ![c] = to]
  /\ UNCHANGED <<running, dump_requested, pipe, main, handler, shared, tcp, udp, reaper, net, history>>

WkLoop == IF running THEN "recv" ELSE "close"

WkCount(c) ==
  /\ WkGoto(c, "spawned", WkLoop)
  /\ active_workers' = active_workers + 1
  /\ UNCHANGED <<client_slots, fd, wa>>

(* The receive times out, or has done so for too long, *)
WkTimeout(c) ==
  /\ \E to \in {WkLoop, "close"} : WkGoto(c, "recv", to)
  /\ UNCHANGED <<active_workers, client_slots, fd, wa>>

(* or brings a packet to work on, or the end of the connection. *)
WkRecv(c) ==
  /\ \E to \in {"use", "close"} : WkGoto(c, "recv", to)
  /\ UNCHANGED <<active_workers, client_slots, fd, wa>>

(* The packet goes to the table and the sink, and may have an answer or be  *)
(* the last.                                                               *)
WkUse(c) ==
  /\ \E to \in {WkLoop, "send", "close"} : WkGoto(c, "use", to)
  /\ UNCHANGED <<active_workers, client_slots, fd, wa>>

(* The answer is sent as soon as the peer makes room for it, or the send    *)
(* fails.                                                                  *)
WkSend(c) ==
  /\ \E to \in {WkLoop, "close"} : WkGoto(c, "send", to)
  /\ UNCHANGED <<active_workers, client_slots, fd, wa>>

(* Cleanup, in this order: the descriptor, the slot, the count, the log     *)
(* line with wa->peer, and wa itself.                                      *)
WkClose(c) ==
  /\ WkGoto(c, "close", "post")
  /\ CloseFd(c)
  /\ UNCHANGED <<active_workers, client_slots, wa>>

WkPost(c) ==
  /\ WkGoto(c, "post", "uncount")
  /\ client_slots' = client_slots + 1
  /\ UNCHANGED <<active_workers, fd, wa>>

WkUncount(c) ==
  /\ WkGoto(c, "uncount", "free")
  /\ active_workers' = active_workers - 1
  /\ UNCHANGED <<client_slots, fd, wa>>

WkFree(c) ==
  /\ WkGoto(c, "free", "exited")
  /\ wa' = [wa EXCEPT ![c] = "freed"]
  /\ UNCHANGED <<active_workers, client_slots, fd>>

WkOwnStep(c) ==
  \/ WkCount(c) \/ WkTimeout(c) \/ WkUse(c)
  \/ WkClose(c) \/ WkPost(c) \/ WkUncount(c) \/ WkFree(c)
-----------------------------------------------------------------------------
(* The process has ended. *)
Ended == ~Alive /\ UNCHANGED vars

Next ==
  \/ StopSignal \/ StopWrite \/ DumpSignal
  \/ MainSteps
  \/ TcpStep \/ TcpPollFails \/ TcpAcceptFails
  \/ UdpStep \/ UdpRecv
  \/ ReaperStep
  \/ \E c \in Conns : Connect(c) \/ WkRecv(c) \/ WkOwnStep(c) \/ WkSend(c)
  \/ Ended

Spec == Init /\ [][Next]_vars

(* Every thread that can run does, and timeouts fire; main, which the       *)
(* handler interrupts, runs between signals however many come, and accept  *)
(* does not fail for ever.  Nothing is assumed of clients: packets and      *)
(* datagrams need not come, and a send may be held up for ever.            *)
FairSpec ==
  /\ Spec
  /\ WF_vars(StopWrite) /\ SF_vars(MainSteps)
  /\ WF_vars(TcpStep) /\ SF_vars(TcpAccept) /\ WF_vars(UdpStep) /\ WF_vars(ReaperStep)
  /\ \A c \in Conns : WF_vars(WkOwnStep(c))
-----------------------------------------------------------------------------
(* The values of the variables; the semaphore never goes past its limit. *)
TypeOK ==
  /\ running \in BOOLEAN /\ dump_requested \in BOOLEAN
  /\ active_workers \in 0 .. Cardinality(Conns)
  /\ client_slots \in 0 .. max_clients
  /\ pipe \in BOOLEAN /\ shared \in BOOLEAN
  /\ main \in {"join_tcp", "join_udp", "join_reaper", "drain", "tidy", "return", "done"}
  /\ handler \in {"idle", "write"}
  /\ tcp \in [pc : {"bind", "poll", "accept", "slot", "alloc", "spawn", "log",
                    "closing", "exited"}, c : Conns \cup {NoConn}]
  /\ udp \in {"bind", "recv", "touch", "exited"}
  /\ reaper \in [pc : {"tick", "dump", "sweep", "exited"},
                 ticks : 0 .. SWEEP_PERIOD_TICKS - 1]
  /\ net \in [Conns -> {"none", "pending", "refused", "taken"}]
  /\ fd \in [Conns -> [opened : 0 .. 1, closed : 0 .. 1]]
  /\ wa \in [Conns -> {"none", "live", "freed"}]
  /\ wk \in [Conns -> {"none", "spawned", "recv", "use", "send", "close", "post",
                       "uncount", "free", "exited"}]
  /\ uncounted \subseteq Conns /\ gave_up \in BOOLEAN /\ owed \in BOOLEAN

Serving == {"spawned", "recv", "use", "send", "close"}

(* Slots are neither leaked nor invented, on any path through the listener  *)
(* and the workers: the free ones and the held ones make max_clients.      *)
SlotsBalance ==
  LET held == {c \in Conns : wk[c] \in Serving \cup {"post"}
                             \/ (tcp.c = c /\ tcp.pc \in {"alloc", "spawn"})}
  IN  client_slots + Cardinality(held) = max_clients

(* Every accepted descriptor has exactly one owner until it is closed, and  *)
(* is closed exactly once, whichever of malloc, pthread_create, the peer   *)
(* and the shutdown ends the connection; and so for the worker's argument. *)
DescriptorOwned ==
  \A c \in Conns :
    /\ fd[c].opened - fd[c].closed =
        IF wk[c] \in Serving \/ (tcp.c = c /\ tcp.pc \in {"slot", "alloc", "spawn"}) THEN 1 ELSE 0
    /\ wa[c] = "live" <=> \/ wk[c] \in Serving \cup {"post", "uncount", "free"}
                          \/ tcp.c = c /\ tcp.pc = "spawn"

(* The threads that main joins never meet a destroyed table, sink or        *)
(* semaphore, although each of them finds out by itself that it must stop. *)
JoinedThreadsAreSafe ==
  ~shared => /\ udp # "touch"
             /\ reaper.pc \notin {"dump", "sweep"}
             /\ tcp.pc \notin {"slot", "alloc", "spawn"}

(* What the drain achieves: once it has seen the count at zero, a worker    *)
(* that is still at work is one that had not yet counted itself.           *)
DrainMissesOnlyUnstarted ==
  ~shared /\ ~gave_up =>
    \A c \in Conns : wk[c] \in Serving \cup {"post", "uncount"} => c \in uncounted

(* A stop ends the server: wherever the four threads are when the flag is   *)
(* cleared, main joins them, drains and returns.                           *)
StopEndsServer == ~running ~> ~Alive

(* A connection never waits behind a full server: it gets a worker, or is   *)
(* closed at the door, even if no other client ever leaves.                *)
Unserved(c) ==
  net[c] = "pending" \/ (net[c] = "taken" /\ wk[c] = "none" /\ fd[c].closed = 0)

ConnectionAnswered == \A c \in Conns : Unserved(c) ~> (~Unserved(c) \/ ~Alive)

(* No SIGUSR1 is swallowed: from the signal until a dump starts after it,   *)
(* the flag is up for the reaper's next tick, also when the signal comes   *)
(* during a dump.                                                          *)
SignalNotLost == owed => dump_requested
=============================================================================
