-------------------------- MODULE Telemetryd_proofs --------------------------
(***************************************************************************)
(* Proofs about Telemetryd: for every number of connections, slots and     *)
(* ticks between sweeps, descriptors and slots are neither leaked nor      *)
(* given back twice, the joined threads never meet destroyed state, the    *)
(* drain misses only workers that had not started, and no SIGUSR1 is lost. *)
(***************************************************************************)
EXTENDS Telemetryd, FiniteSetTheorems, TLAPS

(* The listener has accepted c and nobody else knows of it yet. *)
Handling(c) == tcp.c = c /\ tcp.pc \in {"slot", "alloc", "spawn"}

(* The listener has a connection in hand exactly while it handles one, and  *)
(* a connection that was not accepted has no descriptor and no worker.      *)
OneStageEach ==
  /\ tcp.c \in Conns <=> tcp.pc \in {"slot", "alloc", "spawn", "log"}
  /\ \A c \in Conns :
       /\ fd[c].opened = IF net[c] = "taken" THEN 1 ELSE 0
       /\ Handling(c) => net[c] = "taken" /\ wk[c] = "none"
       /\ wk[c] # "none" => net[c] = "taken"

(* The workers that count in active_workers. *)
Counting == {"recv", "use", "send", "close", "post", "uncount"}
Counted == {c \in Conns : wk[c] \in Counting}
WorkersCounted == active_workers = Cardinality(Counted)

(* The connections that hold a slot of the semaphore. *)
HoldsSlot(c) ==
  wk[c] \in Serving \cup {"post"} \/ (tcp.c = c /\ tcp.pc \in {"alloc", "spawn"})
SlotHolders == {c \in Conns : HoldsSlot(c)}

(* How far main has come tells which threads have ended. *)
MainKnows ==
  /\ main # "join_tcp" => tcp.pc = "exited"
  /\ main \notin {"join_tcp", "join_udp"} => udp = "exited"
  /\ main \notin {"join_tcp", "join_udp", "join_reaper"} => reaper.pc = "exited"
  /\ ~shared <=> main \in {"return", "done"}

(* What Drained saw stays true while the rest of the process is taken down. *)
DrainSaw ==
  main \in {"tidy", "return", "done"} /\ ~gave_up =>
    \A c \in Conns : wk[c] \in {"spawned"} \cup Counting => c \in uncounted

(* The inductive invariant. *)
IInv ==
  /\ TypeOK /\ OneStageEach /\ DescriptorOwned /\ SlotsBalance /\ WorkersCounted
  /\ MainKnows /\ DrainSaw /\ SignalNotLost

-----------------------------------------------------------------------------
(* Steps of the listener and of workers: descriptors and arguments. *)

LEMMA ListenerConns ==
  ASSUME IInv,
         \/ TcpBind \/ TcpPoll \/ TcpPollFails \/ TcpAccept \/ TcpAcceptFails
         \/ TcpSlot \/ TcpAlloc \/ TcpSpawn \/ TcpLog \/ TcpClose
  PROVE  OneStageEach' /\ DescriptorOwned'
<1> USE DaemonAssumption DEF IInv, TypeOK, OneStageEach, DescriptorOwned, Handling, Serving, TcpGoto,
        TcpLoop, connvars
<1>1. CASE TcpBind \/ TcpPoll \/ TcpPollFails \/ TcpAcceptFails \/ TcpLog
  <2>1. /\ UNCHANGED <<net, fd, wa, wk>>
        /\ tcp.pc \notin {"slot", "alloc", "spawn"}
        /\ \E to \in {"poll", "accept", "closing", "exited"} : tcp' = [pc |-> to, c |-> NoConn]
    BY <1>1 DEF TcpBind, TcpPoll, TcpPollFails, TcpAcceptFails, TcpLog
  <2> QED BY <2>1
<1>2. CASE TcpAccept
  <2>1. UNCHANGED <<wa, wk>> /\ tcp.pc = "accept"
    BY <1>2 DEF TcpAccept
  <2>2. PICK d \in Conns :
          /\ net[d] = "pending"
          /\ \/ /\ net' = [net EXCEPT ![d] = "taken"]
                /\ fd' = [fd EXCEPT ![d].opened = @ + 1]
                /\ tcp' = [pc |-> "slot", c |-> d]
             \/ /\ net' = [net EXCEPT ![d] = "refused"]
                /\ \E to \in {"poll", "closing"} : tcp' = [pc |-> to, c |-> NoConn]
                /\ fd' = fd
    BY <1>2, Zenon DEF TcpAccept
  <2>3. CASE fd' = fd
    BY <2>1, <2>2, <2>3
  <2>4. CASE tcp' = [pc |-> "slot", c |-> d]
    BY <2>1, <2>2, <2>4
  <2> QED BY <2>2, <2>3, <2>4
<1>3. CASE TcpSlot
  BY <1>3 DEF TcpSlot, CloseFd
<1>4. CASE TcpAlloc
  <2>1. UNCHANGED <<net, wk>> /\ tcp.pc = "alloc" /\ tcp.c \in Conns
    BY <1>4 DEF TcpAlloc
  <2>2. CASE /\ wa' = [wa EXCEPT ![tcp.c] = "live"] /\ fd' = fd
             /\ tcp' = [pc |-> "spawn", c |-> tcp.c]
    BY <2>1, <2>2
  <2>3. CASE /\ fd' = [fd EXCEPT ![tcp.c].closed = @ + 1] /\ wa' = wa
             /\ \E to \in {"poll", "closing"} : tcp' = [pc |-> to, c |-> NoConn]
    BY <2>1, <2>3
  <2> QED BY <1>4, <2>2, <2>3, Zenon DEF TcpAlloc, CloseFd
<1>5. CASE TcpSpawn
  BY <1>5 DEF TcpSpawn, CloseFd
<1>6. CASE TcpClose
  BY <1>6 DEF TcpClose
<1> QED BY <1>1, <1>2, <1>3, <1>4, <1>5, <1>6

LEMMA WorkerConns ==
  ASSUME IInv, NEW d \in Conns, Connect(d) \/ WkRecv(d) \/ WkSend(d) \/ WkOwnStep(d)
  PROVE  OneStageEach' /\ DescriptorOwned'
<1> USE DaemonAssumption DEF IInv, TypeOK, OneStageEach, DescriptorOwned, Handling, Serving
<1>1. CASE Connect(d)
  BY <1>1 DEF Connect
<1>2. CASE WkCount(d) \/ WkTimeout(d) \/ WkRecv(d) \/ WkUse(d) \/ WkSend(d)
  BY <1>2 DEF WkCount, WkTimeout, WkRecv, WkUse, WkSend, WkGoto, WkLoop
<1>3. CASE WkClose(d)
  BY <1>3 DEF WkClose, WkGoto, CloseFd
<1>4. CASE WkPost(d) \/ WkUncount(d)
  BY <1>4 DEF WkPost, WkUncount, WkGoto
<1>5. CASE WkFree(d)
  BY <1>5 DEF WkFree, WkGoto
<1> QED BY <1>1, <1>2, <1>3, <1>4, <1>5 DEF WkOwnStep
-----------------------------------------------------------------------------
(* Counting: the semaphore and active_workers. *)

LEMMA OneMore ==
  ASSUME NEW S \in SUBSET Conns, NEW d \in Conns, d \notin S
  PROVE  Cardinality(S) \in Nat /\ Cardinality(S \cup {d}) = Cardinality(S) + 1
BY DaemonAssumption, FS_Subset, FS_AddElement, FS_CardinalityType

LEMMA OneLess ==
  ASSUME NEW S \in SUBSET Conns, NEW d \in S
  PROVE  Cardinality(S) \in Nat /\ Cardinality(S \ {d}) = Cardinality(S) - 1
BY DaemonAssumption, FS_Subset, FS_RemoveElement, FS_CardinalityType

LEMMA SubsetCount ==
  ASSUME NEW S \in SUBSET Conns
  PROVE  Cardinality(S) \in 0 .. Cardinality(Conns)
<1>1. Cardinality(S) \in Nat /\ Cardinality(Conns) \in Nat /\ Cardinality(S) <= Cardinality(Conns)
  BY DaemonAssumption, FS_Subset, FS_CardinalityType
<1> QED BY <1>1

LEMMA CountersBounded ==
  ASSUME SlotsBalance', WorkersCounted', client_slots' \in Int, client_slots' >= 0
  PROVE  client_slots' \in 0 .. max_clients /\ active_workers' \in 0 .. Cardinality(Conns)
<1>1. SlotHolders' \in SUBSET Conns /\ Counted' \in SUBSET Conns
  BY DEF SlotHolders, Counted
<1>2. Cardinality(SlotHolders') \in Nat /\ Cardinality(Counted') \in 0 .. Cardinality(Conns)
  BY <1>1, SubsetCount
<1>3. client_slots' + Cardinality(SlotHolders') = max_clients
  BY DEF SlotsBalance, SlotHolders, HoldsSlot
<1> QED BY <1>2, <1>3, DaemonAssumption DEF WorkersCounted

(* A step that takes a slot, gives one back, or does neither. *)
LEMMA SlotsMove ==
  ASSUME IInv,
         \/ client_slots' = client_slots /\ SlotHolders' = SlotHolders
         \/ \E d \in Conns \ SlotHolders :
              client_slots' = client_slots - 1 /\ SlotHolders' = SlotHolders \cup {d}
         \/ \E d \in SlotHolders :
              client_slots' = client_slots + 1 /\ SlotHolders' = SlotHolders \ {d}
  PROVE  SlotsBalance'
<1>1. /\ client_slots + Cardinality(SlotHolders) = max_clients
      /\ client_slots \in Nat /\ max_clients \in Nat /\ SlotHolders \in SUBSET Conns
  BY DaemonAssumption DEF IInv, TypeOK, SlotsBalance, SlotHolders, HoldsSlot
<1>2. client_slots' + Cardinality(SlotHolders') = max_clients
  <2>1. ASSUME NEW d \in Conns \ SlotHolders,
               client_slots' = client_slots - 1, SlotHolders' = SlotHolders \cup {d}
        PROVE  client_slots' + Cardinality(SlotHolders') = max_clients
    <3>1. /\ Cardinality(SlotHolders) \in Nat
          /\ Cardinality(SlotHolders \cup {d}) = Cardinality(SlotHolders) + 1
      BY <1>1, OneMore
    <3> QED BY <1>1, <2>1, <3>1
  <2>2. ASSUME NEW d \in SlotHolders,
               client_slots' = client_slots + 1, SlotHolders' = SlotHolders \ {d}
        PROVE  client_slots' + Cardinality(SlotHolders') = max_clients
    <3>1. /\ Cardinality(SlotHolders) \in Nat
          /\ Cardinality(SlotHolders \ {d}) = Cardinality(SlotHolders) - 1
      BY <1>1, OneLess
    <3> QED BY <1>1, <2>2, <3>1
  <2> QED BY <1>1, <2>1, <2>2
<1> QED BY <1>2 DEF SlotsBalance, SlotHolders, HoldsSlot

(* A step that counts a worker, uncounts one, or does neither. *)
LEMMA CountMoves ==
  ASSUME IInv,
         \/ active_workers' = active_workers /\ Counted' = Counted
         \/ \E d \in Conns \ Counted :
              active_workers' = active_workers + 1 /\ Counted' = Counted \cup {d}
         \/ \E d \in Counted :
              active_workers' = active_workers - 1 /\ Counted' = Counted \ {d}
  PROVE  WorkersCounted'
<1>1. active_workers = Cardinality(Counted) /\ Counted \in SUBSET Conns
  BY DEF IInv, WorkersCounted, Counted
<1>2. ASSUME NEW d \in Conns \ Counted,
             active_workers' = active_workers + 1, Counted' = Counted \cup {d}
      PROVE  WorkersCounted'
  BY <1>1, <1>2, OneMore DEF WorkersCounted
<1>3. ASSUME NEW d \in Counted, active_workers' = active_workers - 1, Counted' = Counted \ {d}
      PROVE  WorkersCounted'
  BY <1>1, <1>3, OneLess DEF WorkersCounted
<1> QED BY <1>1, <1>2, <1>3 DEF WorkersCounted
LEMMA ListenerCounts ==
  ASSUME IInv,
         \/ TcpBind \/ TcpPoll \/ TcpPollFails \/ TcpAccept \/ TcpAcceptFails
         \/ TcpSlot \/ TcpAlloc \/ TcpSpawn \/ TcpLog \/ TcpClose
  PROVE  /\ SlotsBalance' /\ WorkersCounted'
         /\ client_slots' \in Int /\ client_slots' >= 0
<1> USE DEF TcpGoto, TcpLoop, connvars
<1>t. /\ tcp.c \in Conns <=> tcp.pc \in {"slot", "alloc", "spawn", "log"}
      /\ tcp.pc \in {"slot", "alloc", "spawn"} => wk[tcp.c] = "none"
      /\ NoConn \notin Conns /\ client_slots \in Nat
      /\ wk \in [Conns -> {"none", "spawned", "recv", "use", "send", "close", "post",
                           "uncount", "free", "exited"}]
  BY DaemonAssumption DEF IInv, TypeOK, OneStageEach, Handling
<1>1. CASE TcpBind \/ TcpPoll \/ TcpPollFails \/ TcpAccept \/ TcpAcceptFails \/ TcpLog \/ TcpClose
  <2>1. /\ UNCHANGED <<wk, client_slots, active_workers>>
        /\ tcp.pc \notin {"alloc", "spawn"} /\ tcp'.pc \notin {"alloc", "spawn"}
    BY <1>1 DEF TcpBind, TcpPoll, TcpPollFails, TcpAccept, TcpAcceptFails, TcpLog, TcpClose, TcpFrame
  <2>2. SlotHolders' = SlotHolders /\ Counted' = Counted
    BY <2>1 DEF SlotHolders, HoldsSlot, Counted
  <2> QED BY <1>t, <2>1, <2>2, SlotsMove, CountMoves
<1>2. CASE TcpSlot
  <2>1. /\ UNCHANGED <<wk, active_workers>> /\ tcp.pc = "slot"
        /\ \/ client_slots > 0 /\ client_slots' = client_slots - 1 /\ tcp' = [pc |-> "alloc", c |-> tcp.c]
           \/ client_slots' = client_slots /\ tcp'.pc \notin {"alloc", "spawn"}
    BY <1>2 DEF TcpSlot, TcpFrame
  <2>2. Counted' = Counted
    BY <2>1 DEF Counted
  <2>3. CASE tcp' = [pc |-> "alloc", c |-> tcp.c]
    <3>1. tcp.c \in Conns \ SlotHolders /\ SlotHolders' = SlotHolders \cup {tcp.c}
      BY <1>t, <2>1, <2>3 DEF SlotHolders, HoldsSlot, Serving
    <3> QED BY <1>t, <2>1, <2>2, <2>3, <3>1, SlotsMove, CountMoves
  <2>4. CASE client_slots' = client_slots /\ tcp'.pc \notin {"alloc", "spawn"}
    <3>1. SlotHolders' = SlotHolders
      BY <2>1, <2>4 DEF SlotHolders, HoldsSlot
    <3> QED BY <1>t, <2>1, <2>2, <2>4, <3>1, SlotsMove, CountMoves
  <2> QED BY <2>1, <2>3, <2>4
<1>3. CASE TcpAlloc \/ TcpSpawn
  <2>1. /\ UNCHANGED active_workers /\ tcp.pc \in {"alloc", "spawn"}
        /\ \/ /\ client_slots' = client_slots
              /\ \/ wk' = wk /\ tcp' = [pc |-> "spawn", c |-> tcp.c]
                 \/ wk' = [wk EXCEPT ![tcp.c] = "spawned"] /\ tcp' = [pc |-> "log", c |-> tcp.c]
           \/ wk' = wk /\ client_slots' = client_slots + 1 /\ tcp'.pc \notin {"alloc", "spawn"}
    BY <1>3 DEF TcpAlloc, TcpSpawn, TcpFrame
  <2>2. Counted' = Counted
    BY <1>t, <2>1 DEF Counted, Counting
  <2>3. CASE client_slots' = client_slots
    <3>1. SlotHolders' = SlotHolders
      BY <1>t, <2>1, <2>3 DEF SlotHolders, HoldsSlot, Serving
    <3> QED BY <1>t, <2>1, <2>2, <2>3, <3>1, SlotsMove, CountMoves
  <2>4. CASE wk' = wk /\ client_slots' = client_slots + 1 /\ tcp'.pc \notin {"alloc", "spawn"}
    <3>1. tcp.c \in SlotHolders /\ SlotHolders' = SlotHolders \ {tcp.c}
      BY <1>t, <2>1, <2>4 DEF SlotHolders, HoldsSlot, Serving
    <3> QED BY <1>t, <2>1, <2>2, <2>4, <3>1, SlotsMove, CountMoves
  <2> QED BY <2>1, <2>3, <2>4
<1> QED BY <1>1, <1>2, <1>3

LEMMA WorkerCounts ==
  ASSUME IInv, NEW d \in Conns, Connect(d) \/ WkRecv(d) \/ WkSend(d) \/ WkOwnStep(d)
  PROVE  /\ SlotsBalance' /\ WorkersCounted'
         /\ client_slots' \in Int /\ client_slots' >= 0
<1>t. /\ wk[d] # "none" => ~Handling(d)
      /\ client_slots \in Nat
      /\ wk \in [Conns -> {"none", "spawned", "recv", "use", "send", "close", "post",
                           "uncount", "free", "exited"}]
  BY DaemonAssumption DEF IInv, TypeOK, OneStageEach
<1>1. CASE Connect(d)
  <2>1. UNCHANGED <<wk, tcp, client_slots, active_workers>>
    BY <1>1 DEF Connect, ctxvars
  <2>2. SlotHolders' = SlotHolders /\ Counted' = Counted
    BY <2>1 DEF SlotHolders, HoldsSlot, Counted
  <2> QED BY <1>t, <2>1, <2>2, SlotsMove, CountMoves
<1>2. CASE WkTimeout(d) \/ WkRecv(d) \/ WkUse(d) \/ WkSend(d) \/ WkClose(d) \/ WkFree(d)
  <2>1. /\ UNCHANGED <<tcp, client_slots, active_workers>>
        /\ \/ /\ wk[d] \in Serving \ {"spawned"}
              /\ \E to \in Counting \ {"uncount"} : wk' = [wk EXCEPT ![d] = to]
           \/ wk[d] = "free" /\ wk' = [wk EXCEPT ![d] = "exited"]
    BY <1>2 DEF WkTimeout, WkRecv, WkUse, WkSend, WkClose, WkFree, WkGoto, WkLoop, Serving, Counting
  <2>2. SlotHolders' = SlotHolders /\ Counted' = Counted
    BY <1>t, <2>1 DEF SlotHolders, HoldsSlot, Serving, Counted, Counting
  <2> QED BY <1>t, <2>1, <2>2, SlotsMove, CountMoves
<1>3. CASE WkCount(d)
  <2>1. /\ UNCHANGED <<tcp, client_slots>> /\ active_workers' = active_workers + 1
        /\ wk[d] = "spawned" /\ \E to \in {"recv", "close"} : wk' = [wk EXCEPT ![d] = to]
    BY <1>3 DEF WkCount, WkGoto, WkLoop
  <2>2. SlotHolders' = SlotHolders
    BY <1>t, <2>1 DEF SlotHolders, HoldsSlot, Serving
  <2>3. d \in Conns \ Counted /\ Counted' = Counted \cup {d}
    BY <1>t, <2>1 DEF Counted, Counting
  <2> QED BY <1>t, <2>1, <2>2, <2>3, SlotsMove, CountMoves
<1>4. CASE WkPost(d)
  <2>1. /\ UNCHANGED <<tcp, active_workers>> /\ client_slots' = client_slots + 1
        /\ wk[d] = "post" /\ wk' = [wk EXCEPT ![d] = "uncount"]
    BY <1>4 DEF WkPost, WkGoto
  <2>2. d \in SlotHolders /\ SlotHolders' = SlotHolders \ {d}
    BY <1>t, <2>1 DEF SlotHolders, HoldsSlot, Serving, Handling
  <2>3. Counted' = Counted
    BY <1>t, <2>1 DEF Counted, Counting
  <2> QED BY <1>t, <2>1, <2>2, <2>3, SlotsMove, CountMoves
<1>5. CASE WkUncount(d)
  <2>1. /\ UNCHANGED <<tcp, client_slots>> /\ active_workers' = active_workers - 1
        /\ wk[d] = "uncount" /\ wk' = [wk EXCEPT ![d] = "free"]
    BY <1>5 DEF WkUncount, WkGoto
  <2>2. SlotHolders' = SlotHolders
    BY <1>t, <2>1 DEF SlotHolders, HoldsSlot, Serving
  <2>3. d \in Counted /\ Counted' = Counted \ {d}
    BY <1>t, <2>1 DEF Counted, Counting
  <2> QED BY <1>t, <2>1, <2>2, <2>3, SlotsMove, CountMoves
<1> QED BY <1>1, <1>2, <1>3, <1>4, <1>5 DEF WkOwnStep
-----------------------------------------------------------------------------
(* Types. *)

LEMMA DescriptorsOnce ==
  ASSUME OneStageEach', DescriptorOwned', fd' \in [Conns -> [opened : Nat, closed : Nat]]
  PROVE  fd' \in [Conns -> [opened : 0 .. 1, closed : 0 .. 1]]
<1>1. ASSUME NEW c \in Conns
      PROVE  fd'[c].opened \in 0 .. 1 /\ fd'[c].closed \in 0 .. 1
  BY DEF OneStageEach, DescriptorOwned, Handling, Serving
<1> QED BY <1>1

LEMMA ListenerTypes ==
  ASSUME IInv,
         \/ TcpBind \/ TcpPoll \/ TcpPollFails \/ TcpAccept \/ TcpAcceptFails
         \/ TcpSlot \/ TcpAlloc \/ TcpSpawn \/ TcpLog \/ TcpClose
  PROVE  TypeOK'
<1> USE DEF IInv, TypeOK
<1>1. UNCHANGED <<dump_requested, active_workers, pipe, main, handler, shared, udp, reaper, history>>
  BY DEF TcpBind, TcpPoll, TcpPollFails, TcpAccept, TcpAcceptFails, TcpSlot, TcpAlloc, TcpSpawn,
         TcpLog, TcpClose, TcpFrame
<1>2. running' \in BOOLEAN
  BY Zenon DEF TcpBind, TcpPoll, TcpPollFails, TcpAccept, TcpAcceptFails, TcpSlot, TcpAlloc, TcpSpawn,
         TcpLog, TcpClose
<1>3. tcp' \in [pc : {"bind", "poll", "accept", "slot", "alloc", "spawn", "log",
                      "closing", "exited"}, c : Conns \cup {NoConn}]
  BY DEF TcpBind, TcpPoll, TcpPollFails, TcpAccept, TcpAcceptFails, TcpSlot, TcpAlloc, TcpSpawn,
         TcpLog, TcpClose, TcpGoto, TcpLoop
<1>4. net' \in [Conns -> {"none", "pending", "refused", "taken"}]
  BY DEF TcpBind, TcpPoll, TcpPollFails, TcpAccept, TcpAcceptFails, TcpSlot, TcpAlloc, TcpSpawn,
         TcpLog, TcpClose, connvars
<1>5. wa' \in [Conns -> {"none", "live", "freed"}]
  BY DEF TcpBind, TcpPoll, TcpPollFails, TcpAccept, TcpAcceptFails, TcpSlot, TcpAlloc, TcpSpawn,
         TcpLog, TcpClose, connvars
<1>6. wk' \in [Conns -> {"none", "spawned", "recv", "use", "send", "close", "post",
                         "uncount", "free", "exited"}]
  BY DEF TcpBind, TcpPoll, TcpPollFails, TcpAccept, TcpAcceptFails, TcpSlot, TcpAlloc, TcpSpawn,
         TcpLog, TcpClose, connvars
<1>7. fd' \in [Conns -> [opened : Nat, closed : Nat]]
  BY DEF TcpBind, TcpPoll, TcpPollFails, TcpAccept, TcpAcceptFails, TcpSlot, TcpAlloc, TcpSpawn,
         TcpLog, TcpClose, connvars, CloseFd
<1>8. fd' \in [Conns -> [opened : 0 .. 1, closed : 0 .. 1]]
  BY <1>7, ListenerConns, DescriptorsOnce
<1>9. client_slots' \in 0 .. max_clients
  BY ListenerCounts, CountersBounded
<1> QED BY <1>1, <1>2, <1>3, <1>4, <1>5, <1>6, <1>8, <1>9 DEF history

(* A worker's step changes no pc but its own, and counts itself only once.  *)
LEMMA WorkerMoves ==
  ASSUME NEW d \in Conns, Connect(d) \/ WkRecv(d) \/ WkSend(d) \/ WkOwnStep(d)
  PROVE  \/ wk' = wk
         \/ \E to \in Counting \cup {"free", "exited"} :
              /\ wk' = [wk EXCEPT ![d] = to]
              /\ to \in Counting => wk[d] \in {"spawned"} \cup Counting
<1> USE DEF Counting
<1>1. CASE Connect(d)
  BY <1>1 DEF Connect
<1>2. CASE WkRecv(d) \/ WkSend(d) \/ WkUse(d)
  BY <1>2 DEF WkRecv, WkSend, WkUse, WkGoto, WkLoop
<1>3. CASE WkCount(d) \/ WkTimeout(d)
  BY <1>3 DEF WkCount, WkTimeout, WkGoto, WkLoop
<1>4. CASE WkClose(d) \/ WkPost(d) \/ WkUncount(d) \/ WkFree(d)
  BY <1>4 DEF WkClose, WkPost, WkUncount, WkFree, WkGoto
<1> QED BY <1>1, <1>2, <1>3, <1>4 DEF WkOwnStep

LEMMA WorkerTypes ==
  ASSUME IInv, NEW d \in Conns, Connect(d) \/ WkRecv(d) \/ WkSend(d) \/ WkOwnStep(d)
  PROVE  TypeOK'
<1> USE DEF IInv, TypeOK
<1>1. UNCHANGED <<running, dump_requested, pipe, main, handler, shared, tcp, udp, reaper, history>>
  BY DEF Connect, WkOwnStep, WkCount, WkTimeout, WkRecv, WkUse, WkSend, WkClose, WkPost, WkUncount,
         WkFree, WkGoto, ctxvars
<1>2. net' \in [Conns -> {"none", "pending", "refused", "taken"}]
  BY DEF Connect, WkOwnStep, WkCount, WkTimeout, WkRecv, WkUse, WkSend, WkClose, WkPost, WkUncount,
         WkFree, WkGoto
<1>3. wa' \in [Conns -> {"none", "live", "freed"}]
  BY DEF Connect, WkOwnStep, WkCount, WkTimeout, WkRecv, WkUse, WkSend, WkClose, WkPost, WkUncount,
         WkFree
<1>4. wk' \in [Conns -> {"none", "spawned", "recv", "use", "send", "close", "post",
                         "uncount", "free", "exited"}]
  BY WorkerMoves DEF Counting
<1>5. fd' \in [Conns -> [opened : Nat, closed : Nat]]
  BY DEF Connect, WkOwnStep, WkCount, WkTimeout, WkRecv, WkUse, WkSend, WkClose, WkPost, WkUncount,
         WkFree, CloseFd
<1>6. fd' \in [Conns -> [opened : 0 .. 1, closed : 0 .. 1]]
  BY <1>5, WorkerConns, DescriptorsOnce
<1>7. client_slots' \in 0 .. max_clients /\ active_workers' \in 0 .. Cardinality(Conns)
  BY WorkerCounts, CountersBounded
<1> QED BY <1>1, <1>2, <1>3, <1>4, <1>6, <1>7 DEF history
-----------------------------------------------------------------------------
(* What main knows.  A thread that takes a step has not ended, so main has  *)
(* not yet joined it.                                                       *)

LEMMA ListenerIInv ==
  ASSUME IInv,
         \/ TcpBind \/ TcpPoll \/ TcpPollFails \/ TcpAccept \/ TcpAcceptFails
         \/ TcpSlot \/ TcpAlloc \/ TcpSpawn \/ TcpLog \/ TcpClose
  PROVE  IInv'
<1>1. /\ UNCHANGED <<dump_requested, main, shared, udp, reaper, owed>>
      /\ tcp.pc # "exited"
  BY DEF TcpBind, TcpPoll, TcpPollFails, TcpAccept, TcpAcceptFails, TcpSlot, TcpAlloc, TcpSpawn,
         TcpLog, TcpClose, TcpFrame, history
<1>2. main = "join_tcp" /\ main' = "join_tcp"
  BY <1>1 DEF IInv, MainKnows
<1>3. MainKnows' /\ DrainSaw'
  BY <1>1, <1>2 DEF IInv, MainKnows, DrainSaw
<1>4. SignalNotLost'
  BY <1>1 DEF IInv, SignalNotLost
<1> QED BY <1>3, <1>4, ListenerTypes, ListenerConns, ListenerCounts DEF IInv

LEMMA WorkerIInv ==
  ASSUME IInv, NEW d \in Conns, Connect(d) \/ WkRecv(d) \/ WkSend(d) \/ WkOwnStep(d)
  PROVE  IInv'
<1>1. UNCHANGED <<dump_requested, main, shared, tcp, udp, reaper, uncounted, gave_up, owed>>
  BY DEF Connect, WkOwnStep, WkCount, WkTimeout, WkRecv, WkUse, WkSend, WkClose, WkPost, WkUncount,
         WkFree, WkGoto, ctxvars, history
<1>2. MainKnows' /\ SignalNotLost'
  BY <1>1 DEF IInv, MainKnows, SignalNotLost
<1>3. \A c \in Conns : wk'[c] \in {"spawned"} \cup Counting => wk[c] \in {"spawned"} \cup Counting
  BY WorkerMoves DEF IInv, TypeOK
<1>4. DrainSaw'
  BY <1>1, <1>3 DEF IInv, DrainSaw
<1> QED BY <1>2, <1>4, WorkerTypes, WorkerConns, WorkerCounts DEF IInv

(* Signals, main, the heartbeat thread and the reaper leave connections,    *)
(* slots and counts alone.                                                  *)
LEMMA OthersConns ==
  ASSUME IInv, UNCHANGED <<tcp, connvars, active_workers, client_slots>>
  PROVE  OneStageEach' /\ DescriptorOwned' /\ SlotsBalance' /\ WorkersCounted'
<1> USE DEF connvars, IInv
<1>1. OneStageEach' /\ DescriptorOwned'
  BY DEF OneStageEach, DescriptorOwned, Handling
<1>2. SlotHolders' = SlotHolders /\ Counted' = Counted
  BY DEF SlotHolders, HoldsSlot, Counted
<1> QED BY <1>1, <1>2, SlotsMove, CountMoves

LEMMA SignalIInv ==
  ASSUME IInv, StopSignal \/ StopWrite \/ DumpSignal
  PROVE  IInv'
<1> USE DEF ctxvars, connvars, history
<1>1. /\ UNCHANGED <<active_workers, client_slots, main, shared, tcp, udp, reaper, connvars,
                     uncounted, gave_up>>
      /\ handler' \in {"idle", "write"}
  BY DEF StopSignal, StopWrite, DumpSignal, IInv, TypeOK
<1>2. /\ running' \in BOOLEAN /\ dump_requested' \in BOOLEAN /\ pipe' \in BOOLEAN /\ owed' \in BOOLEAN
      /\ SignalNotLost'
  <2>1. CASE StopSignal
    <3>1. running' = FALSE /\ dump_requested' = dump_requested /\ pipe' = pipe /\ owed' = owed
      BY <2>1 DEF StopSignal
    <3> QED BY <3>1, Zenon DEF IInv, TypeOK, SignalNotLost
  <2>2. CASE StopWrite
    <3>1. running' = running /\ dump_requested' = dump_requested /\ pipe' = TRUE /\ owed' = owed
      BY <2>2 DEF StopWrite
    <3> QED BY <3>1, Zenon DEF IInv, TypeOK, SignalNotLost
  <2>3. CASE DumpSignal
    <3>1. running' = running /\ dump_requested' = TRUE /\ pipe' = pipe /\ owed' = TRUE
      BY <2>3 DEF DumpSignal
    <3> QED BY <3>1, Zenon DEF IInv, TypeOK, SignalNotLost
  <2> QED BY <2>1, <2>2, <2>3
<1>3. TypeOK'
  BY <1>1, <1>2 DEF IInv, TypeOK
<1>4. MainKnows' /\ DrainSaw'
  BY <1>1 DEF IInv, MainKnows, DrainSaw
<1> QED BY <1>1, <1>2, <1>3, <1>4, OthersConns DEF IInv

LEMMA MainIInv ==
  ASSUME IInv, MainSteps
  PROVE  IInv'
<1> USE DEF ctxvars, connvars
<1>1. UNCHANGED <<running, dump_requested, active_workers, client_slots, pipe, handler, tcp, udp,
                  reaper, connvars, owed>>
  BY DEF MainSteps, JoinTcp, JoinUdp, JoinReaper, Drained, DrainTimeout, TidyUp, MainReturn, MainStep
<1>2. /\ main' \in {"join_tcp", "join_udp", "join_reaper", "drain", "tidy", "return", "done"}
      /\ uncounted' \subseteq Conns
  BY DEF IInv, TypeOK, MainSteps, JoinTcp, JoinUdp, JoinReaper, Drained, DrainTimeout, TidyUp,
         MainReturn, MainStep
<1>3. shared' \in BOOLEAN /\ gave_up' \in BOOLEAN
  BY Zenon DEF IInv, TypeOK, MainSteps, JoinTcp, JoinUdp, JoinReaper, Drained, DrainTimeout, TidyUp,
         MainReturn
<1>4. TypeOK'
  BY <1>1, <1>2, <1>3 DEF IInv, TypeOK
<1>5. MainKnows'
  <2> USE DEF IInv, MainKnows, MainStep
  <2>1. CASE JoinTcp \/ JoinUdp \/ JoinReaper
    BY <1>1, <2>1 DEF JoinTcp, JoinUdp, JoinReaper
  <2>2. CASE Drained \/ DrainTimeout
    BY <1>1, <2>2 DEF Drained, DrainTimeout
  <2>3. CASE TidyUp \/ MainReturn
    BY <1>1, <2>3 DEF TidyUp, MainReturn
  <2> QED BY <2>1, <2>2, <2>3 DEF MainSteps
<1>6. DrainSaw'
  <2>1. CASE JoinTcp \/ JoinUdp \/ JoinReaper
    BY <2>1 DEF DrainSaw, JoinTcp, JoinUdp, JoinReaper, MainStep
  <2>2. CASE Drained
    <3>1. Counted = {}
      BY <2>2, SubsetCount, DaemonAssumption, FS_EmptySet, FS_Subset
         DEF Drained, IInv, WorkersCounted, Counted
    <3>2. \A c \in Conns : wk[c] \in {"spawned"} \cup Counting => wk[c] = "spawned"
      BY <3>1 DEF Counted
    <3> QED BY <1>1, <2>2, <3>2 DEF Drained, DrainSaw
  <2>3. CASE DrainTimeout
    BY <2>3 DEF DrainTimeout, DrainSaw
  <2>4. CASE TidyUp \/ MainReturn
    BY <1>1, <2>4 DEF TidyUp, MainReturn, MainStep, IInv, DrainSaw
  <2> QED BY <2>1, <2>2, <2>3, <2>4 DEF MainSteps
<1>7. SignalNotLost'
  BY <1>1 DEF IInv, SignalNotLost
<1> QED BY <1>1, <1>4, <1>5, <1>6, <1>7, OthersConns DEF IInv

LEMMA UdpIInv ==
  ASSUME IInv, UdpStep \/ UdpRecv
  PROVE  IInv'
<1> USE DEF ctxvars, connvars, history
<1>1. /\ UNCHANGED <<running, dump_requested, active_workers, client_slots, pipe, main, handler,
                     shared, tcp, reaper, connvars, uncounted, gave_up, owed>>
      /\ udp # "exited" /\ udp' \in {"recv", "touch", "exited"}
  BY DEF UdpStep, UdpRecv, UdpBind, UdpTimeout, UdpTouch, UdpGoto, UdpLoop
<1>2. TypeOK'
  BY <1>1 DEF IInv, TypeOK
<1>3. MainKnows' /\ DrainSaw' /\ SignalNotLost'
  BY <1>1 DEF IInv, MainKnows, DrainSaw, SignalNotLost
<1> QED BY <1>1, <1>2, <1>3, OthersConns DEF IInv

LEMMA ReaperIInv ==
  ASSUME IInv, ReaperStep
  PROVE  IInv'
<1> USE DEF connvars
<1>1. /\ UNCHANGED <<running, active_workers, client_slots, pipe, main, handler,
                     shared, tcp, udp, connvars, uncounted, gave_up>>
      /\ reaper.pc # "exited"
  BY DEF ReaperStep, ReaperExchange, ReaperDump, ReaperSweep, ReaperFrame
<1>2. reaper' \in [pc : {"tick", "dump", "sweep", "exited"}, ticks : 0 .. SWEEP_PERIOD_TICKS - 1]
  BY DaemonAssumption
     DEF IInv, TypeOK, ReaperStep, ReaperExchange, ReaperDump, ReaperSweep, ReaperCount, ReaperLoop
<1>3. dump_requested' \in BOOLEAN /\ owed' \in BOOLEAN /\ SignalNotLost'
  <2>1. \/ dump_requested' = FALSE /\ owed' = FALSE
        \/ dump_requested' = FALSE /\ ~dump_requested /\ owed' = owed
        \/ dump_requested' = dump_requested /\ owed' = owed
    BY Zenon DEF ReaperStep, ReaperExchange, ReaperDump, ReaperSweep
  <2>2. dump_requested \in BOOLEAN /\ owed \in BOOLEAN /\ (owed => dump_requested)
    BY DEF IInv, TypeOK, SignalNotLost
  <2>3. CASE dump_requested' = FALSE /\ owed' = FALSE
    BY <2>3, Zenon DEF SignalNotLost
  <2>4. CASE dump_requested' = FALSE /\ ~dump_requested /\ owed' = owed
    BY <2>2, <2>4, Zenon DEF SignalNotLost
  <2>5. CASE dump_requested' = dump_requested /\ owed' = owed
    BY <2>2, <2>5, Zenon DEF SignalNotLost
  <2> QED BY <2>1, <2>3, <2>4, <2>5
<1>4. TypeOK'
  BY <1>1, <1>2, <1>3 DEF IInv, TypeOK
<1>5. MainKnows' /\ DrainSaw'
  BY <1>1 DEF IInv, MainKnows, DrainSaw
<1> QED BY <1>1, <1>3, <1>4, <1>5, OthersConns DEF IInv

LEMMA InitIInv == Init => IInv
<1> SUFFICES ASSUME Init PROVE IInv
  OBVIOUS
<1> USE DaemonAssumption DEF Init
<1>1. SlotHolders = {} /\ Counted = {}
  BY DEF SlotHolders, HoldsSlot, Serving, Counted, Counting
<1>2. Cardinality({}) = 0 /\ Cardinality(Conns) \in Nat
  BY FS_EmptySet, FS_CardinalityType
<1>3. SlotsBalance /\ WorkersCounted
  <2>1. client_slots + Cardinality(SlotHolders) = max_clients
    BY <1>1, <1>2
  <2> QED BY <2>1, <1>1, <1>2 DEF SlotsBalance, SlotHolders, HoldsSlot, WorkersCounted
<1>4. OneStageEach /\ DescriptorOwned
  BY DEF OneStageEach, DescriptorOwned, Handling, Serving
<1>5. TypeOK
  <2>1. /\ active_workers \in 0 .. Cardinality(Conns) /\ client_slots \in 0 .. max_clients
        /\ reaper \in [pc : {"tick", "dump", "sweep", "exited"}, ticks : 0 .. SWEEP_PERIOD_TICKS - 1]
    BY <1>2
  <2>2. /\ running \in BOOLEAN /\ dump_requested \in BOOLEAN /\ pipe \in BOOLEAN /\ shared \in BOOLEAN
        /\ gave_up \in BOOLEAN /\ owed \in BOOLEAN
    BY Zenon
  <2>3. fd \in [Conns -> [opened : 0 .. 1, closed : 0 .. 1]]
    OBVIOUS
  <2> QED BY <2>1, <2>2, <2>3 DEF TypeOK
<1> QED BY <1>3, <1>4, <1>5 DEF IInv, MainKnows, DrainSaw, SignalNotLost

LEMMA NextIInv == IInv /\ [Next]_vars => IInv'
<1> SUFFICES ASSUME IInv, [Next]_vars PROVE IInv'
  OBVIOUS
<1>1. CASE UNCHANGED vars
  <2>1. TypeOK' /\ MainKnows' /\ DrainSaw' /\ SignalNotLost'
    BY <1>1 DEF vars, ctxvars, connvars, history, IInv, TypeOK, MainKnows, DrainSaw, SignalNotLost
  <2> QED BY <1>1, <2>1, OthersConns DEF vars, ctxvars, IInv
<1>2. CASE Next
  BY <1>1, <1>2, SignalIInv, MainIInv, ListenerIInv, UdpIInv, ReaperIInv, WorkerIInv
     DEF Next, TcpStep, Ended
<1> QED BY <1>1, <1>2

LEMMA Inductive == Spec => []IInv
BY InitIInv, NextIInv, PTL DEF Spec

-----------------------------------------------------------------------------
(* Type correctness: the semaphore stays between 0 and max_clients, and     *)
(* active_workers between 0 and the number of connections.                  *)
THEOREM TypeCorrect == Spec => []TypeOK
<1>1. IInv => TypeOK BY DEF IInv
<1> QED BY <1>1, Inductive, PTL

(* On no path through the listener and the workers is a slot of the client  *)
(* semaphore leaked, given back twice or taken without being free.          *)
THEOREM SlotsAreBalanced == Spec => []SlotsBalance
<1>1. IInv => SlotsBalance BY DEF IInv
<1> QED BY <1>1, Inductive, PTL

(* Every accepted descriptor, and every worker's argument, has one owner    *)
(* until it is closed or freed, and that happens once: in the worker, or on *)
(* a failure path of the listener.                                          *)
THEOREM DescriptorsAreOwned == Spec => []DescriptorOwned
<1>1. IInv => DescriptorOwned BY DEF IInv
<1> QED BY <1>1, Inductive, PTL

(* main destroys sink, table and semaphore after its joins, so the threads  *)
(* it joins never use them afterwards.                                      *)
THEOREM JoinsProtectThreads == Spec => []JoinedThreadsAreSafe
<1>1. IInv => JoinedThreadsAreSafe BY DEF IInv, MainKnows, JoinedThreadsAreSafe
<1> QED BY <1>1, Inductive, PTL

(* When the drain of main has seen active_workers at zero, a worker still   *)
(* at work during the tear-down is one that had not yet counted itself.     *)
THEOREM DrainIsSound == Spec => []DrainMissesOnlyUnstarted
<1>1. IInv => DrainMissesOnlyUnstarted
  BY DEF IInv, MainKnows, DrainSaw, DrainMissesOnlyUnstarted, Serving, Counting
<1> QED BY <1>1, Inductive, PTL

(* A SIGUSR1 keeps dump_requested up until a dump starts after it: the      *)
(* reaper's atomic_exchange never swallows one.                             *)
THEOREM SignalsAreNotLost == Spec => []SignalNotLost
<1>1. IInv => SignalNotLost BY DEF IInv
<1> QED BY <1>1, Inductive, PTL
=============================================================================
