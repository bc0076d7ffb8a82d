--------------------------- MODULE Replies_proofs ---------------------------
(***************************************************************************)
(* Proofs about what the server tells its clients: an acknowledgement      *)
(* covers only what is stored, and the errors that the test client counts  *)
(* are the packets that were rejected, for any number of connections,      *)
(* slots and strikes.  RInv is kept beside SInv of Session_proofs.         *)
(***************************************************************************)
EXTENDS Session_proofs, FiniteSetTheorems

-----------------------------------------------------------------------------
(* One connection c by itself, with S the readings stored and b, whether    *)
(* its client spoils the checksum of its readings.                          *)
Reads(c, i) == c.up[i].type = "sensor"

(* A reading that a client with its connection open has written is stored   *)
(* or still on its way, unless it was spoilt; and an acknowledgement on its *)
(* way is of a stored reading, earlier than those on their way up.          *)
Truthful(c, S, b) ==
  /\ c.side # "open" => c.down = << >>
  /\ c.side = "open" /\ ~b => \A n \in c.wrote :
       n \in S \/ \E i \in 1 .. Len(c.up) : Reads(c, i) /\ c.up[i].seq = n
  /\ \A i \in 1 .. Len(c.up) : c.up[i].ok <=> ~(b /\ Reads(c, i))
  /\ \A i \in 1 .. Len(c.down) : c.down[i].type = "ack" =>
       /\ ~b /\ c.down[i].seq \in S
       /\ \A j \in 1 .. Len(c.up) : Reads(c, j) => c.down[i].seq < c.up[j].seq

LEMMA TruthfulSame ==
  ASSUME NEW c, NEW d, NEW S, NEW T, NEW b, Truthful(c, S, b), S \subseteq T,
         d.up = c.up, d.down = c.down, d.side = c.side, d.wrote = c.wrote
  PROVE  Truthful(d, T, b)
  BY DEF Truthful, Reads

LEMMA TruthfulNew ==
  ASSUME NEW d, NEW S, NEW b, d.up = << >>, d.down = << >>, d.wrote = {}
  PROVE  Truthful(d, S, b)
  BY DEF Truthful

LEMMA TruthfulKept ==
  ASSUME NEW c \in ConnType, NEW S, NEW b, Truthful(c, S, b)
  PROVE  Truthful(Kept(c), S, b)
<1>1. Unused.up = << >> /\ Unused.down = << >> /\ Unused.wrote = {}
  BY DEF Unused
<1> QED BY <1>1, TruthfulNew DEF Kept

(* Replies are read, from the first on. *)
LEMMA TruthfulRead ==
  ASSUME NEW c \in ConnType, NEW d, NEW S, NEW b, Truthful(c, S, b),
         d.up = c.up, d.side = c.side, d.wrote = c.wrote,
         d.down = << >> \/ (c.down # << >> /\ d.down = Tail(c.down))
  PROVE  Truthful(d, S, b)
<1>1. CASE d.down = << >>
  BY <1>1 DEF Truthful, Reads
<1>2. CASE c.down # << >> /\ d.down = Tail(c.down)
  <2>1. c.down \in Seq(Reply)
    BY DEF ConnType
  <2>2. \A i \in 1 .. Len(d.down) : i + 1 \in 1 .. Len(c.down) /\ d.down[i] = c.down[i + 1]
    BY <1>2, <2>1
  <2> QED BY <1>2, <2>2 DEF Truthful, Reads
<1> QED BY <1>1, <1>2

LEMMA TruthfulLeft ==
  ASSUME NEW c \in ConnType, NEW d, NEW S, NEW b, Truthful(c, S, b), NEW n \in 0 .. Len(c.up),
         d.up = SubSeq(c.up, 1, n), d.side # "open", d.down = << >>
  PROVE  Truthful(d, S, b)
<1>1. c.up \in Seq(Packet)
  BY DEF ConnType
<1>2. \A i \in 1 .. Len(d.up) : i \in 1 .. Len(c.up) /\ d.up[i] = c.up[i]
  BY <1>1
<1> QED BY <1>2 DEF Truthful, Reads

LEMMA TruthfulPut ==
  ASSUME NEW c \in ConnType, NEW d, NEW S, NEW b \in BOOLEAN, NEW p \in Packet, Truthful(c, S, b),
         d.up = Append(c.up, p), d.side = c.side, d.down = c.down,
         d.wrote = IF p.type = "sensor" THEN c.wrote \cup {p.seq} ELSE c.wrote,
         p.ok <=> ~(b /\ p.type = "sensor"),
         p.type = "sensor" => \A n \in S : n < p.seq
  PROVE  Truthful(d, S, b)
<1>1. c.up \in Seq(Packet)
  BY DEF ConnType
<1> DEFINE z == Len(c.up) + 1
<1>2. /\ z \in Nat /\ Len(d.up) = z /\ d.up[z] = p
      /\ \A i \in 1 .. Len(c.up) : i \in 1 .. Len(d.up) /\ d.up[i] = c.up[i]
      /\ \A i \in 1 .. Len(d.up) : i \in 1 .. Len(c.up) \/ i = z
      /\ z \in 1 .. Len(d.up)
  BY <1>1
<1> HIDE DEF z
<1>3. ASSUME d.side = "open", ~b, NEW n \in d.wrote
      PROVE  n \in S \/ \E i \in 1 .. Len(d.up) : Reads(d, i) /\ d.up[i].seq = n
  <2>1. CASE n \in c.wrote
    BY <1>2, <1>3, <2>1 DEF Truthful, Reads
  <2>2. CASE p.type = "sensor" /\ n = p.seq
    BY <1>2, <2>2 DEF Reads
  <2> QED BY <1>3, <2>1, <2>2
<1>4. \A i \in 1 .. Len(d.up) : d.up[i].ok <=> ~(b /\ Reads(d, i))
  BY <1>2 DEF Truthful, Reads
<1>5. \A i \in 1 .. Len(d.down) : d.down[i].type = "ack" =>
        /\ ~b /\ d.down[i].seq \in S
        /\ \A j \in 1 .. Len(d.up) : Reads(d, j) => d.down[i].seq < d.up[j].seq
  BY <1>2 DEF Truthful, Reads
<1>6. d.side # "open" => d.down = << >>
  BY DEF Truthful
<1> QED BY <1>3, <1>4, <1>5, <1>6 DEF Truthful

(* The first packet is handled and answered, if the client listens; a       *)
(* reading is stored unless it was spoilt.                                  *)
LEMMA TruthfulHandled ==
  ASSUME NEW c \in ConnType, NEW d, NEW S, NEW T, NEW b \in BOOLEAN, Truthful(c, S, b),
         c.up # << >>, d.up = Tail(c.up), d.side = c.side, d.wrote = c.wrote,
         S \subseteq T, Reads(c, 1) /\ ~b => c.up[1].seq \in T,
         \A i, j \in 1 .. Len(c.up) : Reads(c, i) /\ Reads(c, j) /\ i < j => c.up[i].seq < c.up[j].seq,
         NEW r \in Reply, r.type = "ack" => Reads(c, 1) /\ ~b /\ r.seq = c.up[1].seq,
         \/ d.down = c.down
         \/ c.side = "open" /\ d.down = Append(c.down, r)
  PROVE  Truthful(d, T, b)
<1>1. c.up \in Seq(Packet) /\ c.down \in Seq(Reply)
  BY DEF ConnType
<1>2. /\ \A i \in 1 .. Len(d.up) :
           i \in Nat /\ i + 1 \in 1 .. Len(c.up) /\ 1 < i + 1 /\ d.up[i] = c.up[i + 1]
      /\ \A i \in 1 .. Len(c.up) : i = 1 \/ (i - 1 \in 1 .. Len(d.up) /\ d.up[i - 1] = c.up[i])
      /\ 1 \in 1 .. Len(c.up)
  BY <1>1
<1>3. ASSUME d.side = "open", ~b, NEW n \in d.wrote
      PROVE  n \in T \/ \E i \in 1 .. Len(d.up) : Reads(d, i) /\ d.up[i].seq = n
  <2>1. CASE n \in S
    BY <2>1
  <2>2. CASE \E i \in 1 .. Len(c.up) : Reads(c, i) /\ c.up[i].seq = n
    BY <1>2, <1>3, <2>2 DEF Reads
  <2> QED BY <1>3, <2>1, <2>2 DEF Truthful
<1>4. \A i \in 1 .. Len(d.up) : d.up[i].ok <=> ~(b /\ Reads(d, i))
  BY <1>2 DEF Truthful, Reads
<1>5. ASSUME NEW i \in 1 .. Len(d.down), d.down[i].type = "ack"
      PROVE  /\ ~b /\ d.down[i].seq \in T
             /\ \A j \in 1 .. Len(d.up) : Reads(d, j) => d.down[i].seq < d.up[j].seq
  <2>1. CASE i \in 1 .. Len(c.down) /\ d.down[i] = c.down[i]
    BY <1>2, <1>5, <2>1 DEF Truthful, Reads
  <2>2. CASE d.down[i] = r
    <3>1. Reads(c, 1) /\ ~b /\ r.seq = c.up[1].seq
      BY <1>5, <2>2
    <3>2. \A j \in 1 .. Len(d.up) : Reads(d, j) => Reads(c, j + 1)
      BY <1>2 DEF Reads
    <3> QED BY <1>2, <2>2, <3>1, <3>2
  <2> QED BY <1>1, <2>1, <2>2
<1>6. d.side # "open" => d.down = << >>
  BY DEF Truthful
<1> QED BY <1>3, <1>4, <1>5, <1>6 DEF Truthful

-----------------------------------------------------------------------------
(* The errors among the replies, as they come and as they are read. *)
Errors(d) == {i \in 1 .. Len(d) : d[i].type = "error"}

LEMMA ErrorsFinite ==
  ASSUME NEW d \in Seq(Reply)
  PROVE  IsFiniteSet(Errors(d)) /\ Cardinality(Errors(d)) \in Nat
<1>1. IsFiniteSet(1 .. Len(d)) /\ Errors(d) \in SUBSET (1 .. Len(d))
  BY FS_Interval DEF Errors
<1>2. IsFiniteSet(Errors(d))
  BY <1>1, FS_Subset
<1> QED BY <1>2, FS_CardinalityType

LEMMA ErrorsAppend ==
  ASSUME NEW d \in Seq(Reply), NEW r \in Reply
  PROVE  Cardinality(Errors(Append(d, r))) =
           Cardinality(Errors(d)) + IF r.type = "error" THEN 1 ELSE 0
<1> DEFINE z == Len(d) + 1
<1>1. z \notin Errors(d)
  BY DEF Errors
<1>2. CASE r.type = "error"
  <2>1. Errors(Append(d, r)) = Errors(d) \cup {z}
    BY <1>2 DEF Errors
  <2>2. Cardinality(Errors(d) \cup {z}) = Cardinality(Errors(d)) + 1
    BY <1>1, ErrorsFinite, FS_AddElement, Zenon
  <2> QED BY <1>2, <2>1, <2>2
<1>3. CASE r.type # "error"
  <2>1. Errors(Append(d, r)) = Errors(d)
    BY <1>3 DEF Errors
  <2> QED BY <1>3, <2>1, ErrorsFinite
<1> QED BY <1>2, <1>3

LEMMA ErrorsTail ==
  ASSUME NEW d \in Seq(Reply), d # << >>
  PROVE  Cardinality(Errors(d)) =
           Cardinality(Errors(Tail(d))) + IF Head(d).type = "error" THEN 1 ELSE 0
<1> DEFINE t == Tail(d)
           shift == [i \in Errors(t) |-> i + 1]
<1>1. /\ t \in Seq(Reply) /\ Len(t) = Len(d) - 1 /\ Len(d) \in Nat /\ Len(d) >= 1
      /\ \A i \in 1 .. Len(t) : i + 1 \in 1 .. Len(d) /\ t[i] = d[i + 1]
      /\ Head(d) = d[1]
  OBVIOUS
<1> HIDE DEF t
<1>2. shift \in [Errors(t) -> Errors(d) \ {1}]
  BY <1>1 DEF Errors
<1>3. \A i, j \in Errors(t) : shift[i] = shift[j] => i = j
  BY DEF Errors
<1>4. \A j \in Errors(d) \ {1} : j - 1 \in Errors(t) /\ shift[j - 1] = j
  BY <1>1 DEF Errors
<1> HIDE DEF shift
<1>5. ExistsBijection(Errors(t), Errors(d) \ {1})
  <2>1. shift \in Injection(Errors(t), Errors(d) \ {1})
    BY <1>2, <1>3 DEF Injection, IsInjective
  <2>2. shift \in Surjection(Errors(t), Errors(d) \ {1})
    BY <1>2, <1>4 DEF Surjection
  <2> QED BY <2>1, <2>2, Zenon DEF ExistsBijection, Bijection
<1>6. Cardinality(Errors(d) \ {1}) = Cardinality(Errors(t))
  BY <1>1, <1>5, ErrorsFinite, FS_Bijection
<1>7. Cardinality(Errors(d) \ {1}) =
        IF 1 \in Errors(d) THEN Cardinality(Errors(d)) - 1 ELSE Cardinality(Errors(d))
  BY ErrorsFinite, FS_RemoveElement, Zenon
<1>8. 1 \in Errors(d) <=> Head(d).type = "error"
  BY <1>1 DEF Errors
<1> QED BY <1>1, <1>6, <1>7, <1>8, ErrorsFinite DEF t

(* The test client f and its connection c: the handshake is done before it  *)
(* sends anything that can be rejected, and a client that spoils its        *)
(* readings sends nothing else; so strikes never starts anew.               *)
Counted(c, f) ==
  /\ f.pc \in {"connect", "done", "failed"} => c.side # "open"
  /\ f.pc \in {"connect", "hello", "ack"} => f.errors = 0
  /\ f.pc = "frame" => f.mode = "frame"
  /\ c.side = "open" =>
       /\ f.pc = "hello" => c.up = << >> /\ c.down = << >> /\ c.strikes = 0
       /\ f.pc = "ack" => /\ c.strikes = 0
                          /\ \/ c.up = <<HELLO>> /\ c.down = << >>
                             \/ c.up = << >> /\ c.down = <<HELLO_ACK>>
       /\ f.pc \notin {"hello", "ack"} => \A i \in 1 .. Len(c.up) : c.up[i].type # "hello"
       /\ f.mode = "bad-checksum" => \A i \in 1 .. Len(c.up) : c.up[i].type # "frame"
       /\ f.mode # "bad-checksum" => c.strikes = 0
       /\ f.errors + Cardinality(Errors(c.down)) = c.strikes

LEMMA CountedSame ==
  ASSUME NEW c, NEW d, NEW f, Counted(c, f),
         \/ c.side # "open" /\ d.side # "open"
         \/ d.up = c.up /\ d.down = c.down /\ d.side = c.side /\ d.strikes = c.strikes
  PROVE  Counted(d, f)
  BY DEF Counted

Spoils(f) == f.mode = "bad-checksum"

(* The server handles the first packet and answers with r, or with nothing. *)
LEMMA CountedHandled ==
  ASSUME NEW c \in ConnType, NEW d \in ConnType, NEW f \in FcType, NEW S,
         Counted(c, f), Truthful(c, S, Spoils(f)), c.up # << >>, c.side = "open",
         d.up = Tail(c.up), d.side = c.side, NEW r \in Reply,
         \/ /\ ~c.up[1].ok /\ d.strikes = c.strikes + 1 /\ r.type = "error"
            /\ d.down = Append(c.down, r)
         \/ /\ c.up[1].ok /\ c.up[1].type = "hello" /\ d.strikes = 0 /\ r = HELLO_ACK
            /\ d.down = Append(c.down, r)
         \/ /\ c.up[1].ok /\ c.up[1].type # "hello" /\ d.strikes = 0 /\ r.type # "error"
            /\ d.down = c.down \/ d.down = Append(c.down, r)
  PROVE  Counted(d, f)
<1>1. /\ c.up \in Seq(Packet) /\ c.down \in Seq(Reply) /\ c.strikes \in Nat /\ f.errors \in Nat
      /\ c.up[1] \in Packet /\ 1 \in 1 .. Len(c.up)
  BY DEF ConnType, FcType
<1>2. /\ f.pc # "hello" /\ f.pc \notin {"connect", "done", "failed"}
      /\ f.pc = "ack" => c.up = <<HELLO>> /\ c.down = << >>
  BY DEF Counted
<1>3. HELLO.type = "hello" /\ HELLO.ok
  BY DEF HELLO
<1>4. /\ f.pc = "ack" => c.up[1] = HELLO
      /\ f.pc # "ack" => c.up[1].type # "hello"
  BY <1>1, <1>2 DEF Counted
<1>5. /\ Cardinality(Errors(c.down)) \in Nat
      /\ Cardinality(Errors(Append(c.down, r))) =
           Cardinality(Errors(c.down)) + IF r.type = "error" THEN 1 ELSE 0
  BY <1>1, ErrorsFinite, ErrorsAppend
<1>e. r.type # "error" => Cardinality(Errors(Append(c.down, r))) = Cardinality(Errors(c.down))
  BY <1>5
<1>n. f.errors \in Nat /\ c.strikes \in Nat /\ Cardinality(Errors(c.down)) \in Nat
  BY <1>1, <1>5
<1>6. f.errors + Cardinality(Errors(c.down)) = c.strikes
  BY DEF Counted
<1>7. c.up[1].ok <=> ~(Spoils(f) /\ Reads(c, 1))
  BY <1>1 DEF Truthful
<1>8. \A i \in 1 .. Len(d.up) : i + 1 \in 1 .. Len(c.up) /\ d.up[i] = c.up[i + 1]
  BY <1>1
<1>9. CASE ~c.up[1].ok
  <2>1. Spoils(f) /\ f.pc # "ack"
    BY <1>3, <1>4, <1>7, <1>9
  <2>a. Cardinality(Errors(d.down)) = Cardinality(Errors(c.down)) + 1 /\ d.strikes = c.strikes + 1
    BY <1>5, <1>9, Zenon
  <2>2. f.errors + Cardinality(Errors(d.down)) = d.strikes
    BY <1>n, <1>6, <2>a
  <2> QED BY <1>2, <1>8, <2>1, <2>2 DEF Counted, Spoils
<1>10. CASE c.up[1].ok /\ c.up[1].type = "hello"
  <2>1. f.pc = "ack" /\ c.up = <<HELLO>> /\ c.down = << >>
    BY <1>2, <1>4, <1>10
  <2>2. d.up = << >> /\ d.down = <<HELLO_ACK>> /\ HELLO_ACK.type # "error"
    BY <1>10, <2>1 DEF HELLO_ACK
  <2>3. c.strikes = 0 /\ d.strikes = 0
    BY <1>10, <2>1 DEF Counted
  <2>a. Cardinality(Errors(d.down)) = Cardinality(Errors(c.down))
    BY <1>e, <1>10, <2>2, Zenon
  <2>4. f.errors + Cardinality(Errors(d.down)) = d.strikes
    BY <1>6, <2>a, <2>3
  <2> QED BY <1>2, <2>1, <2>2, <2>3, <2>4 DEF Counted
<1>11. CASE c.up[1].ok /\ c.up[1].type # "hello"
  <2>1. f.mode # "bad-checksum" /\ f.pc # "ack"
    BY <1>1, <1>3, <1>4, <1>7, <1>11 DEF Counted, Packet, Reads, Spoils
  <2>2. c.strikes = 0 /\ d.strikes = 0
    BY <1>11, <2>1 DEF Counted
  <2>a. Cardinality(Errors(d.down)) = Cardinality(Errors(c.down))
    BY <1>e, <1>11, Zenon
  <2>3. f.errors + Cardinality(Errors(d.down)) = d.strikes
    BY <1>6, <2>a, <2>2
  <2> QED BY <1>2, <1>8, <2>1, <2>2, <2>3 DEF Counted
<1> QED BY <1>9, <1>10, <1>11

LEMMA NoErrors == Cardinality(Errors(<< >>)) = 0
<1>1. Errors(<< >>) = {}
  BY DEF Errors
<1> QED BY <1>1, FS_EmptySet

(* The test client's own steps, from f to g. *)
LEMMA CountedOut ==
  ASSUME NEW d, NEW g, d.side # "open", g.pc \in {"done", "failed"}
  PROVE  Counted(d, g)
  BY DEF Counted

LEMMA CountedDial ==
  ASSUME NEW c, NEW d, NEW f, NEW g, Counted(c, f), f.pc = "connect", g.pc = "hello",
         g.errors = f.errors, d.up = << >>, d.down = << >>, d.strikes = 0
  PROVE  Counted(d, g)
<1>1. Cardinality(Errors(d.down)) = 0 /\ g.errors = 0
  BY NoErrors DEF Counted
<1>2. g.errors + Cardinality(Errors(d.down)) = d.strikes
  BY <1>1
<1> QED BY <1>1, <1>2 DEF Counted

LEMMA CountedPut ==
  ASSUME NEW c \in ConnType, NEW d, NEW f, NEW g, Counted(c, f), NEW p \in Packet,
         d.up = Append(c.up, p), d.down = c.down, d.side = c.side, d.strikes = c.strikes,
         g.errors = f.errors, g.mode = f.mode,
         \/ p = HELLO /\ f.pc = "hello" /\ g.pc = "ack"
         \/ p.type = "frame" /\ f.pc = "frame" /\ g.pc = "frame"
         \/ p.type = "sensor" /\ f.pc = "send" /\ g.pc = "poll"
  PROVE  Counted(d, g)
<1>1. /\ c.up \in Seq(Packet)
      /\ \A i \in 1 .. Len(d.up) : (i \in 1 .. Len(c.up) /\ d.up[i] = c.up[i]) \/ d.up[i] = p
  BY DEF ConnType
<1>2. CASE p = HELLO /\ f.pc = "hello" /\ g.pc = "ack"
  <2>a. Append(<< >>, HELLO) = <<HELLO>>
    OBVIOUS
  <2>1. d.side = "open" => d.up = <<HELLO>> /\ d.down = << >> /\ d.strikes = 0
    BY <1>2, <2>a, Zenon DEF Counted
  <2>2. HELLO.type = "hello"
    BY DEF HELLO
  <2>3. \A i \in 1 .. Len(<<HELLO>>) : <<HELLO>>[i] = HELLO
    OBVIOUS
  <2> QED BY <1>2, <2>1, <2>2, <2>3 DEF Counted
<1>3. CASE p.type = "frame" /\ f.pc = "frame" /\ g.pc = "frame"
  BY <1>1, <1>3 DEF Counted
<1>4. CASE p.type = "sensor" /\ f.pc = "send" /\ g.pc = "poll"
  BY <1>1, <1>4 DEF Counted
<1> QED BY <1>2, <1>3, <1>4

LEMMA CountedAck ==
  ASSUME NEW c \in ConnType, NEW d, NEW f, NEW g, Counted(c, f), f.pc = "ack",
         g.pc \in {"frame", "send"}, g.pc = "frame" => g.mode = "frame",
         g.errors = f.errors, g.mode = f.mode, c.side = "open", c.down # << >>,
         d.up = c.up, d.down = Tail(c.down), d.side = c.side, d.strikes = c.strikes
  PROVE  Counted(d, g)
<1>1. c.up = << >> /\ c.down = <<HELLO_ACK>> /\ c.strikes = 0 /\ f.errors = 0
  BY DEF Counted
<1>2. d.up = << >> /\ d.down = << >>
  BY <1>1
<1>3. Cardinality(Errors(d.down)) = 0
  BY <1>2, NoErrors
<1> QED BY <1>1, <1>2, <1>3 DEF Counted

LEMMA CountedRead ==
  ASSUME NEW c \in ConnType, NEW d, NEW f \in FcType, NEW g, Counted(c, f), f.pc = "poll", g.pc = "send",
         g.errors = f.errors + (IF Head(c.down).type = "error" THEN 1 ELSE 0), g.mode = f.mode,
         c.down # << >>,
         d.up = c.up, d.down = Tail(c.down), d.side = c.side, d.strikes = c.strikes
  PROVE  Counted(d, g)
<1>1. c.down \in Seq(Reply) /\ Tail(c.down) \in Seq(Reply)
  BY DEF ConnType
<1>2. /\ Cardinality(Errors(c.down)) =
           Cardinality(Errors(d.down)) + IF Head(c.down).type = "error" THEN 1 ELSE 0
      /\ Cardinality(Errors(d.down)) \in Nat /\ f.errors \in Nat
  BY <1>1, ErrorsTail, ErrorsFinite, Zenon DEF FcType
<1>3. f.errors + Cardinality(Errors(c.down)) = g.errors + Cardinality(Errors(d.down))
  BY <1>2
<1> QED BY <1>3 DEF Counted

LEMMA CountedMoves ==
  ASSUME NEW c, NEW f, NEW g, Counted(c, f), g.errors = f.errors, g.mode = f.mode,
         \/ f.pc \in {"send", "poll"} /\ g.pc \in {"send", "join"}
         \/ f.pc = "frame" /\ g.pc = "frame"
         \/ f.pc = "connect" /\ g.pc = "failed"
  PROVE  Counted(c, g)
  BY DEF Counted

-----------------------------------------------------------------------------
(* All connections. *)
Stored == {stored[j] : j \in 1 .. Len(stored)}
AllTruthful(b) == \A l \in Conns : Truthful(conn[l], Stored, b)

(* Connection k becomes d, and what was stored stays so. *)
Swap(k, d, b) ==
  /\ conn' = [conn EXCEPT ![k] = d] /\ Truthful(d, Stored', b) /\ Stored \subseteq Stored'

LEMMA SwapTruthful ==
  ASSUME LinkTypeOK, NEW b \in BOOLEAN, AllTruthful(b), NEW k \in Conns, NEW d, Swap(k, d, b)
  PROVE  AllTruthful(b)' /\ conn'[k] = d /\ \A l \in Conns : l # k => conn'[l] = conn[l]
<1>0. conn' = [conn EXCEPT ![k] = d] /\ Truthful(d, Stored', b) /\ Stored \subseteq Stored'
  BY Zenon DEF Swap
<1>1. conn'[k] = d /\ \A l \in Conns : l # k => conn'[l] = conn[l]
  BY <1>0 DEF LinkTypeOK
<1>2. ASSUME NEW l \in Conns, l # k PROVE Truthful(conn'[l], Stored', b)
  <2>1. Truthful(conn[l], Stored, b)
    BY DEF AllTruthful
  <2> QED BY <1>0, <1>1, <1>2, <2>1, TruthfulSame
<1>3. \A l \in Conns : Truthful(conn'[l], Stored', b)
  BY <1>0, <1>1, <1>2
<1> QED BY <1>1, <1>3 DEF AllTruthful

LEMMA OneTruthful ==
  ASSUME LinkTypeOK, NEW b \in BOOLEAN, AllTruthful(b), NEW k \in Conns, NEW d,
         conn' = [conn EXCEPT ![k] = d], Truthful(d, Stored', b), Stored \subseteq Stored'
  PROVE  AllTruthful(b)' /\ conn'[k] = d /\ \A l \in Conns : l # k => conn'[l] = conn[l]
<1>1. Swap(k, d, b)
  BY Zenon DEF Swap
<1> QED BY <1>1, SwapTruthful, Zenon

LEMMA DialTruthful ==
  ASSUME LinkTypeOK, NEW b \in BOOLEAN, AllTruthful(b), NEW k \in Conns, Dial(k), stored' = stored
  PROVE  /\ AllTruthful(b)'
         /\ conn'[k].up = << >> /\ conn'[k].down = << >> /\ conn'[k].strikes = 0
<1> DEFINE d == [Unused EXCEPT !.side = "open", !.srv = "backlog"]
<1>1. d.up = << >> /\ d.down = << >> /\ d.wrote = {} /\ d.strikes = 0
  BY DEF Unused
<1>2. conn' = [conn EXCEPT ![k] = d] /\ Stored' = Stored
  BY DEF Dial, Stored
<1> HIDE DEF d
<1>3. Truthful(d, Stored', b)
  BY <1>1, TruthfulNew
<1>4. AllTruthful(b)' /\ conn'[k] = d
  BY <1>2, <1>3, OneTruthful, Zenon
<1> QED BY <1>1, <1>4

LEMMA ReadTruthful ==
  ASSUME LinkTypeOK, NEW b \in BOOLEAN, AllTruthful(b), NEW k \in Conns, NEW e,
         e = << >> \/ (conn[k].down # << >> /\ e = Tail(conn[k].down)),
         conn' = [conn EXCEPT ![k].down = e], stored' = stored
  PROVE  /\ AllTruthful(b)'
         /\ conn'[k].up = conn[k].up /\ conn'[k].down = e /\ conn'[k].side = conn[k].side
         /\ conn'[k].strikes = conn[k].strikes
<1>1. conn[k] \in ConnType /\ Truthful(conn[k], Stored, b) /\ Stored' = Stored
  BY DEF LinkTypeOK, AllTruthful, Stored
<1>2. PICK c \in ConnType : c = conn[k]
  BY <1>1
<1> DEFINE d == [c EXCEPT !.down = e]
<1>3. /\ d.up = c.up /\ d.down = e /\ d.side = c.side /\ d.wrote = c.wrote
      /\ d.strikes = c.strikes
  BY DEF ConnType
<1>4. conn' = [conn EXCEPT ![k] = d]
  BY <1>2
<1> HIDE DEF d
<1>5. Truthful(d, Stored', b)
  BY <1>1, <1>2, <1>3, TruthfulRead, Zenon
<1>6. AllTruthful(b)' /\ conn'[k] = d
  <2>1. Swap(k, d, b)
    BY <1>1, <1>4, <1>5, Zenon DEF Swap
  <2> QED BY <2>1, SwapTruthful, Zenon
<1> QED BY <1>2, <1>3, <1>6

LEMMA HangUpTruthful ==
  ASSUME LinkTypeOK, NEW b \in BOOLEAN, AllTruthful(b), NEW k \in Conns, NEW sound,
         HangUp(k, sound), stored' = stored
  PROVE  AllTruthful(b)' /\ conn'[k].side # "open"
<1>1. conn[k] \in ConnType /\ Truthful(conn[k], Stored, b) /\ Stored' = Stored
  BY DEF LinkTypeOK, AllTruthful, Stored
<1>2. PICK c \in ConnType : c = conn[k]
  BY <1>1
<1>3. PICK n \in 0 .. Len(c.up), side \in {"closed", "gone"} :
        conn' = [conn EXCEPT ![k] = Kept([c EXCEPT !.up = SubSeq(c.up, 1, n),
                                                   !.side = side, !.down = << >>])]
  BY <1>2, Zenon DEF HangUp
<1>4. PICK u \in Seq(Packet) : u = SubSeq(c.up, 1, n)
  <2>1. c.up \in Seq(Packet)
    BY DEF ConnType
  <2> QED BY <2>1, PartPrefix, Zenon
<1> DEFINE d == [c EXCEPT !.up = u, !.side = side, !.down = << >>]
<1>5. d \in ConnType /\ d.up = u /\ d.side = side /\ d.down = << >>
  BY LeftType, Zenon DEF ConnType
<1>6. conn' = [conn EXCEPT ![k] = Kept(d)]
  BY <1>3, <1>4
<1> HIDE DEF d
<1>7. Truthful(d, Stored', b)
  BY <1>1, <1>2, <1>4, <1>5, TruthfulLeft
<1>8. Truthful(Kept(d), Stored', b) /\ Kept(d).side # "open"
  BY <1>5, <1>7, TruthfulKept DEF Kept, Unused
<1> DEFINE e == Kept(d)
<1>10. conn' = [conn EXCEPT ![k] = e] /\ Truthful(e, Stored', b) /\ e.side # "open"
  BY <1>6, <1>8
<1> HIDE DEF e
<1>11. AllTruthful(b)' /\ conn'[k] = e
  <2>1. Swap(k, e, b)
    BY <1>1, <1>10 DEF Swap
  <2> QED BY <2>1, SwapTruthful, Zenon
<1> QED BY <1>10, <1>11

LEMMA PutTruthful ==
  ASSUME LinkTypeOK, NEW b \in BOOLEAN, AllTruthful(b), NEW k \in Conns, NEW p \in Packet,
         Put(k, p), stored' = stored, p.ok <=> ~(b /\ p.type = "sensor"),
         p.type = "sensor" => \A n \in Nat : Sent(n) => n < p.seq
  PROVE  /\ AllTruthful(b)'
         /\ conn'[k].up = Append(conn[k].up, p) /\ conn'[k].down = conn[k].down
         /\ conn'[k].side = conn[k].side /\ conn'[k].strikes = conn[k].strikes
<1>1. conn[k] \in ConnType /\ Truthful(conn[k], Stored, b) /\ Stored' = Stored
  BY DEF LinkTypeOK, AllTruthful, Stored
<1>2. PICK c \in ConnType : c = conn[k]
  BY <1>1
<1> DEFINE u == Append(c.up, p)
           w == IF p.type = "sensor" THEN c.wrote \cup {p.seq} ELSE c.wrote
           d == [c EXCEPT !.up = u, !.wrote = w]
<1>3. conn' = [conn EXCEPT ![k] = d]
  BY <1>2, Zenon DEF Put
<1>4. u = Append(c.up, p) /\ w = IF p.type = "sensor" THEN c.wrote \cup {p.seq} ELSE c.wrote
  OBVIOUS
<1> HIDE DEF u, w
<1>5. /\ d.up = u /\ d.down = c.down /\ d.side = c.side /\ d.wrote = w
      /\ d.strikes = c.strikes
  BY DEF ConnType
<1> HIDE DEF d
<1>6. p.type = "sensor" => \A n \in Stored : n < p.seq
  <2>1. \A i \in 1 .. Len(stored) : stored[i] \in Nat /\ Sent(stored[i])
    <3>1. \A i \in 1 .. Len(stored) : stored[i] \in Nat
      BY DEF LinkTypeOK
    <3>2. \A i \in 1 .. Len(stored) : Sent(stored[i])
      BY Zenon DEF Sent
    <3> QED BY <3>1, <3>2
  <2> QED BY <2>1 DEF Stored
<1>7. Truthful(d, Stored', b)
  <2>1. /\ d.up = Append(c.up, p) /\ d.down = c.down /\ d.side = c.side
        /\ d.wrote = IF p.type = "sensor" THEN c.wrote \cup {p.seq} ELSE c.wrote
    BY <1>4, <1>5
  <2>2. Truthful(c, Stored, b)
    BY <1>1, <1>2
  <2>3. Truthful(d, Stored, b)
    BY <1>6, <2>1, <2>2, TruthfulPut, Zenon
  <2> QED BY <1>1, <2>3
<1>8. AllTruthful(b)' /\ conn'[k] = d
  BY <1>1, <1>3, <1>7, OneTruthful, Zenon
<1> QED BY <1>2, <1>4, <1>5, <1>8

(* The connection after the server has handled a packet: forgotten, or with *)
(* what the server said on its way, if the client has not left.             *)
After(k, d, reply, st) ==
  /\ d \in ConnType
  /\ \/ /\ conn[k].side # "open" /\ d.side # "open"
        /\ d.up = << >> /\ d.down = << >> /\ d.wrote = {}
     \/ /\ d.up = Tail(conn[k].up) /\ d.side = conn[k].side /\ d.wrote = conn[k].wrote
        /\ d.strikes = st
        /\ d.down = IF conn[k].side = "open" THEN conn[k].down \o reply ELSE conn[k].down

LEMMA HandledAfter ==
  ASSUME LinkTypeOK, NEW k \in Conns, conn[k].up # << >>,
         NEW reply \in Seq(Reply), NEW st \in Nat, NEW sv \in Srv
  PROVE  After(k, Handled(k, reply, st, sv), reply, st)
<1>1. conn[k] \in ConnType /\ conn[k].up \in Seq(Packet) /\ conn[k].down \in Seq(Reply)
  BY DEF LinkTypeOK, ConnType
<1>2. Tail(conn[k].up) \in Seq(Packet)
  BY <1>1, PartTail
<1> DEFINE e == IF conn[k].side = "open" THEN conn[k].down \o reply ELSE conn[k].down
<1>3. e \in Seq(Reply) /\ e = IF conn[k].side = "open" THEN conn[k].down \o reply ELSE conn[k].down
  BY <1>1
<1>e. Handled(k, reply, st, sv) =
        Kept([conn[k] EXCEPT !.up = Tail(@), !.idle = 0, !.strikes = st, !.srv = sv, !.down = e])
  BY DEF Handled
<1> HIDE DEF e
<1>4. PICK c \in ConnType, u \in Seq(Packet), r \in Seq(Reply) :
        c = conn[k] /\ u = Tail(conn[k].up) /\ r = e
  BY <1>1, <1>2, <1>3, Zenon
<1>5. Handled(k, reply, st, sv) = Kept(Worked(c, u, st, sv, r))
  BY <1>4, <1>e DEF Worked
<1>6. /\ Worked(c, u, st, sv, r) \in ConnType
      /\ Worked(c, u, st, sv, r).up = u /\ Worked(c, u, st, sv, r).down = r
      /\ Worked(c, u, st, sv, r).side = c.side /\ Worked(c, u, st, sv, r).wrote = c.wrote
      /\ Worked(c, u, st, sv, r).strikes = st
  BY Zenon DEF ConnType, Srv, Worked
<1> DEFINE g == Worked(c, u, st, sv, r)
<1>7. /\ g \in ConnType /\ g.up = u /\ g.down = r /\ g.side = c.side /\ g.wrote = c.wrote
      /\ g.strikes = st
  BY <1>6
<1>8. Handled(k, reply, st, sv) = Kept(g)
  BY <1>5
<1> HIDE DEF g
<1>9. Kept(g) = g \/ (Kept(g) = Unused /\ g.side # "open")
  BY DEF Kept
<1>10. /\ Unused \in ConnType /\ Unused.side # "open"
       /\ Unused.up = << >> /\ Unused.down = << >> /\ Unused.wrote = {}
  BY UnusedType DEF Unused
<1>11. After(k, Unused, reply, st) \/ conn[k].side = "open"
  BY <1>10 DEF After
<1>12. After(k, g, reply, st)
  BY <1>3, <1>4, <1>7 DEF After
<1> QED BY <1>4, <1>7, <1>8, <1>9, <1>11, <1>12

(* A client that has left has nothing more to be told. *)
LEMMA UnusedTells ==
  ASSUME NEW S, NEW b
  PROVE  Truthful(Unused, S, b) /\ Unused.side # "open"
<1>1. Unused.up = << >> /\ Unused.down = << >> /\ Unused.wrote = {} /\ Unused.side # "open"
  BY DEF Unused
<1> QED BY <1>1, TruthfulNew

(* A step of the server on connection k, as all connections see it, and as  *)
(* a test client f sees its own.                                            *)
Tells(b) ==
  /\ AllTruthful(b)'
  /\ \A l \in Conns, f \in FcType :
       Spoils(f) = b /\ Counted(conn[l], f) => Counted(conn'[l], f)

LEMMA QuietTells ==
  ASSUME LinkTypeOK, NEW b \in BOOLEAN, AllTruthful(b), NEW k \in Conns, NEW d,
         conn' = [conn EXCEPT ![k] = d], stored' = stored,
         \/ d = Unused /\ conn[k].side # "open"
         \/ /\ d.up = conn[k].up /\ d.down = conn[k].down /\ d.side = conn[k].side
            /\ d.wrote = conn[k].wrote /\ d.strikes = conn[k].strikes
  PROVE  Tells(b)
<1>1. conn[k] \in ConnType /\ Truthful(conn[k], Stored, b) /\ Stored' = Stored
  BY DEF LinkTypeOK, AllTruthful, Stored
<1>2. Truthful(d, Stored', b)
  BY <1>1, UnusedTells, TruthfulSame
<1>3. AllTruthful(b)' /\ conn'[k] = d /\ \A l \in Conns : l # k => conn'[l] = conn[l]
  BY <1>1, <1>2, OneTruthful, Zenon
<1>4. \A f \in FcType : Counted(conn[k], f) => Counted(d, f)
  BY UnusedTells, CountedSame
<1> QED BY <1>3, <1>4 DEF Tells

(* What the server answers, and the strikes it is at, when it has handled   *)
(* the first packet.                                                        *)
Answer(k, b, r, reply, st) ==
  LET p == conn[k].up[1]
  IN  /\ r \in Reply /\ reply \in {<< >>, <<r>>} /\ reply \in Seq(Reply) /\ st \in Nat
      /\ r.type = "ack" => p.type = "sensor" /\ ~b /\ r.seq = p.seq
      /\ \/ ~p.ok /\ st = conn[k].strikes + 1 /\ r.type = "error" /\ reply = <<r>>
         \/ p.ok /\ p.type = "hello" /\ st = 0 /\ r = HELLO_ACK /\ reply = <<r>>
         \/ p.ok /\ p.type # "hello" /\ st = 0 /\ r.type # "error"
         \/ conn[k].side # "open"

LEMMA HandledTells ==
  ASSUME LinkTypeOK, StoredOnceInOrder, NEW b \in BOOLEAN, AllTruthful(b), NEW k \in Conns,
         conn[k].up # << >>, NEW d, conn' = [conn EXCEPT ![k] = d],
         NEW r, NEW reply, NEW st, Answer(k, b, r, reply, st), After(k, d, reply, st),
         Stored \subseteq Stored',
         conn[k].up[1].type = "sensor" /\ ~b => conn[k].up[1].seq \in Stored'
  PROVE  Tells(b)
<1>0. d \in ConnType /\ r \in Reply /\ reply \in {<< >>, <<r>>}
  BY DEF After, Answer
<1>1. PICK c \in ConnType : c = conn[k]
  BY DEF LinkTypeOK
<1>2. Truthful(c, Stored, b) /\ c.up \in Seq(Packet) /\ c.down \in Seq(Reply) /\ c.up # << >>
  BY <1>1 DEF AllTruthful, ConnType
<1>3. \A i, j \in 1 .. Len(c.up) : Reads(c, i) /\ Reads(c, j) /\ i < j => c.up[i].seq < c.up[j].seq
  BY <1>1 DEF StoredOnceInOrder, OnTheWay, Reads
<1>4. c.down \o <<r>> = Append(c.down, r) /\ c.down \o << >> = c.down
  BY <1>2
<1>5. CASE /\ c.side # "open" /\ d.side # "open"
           /\ d.up = << >> /\ d.down = << >> /\ d.wrote = {}
  <2>1. Truthful(d, Stored', b)
    BY <1>5, TruthfulNew
  <2>2. AllTruthful(b)' /\ conn'[k] = d /\ \A l \in Conns : l # k => conn'[l] = conn[l]
    BY <2>1, OneTruthful, Zenon
  <2>3. \A f \in FcType : Counted(c, f) => Counted(d, f)
    BY <1>5, CountedSame
  <2> QED BY <1>1, <2>2, <2>3 DEF Tells
<1>6. CASE /\ d.up = Tail(c.up) /\ d.side = c.side /\ d.wrote = c.wrote /\ d.strikes = st
           /\ d.down = IF c.side = "open" THEN c.down \o reply ELSE c.down
  <2>1. \/ d.down = c.down
        \/ c.side = "open" /\ d.down = Append(c.down, r)
    BY <1>0, <1>4, <1>6, Zenon
  <2>2. Reads(c, 1) /\ ~b => c.up[1].seq \in Stored'
    BY <1>1 DEF Reads
  <2>3. r.type = "ack" => Reads(c, 1) /\ ~b /\ r.seq = c.up[1].seq
    BY <1>1 DEF Reads, Answer
  <2>4. Truthful(d, Stored', b)
    BY <1>0, <1>2, <1>3, <1>6, <2>1, <2>2, <2>3, TruthfulHandled, Zenon
  <2>5. AllTruthful(b)' /\ conn'[k] = d /\ \A l \in Conns : l # k => conn'[l] = conn[l]
    BY <2>4, OneTruthful, Zenon
  <2>6. ASSUME NEW f \in FcType, Spoils(f) = b, Counted(c, f) PROVE Counted(d, f)
    <3>1. CASE c.side # "open"
      BY <1>6, <2>6, <3>1, CountedSame
    <3>2. CASE c.side = "open"
      <4>1. Truthful(c, Stored, Spoils(f))
        BY <1>2, <2>6, Zenon
      <4>2. \/ /\ ~c.up[1].ok /\ d.strikes = c.strikes + 1 /\ r.type = "error"
               /\ d.down = Append(c.down, r)
            \/ /\ c.up[1].ok /\ c.up[1].type = "hello" /\ d.strikes = 0 /\ r = HELLO_ACK
               /\ d.down = Append(c.down, r)
            \/ /\ c.up[1].ok /\ c.up[1].type # "hello" /\ d.strikes = 0 /\ r.type # "error"
               /\ d.down = c.down \/ d.down = Append(c.down, r)
        BY <1>1, <1>4, <1>6, <2>1, <3>2, Zenon DEF Answer
      <4>3. d.up = Tail(c.up) /\ d.side = c.side
        BY <1>6
      <4> QED BY <1>0, <1>2, <2>6, <3>2, <4>1, <4>2, <4>3, CountedHandled, Zenon
    <3> QED BY <3>1, <3>2
  <2> QED BY <1>1, <2>5, <2>6 DEF Tells
<1> QED BY <1>1, <1>5, <1>6 DEF After

LEMMA ServerTells ==
  ASSUME LinkTypeOK, StoredOnceInOrder, NEW b \in BOOLEAN, AllTruthful(b), NEW k \in Conns,
         WorkStep(k) \/ WorkTick(k)
  PROVE  Tells(b)
<1>0. PICK c \in ConnType : c = conn[k]
  BY DEF LinkTypeOK
<1>a. /\ c.strikes \in Nat /\ c.srv \in Srv /\ c.idle \in Nat /\ c.count \in Nat
      /\ c.up \in Seq(Packet) /\ Truthful(c, Stored, b)
      /\ c.up # << >> => Pkt(k) = c.up[1] /\ c.up[1] \in Packet /\ 1 \in 1 .. Len(c.up)
  BY <1>0 DEF ConnType, Srv, AllTruthful, Pkt
<1>b. c.up # << >> => (c.up[1].ok <=> ~(b /\ c.up[1].type = "sensor"))
  BY <1>a DEF Truthful, Reads
<1>u. /\ Unused \in ConnType /\ Unused.side # "open"
      /\ Unused.up = << >> /\ Unused.down = << >> /\ Unused.wrote = {}
  BY UnusedType DEF Unused
<1>s. stored' = stored => Stored \subseteq Stored'
  BY DEF Stored
<1>r. /\ ERROR \in Reply /\ ERROR.type = "error" /\ HELLO_ACK \in Reply /\ HELLO_ACK.type = "hello_ack"
      /\ <<ERROR>> \in Seq(Reply) /\ <<HELLO_ACK>> \in Seq(Reply) /\ << >> \in Seq(Reply)
      /\ "ACTIVE" \in Srv /\ "closed" \in Srv
  BY DEF ERROR, HELLO_ACK, Reply, Srv
<1>1. CASE Admit(k)
  <2> DEFINE sv == IF Cardinality(Busy) < max_clients THEN "WAIT_HELLO" ELSE "closed"
             e == [c EXCEPT !.srv = sv]
  <2>1. conn' = [conn EXCEPT ![k] = Kept(e)] /\ stored' = stored
    BY <1>0, <1>1 DEF Admit
  <2> HIDE DEF sv
  <2>2. e.up = c.up /\ e.down = c.down /\ e.side = c.side /\ e.wrote = c.wrote /\ e.strikes = c.strikes
    BY DEF ConnType
  <2> HIDE DEF e
  <2>3. Kept(e) = e \/ (Kept(e) = Unused /\ e.side # "open")
    BY DEF Kept
  <2> QED BY <1>0, <2>1, <2>2, <2>3, QuietTells, Zenon
<1>2. CASE WorkTick(k)
  <2> DEFINE i == c.idle + 1
             e == [c EXCEPT !.idle = i]
             g == [c EXCEPT !.srv = "closed"]
  <2>1. /\ stored' = stored
        /\ conn' = [conn EXCEPT ![k] = e] \/ conn' = [conn EXCEPT ![k] = Kept(g)]
    BY <1>0, <1>2, Zenon DEF WorkTick
  <2> HIDE DEF i
  <2>2. /\ e.up = c.up /\ e.down = c.down /\ e.side = c.side /\ e.wrote = c.wrote /\ e.strikes = c.strikes
        /\ g.up = c.up /\ g.down = c.down /\ g.side = c.side /\ g.wrote = c.wrote /\ g.strikes = c.strikes
    BY DEF ConnType
  <2> HIDE DEF e, g
  <2>3. Kept(g) = g \/ (Kept(g) = Unused /\ g.side # "open")
    BY DEF Kept
  <2> QED BY <1>0, <2>1, <2>2, <2>3, QuietTells
<1>3. CASE WorkEof(k)
  BY <1>3, QuietTells, Zenon DEF WorkEof
<1>4. CASE WorkReject(k)
  <2> DEFINE st == c.strikes + 1
             sv == IF st >= MAX_STRIKES THEN "closed" ELSE c.srv
             d == Handled(k, <<ERROR>>, st, sv)
  <2>1. st \in Nat /\ sv \in Srv /\ st = conn[k].strikes + 1
    BY <1>0, <1>a, <1>r
  <2>2. c.up # << >> /\ ~c.up[1].ok /\ stored' = stored /\ conn' = [conn EXCEPT ![k] = d]
    BY <1>0, <1>4, <1>a, Zenon DEF WorkReject
  <2> HIDE DEF st, sv
  <2>3. After(k, d, <<ERROR>>, st)
    BY <1>0, <1>r, <2>1, <2>2, HandledAfter, Zenon
  <2>4. Answer(k, b, ERROR, <<ERROR>>, st)
    BY <1>0, <1>r, <2>1, <2>2 DEF Answer
  <2> HIDE DEF d
  <2> QED BY <1>0, <1>b, <1>s, <2>2, <2>3, <2>4, HandledTells, Zenon
<1>5. CASE WorkHello(k)
  <2>1. /\ c.up # << >> /\ c.up[1].ok /\ c.up[1].type = "hello" /\ stored' = stored
        /\ \/ conn' = [conn EXCEPT ![k] = Handled(k, <<HELLO_ACK>>, 0, "ACTIVE")]
           \/ /\ conn[k].side # "open"
              /\ conn' = [conn EXCEPT ![k] = Handled(k, << >>, c.strikes, "closed")]
    BY <1>0, <1>5, <1>a DEF WorkHello, Received
  <2>2. CASE conn' = [conn EXCEPT ![k] = Handled(k, <<HELLO_ACK>>, 0, "ACTIVE")]
    <3>1. After(k, Handled(k, <<HELLO_ACK>>, 0, "ACTIVE"), <<HELLO_ACK>>, 0)
      BY <1>0, <1>r, <2>1, HandledAfter, Zenon
    <3>2. Answer(k, b, HELLO_ACK, <<HELLO_ACK>>, 0)
      BY <1>0, <1>r, <2>1 DEF Answer
    <3> QED BY <1>0, <1>s, <2>1, <2>2, <3>1, <3>2, HandledTells, Zenon
  <2>3. CASE conn[k].side # "open" /\ conn' = [conn EXCEPT ![k] = Handled(k, << >>, c.strikes, "closed")]
    <3>1. After(k, Handled(k, << >>, c.strikes, "closed"), << >>, c.strikes)
      BY <1>0, <1>a, <1>r, <2>1, HandledAfter, Zenon
    <3>2. Answer(k, b, HELLO_ACK, << >>, c.strikes)
      BY <1>0, <1>a, <1>r, <2>1, <2>3, Zenon DEF Answer
    <3> QED BY <1>0, <1>s, <2>1, <2>3, <3>1, <3>2, HandledTells, Zenon
  <2> QED BY <2>1, <2>2, <2>3
<1>6. CASE WorkFrame(k)
  <2>1. /\ c.up # << >> /\ c.up[1].ok /\ c.up[1].type = "frame" /\ stored' = stored
        /\ conn' = [conn EXCEPT ![k] = Handled(k, << >>, 0, "ACTIVE")]
    BY <1>0, <1>6, <1>a DEF WorkFrame, Received
  <2>2. After(k, Handled(k, << >>, 0, "ACTIVE"), << >>, 0)
    BY <1>0, <1>r, <2>1, HandledAfter, Zenon
  <2>3. Answer(k, b, HELLO_ACK, << >>, 0)
    BY <1>0, <1>r, <2>1 DEF Answer
  <2> QED BY <1>0, <1>s, <2>1, <2>2, <2>3, HandledTells, Zenon
<1>7. CASE WorkReading(k)
  <2> DEFINE n == (c.count + 1) % ACK_EVERY
             reply == IF n = 0 THEN <<ACK(c.up[1].seq)>> ELSE << >>
             e == Handled(k, reply, 0, "ACTIVE")
             d == [e EXCEPT !.count = n]
  <2>1. /\ c.up # << >> /\ c.up[1].ok /\ c.up[1].type = "sensor"
        /\ conn' = [conn EXCEPT ![k] = d] /\ stored' = Append(stored, c.up[1].seq)
    BY <1>0, <1>7, <1>a, Zenon DEF WorkReading, Received
  <2>2. n \in Nat
    BY <1>a, LinkAssumption
  <2>3. PICK r \in Reply : r = ACK(c.up[1].seq) /\ r.type = "ack" /\ r.seq = c.up[1].seq
    BY <1>a, <2>1 DEF ACK, Reply, Packet
  <2>4. reply \in {<< >>, <<r>>} /\ reply \in Seq(Reply)
    BY <2>3
  <2> HIDE DEF n, reply
  <2>5. After(k, e, reply, 0)
    BY <1>0, <1>r, <2>1, <2>4, HandledAfter, Zenon
  <2> HIDE DEF e
  <2>6. /\ d \in ConnType /\ d.up = e.up /\ d.down = e.down /\ d.side = e.side
        /\ d.wrote = e.wrote /\ d.strikes = e.strikes
    BY <2>2, <2>5, Zenon DEF ConnType, After
  <2> HIDE DEF d
  <2>7. After(k, d, reply, 0)
    BY <2>5, <2>6 DEF After
  <2>8. Stored \subseteq Stored' /\ c.up[1].seq \in Stored'
    <3>1. stored \in Seq(Nat) /\ c.up[1].seq \in Nat
      BY <1>a, <2>1 DEF LinkTypeOK, Packet
    <3>2. /\ \A i \in 1 .. Len(stored) : i \in 1 .. Len(stored') /\ stored'[i] = stored[i]
          /\ Len(stored') \in 1 .. Len(stored') /\ stored'[Len(stored')] = c.up[1].seq
      BY <2>1, <3>1
    <3> QED BY <3>2 DEF Stored
  <2>9. ~b
    BY <1>b, <2>1
  <2>10. Answer(k, b, r, reply, 0)
    BY <1>0, <2>1, <2>3, <2>4, <2>9 DEF Answer
  <2> QED BY <1>0, <2>1, <2>7, <2>8, <2>10, HandledTells, Zenon
<1> QED BY <1>1, <1>2, <1>3, <1>4, <1>5, <1>6, <1>7 DEF WorkStep

-----------------------------------------------------------------------------
(* The test client in its mode "bad-checksum" spoils its readings. *)
Bad == who = "tool" /\ Spoils(fc)

(* With this beside SInv, what the server says can be shown to be true. *)
RInv ==
  /\ AllTruthful(Bad)
  /\ who = "tool" => cur = fc.fd /\ Counted(conn[cur], fc)

LEMMA InitRInv == SessionInit => RInv
<1> SUFFICES ASSUME SessionInit PROVE RInv
  OBVIOUS
<1>1. \A k \in Conns : conn[k] = Unused
  BY DEF SessionInit, LinkInit
<1>2. AllTruthful(Bad)
  BY <1>1, UnusedTells DEF AllTruthful
<1>3. cur = fc.fd /\ fc \in FcType /\ fc.pc = "connect" /\ fc.errors = 0 /\ cur \in Conns
  <2>1. LinkTypeOK
    BY InitSInv DEF SInv
  <2> QED BY <2>1 DEF SessionInit, FcInit, LinkTypeOK
<1>4. conn[cur].side # "open"
  BY <1>1, <1>3 DEF Unused
<1>5. Counted(conn[cur], fc)
  BY <1>3, <1>4 DEF Counted
<1> QED BY <1>2, <1>3, <1>5 DEF RInv

(* A step of the device. *)
LEMMA DeviceRInv ==
  ASSUME AllTruthful(FALSE)', who' = "device"
  PROVE  RInv'
<1>1. ~Bad'
  BY DEF Bad
<1> QED BY <1>1, Zenon DEF RInv, AllTruthful, Bad

LEMMA PacketTypes ==
  ASSUME NEW n \in Nat, NEW ok \in BOOLEAN
  PROVE  /\ HELLO \in Packet /\ HELLO.type = "hello" /\ HELLO.ok
         /\ FRAME(n) \in Packet /\ FRAME(n).type = "frame" /\ FRAME(n).ok
         /\ SENSOR(n, ok) \in Packet /\ SENSOR(n, ok).type = "sensor"
         /\ SENSOR(n, ok).seq = n /\ SENSOR(n, ok).ok = ok
<1>1. HELLO \in Packet /\ HELLO.type = "hello"
  BY DEF HELLO, Packet
<1>2. FRAME(n) \in Packet /\ FRAME(n).type = "frame"
  BY DEF FRAME, Packet
<1>3. SENSOR(n, ok) \in Packet /\ SENSOR(n, ok).type = "sensor" /\ SENSOR(n, ok).seq = n
  BY SensorType
<1>4. HELLO.ok /\ FRAME(n).ok
  BY DEF HELLO, FRAME
<1>5. SENSOR(n, ok).ok = ok
  BY DEF SENSOR
<1> QED BY <1>1, <1>2, <1>3, <1>4, <1>5

LEMMA StillTruthful ==
  ASSUME NEW b \in BOOLEAN, AllTruthful(b), conn' = conn, stored' = stored
  PROVE  AllTruthful(b)'
  BY Zenon DEF AllTruthful, Stored

LEMMA CloseTruthful ==
  ASSUME LinkTypeOK, NEW b \in BOOLEAN, AllTruthful(b), Close, stored' = stored
  PROVE  AllTruthful(b)'
<1>0. PICK k \in Conns : k = cur
  BY DEF LinkTypeOK
<1>1. PICK g : g = good
  OBVIOUS
<1>2. CASE tcp
  <2>1. HangUp(k, g)
    BY <1>0, <1>1, <1>2 DEF Close
  <2> QED BY <2>1, HangUpTruthful
<1>3. CASE ~tcp
  BY <1>3, StillTruthful DEF Close
<1> QED BY <1>2, <1>3

LEMMA NetTaskRInv == ASSUME SInv, RInv, NetTask PROVE RInv'
<1>0. /\ LinkTypeOK /\ who = "device" /\ who' = "device" /\ cur \in Conns
      /\ Local \/ DialUp \/ OnLink
  BY DEF SInv, LinkTypeOK, NetTask
<1>1. AllTruthful(FALSE)
  BY <1>0, Zenon DEF RInv, Bad
<1>2. SUFFICES AllTruthful(FALSE)'
  BY <1>0, DeviceRInv
<1>3. PICK b \in BOOLEAN : b = FALSE
  BY Zenon
<1>4. AllTruthful(b)
  BY <1>1, <1>3, Zenon
<1>5. SUFFICES AllTruthful(b)'
  BY <1>3, Zenon
<1>6. PICK k \in Conns : k = cur
  BY <1>0
<1>7. CASE Local
  BY <1>4, <1>7, StillTruthful DEF Local, linkvars
<1>8. CASE DialUp
  <2>1. PICK l \in Conns : l = cur'
    BY <1>8 DEF DialUp
  <2>2. Dial(l) /\ stored' = stored
    BY <1>8, <2>1 DEF DialUp
  <2> QED BY <1>0, <1>4, <2>2, DialTruthful
<1>9. CASE OnLink
  <2>0. stored' = stored
    BY <1>9 DEF OnLink
  <2>1. CASE SendHello
    <3>1. PICK p \in Packet : p = HELLO /\ p.type = "hello" /\ p.ok
      BY PacketTypes
    <3>2. Put(k, p)
      BY <1>6, <2>1, <3>1 DEF SendHello
    <3>3. p.ok <=> ~(b /\ p.type = "sensor")
      BY <3>1
    <3> QED BY <1>0, <1>4, <2>0, <3>1, <3>2, <3>3, PutTruthful
  <2>2. CASE Welcome
    <3>1. /\ conn[k].down # << >>
          /\ conn' = [conn EXCEPT ![k].down = Tail(conn[k].down)]
      BY <1>6, <2>2 DEF Welcome, Get
    <3> QED BY <1>0, <1>4, <2>0, <3>1, ReadTruthful, Zenon
  <2>3. CASE Unwelcome \/ LoseSample
    BY <1>0, <1>4, <2>0, <2>3, CloseTruthful DEF Unwelcome, LoseSample
  <2>4. CASE SendSample
    <3>1. held # None /\ held \in Nat
      BY <2>4 DEF SendSample, WriteOk, SInv, IInv, HeldToWrite, TypeOK, Samples, None
    <3>2. PICK p \in Packet : p = SENSOR(held, TRUE) /\ p.type = "sensor" /\ p.seq = held /\ p.ok
      BY <3>1, PacketTypes, Zenon
    <3>3. \A n \in Nat : Sent(n) => n < p.seq
      BY <1>0, <3>1, <3>2, Zenon DEF SInv, Later
    <3>4. Put(k, p)
      BY <1>6, <2>4, <3>2, Zenon DEF SendSample
    <3>5. p.ok <=> ~(b /\ p.type = "sensor")
      BY <1>3, <3>2, Zenon
    <3> QED BY <1>0, <1>4, <2>0, <3>3, <3>4, <3>5, PutTruthful
  <2>5. CASE ReadReplies
    <3>1. conn' = [conn EXCEPT ![k].down = << >>] \/ conn' = conn
      BY <1>6, <2>5 DEF ReadReplies
    <3> QED BY <1>0, <1>4, <2>0, <3>1, ReadTruthful, StillTruthful
  <2> QED BY <1>9, <2>1, <2>2, <2>3, <2>4, <2>5 DEF OnLink
<1> QED BY <1>0, <1>7, <1>8, <1>9

LEMMA AroundRInv ==
  ASSUME SInv, RInv, SensorTask \/ Radio \/ Join \/ DropLink \/ SeeClosed
  PROVE  RInv'
<1>0. LinkTypeOK /\ who = "device" /\ who' = "device" /\ cur \in Conns
  BY Zenon DEF SInv, LinkTypeOK, SensorTask, Radio, Join, DropLink, SeeClosed
<1>1. AllTruthful(FALSE)
  BY <1>0, Zenon DEF RInv, Bad
<1>2. PICK b \in BOOLEAN : b = FALSE
  BY Zenon
<1>3. AllTruthful(b)
  BY <1>1, <1>2, Zenon
<1>4. SUFFICES AllTruthful(b)'
  BY <1>0, <1>2, DeviceRInv, Zenon
<1>5. PICK k \in Conns : k = cur
  BY <1>0
<1>6. CASE SensorTask \/ Radio \/ Join
  BY <1>3, <1>6, StillTruthful DEF SensorTask, Radio, Join, linkvars
<1>7. CASE DropLink \/ SeeClosed
  <2>1. stored' = stored /\ (HangUp(k, TRUE) \/ HangUp(k, FALSE))
    BY <1>5, <1>7, Zenon DEF DropLink, SeeClosed
  <2> QED BY <1>0, <1>3, <2>1, HangUpTruthful, Zenon
<1> QED BY <1>6, <1>7

LEMMA ServerRInv ==
  ASSUME SInv, RInv, NEW k \in Conns, Server(k) \/ Reap(k)
  PROVE  RInv'
<1>1. /\ LinkTypeOK /\ StoredOnceInOrder /\ UNCHANGED <<who, cur, fc>>
      /\ WorkStep(k) \/ WorkTick(k)
  BY DEF SInv, Server, Reap
<1>2. PICK b \in BOOLEAN : b = Bad
  BY Zenon DEF Bad, Spoils
<1>3. AllTruthful(b) /\ Bad' = b
  BY <1>1, <1>2 DEF RInv, Bad, Spoils
<1>4. Tells(b)
  BY <1>1, <1>3, ServerTells
<1>5. who = "tool" => cur \in Conns /\ fc \in FcType /\ Spoils(fc) = b
  BY <1>1, <1>2 DEF Bad, Spoils, LinkTypeOK
<1>6. who = "tool" => Counted(conn'[cur], fc)
  BY <1>4, <1>5 DEF RInv, Tells
<1>7. AllTruthful(Bad)'
  BY <1>3, <1>4 DEF Tells, AllTruthful
<1> QED BY <1>1, <1>6, <1>7 DEF RInv

LEMMA FcKeeps ==
  ASSUME NEW f \in FcType, NEW pc, NEW n, NEW e
  PROVE  /\ [f EXCEPT !.pc = pc].pc = pc /\ [f EXCEPT !.pc = pc].mode = f.mode
         /\ [f EXCEPT !.pc = pc].fd = f.fd /\ [f EXCEPT !.pc = pc].errors = f.errors
         /\ [f EXCEPT !.seq = n].pc = f.pc /\ [f EXCEPT !.seq = n].mode = f.mode
         /\ [f EXCEPT !.seq = n].fd = f.fd /\ [f EXCEPT !.seq = n].errors = f.errors
         /\ FcSent(f, n).pc = "poll" /\ FcSent(f, n).mode = f.mode
         /\ FcSent(f, n).fd = f.fd /\ FcSent(f, n).errors = f.errors
         /\ FcPolled(f, n).pc = "send" /\ FcPolled(f, n).mode = f.mode
         /\ FcPolled(f, n).fd = f.fd /\ FcPolled(f, n).errors = f.errors
         /\ FcRead(f, n, e).pc = "send" /\ FcRead(f, n, e).mode = f.mode
         /\ FcRead(f, n, e).fd = f.fd /\ FcRead(f, n, e).errors = e
<1>1. /\ [f EXCEPT !.pc = pc].pc = pc /\ [f EXCEPT !.pc = pc].mode = f.mode
      /\ [f EXCEPT !.pc = pc].fd = f.fd /\ [f EXCEPT !.pc = pc].errors = f.errors
  BY DEF FcType
<1>2. /\ [f EXCEPT !.seq = n].pc = f.pc /\ [f EXCEPT !.seq = n].mode = f.mode
      /\ [f EXCEPT !.seq = n].fd = f.fd /\ [f EXCEPT !.seq = n].errors = f.errors
  BY DEF FcType
<1>3. /\ FcSent(f, n).pc = "poll" /\ FcSent(f, n).mode = f.mode
      /\ FcSent(f, n).fd = f.fd /\ FcSent(f, n).errors = f.errors
  BY DEF FcType, FcSent
<1>4. /\ FcPolled(f, n).pc = "send" /\ FcPolled(f, n).mode = f.mode
      /\ FcPolled(f, n).fd = f.fd /\ FcPolled(f, n).errors = f.errors
  BY DEF FcType, FcPolled
<1>5. /\ FcRead(f, n, e).pc = "send" /\ FcRead(f, n, e).mode = f.mode
      /\ FcRead(f, n, e).fd = f.fd /\ FcRead(f, n, e).errors = e
  BY DEF FcType, FcRead
<1> QED BY <1>1, <1>2, <1>3, <1>4, <1>5

LEMMA ToolRInv == ASSUME SInv, RInv, Tool \/ ToolBeat PROVE RInv'
<1>0. /\ LinkTypeOK /\ who = "tool" /\ UNCHANGED <<who, cur>> /\ cur = fc.fd
      /\ Counted(conn[cur], fc)
  BY DEF SInv, RInv, Tool, ToolBeat
<1>1. PICK k \in Conns, c \in ConnType, f \in FcType : k = fc.fd /\ c = conn[k] /\ f = fc
  BY <1>0 DEF LinkTypeOK, FcType
<1>2. PICK d, g : d = conn'[k] /\ g = fc'
  OBVIOUS
<1>3. PICK b \in BOOLEAN : b = Bad
  BY Zenon DEF Bad, Spoils
<1>4. /\ AllTruthful(b) /\ (b <=> f.mode = "bad-checksum") /\ Counted(c, f)
      /\ c.up \in Seq(Packet) /\ c.down \in Seq(Reply)
      /\ f.seq \in Nat /\ f.sent \in Nat /\ f.errors \in Nat
  BY <1>0, <1>1, <1>3, Zenon DEF RInv, Bad, Spoils, ConnType, FcType
<1>5. ASSUME g.mode = f.mode, g.fd = f.fd, AllTruthful(b)', Counted(d, g)
      PROVE  RInv'
  <2>1. Bad' = b
    BY <1>0, <1>1, <1>2, <1>3, <1>5 DEF Bad, Spoils
  <2>2. AllTruthful(Bad)'
    BY <1>5, <2>1 DEF AllTruthful
  <2>3. cur' = fc'.fd /\ Counted(conn'[cur'], fc')
    BY <1>0, <1>1, <1>2, <1>5
  <2> QED BY <2>2, <2>3 DEF RInv
<1>6. ASSUME stored' = stored, HangUp(k, TRUE), g.pc \in {"done", "failed"},
             g.mode = f.mode, g.fd = f.fd
      PROVE  RInv'
  <2>1. AllTruthful(b)' /\ d.side # "open"
    BY <1>0, <1>2, <1>4, <1>6, HangUpTruthful, Zenon
  <2> QED BY <1>5, <1>6, <2>1, CountedOut
<1>7. ASSUME stored' = stored, conn' = conn, g.mode = f.mode, g.fd = f.fd, g.errors = f.errors,
             \/ f.pc \in {"send", "poll"} /\ g.pc \in {"send", "join"}
             \/ f.pc = "frame" /\ g.pc = "frame"
             \/ f.pc = "connect" /\ g.pc = "failed"
      PROVE  RInv'
  <2>1. AllTruthful(b)' /\ d = c
    BY <1>1, <1>2, <1>4, <1>7, StillTruthful
  <2>2. Counted(c, g)
    BY <1>4, <1>7, CountedMoves
  <2> QED BY <1>5, <1>7, <2>1, <2>2
<1>8. ASSUME stored' = stored, NEW p \in Packet, Put(k, p), p.ok <=> ~(b /\ p.type = "sensor"),
             p.type = "sensor" => p.seq = f.seq,
             g.mode = f.mode, g.fd = f.fd, g.errors = f.errors,
             \/ p = HELLO /\ f.pc = "hello" /\ g.pc = "ack"
             \/ p.type = "frame" /\ f.pc = "frame" /\ g.pc = "frame"
             \/ p.type = "sensor" /\ f.pc = "send" /\ g.pc = "poll"
      PROVE  RInv'
  <2>1. p.type = "sensor" => \A n \in Nat : Sent(n) => n < p.seq
    <3>1. HELLO.type # "sensor"
      BY DEF HELLO
    <3> QED BY <1>0, <1>1, <1>8, <3>1 DEF SInv, Later
  <2>2. /\ AllTruthful(b)'
        /\ d.up = Append(c.up, p) /\ d.down = c.down /\ d.side = c.side /\ d.strikes = c.strikes
    BY <1>0, <1>1, <1>2, <1>4, <1>8, <2>1, PutTruthful, Zenon
  <2>3. Counted(d, g)
    BY <1>4, <1>8, <2>2, CountedPut
  <2> QED BY <1>5, <1>8, <2>2, <2>3
<1>9. ASSUME stored' = stored, Get(k), c.down # << >>
      PROVE  /\ AllTruthful(b)'
             /\ d.up = c.up /\ d.down = Tail(c.down) /\ d.side = c.side /\ d.strikes = c.strikes
  <2>1. PICK e : e = Tail(conn[k].down)
    BY Zenon
  <2>2. conn' = [conn EXCEPT ![k].down = e] /\ conn[k].down # << >>
    BY <1>1, <1>9, <2>1 DEF Get
  <2>3. /\ AllTruthful(b)'
        /\ conn'[k].up = conn[k].up /\ conn'[k].down = e /\ conn'[k].side = conn[k].side
        /\ conn'[k].strikes = conn[k].strikes
    BY <1>0, <1>4, <1>9, <2>1, <2>2, ReadTruthful, Zenon
  <2> QED BY <1>1, <1>2, <2>1, <2>3
<1> USE DEF At, Goto
<1>10. CASE FcConnect
  <2>1. CASE Dial(fc.fd) /\ fc' = [fc EXCEPT !.pc = "hello"]
    <3>1. Dial(k) /\ stored' = stored /\ f.pc = "connect"
      BY <1>1, <1>10, <2>1 DEF FcConnect
    <3>2. AllTruthful(b)' /\ d.up = << >> /\ d.down = << >> /\ d.strikes = 0
      BY <1>0, <1>2, <1>4, <3>1, DialTruthful
    <3>3. g = [f EXCEPT !.pc = "hello"]
      BY <1>1, <1>2, <2>1
    <3>4. g.pc = "hello" /\ g.mode = f.mode /\ g.fd = f.fd /\ g.errors = f.errors
      BY <3>3, FcKeeps
    <3>5. Counted(d, g)
      BY <1>4, <3>1, <3>2, <3>4, CountedDial
    <3> QED BY <1>5, <3>2, <3>4, <3>5, Zenon
  <2>2. CASE fc' = [fc EXCEPT !.pc = "failed"] /\ UNCHANGED conn
    <3>1. f.pc = "connect" /\ stored' = stored /\ g = [f EXCEPT !.pc = "failed"]
      BY <1>1, <1>2, <1>10, <2>2 DEF FcConnect
    <3> QED BY <1>7, <2>2, <3>1, FcKeeps
  <2> QED BY <1>10, <2>1, <2>2 DEF FcConnect
<1>11. CASE FcHello
  <2>0. stored' = stored /\ f.pc = "hello"
    BY <1>1, <1>11 DEF FcHello
  <2>1. CASE Put(fc.fd, HELLO) /\ fc' = [fc EXCEPT !.pc = "ack"]
    <3>1. PICK p \in Packet : p = HELLO /\ p.type = "hello" /\ p.ok
      BY PacketTypes
    <3>2. Put(k, p) /\ g = [f EXCEPT !.pc = "ack"]
      BY <1>1, <1>2, <2>1, <3>1
    <3>3. p.ok <=> ~(b /\ p.type = "sensor")
      BY <3>1
    <3>4. g.pc = "ack" /\ g.mode = f.mode /\ g.fd = f.fd /\ g.errors = f.errors
      BY <3>2, FcKeeps
    <3> QED BY <1>8, <2>0, <3>1, <3>2, <3>3, <3>4
  <2>2. CASE HangUp(fc.fd, TRUE) /\ fc' = [fc EXCEPT !.pc = "failed"]
    BY <1>1, <1>2, <1>6, <2>0, <2>2, FcKeeps
  <2> QED BY <1>11, <2>1, <2>2, Zenon DEF FcHello
<1>12. CASE FcAck
  <2>1. /\ f.pc = "ack" /\ Get(k) /\ c.down # << >> /\ stored' = stored
        /\ \/ f.mode = "frame" /\ g = [f EXCEPT !.pc = "frame"]
           \/ g = [f EXCEPT !.pc = "send"]
    BY <1>1, <1>2, <1>12 DEF FcAck, Acked
  <2>2. /\ g.mode = f.mode /\ g.fd = f.fd /\ g.errors = f.errors
        /\ g.pc \in {"frame", "send"} /\ (g.pc = "frame" => g.mode = "frame")
    <3>1. CASE f.mode = "frame" /\ g = [f EXCEPT !.pc = "frame"]
      BY <3>1, FcKeeps
    <3>2. CASE g = [f EXCEPT !.pc = "send"]
      BY <3>2, FcKeeps
    <3> QED BY <2>1, <3>1, <3>2
  <2>3. /\ AllTruthful(b)'
        /\ d.up = c.up /\ d.down = Tail(c.down) /\ d.side = c.side /\ d.strikes = c.strikes
    BY <1>9, <2>1
  <2>4. c.side = "open"
    BY <1>1, <1>4, <2>1 DEF AllTruthful, Truthful
  <2>5. Counted(d, g)
    BY <1>4, <2>1, <2>2, <2>3, <2>4, CountedAck
  <2> QED BY <1>5, <2>2, <2>3, <2>5
<1>13. CASE FcNoAck \/ FcJoin
  <2>1. /\ HangUp(k, TRUE) /\ stored' = stored
        /\ g = [f EXCEPT !.pc = "failed"] \/ g = [f EXCEPT !.pc = "done"]
    BY <1>1, <1>2, <1>13, Zenon DEF FcNoAck, FcJoin
  <2>2. g.pc \in {"failed", "done"} /\ g.mode = f.mode /\ g.fd = f.fd
    <3>1. CASE g = [f EXCEPT !.pc = "failed"]
      BY <3>1, FcKeeps
    <3>2. CASE g = [f EXCEPT !.pc = "done"]
      BY <3>2, FcKeeps
    <3> QED BY <2>1, <3>1, <3>2
  <2> QED BY <1>6, <2>1, <2>2
<1>14. CASE FcChunk
  <2>0. stored' = stored /\ f.pc = "frame"
    BY <1>1, <1>14 DEF FcChunk
  <2>1. CASE Put(fc.fd, FRAME(fc.seq)) /\ fc' = [fc EXCEPT !.seq = @ + 1]
    <3>1. PICK p \in Packet : p = FRAME(f.seq) /\ p.type = "frame" /\ p.ok
      BY <1>4, PacketTypes
    <3>2. Put(k, p) /\ g = [f EXCEPT !.seq = f.seq + 1]
      BY <1>1, <1>2, <2>1, <3>1
    <3>3. p.ok <=> ~(b /\ p.type = "sensor")
      BY <3>1
    <3>4. g.pc = f.pc /\ g.mode = f.mode /\ g.fd = f.fd /\ g.errors = f.errors
      BY <3>2, FcKeeps
    <3> QED BY <1>8, <2>0, <3>1, <3>2, <3>3, <3>4
  <2>2. CASE fc' = [fc EXCEPT !.seq = cc + 1] /\ UNCHANGED conn
    <3>1. g = [f EXCEPT !.seq = cc + 1]
      BY <1>1, <1>2, <2>2
    <3>2. g.pc = f.pc /\ g.mode = f.mode /\ g.fd = f.fd /\ g.errors = f.errors
      BY <3>1, FcKeeps
    <3> QED BY <1>7, <2>0, <2>2, <3>2
  <2> QED BY <1>14, <2>1, <2>2 DEF FcChunk
<1>15. CASE FcFrameEnd
  <2>1. /\ HangUp(k, TRUE) /\ stored' = stored
        /\ g = [f EXCEPT !.pc = "failed"] \/ g = [f EXCEPT !.pc = "done"]
    BY <1>1, <1>2, <1>15, Zenon DEF FcFrameEnd
  <2>2. g.pc \in {"failed", "done"} /\ g.mode = f.mode /\ g.fd = f.fd
    <3>1. CASE g = [f EXCEPT !.pc = "failed"]
      BY <3>1, FcKeeps
    <3>2. CASE g = [f EXCEPT !.pc = "done"]
      BY <3>2, FcKeeps
    <3> QED BY <2>1, <3>1, <3>2
  <2> QED BY <1>6, <2>1, <2>2
<1>16. CASE FcSend
  <2>1. PICK ok \in BOOLEAN : ok = ~b
    BY Zenon
  <2>2. ok = (fc.mode # "bad-checksum")
    BY <1>1, <1>4, <2>1
  <2>3. PICK p \in Packet : p = SENSOR(f.seq, ok) /\ p.type = "sensor" /\ p.seq = f.seq /\ p.ok = ok
    BY <1>4, PacketTypes
  <2>4. Put(fc.fd, SENSOR(fc.seq, fc.mode # "bad-checksum"))
    BY <1>16 DEF FcSend
  <2>5. Put(k, p)
    BY <1>1, <2>2, <2>3, <2>4
  <2>6. p.ok <=> ~(b /\ p.type = "sensor")
    BY <2>1, <2>3, Zenon
  <2>7. g = FcSent(f, f.sent + 1) /\ stored' = stored /\ f.pc = "send"
    BY <1>1, <1>2, <1>16 DEF FcSend, FcSent
  <2>8. g.pc = "poll" /\ g.mode = f.mode /\ g.fd = f.fd /\ g.errors = f.errors
    BY <2>7, FcKeeps
  <2> QED BY <1>8, <2>3, <2>5, <2>6, <2>7, <2>8
<1>17. CASE FcSendEnd \/ FcPollEof
  <2>1. /\ conn' = conn /\ stored' = stored /\ f.pc \in {"send", "poll"}
        /\ g = [f EXCEPT !.pc = "join"]
    BY <1>1, <1>2, <1>17 DEF FcSendEnd, FcPollEof, FcLeave, linkvars
  <2>2. g.pc = "join" /\ g.mode = f.mode /\ g.fd = f.fd /\ g.errors = f.errors
    BY <2>1, FcKeeps
  <2> QED BY <1>7, <2>1, <2>2
<1>18. CASE FcPollReply
  <2>1. PICK e : e = f.errors + (IF Head(c.down).type = "error" THEN 1 ELSE 0)
    OBVIOUS
  <2>2. f.pc = "poll" /\ c.down # << >> /\ Get(k) /\ stored' = stored
    BY <1>1, <1>18 DEF FcPollReply
  <2>3. g = FcRead(f, f.seq + 1, e)
    BY <1>1, <1>2, <1>18, <2>1 DEF FcPollReply, FcRead
  <2>4. g.pc = "send" /\ g.mode = f.mode /\ g.fd = f.fd /\ g.errors = e
    BY <2>3, FcKeeps
  <2>5. /\ AllTruthful(b)'
        /\ d.up = c.up /\ d.down = Tail(c.down) /\ d.side = c.side /\ d.strikes = c.strikes
    BY <1>9, <2>2
  <2>6. Counted(d, g)
    BY <1>4, <2>1, <2>2, <2>4, <2>5, CountedRead
  <2> QED BY <1>5, <2>4, <2>5, <2>6
<1>19. CASE FcPollNothing
  <2>1. /\ conn' = conn /\ stored' = stored /\ f.pc = "poll"
        /\ g = FcPolled(f, f.seq + 1)
    BY <1>1, <1>2, <1>19 DEF FcPollNothing, FcPolled, linkvars
  <2>2. g.pc = "send" /\ g.mode = f.mode /\ g.fd = f.fd /\ g.errors = f.errors
    BY <2>1, FcKeeps
  <2> QED BY <1>7, <2>1, <2>2
<1>20. CASE HbStep
  <2>1. conn' = conn /\ stored' = stored /\ g = f
    BY <1>1, <1>2, <1>20 DEF HbStep, HbStart, HbEnd, linkvars
  <2>2. AllTruthful(b)' /\ d = c
    BY <1>1, <1>2, <1>4, <2>1, StillTruthful
  <2> QED BY <1>4, <1>5, <2>1, <2>2
<1> HIDE DEF At, Goto
<1> QED BY <1>10, <1>11, <1>12, <1>13, <1>14, <1>15, <1>16, <1>17, <1>18, <1>19, <1>20
        DEF Tool, ToolBeat, FcStep

LEMMA NextRInv == SInv /\ RInv /\ [SessionNext]_all => RInv'
<1> SUFFICES ASSUME SInv, RInv, [SessionNext]_all PROVE RInv'
  OBVIOUS
<1>1. CASE SessionNext
  BY <1>1, NetTaskRInv, AroundRInv, ToolRInv, ServerRInv DEF SessionNext
<1>2. CASE UNCHANGED all
  <2>1. UNCHANGED <<who, cur, fc, conn, stored>>
    BY <1>2 DEF all, linkvars
  <2> QED BY <2>1, Zenon DEF RInv, Bad, Spoils, AllTruthful, Stored
<1> QED BY <1>1, <1>2

LEMMA RepliesHold == SInv /\ RInv => RepliesAreTrue
<1> SUFFICES ASSUME SInv, RInv PROVE RepliesAreTrue
  OBVIOUS
<1>1. PICK b \in BOOLEAN : b = Bad
  BY Zenon DEF Bad, Spoils
<1>2. AllTruthful(b)
  BY <1>1 DEF RInv
<1>3. ASSUME NEW k \in Conns, NEW i \in Replies(k, "ack"), NEW n \in conn[k].wrote,
             n <= conn[k].down[i].seq
      PROVE  \E j \in 1 .. Len(stored) : stored[j] = n
  <2>1. PICK c \in ConnType : c = conn[k]
    BY DEF SInv, LinkTypeOK
  <2>2. /\ i \in 1 .. Len(c.down) /\ c.down[i].type = "ack" /\ c.down # << >>
        /\ n \in Nat /\ c.down[i].seq \in Nat /\ n <= c.down[i].seq
    <3>1. i \in 1 .. Len(c.down) /\ c.down[i].type = "ack" /\ n <= c.down[i].seq
      BY <1>3, <2>1 DEF Replies
    <3>2. c.down \in Seq(Reply) /\ c.wrote \in SUBSET Nat
      BY DEF ConnType
    <3>3. c.down[i] \in Reply /\ c.down # << >>
      BY <3>1, <3>2
    <3> QED BY <2>1, <3>1, <3>2, <3>3 DEF Reply
  <2>3. /\ c.side = "open" /\ ~b
        /\ \A j \in 1 .. Len(c.up) : Reads(c, j) => c.down[i].seq < c.up[j].seq
        /\ n \in Stored \/ \E j \in 1 .. Len(c.up) : Reads(c, j) /\ c.up[j].seq = n
    BY <1>2, <2>1, <2>2 DEF AllTruthful, Truthful
  <2>4. n \in Stored
    BY <2>2, <2>3
  <2> QED BY <2>4 DEF Stored
<1>4. ASSUME who = "tool", conn[cur].side = "open"
      PROVE  fc.errors + Cardinality(Replies(cur, "error")) = conn[cur].strikes
  <2>1. Counted(conn[cur], fc) /\ Replies(cur, "error") = Errors(conn[cur].down)
    BY <1>4 DEF RInv, Replies, Errors
  <2> QED BY <1>4, <2>1, Zenon DEF Counted
<1> QED BY <1>3, <1>4 DEF RepliesAreTrue

(* What the server tells its clients is so, over all their connections: an  *)
(* acknowledgement covers only what is stored, because the worker stores a  *)
(* reading before it acknowledges it and takes the readings in the order in *)
(* which they were written; and each of the test client's errors is one     *)
(* packet that was rejected, since whatever it sends is spoilt or nothing   *)
(* is, and a strike is cleared only by a sound packet.                      *)
THEOREM ServerTellsTheTruth == SessionSpec => []RepliesAreTrue
<1>1. SessionInit => SInv /\ RInv
  BY InitSInv, InitRInv
<1>2. (SInv /\ RInv) /\ [SessionNext]_all => (SInv /\ RInv)'
  BY NextSInv, NextRInv
<1> QED BY <1>1, <1>2, RepliesHold, PTL DEF SessionSpec
=============================================================================
