--------------------------- MODULE FrameAsm_proofs ---------------------------
(***************************************************************************)
(* The reassembler of imaging/frame.c as client_worker uses it, for any    *)
(* chunk size, any size limit and any set of frames.  The inductive        *)
(* invariant says that the assembler is, at every moment, a function of    *)
(* one frame and of the set of its chunks that have arrived.               *)
(***************************************************************************)
EXTENDS FramePath, FiniteSetTheorems, TLAPS

Chunks(f) == 0 .. frame_chunk_count(Total(f)) - 1
Byte(f, k) == <<f.seq, k - 1>>
ChunkOf(k) == (k - 1) \div FRAME_CHUNK_MAX

(* What the assembler holds of frame f after the chunks in S. *)
Buf(f, S) == [k \in 1 .. Total(f) |-> IF ChunkOf(k) \in S THEN Byte(f, k) ELSE Unset]
Seen(f, S) == [j \in 1 .. frame_chunk_count(Total(f)) |-> IF j - 1 \in S THEN TRUE ELSE FALSE]

Fields == {"active", "width", "height", "seq", "count", "total", "received", "buf", "seen"}

IsAssembly(a, f, S) ==
  /\ DOMAIN a = Fields
  /\ a.active = TRUE
  /\ a.width = f.width /\ a.height = f.height /\ a.seq = f.seq
  /\ a.count = frame_chunk_count(Total(f)) /\ a.total = Total(f)
  /\ a.received = Cardinality(S) /\ a.buf = Buf(f, S) /\ a.seen = Seen(f, S)

Acceptable(f) == f \in Frames /\ Total(f) \in 1 .. FRAME_MAX_PIXELS

Assembling ==
  \/ fa = Idle /\ since = {}
  \/ \E f \in Frames :
       /\ Acceptable(f) /\ IsAssembly(fa, f, since)
       /\ since \subseteq Chunks(f) /\ since # {} /\ since # Chunks(f)

IInv == Assembling /\ ImagesAreFrames /\ ret \in {-1, 0, 1}

-----------------------------------------------------------------------------
(* Division by the size of a chunk. *)
LEMMA Division ==
  ASSUME NEW n \in Nat, NEW c \in Nat \ {0}
  PROVE  n \div c \in Nat /\ c * (n \div c) <= n /\ n < c * (n \div c) + c
  OBVIOUS

LEMMA QuotientIs ==
  ASSUME NEW n \in Nat, NEW c \in Nat \ {0}, NEW q \in Nat, c * q <= n, n < c * q + c
  PROVE  n \div c = q
  OBVIOUS

LEMMA Below ==
  ASSUME NEW a \in Nat, NEW b \in Nat, NEW c \in Nat \ {0}, c * a < c * b
  PROVE  a < b
  OBVIOUS

LEMMA Product == ASSUME NEW a \in Nat, NEW b \in Nat PROVE a * b \in Nat
  OBVIOUS

(* An image that is not empty has chunks, and its last one reaches its end. *)
LEMMA FrameFacts ==
  ASSUME NEW f, Acceptable(f)
  PROVE  /\ f.seq \in Nat /\ Total(f) \in Nat \ {0}
         /\ frame_chunk_count(Total(f)) \in Nat \ {0}
         /\ FRAME_CHUNK_MAX * (frame_chunk_count(Total(f)) - 1) < Total(f)
         /\ Total(f) <= FRAME_CHUNK_MAX * frame_chunk_count(Total(f))
         /\ IsFiniteSet(Chunks(f)) /\ Cardinality(Chunks(f)) = frame_chunk_count(Total(f))
  <1> DEFINE t == Total(f)
             c == FRAME_CHUNK_MAX
             n == frame_chunk_count(t)
  <1>1. f.seq \in Nat /\ t \in Nat \ {0} /\ c \in Nat \ {0}
    BY FrameAssumption DEF Acceptable
  <1>2. n = (t + c - 1) \div c
    BY DEF frame_chunk_count
  <1> HIDE DEF t, c, n
  <1>3. n \in Nat /\ c * n <= t + c - 1 /\ t + c - 1 < c * n + c
    BY <1>1, <1>2, Division
  <1>4. n # 0
    BY <1>1, <1>3
  <1>5. c * (n - 1) < t /\ t <= c * n
    BY <1>1, <1>3
  <1>6. IsFiniteSet(0 .. n - 1) /\ Cardinality(0 .. n - 1) = n
    BY <1>3, <1>4, FS_Interval
  <1> QED BY <1>1, <1>3, <1>4, <1>5, <1>6 DEF t, c, n, Chunks

LEMMA EveryByteHasAChunk ==
  ASSUME NEW f, Acceptable(f), NEW k \in 1 .. Total(f)
  PROVE  ChunkOf(k) \in Chunks(f)
  <1> DEFINE t == Total(f)
             c == FRAME_CHUNK_MAX
             n == frame_chunk_count(t)
             q == (k - 1) \div c
  <1>1. c \in Nat \ {0} /\ t \in Nat /\ n \in Nat /\ t <= c * n
    BY FrameFacts, FrameAssumption
  <1>2. k - 1 \in Nat /\ k - 1 < t
    BY <1>1
  <1> HIDE DEF t, c, n
  <1>3. q \in Nat /\ c * q <= k - 1
    BY <1>1, <1>2, Division
  <1>4. c * q < c * n
    <2>1. c * q \in Nat /\ c * n \in Nat
      BY <1>1, <1>3, Product
    <2> HIDE DEF q
    <2> QED BY <1>1, <1>2, <1>3, <2>1
  <1>5. q < n
    BY <1>1, <1>3, <1>4, Below
  <1> QED BY <1>1, <1>3, <1>5 DEF t, c, n, ChunkOf, Chunks

(* The bytes that chunk i covers are those whose offset divided by the      *)
(* size of a chunk is i, also for the short last chunk.                    *)
LEMMA Covers ==
  ASSUME NEW f, Acceptable(f), NEW i \in Chunks(f), NEW k \in 1 .. Total(f)
  PROVE  /\ i * FRAME_CHUNK_MAX \in Nat
         /\ k - i * FRAME_CHUNK_MAX
              \in 1 .. Smaller(FRAME_CHUNK_MAX, Total(f) - i * FRAME_CHUNK_MAX) <=> ChunkOf(k) = i
  <1> DEFINE t == Total(f)
             c == FRAME_CHUNK_MAX
             off == i * c
  <1>1. c \in Nat \ {0} /\ t \in Nat /\ i \in Nat
    BY FrameFacts, FrameAssumption DEF Chunks
  <1>2. off \in Nat /\ off = c * i
    BY <1>1, Product
  <1>3. k \in Int /\ 1 <= k /\ k <= t
    BY <1>1
  <1>4. ChunkOf(k) = i <=> off <= k - 1 /\ k - 1 < off + c
    <2>1. ASSUME ChunkOf(k) = i PROVE off <= k - 1 /\ k - 1 < off + c
      BY <1>1, <1>2, <1>3, <2>1, Division DEF ChunkOf
    <2>2. ASSUME off <= k - 1, k - 1 < off + c PROVE ChunkOf(k) = i
      BY <1>1, <1>2, <1>3, <2>2, QuotientIs DEF ChunkOf
    <2> QED BY <2>1, <2>2
  <1> HIDE DEF t, c, off
  <1>5. k - off \in 1 .. Smaller(c, t - off) <=> off <= k - 1 /\ k - 1 < off + c
    BY <1>1, <1>2, <1>3 DEF Smaller
  <1> QED BY <1>2, <1>4, <1>5, Zenon DEF t, c, off

-----------------------------------------------------------------------------
LEMMA ChunkHeader ==
  ASSUME NEW f, NEW i, NEW p, p = Chunk(f, i)
  PROVE  /\ p.width = f.width /\ p.height = f.height /\ p.seq = f.seq /\ p.idx = i
         /\ p.count = frame_chunk_count(Total(f)) /\ p.width * p.height = Total(f)
  BY DEF Chunk, Total

LEMMA ChunkBytes ==
  ASSUME NEW f, NEW i, NEW p, p = Chunk(f, i)
  PROVE  p.bytes = [k \in 1 .. Smaller(FRAME_CHUNK_MAX, Total(f) - i * FRAME_CHUNK_MAX) |->
                      <<f.seq, i * FRAME_CHUNK_MAX + k - 1>>]
  BY DEF Chunk

(* A payload that passes the checks of frame_asm_feed is a chunk. *)
LEMMA ValidIsChunk ==
  ASSUME NEW p \in Payloads, Valid(p)
  PROVE  \E f \in Frames : Acceptable(f) /\ \E i \in Chunks(f) : p = Chunk(f, i)
  <1>0. PICK f \in Frames : \E i \in Chunks(f) : p = Chunk(f, i)
    <2>1. p \notin Damaged
      BY DamageAssumption, Zenon
    <2>2. PICK f \in Frames : p \in {Chunk(f, i) : i \in 0 .. frame_chunk_count(Total(f)) - 1}
      <3>1. p \in UNION {{Chunk(f, i) : i \in 0 .. frame_chunk_count(Total(f)) - 1} : f \in Frames}
        BY <2>1 DEF Payloads
      <3> QED BY <3>1, SMT
    <2> QED BY <2>2, Zenon DEF Chunks
  <1>1. PICK i \in Chunks(f) : p = Chunk(f, i)
    BY <1>0
  <1>2. Total(f) \in Nat
    BY FrameAssumption, Product DEF Total
  <1>3. frame_chunk_count(Total(f)) \in Int
    BY <1>2, FrameAssumption DEF frame_chunk_count
  <1>4. i \in Nat /\ i * FRAME_CHUNK_MAX \in Nat
    BY <1>3, FrameAssumption, Product DEF Chunks
  <1>5. i * FRAME_CHUNK_MAX < Total(f) /\ Total(f) <= FRAME_MAX_PIXELS
    <2>1. p.idx * FRAME_CHUNK_MAX < p.width * p.height /\ p.width * p.height <= FRAME_MAX_PIXELS
      BY Zenon DEF Valid
    <2>2. p.idx = i /\ p.width * p.height = Total(f)
      BY <1>1, ChunkHeader
    <2> QED BY <2>1, <2>2, Zenon
  <1>6. Total(f) \in 1 .. FRAME_MAX_PIXELS
    BY <1>2, <1>4, <1>5, FrameAssumption
  <1> QED BY <1>1, <1>6 DEF Acceptable

(* A new assembler has no chunk. *)
LEMMA StartedIs ==
  ASSUME NEW f, Acceptable(f), NEW i \in Chunks(f), NEW p, p = Chunk(f, i)
  PROVE  IsAssembly(Started(p), f, {})
  <1>1. [k \in 1 .. Total(f) |-> Unset] = Buf(f, {})
    BY Zenon DEF Buf
  <1>2. [j \in 1 .. frame_chunk_count(Total(f)) |-> FALSE] = Seen(f, {})
    BY Zenon DEF Seen
  <1>3. /\ p.width = f.width /\ p.height = f.height /\ p.seq = f.seq
        /\ p.count = frame_chunk_count(Total(f)) /\ p.width * p.height = Total(f)
    BY ChunkHeader
  <1>4. PICK b, s : b = Buf(f, {}) /\ s = Seen(f, {})
    OBVIOUS
  <1>5. Started(p) =
          [active |-> TRUE, width |-> f.width, height |-> f.height, seq |-> f.seq,
           count |-> frame_chunk_count(Total(f)), total |-> Total(f), received |-> 0,
           buf |-> b, seen |-> s]
    BY <1>1, <1>2, <1>3, <1>4, Zenon DEF Started
  <1>6. Cardinality({}) = 0
    BY FS_EmptySet
  <1> QED BY <1>4, <1>5, <1>6 DEF IsAssembly, Fields

(* One more chunk sets its flag and its bytes, and nothing else. *)
LEMMA SeenOneMore ==
  ASSUME NEW f, Acceptable(f), NEW S \in SUBSET Chunks(f), NEW i \in Chunks(f)
  PROVE  /\ [Seen(f, S) EXCEPT ![i + 1] = TRUE] = Seen(f, S \cup {i})
         /\ Seen(f, S)[i + 1] <=> i \in S
  <1> DEFINE n == frame_chunk_count(Total(f))
  <1>1. n \in Nat /\ i \in 0 .. n - 1
    BY FrameFacts DEF Chunks
  <1>2. i + 1 \in 1 .. n /\ (i + 1) - 1 = i /\ \A j \in 1 .. n : j # i + 1 => j - 1 # i
    BY <1>1
  <1> HIDE DEF n
  <1>3. /\ Seen(f, S) = [j \in 1 .. n |-> IF j - 1 \in S THEN TRUE ELSE FALSE]
        /\ Seen(f, S \cup {i}) = [j \in 1 .. n |-> IF j - 1 \in S \cup {i} THEN TRUE ELSE FALSE]
    BY Zenon DEF Seen, n
  <1>4. Seen(f, S)[i + 1] <=> i \in S
    BY <1>2, <1>3, Zenon
  <1>5. [Seen(f, S) EXCEPT ![i + 1] = TRUE]
          = [j \in 1 .. n |-> IF j = i + 1 THEN TRUE ELSE IF j - 1 \in S THEN TRUE ELSE FALSE]
    BY <1>3
  <1>6. \A j \in 1 .. n : (IF j = i + 1 THEN TRUE ELSE IF j - 1 \in S THEN TRUE ELSE FALSE)
                            = (IF j - 1 \in S \cup {i} THEN TRUE ELSE FALSE)
    BY <1>2
  <1> QED BY <1>3, <1>4, <1>5, <1>6, Zenon

Copied(f, S, i, p) ==
  [k \in 1 .. Total(f) |-> IF k - i * FRAME_CHUNK_MAX \in 1 .. Len(p.bytes)
                           THEN p.bytes[k - i * FRAME_CHUNK_MAX] ELSE Buf(f, S)[k]]

LEMMA BufOneMore ==
  ASSUME NEW f, Acceptable(f), NEW S \in SUBSET Chunks(f), NEW i \in Chunks(f), NEW p, p = Chunk(f, i)
  PROVE  Copied(f, S, i, p) = Buf(f, S \cup {i})
  <1> DEFINE t == Total(f)
             c == FRAME_CHUNK_MAX
             n == frame_chunk_count(t)
             off == i * c
             len == Smaller(c, t - off)
  <1>1. /\ n \in Nat /\ t \in Nat /\ i \in 0 .. n - 1 /\ c \in Nat \ {0} /\ c * (n - 1) < t
    BY FrameFacts, FrameAssumption DEF Chunks
  <1>2. off \in Nat
    BY <1>1, Product
  <1>3. p.bytes = [k \in 1 .. len |-> <<f.seq, off + k - 1>>]
    BY ChunkBytes
  <1>4. len \in Nat
    <2>1. off <= c * (n - 1)
      BY <1>1
    <2> HIDE DEF off, t, n, c
    <2> QED BY <1>1, <1>2, <2>1 DEF Smaller
  <1> HIDE DEF t, n, c, len, off
  <1>5. Len(p.bytes) = len
    BY <1>3, <1>4
  <1>6. ASSUME NEW k \in 1 .. t
        PROVE  (IF k - off \in 1 .. len THEN p.bytes[k - off] ELSE Buf(f, S)[k]) = Buf(f, S \cup {i})[k]
    <2>1. k - off \in 1 .. len <=> ChunkOf(k) = i
      BY Covers DEF off, len, c, t
    <2>2. /\ Buf(f, S)[k] = IF ChunkOf(k) \in S THEN Byte(f, k) ELSE Unset
          /\ Buf(f, S \cup {i})[k] = IF ChunkOf(k) \in S \cup {i} THEN Byte(f, k) ELSE Unset
      BY Zenon DEF Buf, t
    <2>3. ASSUME k - off \in 1 .. len PROVE p.bytes[k - off] = Byte(f, k)
      <3>1. p.bytes[k - off] = <<f.seq, off + (k - off) - 1>>
        BY <1>3, <2>3, Zenon
      <3>2. off + (k - off) - 1 = k - 1
        BY <1>1, <1>2
      <3> QED BY <3>1, <3>2, Zenon DEF Byte
    <2> QED BY <2>1, <2>2, <2>3, Zenon
  <1>7. Buf(f, S \cup {i}) = [k \in 1 .. t |-> Buf(f, S \cup {i})[k]]
    BY Zenon DEF Buf, t
  <1>8. [k \in 1 .. t |-> IF k - off \in 1 .. Len(p.bytes) THEN p.bytes[k - off] ELSE Buf(f, S)[k]]
          = Buf(f, S \cup {i})
    BY <1>5, <1>6, <1>7, Zenon
  <1> QED BY <1>8, Zenon DEF Copied, t, off, c

(* Taking a chunk adds it to the set, whether or not it was there. *)
LEMMA TakeIs ==
  ASSUME NEW f, Acceptable(f), NEW S \in SUBSET Chunks(f), NEW i \in Chunks(f), NEW p, p = Chunk(f, i),
         NEW a, IsAssembly(a, f, S)
  PROVE  IsAssembly(Take(a, p), f, S \cup {i})
  <1>1. p.idx = i
    BY ChunkHeader
  <1>2. (IF Seen(f, S)[i + 1] THEN Cardinality(S) ELSE Cardinality(S) + 1) = Cardinality(S \cup {i})
    <2>1. IsFiniteSet(S)
      BY FrameFacts, FS_Subset
    <2>2. Cardinality(S \cup {i}) = IF i \in S THEN Cardinality(S) ELSE Cardinality(S) + 1
      BY <2>1, FS_AddElement
    <2> QED BY <2>2, SeenOneMore, Zenon
  <1>3. PICK se, re, bu :
          /\ se = [Seen(f, S) EXCEPT ![i + 1] = TRUE] /\ se = Seen(f, S \cup {i})
          /\ re = (IF Seen(f, S)[i + 1] THEN Cardinality(S) ELSE Cardinality(S) + 1)
          /\ re = Cardinality(S \cup {i})
          /\ bu = Copied(f, S, i, p) /\ bu = Buf(f, S \cup {i})
    <2>1. [Seen(f, S) EXCEPT ![i + 1] = TRUE] = Seen(f, S \cup {i})
      BY SeenOneMore, Zenon
    <2>2. Copied(f, S, i, p) = Buf(f, S \cup {i})
      BY BufOneMore
    <2> QED BY <1>2, <2>1, <2>2, Zenon
  <1>4. Take(a, p) = [a EXCEPT !.seen = se, !.received = re, !.buf = bu]
    <2>1. a.seen = Seen(f, S) /\ a.received = Cardinality(S) /\ a.buf = Buf(f, S) /\ a.total = Total(f)
      BY Zenon DEF IsAssembly
    <2>2. DOMAIN a = Fields
      BY Zenon DEF IsAssembly
    <2> QED BY <1>1, <1>3, <2>1, <2>2 DEF Take, Copied, Fields
  <1>5. PICK b : b = [a EXCEPT !.seen = se, !.received = re, !.buf = bu]
    OBVIOUS
  <1>6. /\ DOMAIN b = DOMAIN a /\ b.seen = se /\ b.received = re /\ b.buf = bu
        /\ b.active = a.active /\ b.width = a.width /\ b.height = a.height /\ b.seq = a.seq
        /\ b.count = a.count /\ b.total = a.total
    BY <1>5 DEF IsAssembly, Fields
  <1>7. IsAssembly(b, f, S \cup {i})
    BY <1>3, <1>6, Zenon DEF IsAssembly
  <1> QED BY <1>4, <1>5, <1>7, Zenon

(* received is chunk_count exactly when every chunk has arrived, and then   *)
(* the buffer is the frame.                                                *)
LEMMA Complete ==
  ASSUME NEW f, Acceptable(f), NEW S \in SUBSET Chunks(f), NEW a, IsAssembly(a, f, S)
  PROVE  /\ a.received = frame_chunk_count(Total(f)) <=> S = Chunks(f)
         /\ S = Chunks(f) => a.buf = [k \in 1 .. Total(f) |-> <<f.seq, k - 1>>]
  <1>1. a.received = Cardinality(S) /\ a.buf = Buf(f, S)
    BY Zenon DEF IsAssembly
  <1>2. Cardinality(S) = frame_chunk_count(Total(f)) <=> S = Chunks(f)
    BY FrameFacts, FS_Subset
  <1>3. ASSUME S = Chunks(f) PROVE Buf(f, S) = [k \in 1 .. Total(f) |-> <<f.seq, k - 1>>]
    BY <1>3, EveryByteHasAChunk, Zenon DEF Buf, Byte
  <1> QED BY <1>1, <1>2, <1>3

-----------------------------------------------------------------------------
(* A valid chunk lands in the assembler of its own frame, and of no other.  *)
LEMMA Fed ==
  ASSUME Assembling, NEW p \in Payloads, Valid(p)
  PROVE  \E f \in Frames :
           /\ Acceptable(f) /\ IsAssembly(Take(Target(p), p), f, SinceWith(p))
           /\ SinceWith(p) \in SUBSET Chunks(f) /\ SinceWith(p) # {}
           /\ p.width = f.width /\ p.height = f.height /\ p.count = frame_chunk_count(Total(f))
  <1>1. PICK f \in Frames : Acceptable(f) /\ \E i \in Chunks(f) : p = Chunk(f, i)
    BY ValidIsChunk
  <1>2. PICK i \in Chunks(f) : p = Chunk(f, i)
    BY <1>1
  <1>3. /\ p.width = f.width /\ p.height = f.height /\ p.seq = f.seq /\ p.idx = i
        /\ p.count = frame_chunk_count(Total(f))
    BY <1>2, ChunkHeader
  <1>4. PICK S \in SUBSET Chunks(f) :
          IsAssembly(Target(p), f, S) /\ S = IF SameFrame(p) THEN since ELSE {}
    <2>1. CASE SameFrame(p)
      <3>1. fa.active /\ fa.seq = p.seq
        BY <2>1, Zenon DEF SameFrame
      <3>2. fa # Idle
        BY <3>1 DEF Idle
      <3>3. PICK g \in Frames : IsAssembly(fa, g, since) /\ since \subseteq Chunks(g)
        BY <3>2, Zenon DEF Assembling
      <3>4. g.seq = f.seq
        BY <1>3, <3>1, <3>3, Zenon DEF IsAssembly
      <3>5. g = f
        BY <3>4, FrameAssumption
      <3> QED BY <2>1, <3>3, <3>5 DEF Target
    <2>2. CASE ~SameFrame(p)
      <3>1. IsAssembly(Target(p), f, {})
        BY <1>1, <1>2, <2>2, StartedIs DEF Target
      <3> QED BY <2>2, <3>1
    <2> QED BY <2>1, <2>2
  <1>5. SinceWith(p) = S \cup {i}
    BY <1>3, <1>4, Zenon DEF SinceWith
  <1>6. IsAssembly(Take(Target(p), p), f, S \cup {i})
    BY <1>1, <1>2, <1>4, TakeIs
  <1>7. S \cup {i} \in SUBSET Chunks(f) /\ S \cup {i} # {}
    OBVIOUS
  <1> QED BY <1>1, <1>3, <1>5, <1>6, <1>7, Zenon

LEMMA InitIInv == Init => IInv
  BY DEF Init, IInv, Assembling, ImagesAreFrames

LEMMA NextIInv == ASSUME IInv, [Next]_vars PROVE IInv'
  <1>1. CASE UNCHANGED vars
    BY <1>1, Zenon DEF vars, IInv, Assembling, ImagesAreFrames, IsAssembly
  <1>2. CASE Next
    <2>1. PICK p \in Payloads : Feed(p)
      BY <1>2 DEF Next
    <2>2. Assembling /\ ImagesAreFrames /\ ret \in {-1, 0, 1}
      BY DEF IInv
    <2>3. CASE FeedRejected(p)
      <3>1. UNCHANGED <<fa, out, since>> /\ ret' = -1
        BY <2>3 DEF FeedRejected
      <3> QED BY <2>2, <3>1, Zenon DEF IInv, Assembling, ImagesAreFrames, IsAssembly
    <2>4. CASE FeedNoMemory(p) \/ FeedNoImage(p)
      <3>1. fa' = Idle /\ since' = {} /\ out' = out /\ ret' = -1
        BY <2>4 DEF FeedNoMemory, FeedNoImage
      <3>2. Assembling'
        BY <3>1, Zenon DEF Assembling
      <3>3. ImagesAreFrames'
        BY <2>2, <3>1, Zenon DEF ImagesAreFrames
      <3> QED BY <3>1, <3>2, <3>3, Zenon DEF IInv
    <2>5. CASE FeedMore(p)
      <3>1. /\ Valid(p) /\ fa' = Take(Target(p), p) /\ ret' = 0 /\ since' = SinceWith(p) /\ out' = out
            /\ fa'.received # p.count
        BY <2>5, Zenon DEF FeedMore
      <3>2. PICK f \in Frames :
              /\ Acceptable(f) /\ IsAssembly(Take(Target(p), p), f, SinceWith(p))
              /\ SinceWith(p) \in SUBSET Chunks(f) /\ SinceWith(p) # {}
              /\ p.count = frame_chunk_count(Total(f))
        BY <2>2, <3>1, Fed, Zenon
      <3>3. SinceWith(p) # Chunks(f)
        BY <3>1, <3>2, Complete
      <3>4. IsAssembly(fa, f, since)'
        BY <3>1, <3>2, Zenon DEF IsAssembly
      <3>5. Assembling'
        BY <3>1, <3>2, <3>3, <3>4, Zenon DEF Assembling
      <3>6. ImagesAreFrames'
        BY <2>2, <3>1, Zenon DEF ImagesAreFrames
      <3> QED BY <3>1, <3>5, <3>6, Zenon DEF IInv
    <2>6. CASE FeedComplete(p)
      <3>1. /\ Valid(p) /\ Take(Target(p), p).received = p.count
            /\ fa' = Idle /\ ret' = 1 /\ since' = {}
            /\ out' = [width |-> p.width, height |-> p.height, pix |-> Take(Target(p), p).buf]
        BY <2>6, Zenon DEF FeedComplete
      <3>2. PICK f \in Frames :
              /\ Acceptable(f) /\ IsAssembly(Take(Target(p), p), f, SinceWith(p))
              /\ SinceWith(p) \in SUBSET Chunks(f)
              /\ p.width = f.width /\ p.height = f.height /\ p.count = frame_chunk_count(Total(f))
        BY <2>2, <3>1, Fed, Zenon
      <3>3. Take(Target(p), p).buf = [k \in 1 .. Total(f) |-> <<f.seq, k - 1>>]
        BY <3>1, <3>2, Complete
      <3>4. PICK b : b = Take(Target(p), p).buf
        OBVIOUS
      <3>5. out'.width = f.width /\ out'.height = f.height /\ out'.pix = b
        BY <3>1, <3>2, <3>4
      <3>6. ImagesAreFrames'
        BY <3>3, <3>4, <3>5, Zenon DEF ImagesAreFrames
      <3>7. Assembling'
        BY <3>1, Zenon DEF Assembling
      <3> QED BY <3>1, <3>6, <3>7, Zenon DEF IInv
    <2> QED BY <2>1, <2>3, <2>4, <2>5, <2>6, Zenon DEF Feed
  <1> QED BY <1>1, <1>2

LEMMA Invariance == Spec => []IInv
  BY InitIInv, NextIInv, PTL DEF Spec

(* What the invariant says of the assembler while a frame is in it. *)
LEMMA Busy ==
  ASSUME IInv, fa.active
  PROVE  \E f \in Frames :
           /\ Acceptable(f) /\ IsAssembly(fa, f, since)
           /\ since \subseteq Chunks(f) /\ since # {} /\ since # Chunks(f)
  <1>1. fa # Idle
    BY DEF Idle
  <1> QED BY <1>1, Zenon DEF IInv, Assembling

(* Between the packets of a worker, and while pl_imaging runs, nothing but  *)
(* frame_asm_feed touches the assembler: the frame case of client_worker,  *)
(* with its files and its log, is an implementation of the reassembler.     *)
THEOREM WorkerFeedsOnly == PathSpec => Spec
  <1>1. PathInit => Init
    BY DEF PathInit
  <1>2. [PathNext]_allvars => [Next]_vars
    <2>1. ASSUME NEW p \in Payloads, FramePacket(p) PROVE Next
      BY <2>1, Zenon DEF FramePacket, Next
    <2>2. ASSUME NEW k \in DOMAIN DemoNames, write_one(k) PROVE UNCHANGED vars
      BY <2>2, Zenon DEF write_one
    <2>3. DemoFails => UNCHANGED vars
      BY DEF DemoFails
    <2>4. UNCHANGED allvars => UNCHANGED vars
      BY DEF allvars
    <2> QED BY <2>1, <2>2, <2>3, <2>4, Zenon DEF PathNext
  <1> QED BY <1>1, <1>2, PTL DEF PathSpec, Spec

(* Every image that frame_asm_feed hands out, and so every picture that     *)
(* client_worker filters and writes, is one frame that was sent, byte for  *)
(* byte, whatever the chunk size, the frames, the order of their chunks,   *)
(* the repetitions and the allocation failures.                            *)
THEOREM ImagesAreWhole == PathSpec => []ImagesAreFrames
  <1>1. IInv => ImagesAreFrames
    BY DEF IInv
  <1> QED BY <1>1, Invariance, WorkerFeedsOnly, PTL

(* received, seen and buf agree with the chunks taken since the frame was   *)
(* started, and a frame that has all its chunks is never left waiting.     *)
THEOREM BooksAreRight == PathSpec => []BufferMatchesSeen
  <1>1. IInv => BufferMatchesSeen
    <2> SUFFICES ASSUME IInv, fa.active
                 PROVE  /\ fa.received = Cardinality(since) /\ since # 0 .. fa.count - 1
                        /\ \A k \in 1 .. fa.total :
                             /\ fa.seen[ChunkOf(k) + 1] <=> ChunkOf(k) \in since
                             /\ fa.buf[k] = IF ChunkOf(k) \in since THEN <<fa.seq, k - 1>> ELSE Unset
      BY Zenon DEF BufferMatchesSeen, ChunkOf
    <2>1. PICK f \in Frames :
            /\ Acceptable(f) /\ IsAssembly(fa, f, since)
            /\ since \subseteq Chunks(f) /\ since # Chunks(f)
      BY Busy
    <2>2. /\ fa.received = Cardinality(since) /\ fa.count = frame_chunk_count(Total(f))
          /\ fa.total = Total(f) /\ fa.seq = f.seq /\ fa.buf = Buf(f, since) /\ fa.seen = Seen(f, since)
      BY <2>1, Zenon DEF IsAssembly
    <2>3. since # 0 .. fa.count - 1
      BY <2>1, <2>2, Zenon DEF Chunks
    <2>4. ASSUME NEW k \in 1 .. fa.total
          PROVE  /\ fa.seen[ChunkOf(k) + 1] <=> ChunkOf(k) \in since
                 /\ fa.buf[k] = IF ChunkOf(k) \in since THEN <<fa.seq, k - 1>> ELSE Unset
      <3>1. k \in 1 .. Total(f)
        BY <2>2
      <3>2. ChunkOf(k) \in Chunks(f)
        BY <2>1, <3>1, EveryByteHasAChunk
      <3>3. Seen(f, since)[ChunkOf(k) + 1] <=> ChunkOf(k) \in since
        BY <2>1, <3>2, SeenOneMore
      <3>4. Buf(f, since)[k] = IF ChunkOf(k) \in since THEN <<f.seq, k - 1>> ELSE Unset
        BY <3>1, Zenon DEF Buf, Byte
      <3> QED BY <2>2, <3>3, <3>4, Zenon
    <2> QED BY <2>2, <2>3, <2>4
  <1> QED BY <1>1, Invariance, WorkerFeedsOnly, PTL

(* The fields of frame_asm_t fit together: the buffer has width x height    *)
(* bytes and at most FRAME_MAX_PIXELS, there is one flag per chunk, and     *)
(* received is between 1 and the number of chunks.                         *)
THEOREM TypeCorrect == PathSpec => []TypeOK
  <1>1. IInv => TypeOK
    <2> SUFFICES ASSUME IInv PROVE TypeOK
      OBVIOUS
    <2>1. ret \in {-1, 0, 1}
      BY DEF IInv
    <2>2. CASE fa = Idle
      <3>1. fa.active = FALSE /\ fa.buf = << >> /\ fa.seen = << >> /\ fa.total = 0 /\ fa.count = 0
        BY <2>2 DEF Idle
      <3>2. Len(fa.buf) = fa.total /\ Len(fa.seen) = fa.count
        BY <3>1
      <3> QED BY <2>1, <3>1, <3>2, Zenon DEF TypeOK
    <2>3. CASE fa # Idle
      <3>1. PICK f \in Frames :
              /\ Acceptable(f) /\ IsAssembly(fa, f, since)
              /\ since \subseteq Chunks(f) /\ since # {}
        BY <2>3, Zenon DEF IInv, Assembling
      <3>2. /\ fa.active = TRUE /\ fa.width = f.width /\ fa.height = f.height
            /\ fa.received = Cardinality(since) /\ fa.count = frame_chunk_count(Total(f))
            /\ fa.total = Total(f) /\ fa.buf = Buf(f, since) /\ fa.seen = Seen(f, since)
        BY <3>1, Zenon DEF IsAssembly
      <3>3. fa.received \in 1 .. fa.count
        <4>1. IsFiniteSet(since) /\ Cardinality(since) <= fa.count /\ fa.count \in Nat
          BY <3>1, <3>2, FrameFacts, FS_Subset
        <4>2. Cardinality(since) \in Nat /\ Cardinality(since) # 0
          BY <3>1, <4>1, FS_EmptySet, FS_CardinalityType
        <4> QED BY <3>2, <4>1, <4>2
      <3>4. fa.total = fa.width * fa.height /\ fa.total \in 1 .. FRAME_MAX_PIXELS
        BY <3>1, <3>2 DEF Acceptable, Total
      <3>5. Len(fa.buf) = fa.total
        BY <3>1, <3>2, FrameFacts DEF Buf
      <3>6. Len(fa.seen) = fa.count
        BY <3>1, <3>2, FrameFacts DEF Seen
      <3> QED BY <2>1, <3>2, <3>3, <3>4, <3>5, <3>6, Zenon DEF TypeOK
    <2> QED BY <2>2, <2>3
  <1> QED BY <1>1, Invariance, WorkerFeedsOnly, PTL
=============================================================================
