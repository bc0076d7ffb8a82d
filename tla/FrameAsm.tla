------------------------------ MODULE FrameAsm ------------------------------
(***************************************************************************)
(* imaging/frame.c: the reassembler that a worker feeds with the payloads  *)
(* of PKT_FRAME packets (server/client_handler.c).  Every byte of a frame  *)
(* is abstracted to where it comes from, <<frame, offset>>, so a byte that *)
(* lands at the wrong place or in the wrong image can be told apart.       *)
(***************************************************************************)
EXTENDS Integers, Sequences, FiniteSets

CONSTANTS
  FRAME_CHUNK_MAX,    (* bytes of a full chunk (1024 in the code)          *)
  FRAME_MAX_PIXELS,   (* largest image accepted (2^22 in the code)         *)
  Frames,             (* frames a device sends: [width, height, seq]       *)
  Damaged             (* payloads no frame produces                        *)

ASSUME FrameAssumption ==
  /\ FRAME_CHUNK_MAX \in Nat \ {0}
  /\ FRAME_MAX_PIXELS \in Nat
  /\ Frames \subseteq [width : Nat, height : Nat, seq : Nat]
  /\ \A f, g \in Frames : f.seq = g.seq => f = g

VARIABLES
  fa,       (* frame_asm_t                                                 *)
  ret,      (* what frame_asm_feed returned                                *)
  out,      (* the image it filled                                         *)
  since     (* history: chunks taken since fa last started a frame         *)

vars == <<fa, ret, out, since>>

Unset == <<-1, 0>>          (* a byte of malloc'ed memory before its memcpy *)

frame_chunk_count(total) == (total + FRAME_CHUNK_MAX - 1) \div FRAME_CHUNK_MAX

Total(f) == f.width * f.height
Smaller(a, b) == IF a < b THEN a ELSE b

(* frame_chunk_build for chunk i of frame f, as the sender calls it. *)
Chunk(f, i) ==
  LET off == i * FRAME_CHUNK_MAX
      len == Smaller(FRAME_CHUNK_MAX, Total(f) - off)
  IN  [whole |-> TRUE, width |-> f.width, height |-> f.height, seq |-> f.seq,
       idx |-> i, count |-> frame_chunk_count(Total(f)),
       bytes |-> [k \in 1 .. len |-> <<f.seq, off + k - 1>>]]

Payloads ==
  (UNION {{Chunk(f, i) : i \in 0 .. frame_chunk_count(Total(f)) - 1} : f \in Frames})
    \cup Damaged

(* memset(fa, 0, sizeof *fa). *)
Idle ==
  [active |-> FALSE, width |-> 0, height |-> 0, seq |-> 0, count |-> 0,
   total |-> 0, received |-> 0, buf |-> << >>, seen |-> << >>]

NoImage == [width |-> 0, height |-> 0, pix |-> << >>]

(* Bytes are numbered from 0 in the code, from 1 in buf. *)
TypeOK ==
  /\ fa.active \in BOOLEAN
  /\ Len(fa.buf) = fa.total
  /\ Len(fa.seen) = fa.count
  /\ fa.active => /\ fa.total = fa.width * fa.height
                  /\ fa.total \in 1 .. FRAME_MAX_PIXELS
                  /\ fa.received \in 1 .. fa.count
  /\ ret \in {-1, 0, 1}

Init ==
  /\ fa = Idle
  /\ ret = 0
  /\ out = NoImage
  /\ since = {}

(* Mutants: the frame number is not compared; a repeated chunk is counted.  *)
SameFrame_AnySeq(p) ==
  fa.active /\ fa.width = p.width /\ fa.height = p.height

Take_CountsTwice(a, p) ==
  LET off == p.idx * FRAME_CHUNK_MAX
  IN  [a EXCEPT !.seen[p.idx + 1] = TRUE,
                !.received = @ + 1,
                !.buf = [k \in 1 .. a.total |->
                           IF k - off \in 1 .. Len(p.bytes) THEN p.bytes[k - off]
                                                            ELSE a.buf[k]]]

(* The checks frame_asm_feed makes before it touches fa. *)
Valid(p) ==
  LET total == p.width * p.height
      off   == p.idx * FRAME_CHUNK_MAX
  IN  /\ p.whole                                  (* payload_len >= 12 *)
      /\ p.width # 0 /\ p.height # 0 /\ p.count # 0
      /\ total <= FRAME_MAX_PIXELS
      /\ frame_chunk_count(total) = p.count
      /\ p.idx < p.count
      /\ off < total
      /\ Len(p.bytes) = Smaller(FRAME_CHUNK_MAX, total - off)

(* A payload that no frame produces shows it in its header or its length:   *)
(* one that passes the checks is, to this code, a chunk of some frame.      *)
ASSUME DamageAssumption == \A p \in Damaged : ~Valid(p)

SameFrame(p) ==
  fa.active /\ fa.seq = p.seq /\ fa.width = p.width /\ fa.height = p.height

(* frame_asm_reset, then a new buffer whose bytes are not initialised. *)
Started(p) ==
  LET total == p.width * p.height
  IN  [active |-> TRUE, width |-> p.width, height |-> p.height, seq |-> p.seq,
       count |-> p.count, total |-> total, received |-> 0,
       buf |-> [k \in 1 .. total |-> Unset], seen |-> [i \in 1 .. p.count |-> FALSE]]

(* seen[cidx] and received change for a first copy only; memcpy runs always. *)
Take(a, p) ==
  LET off == p.idx * FRAME_CHUNK_MAX
  IN  [a EXCEPT !.seen[p.idx + 1] = TRUE,
                !.received = IF a.seen[p.idx + 1] THEN @ ELSE @ + 1,
                !.buf = [k \in 1 .. a.total |->
                           IF k - off \in 1 .. Len(p.bytes) THEN p.bytes[k - off]
                                                            ELSE a.buf[k]]]

(* The assembler the chunk is copied into, and the chunks it then covers. *)
Target(p) == IF SameFrame(p) THEN fa ELSE Started(p)
SinceWith(p) == (IF SameFrame(p) THEN since ELSE {}) \cup {p.idx}

(* frame_asm_feed returns -1 before it touches fa. *)
FeedRejected(p) ==
  /\ ~Valid(p)
  /\ ret' = -1
  /\ UNCHANGED <<fa, out, since>>

(* malloc or calloc fails when a frame is started. *)
FeedNoMemory(p) ==
  /\ Valid(p) /\ ~SameFrame(p)
  /\ fa' = Idle /\ ret' = -1 /\ since' = {}
  /\ UNCHANGED out

FeedMore(p) ==
  /\ Valid(p)
  /\ Take(Target(p), p).received # p.count
  /\ fa' = Take(Target(p), p)
  /\ ret' = 0
  /\ since' = SinceWith(p)
  /\ UNCHANGED out

(* The last chunk: image_alloc succeeds and the pixels are copied out. *)
FeedComplete(p) ==
  /\ Valid(p)
  /\ Take(Target(p), p).received = p.count
  /\ fa' = Idle
  /\ out' = [width |-> p.width, height |-> p.height, pix |-> Take(Target(p), p).buf]
  /\ ret' = 1
  /\ since' = {}

(* The last chunk, but image_alloc fails: the frame is thrown away. *)
FeedNoImage(p) ==
  /\ Valid(p)
  /\ Take(Target(p), p).received = p.count
  /\ fa' = Idle /\ ret' = -1 /\ since' = {}
  /\ UNCHANGED out

Feed(p) ==
  FeedRejected(p) \/ FeedNoMemory(p) \/ FeedMore(p) \/ FeedComplete(p) \/ FeedNoImage(p)

Next == \E p \in Payloads : Feed(p)

Spec == Init /\ [][Next]_vars

-----------------------------------------------------------------------------
(* Every image handed out is one frame that was sent, byte for byte: no     *)
(* byte is left uninitialised, misplaced or taken from another frame, in    *)
(* whatever order the chunks of several frames arrive, are repeated, or are *)
(* mixed with malformed ones (frame_asm_feed, lines 114-124).               *)
ImagesAreFrames ==
  out # NoImage =>
    \E f \in Frames :
      /\ out.width = f.width /\ out.height = f.height
      /\ out.pix = [k \in 1 .. Total(f) |-> <<f.seq, k - 1>>]

(* The assembler's books are right: received counts the distinct chunks     *)
(* taken since the frame was started, exactly their bytes of the buffer are *)
(* set, and a frame that has all its chunks is no longer here, because it   *)
(* was handed out with the last one.                                        *)
BufferMatchesSeen ==
  fa.active =>
    /\ fa.received = Cardinality(since) /\ since # 0 .. fa.count - 1
    /\ \A k \in 1 .. fa.total :
         LET i == (k - 1) \div FRAME_CHUNK_MAX
         IN  /\ fa.seen[i + 1] <=> i \in since
             /\ fa.buf[k] = IF i \in since THEN <<fa.seq, k - 1>> ELSE Unset
=============================================================================
