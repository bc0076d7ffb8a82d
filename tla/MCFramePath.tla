----------------------------- MODULE MCFramePath -----------------------------
(* Instances of FramePath for TLC. *)
EXTENDS FramePath

(* Two frames of one size whose last chunk is short, one of whole chunks    *)
(* and one larger than FRAME_MAX_PIXELS allows.                            *)
SomeFrames ==
  {[width |-> 1, height |-> 3, seq |-> 1], [width |-> 1, height |-> 3, seq |-> 2],
   [width |-> 2, height |-> 3, seq |-> 3], [width |-> 7, height |-> 1, seq |-> 4]}

Payload(w, h, s, i, c, n) ==
  [whole |-> TRUE, width |-> w, height |-> h, seq |-> s, idx |-> i, count |-> c,
   bytes |-> [k \in 1 .. n |-> <<-2, 0>>]]

(* One payload for each check of frame_asm_feed: cut short, a zero size, a  *)
(* wrong chunk count, an index past the end, a chunk too short or too long. *)
SomeDamaged ==
  {[Payload(1, 3, 1, 0, 2, 2) EXCEPT !.whole = FALSE],
   Payload(0, 3, 1, 0, 2, 2), Payload(1, 0, 1, 0, 2, 2), Payload(1, 3, 1, 0, 0, 2),
   Payload(1, 3, 1, 0, 3, 2), Payload(1, 3, 1, 2, 2, 2),
   Payload(1, 3, 1, 0, 2, 1), Payload(1, 3, 1, 1, 2, 2)}

(* Pictures with no symmetry, and with both ends of the range. *)
SomePixel(b) == (b[1] * 70 + b[2] * 97) % 256

(* The headers alone, and a file that ends among its pixels. *)
SomeCuts == {54, 65}
=============================================================================
