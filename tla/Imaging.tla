------------------------------- MODULE Imaging -------------------------------
(***************************************************************************)
(* imaging/image.c, convolve.c and bmp.c: grayscale images, 3x3 filters    *)
(* and BMP files, as operators.  An image is [w, h, pix], row by row from  *)
(* the top, and a file is the sequence of its bytes; both count from 1     *)
(* where the code counts from 0.                                           *)
(***************************************************************************)
EXTENDS Integers, Sequences

CONSTANTS
  PALETTE,            (* bytes of the BMP palette (1024 in the code)        *)
  IMAGE_MAX_PIXELS,   (* largest image allocated (2^22 in the code)         *)
  Cuts                (* bound: sizes at which a write may stop short       *)

ASSUME ImagingAssumption ==
  PALETTE \in Nat /\ IMAGE_MAX_PIXELS \in Nat /\ Cuts \subseteq Nat

(* A freed image, or one that was never allocated. *)
NullImage == [w |-> 0, h |-> 0, pix |-> << >>]

(* The image image_alloc makes; calloc may still fail. *)
image_alloc(w, h) ==
  IF w <= 0 \/ h <= 0 \/ w * h > IMAGE_MAX_PIXELS THEN NullImage
  ELSE [w |-> w, h |-> h, pix |-> [p \in 1 .. w * h |-> 0]]

(* The image of this size with f(x, y) at column x of row y. *)
Paint(w, h, f(_, _)) ==
  [w |-> w, h |-> h, pix |-> [p \in 1 .. w * h |-> f((p - 1) % w, (p - 1) \div w)]]

(* A gradient, a bright box over it, and a dark diagonal over both. *)
image_test_pattern(w, h) ==
  Paint(w, h, LAMBDA x, y :
    IF x = w - 1 - y THEN 20
    ELSE IF x \in (w \div 4) .. (w \div 2) - 1 /\ y \in (h \div 4) .. ((3 * h) \div 4) - 1 THEN 230
    ELSE (x * 255) \div (IF w > 1 THEN w - 1 ELSE 1))
-----------------------------------------------------------------------------
(* convolve.c *)

K_BLUR    == << 1,  1,  1,   1,  1,  1,   1,  1,  1>>
K_SHARPEN == << 0, -1,  0,  -1,  5, -1,   0, -1,  0>>
SOBEL_X   == <<-1,  0,  1,  -2,  0,  2,  -1,  0,  1>>
SOBEL_Y   == <<-1, -2, -1,   0,  0,  0,   1,  2,  1>>

clampi(v, lo, hi) == IF v < lo THEN lo ELSE IF v > hi THEN hi ELSE v

(* The pixel, or the one at the nearest edge. *)
at(im, x, y) ==
  im.pix[clampi(y, 0, im.h - 1) * im.w + clampi(x, 0, im.w - 1) + 1]

(* The inner loops: nine samples against nine weights. *)
Weigh(im, kernel, x, y) ==
  LET acc[k \in 0 .. 9] ==
        IF k = 0 THEN 0
        ELSE acc[k - 1] + kernel[k] * at(im, x + ((k - 1) % 3) - 1, y + ((k - 1) \div 3) - 1)
  IN  acc[9]

(* C division rounds towards zero. *)
Quotient(a, b) == IF a < 0 THEN -((-a) \div b) ELSE a \div b

(* Mutant: the result is cut to a byte without clamping. *)
conv3x3_Wraps(im, kernel, div, bias) ==
  Paint(im.w, im.h, LAMBDA x, y : (Quotient(Weigh(im, kernel, x, y), div) + bias) % 256)

(* Without pixels there is nothing to do, and the output keeps its zeros. *)
conv3x3(im, kernel, div, bias) ==
  Paint(im.w, im.h, LAMBDA x, y :
    clampi(Quotient(Weigh(im, kernel, x, y), div) + bias, 0, 255))

(* lround(sqrt(n)), for n up to 2 * 1020^2. *)
rounded_sqrt(n) ==
  CHOOSE m \in 0 .. 1443 : (m = 0 \/ m * (m - 1) < n) /\ n <= m * (m + 1)

sobel(im) ==
  Paint(im.w, im.h, LAMBDA x, y :
    LET gx == Weigh(im, SOBEL_X, x, y)
        gy == Weigh(im, SOBEL_Y, x, y)
    IN  clampi(rounded_sqrt(gx * gx + gy * gy), 0, 255))
-----------------------------------------------------------------------------
(* bmp.c *)

FILE_HDR == 14
DIB_HDR == 40
PIX_OFFSET == FILE_HDR + DIB_HDR + PALETTE

put_le16(v) == <<v % 256, (v \div 256) % 256>>
put_le32(v) == put_le16(v % 65536) \o put_le16(v \div 65536)
get_le16(file, k) == file[k + 1] + 256 * file[k + 2]
get_le32(file, k) == get_le16(file, k) + 65536 * get_le16(file, k + 2)
Zeros(n) == [k \in 1 .. n |-> 0]

stride(w) == 4 * ((w + 3) \div 4)

(* The two headers and the palette. *)
Header(im) ==
  LET pixsz == stride(im.w) * im.h
  IN  <<66, 77>> \o put_le32(PIX_OFFSET + pixsz) \o Zeros(4) \o put_le32(PIX_OFFSET)
        \o put_le32(DIB_HDR) \o put_le32(im.w) \o put_le32(im.h) \o put_le16(1) \o put_le16(8)
        \o put_le32(0) \o put_le32(pixsz) \o Zeros(8) \o put_le32(256) \o Zeros(4)
        \o [k \in 1 .. PALETTE |-> IF k % 4 = 0 THEN 0 ELSE (k - 1) \div 4]

(* Mutant: the rows from top to bottom. *)
Rows_TopDown(im) ==
  [k \in 1 .. stride(im.w) * im.h |->
     LET row == (k - 1) \div stride(im.w)
         col == (k - 1) % stride(im.w)
     IN  IF col < im.w THEN im.pix[row * im.w + col + 1] ELSE 0]

(* The rows from bottom to top, each padded to a multiple of four. *)
Rows(im) ==
  [k \in 1 .. stride(im.w) * im.h |->
     LET row == im.h - 1 - ((k - 1) \div stride(im.w))
         col == (k - 1) % stride(im.w)
     IN  IF col < im.w THEN im.pix[row * im.w + col + 1] ELSE 0]

(* What bmp_write may return and leave in a file that was old before.  The  *)
(* file may not open; a short fwrite is an error; a loss when fclose       *)
(* flushes the buffer goes unnoticed.                                      *)
bmp_write(im, old) ==
  LET whole == Header(im) \o Rows(im)
      short == {SubSeq(whole, 1, n) : n \in {c \in Cuts : c < Len(whole)}}
  IN  {[rc |-> -1, file |-> old]}
        \cup (IF im.pix = << >> THEN {}
              ELSE {[rc |-> 0, file |-> whole]} \cup [rc : {0, -1}, file : short])

(* The image, or NullImage where bmp_read returns -1. *)
bmp_read(file) ==
  IF Len(file) < FILE_HDR + DIB_HDR \/ SubSeq(file, 1, 2) # <<66, 77>> THEN NullImage
  ELSE LET offset == get_le32(file, 10)
           w      == get_le32(file, 18)
           h      == get_le32(file, 22)
       IN  IF \/ get_le16(file, 28) # 8
              \/ image_alloc(w, h) = NullImage
              \/ Len(file) < offset + stride(w) * h
           THEN NullImage
           ELSE Paint(w, h, LAMBDA x, y : file[offset + (h - 1 - y) * stride(w) + x + 1])
=============================================================================
