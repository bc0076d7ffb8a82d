------------------------------ MODULE FramePath ------------------------------
(***************************************************************************)
(* From PKT_FRAME packets to files: the frame case of client_worker        *)
(* (server/client_handler.c) feeds the reassembler of FrameAsm and, when a *)
(* frame is complete, filters it and writes both pictures with the         *)
(* operators of Imaging.  imaging/pl_imaging.c, the demo of the same       *)
(* library, is the other program: which of the two runs is chosen at the   *)
(* start, because they share no file.                                      *)
(***************************************************************************)
EXTENDS FrameAsm, Imaging

CONSTANTS
  Pixel(_),             (* the value of a byte <<frame, offset>>            *)
  DemoWidth, DemoHeight (* the picture of pl_imaging (192 x 144)            *)

VARIABLES
  program,   (* 0 for telemetryd, or the next file of pl_imaging            *)
  files,     (* the contents of the files; no file is an empty one          *)
  logged     (* what the worker logged of the last complete frame           *)

fvars == <<program, files, logged>>
allvars == <<vars, fvars>>

Names == {"in", "edges", "frame_input", "frame_edges", "frame_blur", "frame_sharpen"}

PathInit ==
  /\ Init
  /\ program \in {0, 1}
  /\ files = [n \in Names |-> << >>]
  /\ logged = "nothing"

(* The picture that a reassembled frame is. *)
Picture(img) ==
  [w |-> img.width, h |-> img.height, pix |-> [k \in DOMAIN img.pix |-> Pixel(img.pix[k])]]

FramePicture(f) == Picture([width |-> f.width, height |-> f.height,
                            pix |-> [k \in 1 .. Total(f) |-> <<f.seq, k - 1>>]])

(* Mutant: success is logged when either file is written. *)
StoreFrame_EitherFile(im) ==
  \/ UNCHANGED <<files, logged>>
  \/ \E a \in bmp_write(im, files["in"]), b \in bmp_write(sobel(im), files["edges"]) :
       /\ files' = [files EXCEPT !["in"] = a.file, !["edges"] = b.file]
       /\ logged' = IF a.rc = 0 \/ b.rc = 0 THEN "wrote" ELSE "failed"

(* A complete frame: unless there is no memory for its edges, they are      *)
(* computed and written after the frame itself is.                         *)
StoreFrame(im) ==
  \/ UNCHANGED <<files, logged>>
  \/ \E a \in bmp_write(im, files["in"]) :
       IF a.rc # 0
       THEN files' = [files EXCEPT !["in"] = a.file] /\ logged' = "failed"
       ELSE \E b \in bmp_write(sobel(im), files["edges"]) :
              /\ files' = [files EXCEPT !["in"] = a.file, !["edges"] = b.file]
              /\ logged' = IF b.rc = 0 THEN "wrote" ELSE "failed"

(* The frame case of the worker's switch, for one packet. *)
FramePacket(p) ==
  /\ program = 0
  /\ Feed(p)
  /\ IF ret' = 1 THEN StoreFrame(Picture(out')) ELSE UNCHANGED <<files, logged>>
  /\ UNCHANGED program

(* The files of pl_imaging and their pictures, in the order written. *)
DemoNames == <<"frame_input", "frame_edges", "frame_blur", "frame_sharpen">>
Demo ==
  LET src == image_test_pattern(DemoWidth, DemoHeight)
  IN  <<src, sobel(src), conv3x3(src, K_BLUR, 9, 0), conv3x3(src, K_SHARPEN, 1, 0)>>

(* write_one: each file is written whatever became of the others; one for   *)
(* whose picture there was no memory is not.                               *)
write_one(k) ==
  /\ program = k /\ program' = k + 1
  /\ \E im \in {Demo[k]} \cup (IF k = 1 THEN {} ELSE {NullImage}) :
       \E w \in bmp_write(im, files[DemoNames[k]]) :
         files' = [files EXCEPT ![DemoNames[k]] = w.file]
  /\ UNCHANGED <<vars, logged>>

(* main of pl_imaging gives up without memory for its picture.  Its round   *)
(* trip through the chunks is the reassembler's own behaviour.             *)
DemoFails ==
  /\ program = 1 /\ program' = Len(DemoNames) + 1
  /\ UNCHANGED <<vars, files, logged>>

PathNext ==
  \/ \E p \in Payloads : FramePacket(p)
  \/ DemoFails \/ \E k \in DOMAIN DemoNames : write_one(k)

PathSpec == PathInit /\ [][PathNext]_allvars
-----------------------------------------------------------------------------
(* Every file is refused by bmp_read or is the whole picture it was written *)
(* from, upright and unshifted; a file cut anywhere is refused.  So neither *)
(* a full disk that fclose hides nor an overwritten older and larger file  *)
(* ever reads as a picture that was not there (bmp_write, bmp_read).       *)
FilesReadBack ==
  \A n \in Names :
    /\ bmp_read(files[n]) \in
        {NullImage} \cup
        (IF n = "in" THEN {FramePicture(f) : f \in Frames}
         ELSE IF n = "edges" THEN {sobel(FramePicture(f)) : f \in Frames}
         ELSE {Demo[k] : k \in {k \in DOMAIN DemoNames : DemoNames[k] = n}})
    /\ \A c \in 0 .. Len(files[n]) - 1 : bmp_read(SubSeq(files[n], 1, c)) = NullImage

(* The nearest pixel of the image, which convolve.h promises outside it. *)
Nearest(im, x, y) ==
  LET col(p) == (p - 1) % im.w
      row(p) == (p - 1) \div im.w
      d(p)   == (col(p) - x) * (col(p) - x) + (row(p) - y) * (row(p) - y)
  IN  im.pix[CHOOSE p \in DOMAIN im.pix : \A q \in DOMAIN im.pix : d(p) <= d(q)]

(* What the filters are meant to compute, by a relation between the input's *)
(* pixels and the output's.                                                *)
IsEdges(im, e) ==
  /\ e.w = im.w /\ e.h = im.h
  /\ \A x \in 0 .. im.w - 1, y \in 0 .. im.h - 1 :
       LET p(i, j) == Nearest(im, x + i, y + j)
           gx == (p(1, -1) - p(-1, -1)) + 2 * (p(1, 0) - p(-1, 0)) + (p(1, 1) - p(-1, 1))
           gy == (p(-1, 1) - p(-1, -1)) + 2 * (p(0, 1) - p(0, -1)) + (p(1, 1) - p(1, -1))
           n  == 4 * (gx * gx + gy * gy)
           v  == e.pix[y * im.w + x + 1]
       IN  /\ v \in 0 .. 255
           /\ v > 0 => (2 * v - 1) * (2 * v - 1) <= n
           /\ v < 255 => n < (2 * v + 1) * (2 * v + 1)

IsBlur(im, b) ==
  /\ b.w = im.w /\ b.h = im.h
  /\ \A x \in 0 .. im.w - 1, y \in 0 .. im.h - 1 :
       LET p(i, j) == Nearest(im, x + i, y + j)
           sum == p(-1, -1) + p(0, -1) + p(1, -1) + p(-1, 0) + p(0, 0) + p(1, 0)
                  + p(-1, 1) + p(0, 1) + p(1, 1)
       IN  sum - 9 * b.pix[y * im.w + x + 1] \in 0 .. 8

IsSharpen(im, s) ==
  /\ s.w = im.w /\ s.h = im.h
  /\ \A x \in 0 .. im.w - 1, y \in 0 .. im.h - 1 :
       LET p(i, j) == Nearest(im, x + i, y + j)
           v == p(0, 0) + (p(0, 0) - p(0, -1)) + (p(0, 0) - p(-1, 0))
                + (p(0, 0) - p(1, 0)) + (p(0, 0) - p(0, 1))
       IN  s.pix[y * im.w + x + 1] = IF v < 0 THEN 0 ELSE IF v > 255 THEN 255 ELSE v

(* When the worker has logged that it wrote both files, they belong         *)
(* together: the edges that can be read are the Sobel edges of the frame   *)
(* that can be read, although either write may fail at any byte and a pair *)
(* of an earlier frame is overwritten one file at a time.                  *)
EdgesMatchFrame ==
  logged = "wrote" /\ bmp_read(files["in"]) # NullImage /\ bmp_read(files["edges"]) # NullImage =>
    IsEdges(bmp_read(files["in"]), bmp_read(files["edges"]))

(* The pictures of pl_imaging are the input's edges, its blur and its       *)
(* sharpening, with the edge pixels replicated outside the picture and the *)
(* results rounded and clamped as convolve.h says.                         *)
FiltersAreRight ==
  LET pic(n) == bmp_read(files[n])
  IN  pic("frame_input") # NullImage =>
        /\ pic("frame_edges") # NullImage => IsEdges(pic("frame_input"), pic("frame_edges"))
        /\ pic("frame_blur") # NullImage => IsBlur(pic("frame_input"), pic("frame_blur"))
        /\ pic("frame_sharpen") # NullImage => IsSharpen(pic("frame_input"), pic("frame_sharpen"))
=============================================================================
