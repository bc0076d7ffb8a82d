\* Chunks of four frames in any order, repeated, and mixed with damaged ones;
\* files that fail to open, fail at either of two sizes, or are cut by fclose.
CONSTANTS
  FRAME_CHUNK_MAX = 2
  FRAME_MAX_PIXELS = 6
  Frames <- SomeFrames
  Damaged <- SomeDamaged
  PALETTE = 4
  IMAGE_MAX_PIXELS = 20
  Cuts <- SomeCuts
  Pixel <- SomePixel
  DemoWidth = 5
  DemoHeight = 4
SPECIFICATION PathSpec
INVARIANTS
  ImagesAreFrames
  BufferMatchesSeen
  FilesReadBack
  EdgesMatchFrame
  FiltersAreRight
\* pl_imaging ends.
CHECK_DEADLOCK FALSE
