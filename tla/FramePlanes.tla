---------------------------- MODULE FramePlanes ----------------------------
(***************************************************************************)
(* How a framebuffer lays an image out in memory: one to three planes, one *)
(* after the other, each a number of lines of `line' bytes that start      *)
(* `stride' bytes apart, so that every line starts aligned.  A file holds  *)
(* the same lines without the padding.  Sizes are taken to fit the 32 bits *)
(* the code computes them in.                                              *)
(***************************************************************************)
EXTENDS Integers, Sequences

CONSTANT StrideAlign     \* VF_FB_STRIDE_ALIGN, 16 in the code

\* ALIGN_SIZE masks bits off, which rounds up only for a power of two.
ASSUME StrideAssumption == StrideAlign \in {1, 2, 4, 8, 16, 32, 64}

Bpp == [RAW8 |-> 8, YUYV |-> 16, RGB888 |-> 24, BGR888 |-> 24, RGBA8888 |-> 32]

Packed  == DOMAIN Bpp
Formats == Packed \cup {"YUV420P", "NV12"}

AlignSize(n) == ((n + StrideAlign - 1) \div StrideAlign) * StrideAlign

Plane(line, height) ==
    [line |-> line, height |-> height,
     stride |-> AlignSize(line), size |-> AlignSize(line) * height]

Planes(format, w, h) ==
    CASE format \in Packed ->
            << Plane((w * Bpp[format]) \div 8, h) >>
      [] format = "YUV420P" ->
            << Plane(w, h), Plane(w \div 2, h \div 2), Plane(w \div 2, h \div 2) >>
      [] format = "NV12" ->
            << Plane(w, h), Plane(w, h \div 2) >>

\* Where plane i starts in the buffer.
Base(planes, i) ==
    (IF i > 1 THEN planes[1].size ELSE 0) + (IF i > 2 THEN planes[2].size ELSE 0)

TotalSize(planes) ==
    Base(planes, Len(planes)) + planes[Len(planes)].size

\* The address of byte x of line y of plane i.
At(planes, i, x, y) == Base(planes, i) + y * planes[i].stride + x

-----------------------------------------------------------------------------
(* Transfer between a buffer and a file, line by line.  Buffers and files  *)
(* are functions from offsets, counted from 0, to bytes.                    *)

\* The bytes of plane i that a file holds, and how many precede them.
Held(planes, i) == planes[i].line * planes[i].height
Skipped(planes, i) ==
    (IF i > 1 THEN Held(planes, 1) ELSE 0) + (IF i > 2 THEN Held(planes, 2) ELSE 0)
FileSize(planes) == Skipped(planes, Len(planes)) + Held(planes, Len(planes))

\* Mutant: a plane is read and written as one block, without regard to strides.
InBufferUnpadded(planes, k) ==
    LET i == CHOOSE j \in 1 .. Len(planes) :
                /\ Skipped(planes, j) <= k
                /\ k < Skipped(planes, j) + Held(planes, j)
    IN  Base(planes, i) + k - Skipped(planes, i)

\* The buffer address of byte k of the file.
InBuffer(planes, k) ==
    LET i == CHOOSE j \in 1 .. Len(planes) :
                /\ Skipped(planes, j) <= k
                /\ k < Skipped(planes, j) + Held(planes, j)
        n == k - Skipped(planes, i)
    IN  At(planes, i, n % planes[i].line, n \div planes[i].line)

\* vf_framebuffer_alloc: zero in every byte, the padding included.
BlankBuffer(planes) == [a \in 0 .. TotalSize(planes) - 1 |-> 0]

\* A buffer with some of its bytes stored to: `stores' are pairs of an
\* address and a byte.
Overlay(buffer, stores) ==
    [a \in DOMAIN buffer |->
        IF \E s \in stores : s[1] = a
        THEN (CHOOSE s \in stores : s[1] = a)[2]
        ELSE buffer[a]]

ReadFromFile(planes, buffer, file) ==
    Overlay(buffer, {<<InBuffer(planes, k), file[k]>> : k \in 0 .. FileSize(planes) - 1})

WriteToFile(planes, buffer) ==
    [k \in 0 .. FileSize(planes) - 1 |-> buffer[InBuffer(planes, k)]]
=============================================================================
