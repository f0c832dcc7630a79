--------------------------- MODULE ConversionProofs ---------------------------
(***************************************************************************)
(* The layout of a frame, for every format, width, height and alignment of *)
(* strides: lines and planes do not overlap and stay inside the buffer,    *)
(* and what is read from a file is what is written to one.  Then the pixel *)
(* arithmetic, the walks of a conversion over two such buffers, and what   *)
(* becomes of a file that is read, converted and written.                  *)
(***************************************************************************)
EXTENDS Conversion, TLAPS

\* What the lemmas need of a sequence of planes.
PlaneType == [line : Nat, height : Nat, stride : Nat, size : Nat]

WellFormed(planes) ==
    /\ planes \in Seq(PlaneType)
    /\ Len(planes) \in 1 .. 3
    /\ \A i \in 1 .. Len(planes) :
          /\ planes[i].line <= planes[i].stride
          /\ planes[i].size = planes[i].stride * planes[i].height

LEMMA AlignSizeBounds ==
  ASSUME NEW n \in Nat
  PROVE  AlignSize(n) \in Nat /\ n <= AlignSize(n)
  BY StrideAssumption DEF AlignSize

LEMMA PlaneWellFormed ==
  ASSUME NEW line \in Nat, NEW height \in Nat
  PROVE  /\ Plane(line, height) \in PlaneType
         /\ Plane(line, height).line = line
         /\ Plane(line, height).height = height
         /\ Plane(line, height).line <= Plane(line, height).stride
         /\ Plane(line, height).size
               = Plane(line, height).stride * Plane(line, height).height
<1>1. AlignSize(line) \in Nat /\ line <= AlignSize(line)
  BY AlignSizeBounds
<1>2. AlignSize(line) * height \in Nat
  BY <1>1
<1> QED
  BY <1>1, <1>2 DEF Plane, PlaneType

\* The planes vf_framebuffer_alloc lays out are well formed.
LEMMA PlanesWellFormed ==
  ASSUME NEW format \in Formats, NEW w \in Nat, NEW h \in Nat
  PROVE  WellFormed(Planes(format, w, h))
<1>0. w \div 2 \in Nat /\ h \div 2 \in Nat
  OBVIOUS
<1>1. CASE format \in Packed
  <2>1. (w * Bpp[format]) \div 8 \in Nat
    <3>1. Bpp[format] \in {8, 16, 24, 32}
      BY <1>1 DEF Packed, Bpp
    <3> QED
      BY <3>1
  <2>2. format # "YUV420P" /\ format # "NV12"
    BY <1>1 DEF Packed, Bpp
  <2>3. Planes(format, w, h) = <<Plane((w * Bpp[format]) \div 8, h)>>
    BY <1>1, <2>2 DEF Planes
  <2> QED
    BY <2>1, <2>3, PlaneWellFormed DEF WellFormed
<1>2. CASE format = "YUV420P"
  <2>1. Planes(format, w, h) =
           <<Plane(w, h), Plane(w \div 2, h \div 2), Plane(w \div 2, h \div 2)>>
    BY <1>2 DEF Planes, Packed, Bpp
  <2> QED
    BY <1>0, <2>1, PlaneWellFormed DEF WellFormed
<1>3. CASE format = "NV12"
  <2>1. Planes(format, w, h) = <<Plane(w, h), Plane(w, h \div 2)>>
    BY <1>3 DEF Planes, Packed, Bpp
  <2> QED
    BY <1>0, <2>1, PlaneWellFormed DEF WellFormed
<1> QED
  BY <1>1, <1>2, <1>3 DEF Formats

-----------------------------------------------------------------------------

\* Bytes of a matrix of lines that are s bytes apart.
LEMMA LineInside ==
  ASSUME NEW s \in Nat, NEW h \in Nat, NEW y \in 0 .. h - 1, NEW x \in 0 .. s - 1
  PROVE  y * s + x \in 0 .. s * h - 1
<1>1. (y + 1) * s <= h * s
  <2>1. h - (y + 1) \in Nat
    OBVIOUS
  <2>2. (h - (y + 1)) * s \in Nat
    BY <2>1
  <2> QED
    BY <2>2
<1>2. y * s \in Nat
  OBVIOUS
<1>3. (y + 1) * s = y * s + s
  OBVIOUS
<1>4. h * s = s * h
  OBVIOUS
<1> QED
  BY <1>1, <1>2, <1>3, <1>4

LEMMA LineInjective ==
  ASSUME NEW s \in Nat,
         NEW y1 \in Nat, NEW x1 \in 0 .. s - 1,
         NEW y2 \in Nat, NEW x2 \in 0 .. s - 1,
         y1 * s + x1 = y2 * s + x2
  PROVE  y1 = y2 /\ x1 = x2
<1>1. ASSUME NEW a \in Nat, NEW b \in Nat, a < b
      PROVE  a * s + s <= b * s
  <2>1. b - (a + 1) \in Nat
    BY <1>1
  <2>2. (b - (a + 1)) * s \in Nat
    BY <2>1
  <2> QED
    BY <2>2
<1>2. y1 * s \in Nat /\ y2 * s \in Nat
  OBVIOUS
<1>3. ~ (y1 < y2)
  BY <1>1, <1>2
<1>4. ~ (y2 < y1)
  BY <1>1, <1>2
<1>5. y1 = y2
  BY <1>3, <1>4
<1> QED
  BY <1>2, <1>5

-----------------------------------------------------------------------------

LEMMA PlaneFields ==
  ASSUME NEW planes, WellFormed(planes)
  PROVE  /\ Len(planes) \in 1 .. 3
         /\ \A i \in 1 .. Len(planes) :
               /\ planes[i].line \in Nat
               /\ planes[i].height \in Nat
               /\ planes[i].stride \in Nat
               /\ planes[i].size \in Nat
               /\ planes[i].line <= planes[i].stride
               /\ planes[i].size = planes[i].stride * planes[i].height
<1>1. Len(planes) \in 1 .. 3
  BY DEF WellFormed
<1>2. ASSUME NEW i \in 1 .. Len(planes)
      PROVE  planes[i] \in PlaneType
  BY <1>2 DEF WellFormed
<1>3. ASSUME NEW i \in 1 .. Len(planes)
      PROVE  /\ planes[i].line \in Nat
             /\ planes[i].height \in Nat
             /\ planes[i].stride \in Nat
             /\ planes[i].size \in Nat
  BY <1>2 DEF PlaneType
<1> QED
  BY <1>1, <1>3 DEF WellFormed

\* Planes follow each other in the buffer and in the file.
LEMMA PlanesApart ==
  ASSUME NEW planes, WellFormed(planes), NEW i \in 1 .. Len(planes)
  PROVE  /\ Base(planes, i) \in Nat
         /\ TotalSize(planes) \in Nat
         /\ Base(planes, i) + planes[i].size <= TotalSize(planes)
         /\ \A j \in 1 .. Len(planes) :
               i < j => Base(planes, i) + planes[i].size <= Base(planes, j)
<1>1. \A j \in 1 .. Len(planes) : planes[j].size \in Nat
  BY PlaneFields
<1>2. Len(planes) \in 1 .. 3
  BY PlaneFields
<1>3. CASE Len(planes) = 1
  <2>1. i = 1 /\ planes[1].size \in Nat
    BY <1>1, <1>3
  <2> QED
    BY <1>3, <2>1 DEF Base, TotalSize
<1>4. CASE Len(planes) = 2
  <2>1. i \in {1, 2} /\ planes[1].size \in Nat /\ planes[2].size \in Nat
    BY <1>1, <1>4
  <2> QED
    BY <1>4, <2>1 DEF Base, TotalSize
<1>5. CASE Len(planes) = 3
  <2>1. /\ i \in {1, 2, 3}
        /\ planes[1].size \in Nat /\ planes[2].size \in Nat /\ planes[3].size \in Nat
    BY <1>1, <1>5
  <2> QED
    BY <1>5, <2>1 DEF Base, TotalSize
<1> QED
  BY <1>2, <1>3, <1>4, <1>5

LEMMA HeldApart ==
  ASSUME NEW planes, WellFormed(planes), NEW i \in 1 .. Len(planes)
  PROVE  /\ Skipped(planes, i) \in Nat
         /\ Held(planes, i) \in Nat
         /\ FileSize(planes) \in Nat
         /\ Skipped(planes, i) + Held(planes, i) <= FileSize(planes)
         /\ \A j \in 1 .. Len(planes) :
               i < j => Skipped(planes, i) + Held(planes, i) <= Skipped(planes, j)
<1>1. \A j \in 1 .. Len(planes) : Held(planes, j) \in Nat
  <2>1. \A j \in 1 .. Len(planes) : planes[j].line \in Nat /\ planes[j].height \in Nat
    BY PlaneFields
  <2> QED
    BY <2>1 DEF Held
<1>2. Len(planes) \in 1 .. 3
  BY PlaneFields
<1>3. CASE Len(planes) = 1
  <2>1. i = 1 /\ Held(planes, 1) \in Nat
    BY <1>1, <1>3
  <2> QED
    BY <1>3, <2>1 DEF Skipped, FileSize
<1>4. CASE Len(planes) = 2
  <2>1. i \in {1, 2} /\ Held(planes, 1) \in Nat /\ Held(planes, 2) \in Nat
    BY <1>1, <1>4
  <2> QED
    BY <1>4, <2>1 DEF Skipped, FileSize
<1>5. CASE Len(planes) = 3
  <2>1. /\ i \in {1, 2, 3}
        /\ Held(planes, 1) \in Nat /\ Held(planes, 2) \in Nat /\ Held(planes, 3) \in Nat
    BY <1>1, <1>5
  <2> QED
    BY <1>5, <2>1 DEF Skipped, FileSize
<1> QED
  BY <1>2, <1>3, <1>4, <1>5

LEMMA AtIsOffset ==
  ASSUME NEW planes, NEW i, NEW x \in Int, NEW y \in Int,
         Base(planes, i) \in Int, planes[i].stride \in Int
  PROVE  At(planes, i, x, y) = Base(planes, i) + (y * planes[i].stride + x)
<1> DEFINE b == Base(planes, i)
           s == planes[i].stride
<1>1. b \in Int /\ s \in Int
  OBVIOUS
<1>2. At(planes, i, x, y) = b + y * s + x
  BY DEF At
<1> HIDE DEF b, s
<1>3. b + y * s + x = b + (y * s + x)
  BY <1>1
<1> QED
  BY <1>2, <1>3 DEF b, s

\* A byte of a line of a plane is inside that plane's part of the buffer.
LEMMA AtInside ==
  ASSUME NEW planes, WellFormed(planes), NEW i \in 1 .. Len(planes),
         NEW y \in 0 .. planes[i].height - 1, NEW x \in 0 .. planes[i].stride - 1
  PROVE  /\ At(planes, i, x, y) \in
               Base(planes, i) .. Base(planes, i) + planes[i].size - 1
         /\ At(planes, i, x, y) \in 0 .. TotalSize(planes) - 1
<1>1. /\ planes[i].stride \in Nat
      /\ planes[i].height \in Nat
      /\ planes[i].size \in Nat
      /\ planes[i].size = planes[i].stride * planes[i].height
  BY PlaneFields
<1>2. y * planes[i].stride + x \in 0 .. planes[i].stride * planes[i].height - 1
  BY <1>1, LineInside
<1>3. y * planes[i].stride \in Nat /\ x \in Nat
  BY <1>1
<1>4. /\ Base(planes, i) \in Nat
      /\ TotalSize(planes) \in Nat
      /\ Base(planes, i) + planes[i].size <= TotalSize(planes)
  BY PlanesApart
<1>5. At(planes, i, x, y) = Base(planes, i) + (y * planes[i].stride + x)
  BY <1>1, <1>4, AtIsOffset
<1> DEFINE b == Base(planes, i)
           n == y * planes[i].stride + x
           z == planes[i].size
           t == TotalSize(planes)
<1>6. /\ b \in Nat /\ z \in Nat /\ t \in Nat /\ b + z <= t
      /\ n \in 0 .. z - 1
  BY <1>1, <1>2, <1>4
<1> HIDE DEF b, n, z, t
<1>7. b + n \in b .. b + z - 1 /\ b + n \in 0 .. t - 1
  BY <1>6
<1> QED
  BY <1>5, <1>7 DEF b, n, z, t

\* Two bytes of a buffer are at one address only when they are the same byte.
LEMMA AtInjective ==
  ASSUME NEW planes, WellFormed(planes),
         NEW i \in 1 .. Len(planes), NEW j \in 1 .. Len(planes),
         NEW y1 \in 0 .. planes[i].height - 1, NEW x1 \in 0 .. planes[i].stride - 1,
         NEW y2 \in 0 .. planes[j].height - 1, NEW x2 \in 0 .. planes[j].stride - 1,
         At(planes, i, x1, y1) = At(planes, j, x2, y2)
  PROVE  i = j /\ x1 = x2 /\ y1 = y2
<1>1. /\ At(planes, i, x1, y1) \in
            Base(planes, i) .. Base(planes, i) + planes[i].size - 1
      /\ At(planes, j, x2, y2) \in
            Base(planes, j) .. Base(planes, j) + planes[j].size - 1
  BY AtInside
<1>2. /\ Base(planes, i) \in Nat /\ planes[i].size \in Nat
      /\ Base(planes, j) \in Nat /\ planes[j].size \in Nat
      /\ i < j => Base(planes, i) + planes[i].size <= Base(planes, j)
      /\ j < i => Base(planes, j) + planes[j].size <= Base(planes, i)
  BY PlanesApart, PlaneFields
<1>3. i \in Int /\ j \in Int
  BY PlaneFields
<1>4. i = j
  <2> DEFINE a == At(planes, i, x1, y1)
             bi == Base(planes, i)
             bj == Base(planes, j)
             si == planes[i].size
             sj == planes[j].size
  <2>1. /\ a \in bi .. bi + si - 1
        /\ a \in bj .. bj + sj - 1
        /\ bi \in Nat /\ si \in Nat /\ bj \in Nat /\ sj \in Nat
        /\ i < j => bi + si <= bj
        /\ j < i => bj + sj <= bi
    BY <1>1, <1>2
  <2> HIDE DEF a, bi, bj, si, sj
  <2>2. ~ (i < j) /\ ~ (j < i)
    BY ONLY <2>1
  <2> QED
    BY <1>3, <2>2
<1>5. planes[i].stride \in Nat /\ planes[i].height \in Nat
  BY PlaneFields
<1>6. y1 \in Nat /\ y2 \in Nat /\ y1 * planes[i].stride \in Nat /\ y2 * planes[i].stride \in Nat
  BY <1>4, <1>5
<1> DEFINE b == Base(planes, i)
           s == planes[i].stride
           n1 == y1 * s + x1
           n2 == y2 * s + x2
<1>7. b + n1 = b + n2
  <2>1. At(planes, i, x1, y1) = b + n1
    BY <1>2, <1>5, AtIsOffset
  <2>2. At(planes, i, x2, y2) = b + n2
    BY <1>2, <1>4, <1>5, AtIsOffset
  <2> QED
    BY <1>4, <2>1, <2>2
<1>8. n1 = n2
  <2>1. b \in Int /\ n1 \in Int /\ n2 \in Int
    BY <1>2, <1>4, <1>6
  <2> HIDE DEF b, n1, n2
  <2> QED
    BY <1>7, <2>1
<1>9. y1 = y2 /\ x1 = x2
  <2>1. /\ s \in Nat /\ x1 \in 0 .. s - 1 /\ x2 \in 0 .. s - 1
        /\ y1 \in Nat /\ y2 \in Nat
    BY <1>4, <1>5, <1>6
  <2>2. y1 * s + x1 = y2 * s + x2
    BY <1>8
  <2> HIDE DEF s
  <2> QED
    BY ONLY <2>1, <2>2, LineInjective
<1> QED
  BY <1>4, <1>9

-----------------------------------------------------------------------------

LEMMA DivisionInside ==
  ASSUME NEW d \in Nat, NEW h \in Nat, NEW n \in 0 .. d * h - 1
  PROVE  /\ d > 0
         /\ n % d \in 0 .. d - 1
         /\ n \div d \in 0 .. h - 1
         /\ n = d * (n \div d) + (n % d)
<1>1. d > 0
  <2>1. CASE d = 0
    <3>1. d * h = 0
      BY <2>1
    <3> QED
      BY <3>1
  <2> QED
    BY <2>1
<1>2. n \in Nat /\ n < d * h
  OBVIOUS
<1>3. /\ n % d \in 0 .. d - 1
      /\ n \div d \in Nat
      /\ n = d * (n \div d) + (n % d)
  BY <1>1, <1>2
<1>4. n \div d < h
  <2> DEFINE q == n \div d
  <2>1. q \in Nat /\ d * q <= n
    BY <1>1, <1>2, <1>3
  <2> HIDE DEF q
  <2>2. ASSUME h <= q
        PROVE  FALSE
    <3>1. q - h \in Nat
      BY <2>1, <2>2
    <3>2. d * (q - h) \in Nat
      BY <3>1
    <3>3. d * (q - h) = d * q - d * h
      BY <2>1
    <3> QED
      BY <1>2, <2>1, <3>2, <3>3
  <2> QED
    BY <2>1, <2>2 DEF q
<1> QED
  BY <1>1, <1>3, <1>4

\* Every byte of the file belongs to one plane.
LEMMA PlaneOfByte ==
  ASSUME NEW planes, WellFormed(planes), NEW k \in 0 .. FileSize(planes) - 1
  PROVE  \E i \in 1 .. Len(planes) :
            /\ Skipped(planes, i) <= k
            /\ k < Skipped(planes, i) + Held(planes, i)
<1>1. \A j \in 1 .. Len(planes) : Held(planes, j) \in Nat
  BY HeldApart
<1>2. Len(planes) \in 1 .. 3
  BY PlaneFields
<1>3. CASE Len(planes) = 1
  <2>1. Held(planes, 1) \in Nat
    BY <1>1, <1>3
  <2> QED
    BY <1>3, <2>1 DEF Skipped, FileSize
<1>4. CASE Len(planes) = 2
  <2>1. Held(planes, 1) \in Nat /\ Held(planes, 2) \in Nat
    BY <1>1, <1>4
  <2>2. \/ k < Held(planes, 1)
        \/ Held(planes, 1) <= k /\ k < Held(planes, 1) + Held(planes, 2)
    BY <1>4, <2>1 DEF Skipped, FileSize
  <2> QED
    BY <1>4, <2>1, <2>2 DEF Skipped
<1>5. CASE Len(planes) = 3
  <2>1. /\ Held(planes, 1) \in Nat /\ Held(planes, 2) \in Nat
        /\ Held(planes, 3) \in Nat
    BY <1>1, <1>5
  <2>2. \/ k < Held(planes, 1)
        \/ Held(planes, 1) <= k /\ k < Held(planes, 1) + Held(planes, 2)
        \/ /\ Held(planes, 1) + Held(planes, 2) <= k
           /\ k < Held(planes, 1) + Held(planes, 2) + Held(planes, 3)
    BY <1>5, <2>1 DEF Skipped, FileSize
  <2> QED
    BY <1>5, <2>1, <2>2 DEF Skipped
<1> QED
  BY <1>2, <1>3, <1>4, <1>5

LEMMA InBufferIsAt ==
  ASSUME NEW planes, WellFormed(planes), NEW k \in 0 .. FileSize(planes) - 1
  PROVE  \E i \in 1 .. Len(planes) :
         \E x \in 0 .. planes[i].line - 1, y \in 0 .. planes[i].height - 1 :
            /\ InBuffer(planes, k) = At(planes, i, x, y)
            /\ k = Skipped(planes, i) + (planes[i].line * y + x)
<1> DEFINE Of(j) == /\ Skipped(planes, j) <= k
                    /\ k < Skipped(planes, j) + Held(planes, j)
           i == CHOOSE j \in 1 .. Len(planes) : Of(j)
           n == k - Skipped(planes, i)
           d == planes[i].line
<1>1. i \in 1 .. Len(planes) /\ Of(i)
  BY PlaneOfByte
<1>2. InBuffer(planes, k) = At(planes, i, n % d, n \div d)
  BY DEF InBuffer
<1> HIDE DEF i
<1>3. /\ Skipped(planes, i) \in Nat
      /\ Held(planes, i) = planes[i].line * planes[i].height
  BY <1>1, HeldApart DEF Held
<1>4. d \in Nat /\ planes[i].height \in Nat
  BY <1>1, PlaneFields
<1>5. k \in Int
  OBVIOUS
<1>6. n \in 0 .. d * planes[i].height - 1
  BY <1>1, <1>3, <1>4, <1>5
<1> HIDE DEF n, d
<1>7. /\ n % d \in 0 .. d - 1
      /\ n \div d \in 0 .. planes[i].height - 1
      /\ n = d * (n \div d) + (n % d)
  BY ONLY <1>4, <1>6, DivisionInside
<1>8. k = Skipped(planes, i) + n
  BY <1>3, <1>5 DEF n
<1>9. k = Skipped(planes, i) + (d * (n \div d) + (n % d))
  BY <1>7, <1>8
<1>10. /\ n % d \in 0 .. planes[i].line - 1
       /\ n \div d \in 0 .. planes[i].height - 1
       /\ InBuffer(planes, k) = At(planes, i, n % d, n \div d)
       /\ k = Skipped(planes, i) + (planes[i].line * (n \div d) + (n % d))
  BY <1>2, <1>7, <1>9 DEF d
<1> HIDE DEF Of
<1> QED
  BY ONLY <1>1, <1>10

LEMMA LineInStride ==
  ASSUME NEW planes, WellFormed(planes), NEW i \in 1 .. Len(planes),
         NEW x \in 0 .. planes[i].line - 1
  PROVE  x \in 0 .. planes[i].stride - 1
<1>1. /\ planes[i].line \in Nat /\ planes[i].stride \in Nat
      /\ planes[i].line <= planes[i].stride
  BY PlaneFields
<1> QED
  BY <1>1

LEMMA InBufferInside ==
  ASSUME NEW planes, WellFormed(planes), NEW k \in 0 .. FileSize(planes) - 1
  PROVE  InBuffer(planes, k) \in 0 .. TotalSize(planes) - 1
<1>1. PICK i \in 1 .. Len(planes) :
         \E x \in 0 .. planes[i].line - 1, y \in 0 .. planes[i].height - 1 :
            InBuffer(planes, k) = At(planes, i, x, y)
  BY InBufferIsAt
<1>2. PICK x \in 0 .. planes[i].line - 1, y \in 0 .. planes[i].height - 1 :
         InBuffer(planes, k) = At(planes, i, x, y)
  BY <1>1
<1>3. x \in 0 .. planes[i].stride - 1
  BY LineInStride
<1>4. At(planes, i, x, y) \in 0 .. TotalSize(planes) - 1
  BY <1>3, AtInside
<1> QED
  BY <1>2, <1>4

LEMMA InBufferInjective ==
  ASSUME NEW planes, WellFormed(planes),
         NEW k \in 0 .. FileSize(planes) - 1, NEW l \in 0 .. FileSize(planes) - 1,
         InBuffer(planes, k) = InBuffer(planes, l)
  PROVE  k = l
<1>1. PICK i \in 1 .. Len(planes) :
         \E x \in 0 .. planes[i].line - 1, y \in 0 .. planes[i].height - 1 :
            /\ InBuffer(planes, k) = At(planes, i, x, y)
            /\ k = Skipped(planes, i) + (planes[i].line * y + x)
  BY InBufferIsAt
<1>2. PICK x \in 0 .. planes[i].line - 1, y \in 0 .. planes[i].height - 1 :
         /\ InBuffer(planes, k) = At(planes, i, x, y)
         /\ k = Skipped(planes, i) + (planes[i].line * y + x)
  BY <1>1
<1>3. PICK j \in 1 .. Len(planes) :
         \E x2 \in 0 .. planes[j].line - 1, y2 \in 0 .. planes[j].height - 1 :
            /\ InBuffer(planes, l) = At(planes, j, x2, y2)
            /\ l = Skipped(planes, j) + (planes[j].line * y2 + x2)
  BY InBufferIsAt
<1>4. PICK x2 \in 0 .. planes[j].line - 1, y2 \in 0 .. planes[j].height - 1 :
         /\ InBuffer(planes, l) = At(planes, j, x2, y2)
         /\ l = Skipped(planes, j) + (planes[j].line * y2 + x2)
  BY <1>3
<1>5. x \in 0 .. planes[i].stride - 1
  BY LineInStride
<1>6. x2 \in 0 .. planes[j].stride - 1
  BY LineInStride
<1>7. At(planes, i, x, y) = At(planes, j, x2, y2)
  BY <1>2, <1>4
<1>8. i = j /\ x = x2 /\ y = y2
  BY <1>5, <1>6, <1>7, AtInjective
<1> QED
  BY <1>2, <1>4, <1>8

\* What vf_framebuffer_read_from_file stores are bytes of the buffer, and no
\* byte of the file lands where another does, whatever the padding.
THEOREM FileBytesKeptApart ==
  ASSUME NEW format \in Formats, NEW w \in Nat, NEW h \in Nat
  PROVE  LET planes == Planes(format, w, h)
         IN  \A k, l \in 0 .. FileSize(planes) - 1 :
                /\ InBuffer(planes, k) \in 0 .. TotalSize(planes) - 1
                /\ InBuffer(planes, k) = InBuffer(planes, l) => k = l
<1>1. WellFormed(Planes(format, w, h))
  BY PlanesWellFormed
<1> QED
  BY <1>1, InBufferInside, InBufferInjective

\* Writing a buffer that was read from a file gives that file again: both
\* functions step over the padding in the same way, for every format and size.
THEOREM FileReturns ==
  ASSUME NEW format \in Formats, NEW w \in Nat, NEW h \in Nat,
         NEW buffer, DOMAIN buffer = 0 .. TotalSize(Planes(format, w, h)) - 1,
         NEW Bytes,
         NEW file \in [0 .. FileSize(Planes(format, w, h)) - 1 -> Bytes]
  PROVE  LET planes == Planes(format, w, h)
         IN  WriteToFile(planes, ReadFromFile(planes, buffer, file)) = file
<1> DEFINE planes == Planes(format, w, h)
           K == 0 .. FileSize(planes) - 1
           stores == {<<InBuffer(planes, k), file[k]>> : k \in K}
           read == ReadFromFile(planes, buffer, file)
<1>1. WellFormed(planes)
  BY PlanesWellFormed
<1> HIDE DEF planes
<1>2. read = Overlay(buffer, stores)
  BY DEF ReadFromFile
<1>3. ASSUME NEW k \in K
      PROVE  read[InBuffer(planes, k)] = file[k]
  <2> DEFINE a == InBuffer(planes, k)
  <2>1. a \in DOMAIN buffer
    BY <1>1, InBufferInside DEF planes
  <2>2. <<a, file[k]>> \in stores /\ <<a, file[k]>>[1] = a
    OBVIOUS
  <2>3. ASSUME NEW s \in stores, s[1] = a
        PROVE  s[2] = file[k]
    <3>1. PICK l \in K : s = <<InBuffer(planes, l), file[l]>>
      OBVIOUS
    <3>2. InBuffer(planes, l) = InBuffer(planes, k)
      BY <2>3, <3>1
    <3>3. l = k
      BY <1>1, <3>2, InBufferInjective
    <3> QED
      BY <3>1, <3>3
  <2> HIDE DEF a, stores
  <2>4. read[a] = (CHOOSE s \in stores : s[1] = a)[2]
    BY <1>2, <2>1, <2>2 DEF Overlay
  <2>5. /\ (CHOOSE s \in stores : s[1] = a) \in stores
        /\ (CHOOSE s \in stores : s[1] = a)[1] = a
    BY <2>2
  <2> QED
    BY <2>3, <2>4, <2>5 DEF a
<1>4. WriteToFile(planes, read) = [k \in K |-> read[InBuffer(planes, k)]]
  BY DEF WriteToFile
<1>5. file \in [K -> Bytes]
  BY DEF planes
<1> HIDE DEF read
<1>6. WriteToFile(planes, read) = file
  BY <1>3, <1>4, <1>5
<1> QED
  BY <1>6 DEF planes, read

-----------------------------------------------------------------------------
(* The pixel arithmetic, for every pixel, and the walks over the planes,    *)
(* for every size both formats have room for and every alignment of        *)
(* strides.                                                                *)

LEMMA Shift8Bounds ==
  ASSUME NEW n \in Int
  PROVE  /\ Shift8(n) \in Int
         /\ 256 * Shift8(n) <= n
         /\ n < 256 * Shift8(n) + 256
  BY DEF Shift8

LEMMA Shift8Range ==
  /\ \A n \in Int : 0 <= n /\ n <= 56228 => Shift8(n) \in 0 .. 219
  /\ \A n \in Int : -28432 <= n /\ n <= 28688 => Shift8(n) \in -112 .. 112
<1>1. ASSUME NEW n \in Int, 0 <= n, n <= 56228
      PROVE  Shift8(n) \in 0 .. 219
  <2> DEFINE k == Shift8(n)
  <2>1. k \in Int /\ 256 * k <= n /\ n < 256 * k + 256
    BY Shift8Bounds
  <2> HIDE DEF k
  <2>2. k \in 0 .. 219
    BY <1>1, <2>1
  <2> QED
    BY <2>2 DEF k
<1>2. ASSUME NEW n \in Int, -28432 <= n, n <= 28688
      PROVE  Shift8(n) \in -112 .. 112
  <2> DEFINE k == Shift8(n)
  <2>1. k \in Int /\ 256 * k <= n /\ n < 256 * k + 256
    BY Shift8Bounds
  <2> HIDE DEF k
  <2>2. k \in -112 .. 112
    BY <1>2, <2>1
  <2> QED
    BY <2>2 DEF k
<1> QED
  BY <1>1, <1>2

\* What rgb_to_y, rgb_to_u and rgb_to_v return without their clipping.
LEMMA EncodeUnclipped ==
  ASSUME NEW r \in Byte, NEW g \in Byte, NEW b \in Byte
  PROVE  /\ RgbToY(r, g, b) = Shift8(66 * r + 129 * g + 25 * b + 128) + 16
         /\ RgbToU(r, g, b) = Shift8(112 * b - 38 * r - 74 * g + 128) + 128
         /\ RgbToV(r, g, b) = Shift8(112 * r - 94 * g - 18 * b + 128) + 128
         /\ RgbToY(r, g, b) \in 16 .. 235
         /\ RgbToU(r, g, b) \in 16 .. 240
         /\ RgbToV(r, g, b) \in 16 .. 240
<1>1. Shift8(66 * r + 129 * g + 25 * b + 128) \in 0 .. 219
  <2>1. /\ 66 * r + 129 * g + 25 * b + 128 \in Int
        /\ 0 <= 66 * r + 129 * g + 25 * b + 128
        /\ 66 * r + 129 * g + 25 * b + 128 <= 56228
    BY DEF Byte
  <2> QED
    BY <2>1, Shift8Range
<1>2. Shift8(112 * b - 38 * r - 74 * g + 128) \in -112 .. 112
  <2>1. /\ 112 * b - 38 * r - 74 * g + 128 \in Int
        /\ -28432 <= 112 * b - 38 * r - 74 * g + 128
        /\ 112 * b - 38 * r - 74 * g + 128 <= 28688
    BY DEF Byte
  <2> QED
    BY <2>1, Shift8Range
<1>3. Shift8(112 * r - 94 * g - 18 * b + 128) \in -112 .. 112
  <2>1. /\ 112 * r - 94 * g - 18 * b + 128 \in Int
        /\ -28432 <= 112 * r - 94 * g - 18 * b + 128
        /\ 112 * r - 94 * g - 18 * b + 128 <= 28688
    BY DEF Byte
  <2> QED
    BY <2>1, Shift8Range
<1> QED
  BY <1>1, <1>2, <1>3 DEF RgbToY, RgbToU, RgbToV, ClipU8

\* Luma keeps to 16 .. 235 and chroma to 16 .. 240, the limited range that the
\* decoding formulas take for granted: rgb_to_y and its siblings never clip.
THEOREM EncodeLimitedRange ==
  ASSUME NEW p \in Byte \X Byte \X Byte
  PROVE  Encode(p) \in (16 .. 235) \X (16 .. 240) \X (16 .. 240)
<1>0. p[1] \in Byte /\ p[2] \in Byte /\ p[3] \in Byte
  OBVIOUS
<1> QED
  BY <1>0, EncodeUnclipped DEF Encode

\* A grey pixel has neutral chroma: nothing of its colour is left in U and V.
THEOREM GreyIsNeutral ==
  ASSUME NEW n \in Byte
  PROVE  /\ RgbToU(n, n, n) = 128
         /\ RgbToV(n, n, n) = 128
<1>1. /\ 112 * n - 38 * n - 74 * n + 128 = 128
      /\ 112 * n - 94 * n - 18 * n + 128 = 128
  BY DEF Byte
<1>2. Shift8(128) = 0
  BY DEF Shift8
<1> QED
  BY <1>1, <1>2 DEF RgbToU, RgbToV, ClipU8

-----------------------------------------------------------------------------

LEMMA ClipNearest ==
  ASSUME NEW n \in Int
  PROVE  /\ Nearest(ClipU8(Shift8(n + 128)), n)
         /\ ClipU8(Shift8(n + 128)) \in Byte
<1> DEFINE k == Shift8(n + 128)
<1>1. /\ k \in Int
      /\ 256 * k <= n + 128
      /\ n + 128 < 256 * k + 256
  <2>1. n + 128 \in Int
    OBVIOUS
  <2> QED
    BY <2>1, Shift8Bounds
<1> SUFFICES /\ Nearest(ClipU8(k), n)
             /\ ClipU8(k) \in Byte
  OBVIOUS
<1> HIDE DEF k
<1>2. CASE k < 0
  <2>1. ClipU8(k) = 0 /\ n < 0
    BY <1>1, <1>2 DEF ClipU8
  <2> QED
    BY <2>1 DEF Nearest, Byte
<1>3. CASE k > 255
  <2>1. ClipU8(k) = 255
    BY <1>1, <1>3 DEF ClipU8
  <2>2. n >= 256 * 256 - 128
    BY <1>1, <1>3
  <2>3. n > 255 * 256
    BY <2>2
  <2> QED
    BY <2>1, <2>3 DEF Nearest, Byte
<1>4. CASE k \in 0 .. 255
  <2>1. ClipU8(k) = k
    BY <1>4 DEF ClipU8
  <2>2. 256 * k - n \in -128 .. 128
    BY <1>1
  <2> QED
    BY <1>4, <2>1, <2>2 DEF Nearest, Byte
<1> QED
  BY <1>1, <1>2, <1>3, <1>4

\* Shifting what is already at an offset within the range of a byte.
LEMMA OffsetNearest ==
  ASSUME NEW n \in Int, NEW off \in Int, Shift8(n + 128) + off \in Byte
  PROVE  Nearest(Shift8(n + 128) + off, n + off * 256)
<1>1. n + 128 \in Int
  OBVIOUS
<1>2. /\ Shift8(n + 128) \in Int
      /\ 256 * Shift8(n + 128) <= n + 128
      /\ n + 128 < 256 * Shift8(n + 128) + 256
  BY <1>1, Shift8Bounds
<1> DEFINE k == Shift8(n + 128)
<1> HIDE DEF k
<1>3. /\ k \in Int
      /\ 256 * k <= n + 128
      /\ n + 128 < 256 * k + 256
  BY <1>2 DEF k
<1>4. 256 * (k + off) - (n + off * 256) = 256 * k - n
  BY <1>3
<1>5. 256 * k - n \in -128 .. 128
  BY <1>3
<1>6. 256 * (Shift8(n + 128) + off) - (n + off * 256) \in -128 .. 128
  BY <1>4, <1>5 DEF k
<1> QED
  BY <1>6 DEF Nearest

LEMMA EncodeNearest ==
  ASSUME NEW r \in Byte, NEW g \in Byte, NEW b \in Byte
  PROVE  /\ Nearest(RgbToY(r, g, b), 66 * r + 129 * g + 25 * b + 16 * 256)
         /\ Nearest(RgbToU(r, g, b), 112 * b - 38 * r - 74 * g + 128 * 256)
         /\ Nearest(RgbToV(r, g, b), 112 * r - 94 * g - 18 * b + 128 * 256)
<1>0. /\ 66 * r + 129 * g + 25 * b \in Int
      /\ 112 * b - 38 * r - 74 * g \in Int
      /\ 112 * r - 94 * g - 18 * b \in Int
  BY DEF Byte
<1>1. /\ RgbToY(r, g, b) \in Byte
      /\ RgbToU(r, g, b) \in Byte
      /\ RgbToV(r, g, b) \in Byte
  <2>1. /\ RgbToY(r, g, b) \in 16 .. 235
        /\ RgbToU(r, g, b) \in 16 .. 240
        /\ RgbToV(r, g, b) \in 16 .. 240
    BY EncodeUnclipped
  <2> QED
    BY <2>1 DEF Byte
<1>2. RgbToY(r, g, b) = Shift8(66 * r + 129 * g + 25 * b + 128) + 16
  BY EncodeUnclipped
<1>3. RgbToU(r, g, b) = Shift8(112 * b - 38 * r - 74 * g + 128) + 128
  BY EncodeUnclipped
<1>4. RgbToV(r, g, b) = Shift8(112 * r - 94 * g - 18 * b + 128) + 128
  BY EncodeUnclipped
<1>5. Nearest(RgbToY(r, g, b), 66 * r + 129 * g + 25 * b + 16 * 256)
  BY <1>0, <1>1, <1>2, OffsetNearest
<1>6. Nearest(RgbToU(r, g, b), 112 * b - 38 * r - 74 * g + 128 * 256)
  BY <1>0, <1>1, <1>3, OffsetNearest
<1>7. Nearest(RgbToV(r, g, b), 112 * r - 94 * g - 18 * b + 128 * 256)
  BY <1>0, <1>1, <1>4, OffsetNearest
<1> QED
  BY <1>5, <1>6, <1>7

\* The colour of a pixel that any conversion of the table computes is the
\* nearest to the exact formula in every component, clipped where that leaves
\* the range of a byte (rgb_to_y .. yuv_to_b); RAW8 is taken over unchanged.
THEOREM ColoursNearest ==
  ASSUME NEW p \in Byte \X Byte \X Byte, NEW from, NEW to,
         <<from, to>> \in Supported, <<from, to>> # <<"RAW8", "YUV420P">>
  PROVE  SameColour(from, to, p, Colour(from, to, p))
<1>0. p[1] \in Byte /\ p[2] \in Byte /\ p[3] \in Byte
  OBVIOUS
<1>1. CASE from \in {"RGB888", "BGR888"}
  <2> DEFINE q == Encode(p)
  <2>1. Colour(from, to, p) = q
    BY <1>1, Zenon DEF Colour
  <2>2. /\ q[1] = RgbToY(p[1], p[2], p[3])
        /\ q[2] = RgbToU(p[1], p[2], p[3])
        /\ q[3] = RgbToV(p[1], p[2], p[3])
    BY DEF Encode
  <2>3. /\ Nearest(q[1], 66 * p[1] + 129 * p[2] + 25 * p[3] + 16 * 256)
        /\ Nearest(q[2], 112 * p[3] - 38 * p[1] - 74 * p[2] + 128 * 256)
        /\ Nearest(q[3], 112 * p[1] - 94 * p[2] - 18 * p[3] + 128 * 256)
    BY <1>0, <2>2, EncodeNearest
  <2> HIDE DEF q
  <2>4. SameColour(from, to, p, q)
    BY <1>1, <2>3, Zenon DEF SameColour
  <2> QED
    BY <2>1, <2>4
<1>2. CASE from \in {"YUV420P", "NV12", "YUYV"}
  <2> DEFINE c == p[1] - 16
             d == p[2] - 128
             e == p[3] - 128
             q == Decode(p)
  <2>1. Colour(from, to, p) = q
    BY <1>2 DEF Colour
  <2>2. c \in Int /\ d \in Int /\ e \in Int
    BY <1>0 DEF Byte
  <2>3. /\ 298 * c + 409 * e \in Int
        /\ 298 * c - 100 * d - 208 * e \in Int
        /\ 298 * c + 516 * d \in Int
    BY <2>2
  <2>4. /\ Nearest(YuvToR(c, e), 298 * c + 409 * e)
        /\ Nearest(YuvToG(c, d, e), 298 * c - 100 * d - 208 * e)
        /\ Nearest(YuvToB(c, d), 298 * c + 516 * d)
    BY <2>3, ClipNearest DEF YuvToR, YuvToG, YuvToB
  <2>5. /\ q[1] = YuvToR(c, e)
        /\ q[2] = YuvToG(c, d, e)
        /\ q[3] = YuvToB(c, d)
    BY DEF Decode
  <2> HIDE DEF q
  <2>6. SameColour(from, to, p, q)
    BY <1>2, <2>4, <2>5 DEF SameColour
  <2> QED
    BY <2>1, <2>6
<1>3. CASE from = "RAW8"
  <2>1. to = "RGB888"
    BY <1>3 DEF Supported
  <2>2. Colour(from, to, p) = p
    BY <1>3 DEF Colour
  <2> QED
    BY <1>3, <2>1, <2>2 DEF SameColour
<1> QED
  BY <1>1, <1>2, <1>3 DEF Supported

-----------------------------------------------------------------------------

\* The plane, the byte of the line and the line of component k of a pixel.
Where(format, k, x, y) ==
    CASE format = "RGB888"            -> <<1, 3 * x + k - 1, y>>
      [] format = "BGR888"            -> <<1, 3 * x + 3 - k, y>>
      [] format = "RAW8"              -> <<1, x, y>>
      [] format = "YUYV" /\ k = 1     -> <<1, 2 * x, y>>
      [] format = "YUYV" /\ k # 1     -> <<1, 4 * (x \div 2) + 2 * k - 3, y>>
      [] format = "YUV420P" /\ k = 1  -> <<1, x, y>>
      [] format = "YUV420P" /\ k # 1  -> <<k, x \div 2, y \div 2>>
      [] format = "NV12" /\ k = 1     -> <<1, x, y>>
      [] format = "NV12" /\ k # 1     -> <<2, 2 * (x \div 2) + k - 2, y \div 2>>

Converted == {"RGB888", "BGR888", "RAW8", "YUYV", "YUV420P", "NV12"}

LEMMA AddressIsWhere ==
  ASSUME NEW format \in Converted, NEW planes, NEW x \in Int, NEW y \in Int,
         NEW k \in {1, 2, 3}
  PROVE  LET p == Where(format, k, x, y)
         IN  Address(format, planes, x, y)[k] = At(planes, p[1], p[2], p[3])
<1>1. CASE format = "RGB888"
  BY <1>1 DEF Address, Where
<1>2. CASE format = "BGR888"
  BY <1>2 DEF Address, Where
<1>3. CASE format = "RAW8"
  BY <1>3 DEF Address, Where
<1>4. CASE format = "YUYV"
  BY <1>4 DEF Address, Where
<1>5. CASE format = "YUV420P"
  BY <1>5 DEF Address, Where
<1>6. CASE format = "NV12"
  BY <1>6 DEF Address, Where
<1> QED
  BY <1>1, <1>2, <1>3, <1>4, <1>5, <1>6 DEF Converted

LEMMA WhereInside ==
  ASSUME NEW format \in Converted, NEW w \in Nat, NEW h \in Nat,
         Fits(format, w, h),
         NEW x \in 0 .. w - 1, NEW y \in 0 .. h - 1, NEW k \in {1, 2, 3}
  PROVE  LET p == Where(format, k, x, y)
             planes == Planes(format, w, h)
         IN  /\ p[1] \in 1 .. Len(planes)
             /\ p[2] \in 0 .. planes[p[1]].line - 1
             /\ p[3] \in 0 .. planes[p[1]].height - 1
<1>0. /\ format \in {"YUV420P", "NV12", "YUYV"} =>
            x \div 2 \in 0 .. w \div 2 - 1 /\ 2 * (w \div 2) = w
      /\ format \in {"YUV420P", "NV12"} => y \div 2 \in 0 .. h \div 2 - 1
      /\ w \div 2 \in Nat
      /\ h \div 2 \in Nat
  BY DEF Fits
<1> DEFINE p == Where(format, k, x, y)
           planes == Planes(format, w, h)
<1>1. CASE format \in {"RGB888", "BGR888"}
  <2>1. planes = <<Plane((w * 24) \div 8, h)>>
    BY <1>1 DEF Planes, Packed, Bpp
  <2>2. (w * 24) \div 8 = 3 * w
    OBVIOUS
  <2>3. Len(planes) = 1 /\ planes[1].line = 3 * w /\ planes[1].height = h
    BY <2>1, <2>2 DEF Plane
  <2>4. /\ p[1] = 1 /\ p[3] = y
        /\ p[2] = 3 * x + k - 1 \/ p[2] = 3 * x + 3 - k
    BY <1>1 DEF Where
  <2> HIDE DEF p, planes
  <2>5. p[2] \in 0 .. 3 * w - 1
    BY <2>4
  <2> QED
    BY <2>3, <2>4, <2>5 DEF p, planes
<1>2. CASE format = "RAW8"
  <2>1. planes = <<Plane((w * 8) \div 8, h)>>
    BY <1>2 DEF Planes, Packed, Bpp
  <2>2. (w * 8) \div 8 = w
    OBVIOUS
  <2>3. Len(planes) = 1 /\ planes[1].line = w /\ planes[1].height = h
    BY <2>1, <2>2 DEF Plane
  <2>4. p[1] = 1 /\ p[2] = x /\ p[3] = y
    BY <1>2 DEF Where
  <2> QED
    BY <2>3, <2>4
<1>3. CASE format = "YUYV"
  <2>1. planes = <<Plane((w * 16) \div 8, h)>>
    BY <1>3 DEF Planes, Packed, Bpp
  <2>2. (w * 16) \div 8 = 2 * w
    OBVIOUS
  <2>3. Len(planes) = 1 /\ planes[1].line = 2 * w /\ planes[1].height = h
    BY <2>1, <2>2 DEF Plane
  <2>4. /\ p[1] = 1 /\ p[3] = y
        /\ p[2] \in {2 * x, 4 * (x \div 2) + 1, 4 * (x \div 2) + 3}
    BY <1>3 DEF Where
  <2> HIDE DEF p, planes
  <2>5. p[2] \in 0 .. 2 * w - 1
    BY <1>0, <1>3, <2>4
  <2> QED
    BY <2>3, <2>4, <2>5 DEF p, planes
<1>4. CASE format = "YUV420P"
  <2>1. planes = <<Plane(w, h), Plane(w \div 2, h \div 2), Plane(w \div 2, h \div 2)>>
    BY <1>4 DEF Planes, Packed, Bpp
  <2>2. /\ Len(planes) = 3 /\ planes[1].line = w /\ planes[1].height = h
        /\ planes[2].line = w \div 2 /\ planes[2].height = h \div 2
        /\ planes[3].line = w \div 2 /\ planes[3].height = h \div 2
    BY <2>1 DEF Plane
  <2>3. \/ p[1] = 1 /\ p[2] = x /\ p[3] = y
        \/ p[1] \in {2, 3} /\ p[2] = x \div 2 /\ p[3] = y \div 2
    BY <1>4 DEF Where
  <2>4. x \div 2 \in 0 .. w \div 2 - 1 /\ y \div 2 \in 0 .. h \div 2 - 1
    BY <1>0, <1>4
  <2> HIDE DEF p, planes
  <2> QED
    BY <2>2, <2>3, <2>4 DEF p, planes
<1>5. CASE format = "NV12"
  <2>1. planes = <<Plane(w, h), Plane(w, h \div 2)>>
    BY <1>5 DEF Planes, Packed, Bpp
  <2>2. /\ Len(planes) = 2 /\ planes[1].line = w /\ planes[1].height = h
        /\ planes[2].line = w /\ planes[2].height = h \div 2
    BY <2>1 DEF Plane
  <2>3. \/ p[1] = 1 /\ p[2] = x /\ p[3] = y
        \/ /\ p[1] = 2 /\ p[3] = y \div 2
           /\ p[2] \in {2 * (x \div 2), 2 * (x \div 2) + 1}
    BY <1>5 DEF Where
  <2> HIDE DEF p, planes
  <2>4. /\ 2 * (x \div 2) \in 0 .. w - 1
        /\ 2 * (x \div 2) + 1 \in 0 .. w - 1
    BY <1>0, <1>5
  <2>5. \/ p[1] = 1 /\ p[2] \in 0 .. w - 1 /\ p[3] \in 0 .. h - 1
        \/ p[1] = 2 /\ p[2] \in 0 .. w - 1 /\ p[3] \in 0 .. h \div 2 - 1
    BY <1>0, <1>5, <2>3, <2>4
  <2> QED
    BY <2>2, <2>5 DEF p, planes
<1> QED
  BY <1>1, <1>2, <1>3, <1>4, <1>5 DEF Converted

\* The address of a component of a pixel in an image of a size.
ComponentAt(format, w, h, x, y, k) == Address(format, Planes(format, w, h), x, y)[k]

\* No conversion loads or stores outside a buffer: every component of every
\* pixel of an image of a size that fits the format has its address in the buffer
\* that vf_framebuffer_alloc made for it, in each format of the table.
THEOREM ConversionInside ==
  ASSUME NEW format \in Converted, NEW w \in Nat, NEW h \in Nat,
         Fits(format, w, h),
         NEW x \in 0 .. w - 1, NEW y \in 0 .. h - 1, NEW k \in {1, 2, 3}
  PROVE  ComponentAt(format, w, h, x, y, k) \in 0 .. TotalSize(Planes(format, w, h)) - 1
<1> DEFINE planes == Planes(format, w, h)
           p == Where(format, k, x, y)
<1>1. WellFormed(planes)
  <2>1. format \in Formats
    BY DEF Converted, Formats, Packed, Bpp
  <2> QED
    BY <2>1, PlanesWellFormed
<1>2. /\ p[1] \in 1 .. Len(planes)
      /\ p[2] \in 0 .. planes[p[1]].line - 1
      /\ p[3] \in 0 .. planes[p[1]].height - 1
  BY WhereInside
<1>3. ComponentAt(format, w, h, x, y, k) = At(planes, p[1], p[2], p[3])
  BY AddressIsWhere DEF ComponentAt
<1> HIDE DEF planes, p
<1>4. p[2] \in 0 .. planes[p[1]].stride - 1
  BY <1>1, <1>2, LineInStride
<1>5. At(planes, p[1], p[2], p[3]) \in 0 .. TotalSize(planes) - 1
  BY <1>1, <1>2, <1>4, AtInside
<1> QED
  BY <1>3, <1>5 DEF planes

\* The formats a conversion stores.
Targets == {"RGB888", "YUV420P", "NV12"}

\* The order in which a conversion walks the pixels does not matter: no two of
\* its stores meet, be they of one pixel or of two.
THEOREM StoresApart ==
  ASSUME NEW from, NEW to \in Targets,
         NEW w \in Nat, NEW h \in Nat, Fits(to, w, h),
         NEW x1 \in 0 .. w - 1, NEW y1 \in 0 .. h - 1,
         NEW x2 \in 0 .. w - 1, NEW y2 \in 0 .. h - 1,
         NEW k1 \in Stored(from, to, x1, y1), NEW k2 \in Stored(from, to, x2, y2),
         ComponentAt(to, w, h, x1, y1, k1) = ComponentAt(to, w, h, x2, y2, k2)
  PROVE  x1 = x2 /\ y1 = y2 /\ k1 = k2
<1> DEFINE planes == Planes(to, w, h)
           p == Where(to, k1, x1, y1)
           q == Where(to, k2, x2, y2)
<1>0. to \in Converted /\ to \in Formats
  BY DEF Targets, Converted, Formats, Packed, Bpp
<1>1. /\ k1 \in {1, 2, 3} /\ k2 \in {1, 2, 3}
      /\ k1 # 1 /\ to # "RGB888" => x1 % 2 = 0 /\ y1 % 2 = 0
      /\ k2 # 1 /\ to # "RGB888" => x2 % 2 = 0 /\ y2 % 2 = 0
  BY DEF Stored, Targets
<1>2. p = q
  <2>1. WellFormed(planes)
    BY <1>0, PlanesWellFormed
  <2>2. /\ p[1] \in 1 .. Len(planes)
        /\ p[2] \in 0 .. planes[p[1]].line - 1
        /\ p[3] \in 0 .. planes[p[1]].height - 1
    BY <1>0, <1>1, WhereInside
  <2>3. /\ q[1] \in 1 .. Len(planes)
        /\ q[2] \in 0 .. planes[q[1]].line - 1
        /\ q[3] \in 0 .. planes[q[1]].height - 1
    BY <1>0, <1>1, WhereInside
  <2>4. Address(to, planes, x1, y1)[k1] = At(planes, p[1], p[2], p[3])
    BY <1>0, <1>1, AddressIsWhere
  <2>5. Address(to, planes, x2, y2)[k2] = At(planes, q[1], q[2], q[3])
    BY <1>0, <1>1, AddressIsWhere
  <2>6. At(planes, p[1], p[2], p[3]) = At(planes, q[1], q[2], q[3])
    BY <2>4, <2>5 DEF ComponentAt
  <2>7. p = <<p[1], p[2], p[3]>> /\ q = <<q[1], q[2], q[3]>>
    BY <1>1 DEF Where, Targets
  <2> HIDE DEF planes, p, q
  <2>8. p[2] \in 0 .. planes[p[1]].stride - 1
    BY <2>1, <2>2, LineInStride
  <2>9. q[2] \in 0 .. planes[q[1]].stride - 1
    BY <2>1, <2>3, LineInStride
  <2>10. p[1] = q[1] /\ p[2] = q[2] /\ p[3] = q[3]
    <3>1. PICK i \in 1 .. Len(planes) : i = p[1]
      BY <2>2
    <3>2. PICK j \in 1 .. Len(planes) : j = q[1]
      BY <2>3
    <3>3. PICK u1 \in 0 .. planes[i].stride - 1, v1 \in 0 .. planes[i].height - 1 :
             u1 = p[2] /\ v1 = p[3]
      BY <2>2, <2>8, <3>1
    <3>4. PICK u2 \in 0 .. planes[j].stride - 1, v2 \in 0 .. planes[j].height - 1 :
             u2 = q[2] /\ v2 = q[3]
      BY <2>3, <2>9, <3>2
    <3>5. At(planes, i, u1, v1) = At(planes, j, u2, v2)
      BY <2>6, <3>1, <3>2, <3>3, <3>4
    <3>6. i = j /\ u1 = u2 /\ v1 = v2
      BY <2>1, <3>5, AtInjective
    <3> QED
      BY <3>1, <3>2, <3>3, <3>4, <3>6
  <2> QED
    BY <2>7, <2>10
<1>3. CASE to = "RGB888"
  <2>1. /\ p[1] = 1 /\ p[2] = 3 * x1 + k1 - 1 /\ p[3] = y1
        /\ q[1] = 1 /\ q[2] = 3 * x2 + k2 - 1 /\ q[3] = y2
    BY <1>3 DEF Where
  <2> HIDE DEF p, q
  <2>2. 3 * x1 + k1 - 1 = 3 * x2 + k2 - 1 /\ y1 = y2
    BY <1>2, <2>1
  <2> QED
    BY <1>1, <2>2
<1>4. CASE to = "YUV420P"
  <2>1. /\ k1 = 1 => p[1] = 1 /\ p[2] = x1 /\ p[3] = y1
        /\ k2 = 1 => q[1] = 1 /\ q[2] = x2 /\ q[3] = y2
        /\ k1 # 1 => p[1] = k1 /\ p[2] = x1 \div 2 /\ p[3] = y1 \div 2
        /\ k2 # 1 => q[1] = k2 /\ q[2] = x2 \div 2 /\ q[3] = y2 \div 2
    BY <1>4 DEF Where
  <2> HIDE DEF p, q
  <2>2. k1 = k2
    BY <1>1, <1>2, <2>1
  <2>3. CASE k1 = 1
    BY <1>2, <2>1, <2>2, <2>3
  <2>4. CASE k1 # 1
    <3>1. x1 \div 2 = x2 \div 2 /\ y1 \div 2 = y2 \div 2
      BY <1>2, <2>1, <2>2, <2>4
    <3>2. x1 % 2 = 0 /\ y1 % 2 = 0 /\ x2 % 2 = 0 /\ y2 % 2 = 0
      BY <1>1, <1>4, <2>2, <2>4
    <3> QED
      BY <2>2, <3>1, <3>2
  <2> QED
    BY <2>3, <2>4
<1>5. CASE to = "NV12"
  <2>1. /\ k1 = 1 => p[1] = 1 /\ p[2] = x1 /\ p[3] = y1
        /\ k2 = 1 => q[1] = 1 /\ q[2] = x2 /\ q[3] = y2
        /\ k1 # 1 => p[1] = 2 /\ p[2] = 2 * (x1 \div 2) + k1 - 2 /\ p[3] = y1 \div 2
        /\ k2 # 1 => q[1] = 2 /\ q[2] = 2 * (x2 \div 2) + k2 - 2 /\ q[3] = y2 \div 2
    BY <1>5 DEF Where
  <2> HIDE DEF p, q
  <2>2. k1 = 1 <=> k2 = 1
    BY <1>2, <2>1
  <2>3. CASE k1 = 1
    BY <1>2, <2>1, <2>2, <2>3
  <2>4. CASE k1 # 1
    <3>1. /\ 2 * (x1 \div 2) + k1 - 2 = 2 * (x2 \div 2) + k2 - 2
          /\ y1 \div 2 = y2 \div 2
      BY <1>2, <2>1, <2>2, <2>4
    <3>2. x1 % 2 = 0 /\ y1 % 2 = 0 /\ x2 % 2 = 0 /\ y2 % 2 = 0
      BY <1>1, <1>5, <2>2, <2>4
    <3>3. k1 \in {2, 3} /\ k2 \in {2, 3}
      BY <1>1, <2>2, <2>4
    <3> QED
      BY <3>1, <3>2, <3>3
  <2> QED
    BY <2>3, <2>4
<1> QED
  BY <1>3, <1>4, <1>5 DEF Targets

-----------------------------------------------------------------------------
(* A file converted: from its bytes to those of the file written.           *)

\* What was stored once is there, what was not stored to is as it was.
LEMMA OverlayStored ==
  ASSUME NEW buffer, NEW stores, NEW t \in stores, t[1] \in DOMAIN buffer,
         \A s \in stores : s[1] = t[1] => s[2] = t[2]
  PROVE  Overlay(buffer, stores)[t[1]] = t[2]
<1> DEFINE c == CHOOSE s \in stores : s[1] = t[1]
<1>1. c \in stores /\ c[1] = t[1]
  OBVIOUS
<1>2. Overlay(buffer, stores)[t[1]] = c[2]
  BY DEF Overlay
<1> HIDE DEF c
<1> QED
  BY <1>1, <1>2

LEMMA OverlayKept ==
  ASSUME NEW buffer, NEW stores, NEW a \in DOMAIN buffer, \A s \in stores : s[1] # a
  PROVE  Overlay(buffer, stores)[a] = buffer[a]
BY DEF Overlay

\* Each byte of a file is where InBuffer says, once it is read.
LEMMA ByteRead ==
  ASSUME NEW planes, WellFormed(planes), NEW buffer, NEW file,
         DOMAIN buffer = 0 .. TotalSize(planes) - 1, NEW k \in 0 .. FileSize(planes) - 1
  PROVE  /\ ReadFromFile(planes, buffer, file)[InBuffer(planes, k)] = file[k]
         /\ DOMAIN ReadFromFile(planes, buffer, file) = DOMAIN buffer
<1> DEFINE K == 0 .. FileSize(planes) - 1
           stores == {<<InBuffer(planes, l), file[l]>> : l \in K}
           a == InBuffer(planes, k)
<1>1. a \in DOMAIN buffer
  BY InBufferInside
<1>2. <<a, file[k]>> \in stores
  OBVIOUS
<1>3. ASSUME NEW s \in stores, s[1] = a
      PROVE  s[2] = file[k]
  <2>1. PICK l \in K : s = <<InBuffer(planes, l), file[l]>>
    OBVIOUS
  <2>2. InBuffer(planes, l) = InBuffer(planes, k)
    BY <1>3, <2>1
  <2>3. l = k
    BY <2>2, InBufferInjective
  <2> QED
    BY <2>1, <2>3
<1>4. ReadFromFile(planes, buffer, file) = Overlay(buffer, stores)
  BY DEF ReadFromFile
<1>5. Overlay(buffer, stores)[a] = file[k]
  <2>1. PICK t \in stores : t[1] = a /\ t[2] = file[k]
    BY <1>2
  <2> HIDE DEF a, stores
  <2>2. Overlay(buffer, stores)[t[1]] = t[2]
    BY <1>1, <1>3, <2>1, OverlayStored
  <2> QED
    BY <2>1, <2>2
<1>6. DOMAIN Overlay(buffer, stores) = DOMAIN buffer
  BY DEF Overlay
<1> QED
  BY <1>4, <1>5, <1>6

\* The buffer address of a byte of a line in the file.
LEMMA InBufferOf ==
  ASSUME NEW planes, WellFormed(planes), NEW i \in 1 .. Len(planes),
         NEW x \in 0 .. planes[i].line - 1, NEW y \in 0 .. planes[i].height - 1
  PROVE  LET n == Skipped(planes, i) + (planes[i].line * y + x)
         IN  n \in 0 .. FileSize(planes) - 1 /\ InBuffer(planes, n) = At(planes, i, x, y)
<1> DEFINE n == Skipped(planes, i) + (planes[i].line * y + x)
<1>0. /\ Len(planes) \in Nat
      /\ \A j \in 1 .. Len(planes) : planes[j].line \in Nat /\ planes[j].height \in Nat
      /\ \A j \in 1 .. Len(planes) : Held(planes, j) = planes[j].line * planes[j].height
  BY PlaneFields DEF Held
<1>1. planes[i].line * y + x \in 0 .. Held(planes, i) - 1
  <2>1. PICK l \in Nat, h \in Nat : l = planes[i].line /\ h = planes[i].height
    BY <1>0
  <2>2. y * l + x \in 0 .. l * h - 1
    BY <2>1, LineInside
  <2>3. l * y = y * l
    BY <2>1
  <2> QED
    BY <1>0, <2>1, <2>2, <2>3
<1>2. /\ Skipped(planes, i) \in Nat /\ Held(planes, i) \in Nat /\ FileSize(planes) \in Nat
      /\ Skipped(planes, i) + Held(planes, i) <= FileSize(planes)
  BY HeldApart
<1>3. n \in 0 .. FileSize(planes) - 1
  BY <1>1, <1>2
<1>4. PICK j \in 1 .. Len(planes) :
      \E u \in 0 .. planes[j].line - 1, v \in 0 .. planes[j].height - 1 :
         /\ InBuffer(planes, n) = At(planes, j, u, v)
         /\ n = Skipped(planes, j) + (planes[j].line * v + u)
  <2> HIDE DEF n
  <2> QED
    BY <1>3, InBufferIsAt
<1>5. PICK u \in 0 .. planes[j].line - 1, v \in 0 .. planes[j].height - 1 :
         /\ InBuffer(planes, n) = At(planes, j, u, v)
         /\ n = Skipped(planes, j) + (planes[j].line * v + u)
  BY <1>4
<1>6. planes[j].line * v + u \in 0 .. Held(planes, j) - 1
  <2>1. PICK l \in Nat, h \in Nat : l = planes[j].line /\ h = planes[j].height
    BY <1>0
  <2>2. v * l + u \in 0 .. l * h - 1
    BY <2>1, LineInside
  <2>3. l * v = v * l
    BY <2>1
  <2> QED
    BY <1>0, <2>1, <2>2, <2>3
<1>7. j = i
  <2>1. Skipped(planes, j) \in Nat /\ Held(planes, j) \in Nat
    BY HeldApart
  <2>2. /\ i < j => Skipped(planes, i) + Held(planes, i) <= Skipped(planes, j)
        /\ j < i => Skipped(planes, j) + Held(planes, j) <= Skipped(planes, i)
    BY HeldApart
  <2>3. PICK p \in 0 .. Held(planes, i) - 1, q \in 0 .. Held(planes, j) - 1 :
          Skipped(planes, i) + p = Skipped(planes, j) + q
    BY <1>1, <1>5, <1>6
  <2>4. ~(i < j) /\ ~(j < i)
    BY <1>2, <2>1, <2>2, <2>3
  <2> QED
    BY <1>0, <2>4
<1>8. u = x /\ v = y
  <2>1. PICK l \in Nat : l = planes[i].line
    BY <1>0
  <2>2. l * y + x = l * v + u
    <3>1. PICK p \in Nat, q \in Nat : p = planes[i].line * y + x /\ q = planes[i].line * v + u
      BY <1>1, <1>2, <1>6, <1>7
    <3>2. Skipped(planes, i) + p = Skipped(planes, i) + q
      BY <1>5, <1>7, <3>1
    <3>3. p = q
      BY <1>2, <3>1, <3>2
    <3> QED
      BY <2>1, <3>1, <3>3
  <2>3. y \in Nat /\ v \in Nat /\ x \in 0 .. l - 1 /\ u \in 0 .. l - 1
    BY <1>7, <2>1
  <2>4. y * l + x = v * l + u
    BY <2>1, <2>2, <2>3
  <2> QED
    BY <2>3, <2>4, LineInjective
<1> QED
  BY <1>3, <1>5, <1>7, <1>8

LEMMA QuarterOf ==
  ASSUME NEW w \in Nat, NEW h \in Nat, w % 2 = 0, h % 2 = 0
  PROVE  (w * h) \div 4 = (w \div 2) * (h \div 2)
<1>1. PICK a \in Nat, b \in Nat : a = w \div 2 /\ b = h \div 2 /\ w = 2 * a /\ h = 2 * b
  OBVIOUS
<1>2. PICK c \in Nat : c = a * b
  OBVIOUS
<1>3. w * h = 4 * c
  BY <1>1, <1>2
<1>4. (4 * c) \div 4 = c
  OBVIOUS
<1> QED
  BY <1>1, <1>2, <1>3, <1>4

\* The components of a pixel are at the same bytes of a file, with its lines one
\* after the other, as they are of the buffer with its strides.
LEMMA OffsetInBuffer ==
  ASSUME NEW format \in {"RGB888", "RAW8", "YUV420P"}, NEW w \in Nat, NEW h \in Nat,
         Fits(format, w, h),
         NEW x \in 0 .. w - 1, NEW y \in 0 .. h - 1, NEW k \in {1, 2, 3}
  PROVE  LET planes == Planes(format, w, h)
             n == FileOffset(format, w, h, x, y)[k]
         IN  n \in 0 .. FileSize(planes) - 1
             /\ InBuffer(planes, n) = Address(format, planes, x, y)[k]
<1> DEFINE planes == Planes(format, w, h)
           n == FileOffset(format, w, h, x, y)[k]
           p == Where(format, k, x, y)
<1>0. format \in Converted /\ format \in Formats
  BY DEF Converted, Formats, Packed, Bpp
<1>1. WellFormed(planes)
  BY <1>0, PlanesWellFormed
<1>2. /\ p[1] \in 1 .. Len(planes)
      /\ p[2] \in 0 .. planes[p[1]].line - 1
      /\ p[3] \in 0 .. planes[p[1]].height - 1
  BY <1>0, WhereInside
<1>3. Address(format, planes, x, y)[k] = At(planes, p[1], p[2], p[3])
  BY <1>0, AddressIsWhere
<1>4. n = Skipped(planes, p[1]) + (planes[p[1]].line * p[3] + p[2])
  <2>1. CASE format = "RGB888"
    <3>1. planes = <<Plane((w * 24) \div 8, h)>> /\ (w * 24) \div 8 = 3 * w
      BY <2>1 DEF Planes, Packed, Bpp
    <3>2. planes[1].line = 3 * w /\ Skipped(planes, 1) = 0
      BY <3>1 DEF Plane, Skipped
    <3>3. p[1] = 1 /\ p[2] = 3 * x + k - 1 /\ p[3] = y
      BY <2>1 DEF Where
    <3>4. n = 3 * (y * w + x) + k - 1
      BY <2>1 DEF FileOffset
    <3>5. 3 * (y * w + x) + k - 1 = 0 + ((3 * w) * y + (3 * x + k - 1))
      OBVIOUS
    <3> HIDE DEF planes, n, p
    <3> QED
      BY <3>2, <3>3, <3>4, <3>5
  <2>2. CASE format = "RAW8"
    <3>1. planes = <<Plane((w * 8) \div 8, h)>> /\ (w * 8) \div 8 = w
      BY <2>2 DEF Planes, Packed, Bpp
    <3>2. planes[1].line = w /\ Skipped(planes, 1) = 0
      BY <3>1 DEF Plane, Skipped
    <3>3. p[1] = 1 /\ p[2] = x /\ p[3] = y
      BY <2>2 DEF Where
    <3>4. n = y * w + x
      BY <2>2 DEF FileOffset
    <3>5. y * w + x = 0 + (w * y + x)
      OBVIOUS
    <3> HIDE DEF planes, n, p
    <3> QED
      BY <3>2, <3>3, <3>4, <3>5
  <2>3. CASE format = "YUV420P"
    <3>1. planes = <<Plane(w, h), Plane(w \div 2, h \div 2), Plane(w \div 2, h \div 2)>>
      BY <2>3 DEF Planes, Packed, Bpp
    <3>2. /\ planes[1].line = w /\ planes[1].height = h
          /\ planes[2].line = w \div 2 /\ planes[2].height = h \div 2
          /\ planes[3].line = w \div 2 /\ planes[3].height = h \div 2
      BY <3>1 DEF Plane
    <3>3. PICK a \in Nat, b \in Nat, u \in Nat, v \in Nat :
            a = w \div 2 /\ b = h \div 2 /\ u = x \div 2 /\ v = y \div 2
      OBVIOUS
    <3>4. PICK m \in Nat, q \in Nat : m = w * h /\ q = a * b
      OBVIOUS
    <3>5. /\ Skipped(planes, 1) = 0 /\ Skipped(planes, 2) = m /\ Skipped(planes, 3) = m + q
      <4> HIDE DEF planes
      <4>1. Held(planes, 1) = m /\ Held(planes, 2) = q
        BY <3>2, <3>3, <3>4 DEF Held
      <4> QED
        BY <4>1 DEF Skipped
    <3>6. (w * h) \div 4 = q
      BY <2>3, <3>3, <3>4, QuarterOf DEF Fits
    <3>7. /\ k = 1 => p[1] = 1 /\ p[2] = x /\ p[3] = y
          /\ k # 1 => p[1] = k /\ p[2] = u /\ p[3] = v
      BY <2>3, <3>3 DEF Where
    <3>8. /\ k = 1 => n = y * w + x
          /\ k = 2 => n = m + (v * a + u)
          /\ k = 3 => n = m + q + (v * a + u)
      <4>1. PICK r \in Nat : r = v * a + u
        OBVIOUS
      <4>2. /\ k = 1 => n = y * w + x
            /\ k = 2 => n = w * h + r
            /\ k = 3 => n = w * h + (w * h) \div 4 + r
        BY <2>3, <3>3, <4>1 DEF FileOffset
      <4> HIDE DEF n
      <4> QED
        BY <3>4, <3>6, <4>1, <4>2
    <3>9. y * w + x = 0 + (w * y + x) /\ v * a + u = a * v + u
      OBVIOUS
    <3> HIDE DEF planes, n, p
    <3>10. CASE k = 1
      BY <3>2, <3>5, <3>7, <3>8, <3>9, <3>10
    <3>11. CASE k = 2
      BY <3>2, <3>3, <3>5, <3>7, <3>8, <3>9, <3>11
    <3>12. CASE k = 3
      BY <3>2, <3>3, <3>5, <3>7, <3>8, <3>9, <3>12
    <3> QED
      BY <3>10, <3>11, <3>12
  <2> QED
    BY <2>1, <2>2, <2>3
<1> HIDE DEF planes, n, p
<1>5. n \in 0 .. FileSize(planes) - 1 /\ InBuffer(planes, n) = At(planes, p[1], p[2], p[3])
  <2>1. PICK i \in 1 .. Len(planes) : i = p[1]
    BY <1>2
  <2>2. PICK u \in 0 .. planes[i].line - 1, v \in 0 .. planes[i].height - 1 :
          u = p[2] /\ v = p[3]
    BY <1>2, <2>1
  <2>3. n = Skipped(planes, i) + (planes[i].line * v + u)
    BY <1>4, <2>1, <2>2
  <2> QED
    BY <1>1, <2>1, <2>2, <2>3, InBufferOf
<1> QED
  BY <1>3, <1>5 DEF planes, n

\* The pixel of a source buffer.
PixelOf(format, planes, buffer, x, y) ==
    LET a == Address(format, planes, x, y)
    IN  <<buffer[a[1]], buffer[a[2]], buffer[a[3]]>>

\* The stores of a conversion.
StoreOf(from, to, w, h, src, x, y, k) ==
    <<ComponentAt(to, w, h, x, y, k),
      Colour(from, to, PixelOf(from, Planes(from, w, h), src, x, y))[k]>>

Stores(from, to, w, h, src) ==
    UNION {{StoreOf(from, to, w, h, src, x, y, k) : k \in Stored(from, to, x, y)} :
             x \in Columns(from, w), y \in 0 .. h - 1}

LEMMA ConvertIsStores ==
  ASSUME NEW from, NEW to, NEW w, NEW h, NEW src, NEW dst
  PROVE  Convert(from, to, w, h, src, dst)
           = Overlay(Prepared(from, to, Planes(to, w, h), dst), Stores(from, to, w, h, src))
BY DEF Convert, Stores, StoreOf, PixelOf, ComponentAt

LEMMA ColumnsOf ==
  ASSUME NEW from, NEW w \in Nat, NEW h, Fits(from, w, h)
  PROVE  Columns(from, w) = 0 .. w - 1
<1>1. CASE from = "YUYV"
  <2>1. 2 * ((w + 1) \div 2) = w
    BY <1>1 DEF Fits
  <2> QED
    BY <1>1, <2>1 DEF Columns
<1>2. CASE from # "YUYV"
  BY <1>2 DEF Columns
<1> QED
  BY <1>1, <1>2

LEMMA StoresFacts ==
  ASSUME NEW from, NEW to, NEW w \in Nat, NEW h \in Nat, NEW src, Fits(from, w, h)
  PROVE  /\ \A x \in 0 .. w - 1, y \in 0 .. h - 1 : \A k \in Stored(from, to, x, y) :
               StoreOf(from, to, w, h, src, x, y, k) \in Stores(from, to, w, h, src)
         /\ \A s \in Stores(from, to, w, h, src) :
               \E x \in 0 .. w - 1, y \in 0 .. h - 1 : \E k \in Stored(from, to, x, y) :
                  s = StoreOf(from, to, w, h, src, x, y, k)
<1> DEFINE F(x, y) == {StoreOf(from, to, w, h, src, x, y, k) : k \in Stored(from, to, x, y)}
<1>1. Columns(from, w) = 0 .. w - 1
  BY ColumnsOf
<1>2. Stores(from, to, w, h, src) = UNION {F(x, y) : x \in 0 .. w - 1, y \in 0 .. h - 1}
  BY <1>1 DEF Stores
<1>3. \A s : s \in Stores(from, to, w, h, src) <=>
               \E x \in 0 .. w - 1, y \in 0 .. h - 1 : s \in F(x, y)
  <2> HIDE DEF F
  <2> QED
    BY <1>2
<1> QED
  BY <1>3

\* Where a store is, and of which pixel.
LEMMA StoreIs ==
  ASSUME NEW from, NEW to, NEW w \in Nat, NEW h \in Nat, NEW src, Fits(from, w, h),
         NEW s \in Stores(from, to, w, h, src)
  PROVE  \E x \in 0 .. w - 1, y \in 0 .. h - 1 : \E k \in Stored(from, to, x, y) :
            /\ s = StoreOf(from, to, w, h, src, x, y, k)
            /\ s[1] = ComponentAt(to, w, h, x, y, k)
<1>1. PICK x \in 0 .. w - 1, y \in 0 .. h - 1 : \E k \in Stored(from, to, x, y) :
         s = StoreOf(from, to, w, h, src, x, y, k)
  BY StoresFacts
<1>2. PICK k \in Stored(from, to, x, y) : s = StoreOf(from, to, w, h, src, x, y, k)
  BY <1>1
<1>3. s[1] = ComponentAt(to, w, h, x, y, k)
  BY <1>2 DEF StoreOf
<1> QED
  BY <1>2, <1>3

LEMMA PreparedDomain ==
  ASSUME NEW from, NEW to, NEW planes, NEW dst
  PROVE  DOMAIN Prepared(from, to, planes, dst) = DOMAIN dst
BY DEF Prepared

\* Whatever a conversion stores of a pixel is in its place at the end.
LEMMA PixelConverted ==
  ASSUME NEW from, NEW to, <<from, to>> \in Supported, NEW w \in Nat, NEW h \in Nat,
         Fits(from, w, h), Fits(to, w, h), NEW src, NEW dst,
         DOMAIN dst = 0 .. TotalSize(Planes(to, w, h)) - 1,
         NEW x \in 0 .. w - 1, NEW y \in 0 .. h - 1, NEW k \in Stored(from, to, x, y)
  PROVE  Convert(from, to, w, h, src, dst)[ComponentAt(to, w, h, x, y, k)]
           = Colour(from, to, PixelOf(from, Planes(from, w, h), src, x, y))[k]
<1> DEFINE D == Planes(to, w, h)
           stores == Stores(from, to, w, h, src)
           buffer == Prepared(from, to, D, dst)
           t == StoreOf(from, to, w, h, src, x, y, k)
<1>1. to \in Targets /\ to \in Converted
  BY DEF Supported, Converted, Targets
<1>2. k \in {1, 2, 3}
  BY DEF Stored
<1>3. \A u, v, n : StoreOf(from, to, w, h, src, u, v, n)[1] = ComponentAt(to, w, h, u, v, n)
  BY DEF StoreOf
<1>4. t[1] \in DOMAIN buffer
  <2>1. ComponentAt(to, w, h, x, y, k) \in DOMAIN dst
    BY <1>1, <1>2, ConversionInside
  <2>2. DOMAIN buffer = DOMAIN dst
    BY PreparedDomain
  <2> QED
    BY <1>3, <2>1, <2>2
<1>5. t \in stores
  BY StoresFacts
<1>6. ASSUME NEW s \in stores, s[1] = t[1]
      PROVE  s[2] = t[2]
  <2>1. PICK u \in 0 .. w - 1, v \in 0 .. h - 1 : \E n \in Stored(from, to, u, v) :
           s = StoreOf(from, to, w, h, src, u, v, n)
    BY StoresFacts
  <2>2. PICK n \in Stored(from, to, u, v) : s = StoreOf(from, to, w, h, src, u, v, n)
    BY <2>1
  <2>3. ComponentAt(to, w, h, u, v, n) = ComponentAt(to, w, h, x, y, k)
    BY <1>3, <1>6, <2>2
  <2> HIDE DEF t, stores, buffer
  <2>4. u = x /\ v = y /\ n = k
    BY <1>1, <2>3, StoresApart
  <2> QED
    BY <2>2, <2>4 DEF t
<1>7. Convert(from, to, w, h, src, dst) = Overlay(buffer, stores)
  BY ConvertIsStores
<1>8. /\ t[1] = ComponentAt(to, w, h, x, y, k)
      /\ t[2] = Colour(from, to, PixelOf(from, Planes(from, w, h), src, x, y))[k]
  BY DEF StoreOf
<1> HIDE DEF t, stores, buffer
<1>9. Overlay(buffer, stores)[t[1]] = t[2]
  BY <1>4, <1>5, <1>6, OverlayStored
<1> QED
  BY <1>7, <1>8, <1>9

\* The chroma of an image converted from RAW8 is 128 everywhere.
LEMMA ChromaFilled ==
  ASSUME NEW w \in Nat, NEW h \in Nat, Fits("YUV420P", w, h), NEW src, NEW dst,
         DOMAIN dst = 0 .. TotalSize(Planes("YUV420P", w, h)) - 1,
         NEW x \in 0 .. w - 1, NEW y \in 0 .. h - 1, NEW k \in {2, 3}
  PROVE  Convert("RAW8", "YUV420P", w, h, src, dst)
               [ComponentAt("YUV420P", w, h, x, y, k)] = 128
<1> DEFINE D == Planes("YUV420P", w, h)
           stores == Stores("RAW8", "YUV420P", w, h, src)
           buffer == Prepared("RAW8", "YUV420P", D, dst)
           a == ComponentAt("YUV420P", w, h, x, y, k)
<1>1. "YUV420P" \in Converted /\ "YUV420P" \in Formats /\ WellFormed(D)
  <2>1. "YUV420P" \in Converted /\ "YUV420P" \in Formats
    BY DEF Converted, Formats
  <2> QED
    BY <2>1, PlanesWellFormed
<1>2. a \in DOMAIN dst
  BY <1>1, ConversionInside
<1>3. Len(D) = 3
  BY DEF Planes, Packed, Bpp
<1>4. ASSUME NEW u \in 0 .. w - 1, NEW v \in 0 .. h - 1, NEW n \in {1, 2, 3}
      PROVE  \E i \in 1 .. 3 :
               /\ ComponentAt("YUV420P", w, h, u, v, n) \in Base(D, i) .. Base(D, i) + D[i].size - 1
               /\ i = n
  <2> DEFINE p == Where("YUV420P", n, u, v)
  <2>1. /\ p[1] \in 1 .. Len(D) /\ p[2] \in 0 .. D[p[1]].line - 1
        /\ p[3] \in 0 .. D[p[1]].height - 1
    BY <1>1, WhereInside
  <2>2. ComponentAt("YUV420P", w, h, u, v, n) = At(D, p[1], p[2], p[3])
    BY <1>1, AddressIsWhere DEF ComponentAt
  <2>3. p[1] = n
    BY DEF Where
  <2> HIDE DEF D, p
  <2>4. p[2] \in 0 .. D[p[1]].stride - 1
    BY <1>1, <2>1, LineInStride
  <2>5. At(D, p[1], p[2], p[3]) \in Base(D, p[1]) .. Base(D, p[1]) + D[p[1]].size - 1
    BY <1>1, <2>1, <2>4, AtInside
  <2> QED
    BY <1>3, <2>2, <2>3, <2>5
<1>5. /\ Base(D, 1) \in Nat /\ Base(D, 2) \in Nat /\ Base(D, 3) \in Nat
      /\ D[1].size \in Nat /\ D[2].size \in Nat
      /\ Base(D, 1) + D[1].size <= Base(D, 2)
      /\ Base(D, 2) + D[2].size <= Base(D, 3)
  <2> HIDE DEF D
  <2>1. 1 \in 1 .. Len(D) /\ 2 \in 1 .. Len(D) /\ 3 \in 1 .. Len(D)
    BY <1>3
  <2> QED
    BY <1>1, <2>1, PlanesApart, PlaneFields
<1>6. a >= Base(D, 2)
  <2>1. a \in Base(D, k) .. Base(D, k) + D[k].size - 1
    BY <1>4
  <2> HIDE DEF D, a
  <2>2. CASE k = 2
    BY <1>5, <2>1, <2>2
  <2>3. CASE k = 3
    BY <1>5, <2>1, <2>3
  <2> QED
    BY <2>2, <2>3
<1>7. ASSUME NEW s \in stores
      PROVE  s[1] # a
  <2>1. Fits("RAW8", w, h)
    BY DEF Fits
  <2>2. PICK u \in 0 .. w - 1, v \in 0 .. h - 1 :
          \E n \in Stored("RAW8", "YUV420P", u, v) : s[1] = ComponentAt("YUV420P", w, h, u, v, n)
    BY <2>1, StoreIs
  <2>3. Stored("RAW8", "YUV420P", u, v) = {1}
    BY DEF Stored
  <2>4. s[1] \in Base(D, 1) .. Base(D, 1) + D[1].size - 1
    BY <1>4, <2>2, <2>3
  <2>5. a \in Int
    BY <1>2
  <2>6. ASSUME NEW q, q = s[1]
        PROVE  q # a
    <3> HIDE DEF D, a, stores
    <3>1. q \in Base(D, 1) .. Base(D, 1) + D[1].size - 1
      BY <2>4, <2>6, Zenon
    <3> QED
      BY <1>5, <1>6, <2>5, <3>1
  <2> QED
    BY <2>6, Zenon
<1>8. buffer[a] = 128 /\ a \in DOMAIN buffer
  <2>1. buffer = [b \in DOMAIN dst |-> IF b >= Base(D, 2) THEN 128 ELSE dst[b]]
    BY DEF Prepared
  <2> HIDE DEF buffer, a, D
  <2> QED
    BY <1>2, <1>6, <2>1
<1>9. Convert("RAW8", "YUV420P", w, h, src, dst) = Overlay(buffer, stores)
  BY ConvertIsStores
<1> HIDE DEF buffer, stores, a
<1>10. Overlay(buffer, stores)[a] = buffer[a]
  BY <1>7, <1>8, OverlayKept
<1> QED
  BY <1>8, <1>9, <1>10 DEF a

\* The pairs of formats of the scenarios.
FilePairs ==
    {<<"RGB888", "YUV420P">>, <<"YUV420P", "RGB888">>, <<"RAW8", "RGB888">>,
     <<"RAW8", "YUV420P">>}

\* A colour is one of its components only.
LEMMA SameComponents ==
  ASSUME NEW from \in {"RGB888", "YUV420P"}, NEW to, NEW p, NEW q, NEW in, NEW out,
         in[1] = p[1], in[2] = p[2], in[3] = p[3],
         out[1] = q[1], out[2] = q[2], out[3] = q[3],
         SameColour(from, to, p, q)
  PROVE  SameColour(from, to, in, out)
<1>1. CASE from = "RGB888"
  BY <1>1 DEF SameColour
<1>2. CASE from = "YUV420P"
  BY <1>2 DEF SameColour
<1> QED
  BY <1>1, <1>2

\* A file of one format, read into a buffer whatever it held, converted into
\* another and written, is a file of the other format of the same image: every
\* pixel the format keeps has the colour of the pixel of the file it was, by the
\* exact formulas of BT.601 to the nearest byte.
THEOREM ConvertedImage ==
  ASSUME NEW from, NEW to, <<from, to>> \in FilePairs,
         NEW w \in Nat, NEW h \in Nat, Fits(from, w, h), Fits(to, w, h),
         NEW file, NEW src, NEW dst,
         DOMAIN dst = 0 .. TotalSize(Planes(to, w, h)) - 1,
         \A k \in 0 .. FileSize(Planes(from, w, h)) - 1 :
            file[k] \in Byte /\ src[InBuffer(Planes(from, w, h), k)] = file[k]
  PROVE  FileConverted(from, to, w, h, file,
                       WriteToFile(Planes(to, w, h), Convert(from, to, w, h, src, dst)))
<1> DEFINE S == Planes(from, w, h)
           D == Planes(to, w, h)
           buffer == Convert(from, to, w, h, src, dst)
           image == WriteToFile(D, buffer)
<1>1. DOMAIN image = 0 .. FileSize(D) - 1
  BY DEF WriteToFile
<1>2. /\ from \in {"RGB888", "RAW8", "YUV420P"} /\ to \in {"RGB888", "RAW8", "YUV420P"}
      /\ <<from, to>> \in Supported
  BY DEF FilePairs, Supported
<1>3. ASSUME NEW x \in 0 .. w - 1, NEW y \in 0 .. h - 1,
             to # "YUV420P" \/ (x % 2 = 0 /\ y % 2 = 0)
      PROVE  SameColour(from, to,
                        [c \in 1 .. 3 |-> file[FileOffset(from, w, h, x, y)[c]]],
                        [c \in 1 .. 3 |-> image[FileOffset(to, w, h, x, y)[c]]])
  <2> DEFINE in == [c \in 1 .. 3 |-> file[FileOffset(from, w, h, x, y)[c]]]
             out == [c \in 1 .. 3 |-> image[FileOffset(to, w, h, x, y)[c]]]
             p == PixelOf(from, S, src, x, y)
             q == Colour(from, to, p)
  <2>1. \A c \in {1, 2, 3} : p[c] = in[c] /\ in[c] \in Byte
    <3> TAKE c \in {1, 2, 3}
    <3>1. /\ FileOffset(from, w, h, x, y)[c] \in 0 .. FileSize(S) - 1
          /\ InBuffer(S, FileOffset(from, w, h, x, y)[c]) = Address(from, S, x, y)[c]
      BY <1>2, OffsetInBuffer
    <3>2. p[c] = src[Address(from, S, x, y)[c]]
      BY DEF PixelOf
    <3>3. in[c] = file[FileOffset(from, w, h, x, y)[c]]
      OBVIOUS
    <3> QED
      BY <3>1, <3>2, <3>3
  <2>2. \A c \in {1, 2, 3} : out[c] = buffer[ComponentAt(to, w, h, x, y, c)]
    <3> TAKE c \in {1, 2, 3}
    <3>1. /\ FileOffset(to, w, h, x, y)[c] \in 0 .. FileSize(D) - 1
          /\ InBuffer(D, FileOffset(to, w, h, x, y)[c]) = Address(to, D, x, y)[c]
      BY <1>2, OffsetInBuffer
    <3>2. out[c] = image[FileOffset(to, w, h, x, y)[c]]
      OBVIOUS
    <3> HIDE DEF buffer
    <3>3. image[FileOffset(to, w, h, x, y)[c]] = buffer[Address(to, D, x, y)[c]]
      BY <3>1 DEF WriteToFile
    <3> QED
      BY <3>2, <3>3 DEF ComponentAt
  <2>3. \A c \in Stored(from, to, x, y) : c \in {1, 2, 3} /\ out[c] = q[c]
    <3> TAKE c \in Stored(from, to, x, y)
    <3>1. c \in {1, 2, 3}
      BY DEF Stored
    <3>2. buffer[ComponentAt(to, w, h, x, y, c)] = q[c]
      BY <1>2, PixelConverted
    <3> HIDE DEF buffer, out, q
    <3> QED
      BY <2>2, <3>1, <3>2
  <2>4. p \in Byte \X Byte \X Byte
    <3>1. p = <<p[1], p[2], p[3]>>
      BY DEF PixelOf
    <3>2. p[1] \in Byte /\ p[2] \in Byte /\ p[3] \in Byte
      BY <2>1
    <3> HIDE DEF p
    <3> QED
      BY <3>1, <3>2
  <2>5. CASE from \in {"RGB888", "YUV420P"}
    <3>1. Stored(from, to, x, y) = {1, 2, 3}
      <4>1. CASE to = "RGB888"
        BY <4>1 DEF Stored
      <4>2. CASE to = "YUV420P"
        BY <1>3, <2>5, <4>2 DEF Stored
      <4> QED
        BY <4>1, <4>2 DEF FilePairs
    <3>2. SameColour(from, to, p, q)
      BY <1>2, <2>4, <2>5, ColoursNearest
    <3> HIDE DEF p, q, in, out
    <3>3. /\ in[1] = p[1] /\ in[2] = p[2] /\ in[3] = p[3]
          /\ out[1] = q[1] /\ out[2] = q[2] /\ out[3] = q[3]
      BY <2>1, <2>3, <3>1
    <3>4. SameColour(from, to, in, out)
      BY <2>5, <3>2, <3>3, SameComponents
    <3> QED
      BY <3>4 DEF in, out
  <2>6. CASE from = "RAW8" /\ to = "RGB888"
    <3>1. Stored(from, to, x, y) = {1, 2, 3} /\ q = p
      BY <2>6 DEF Stored, Colour
    <3>2. \A c \in 1 .. 3 : out[c] = in[c]
      <4> HIDE DEF in, out, p, q
      <4> QED
        BY <2>1, <2>3, <3>1
    <3>3. out = in
      <4>1. DOMAIN out = 1 .. 3 /\ DOMAIN in = 1 .. 3
        OBVIOUS
      <4>2. out = [c \in 1 .. 3 |-> out[c]] /\ in = [c \in 1 .. 3 |-> in[c]]
        OBVIOUS
      <4> HIDE DEF in, out
      <4> QED
        BY <3>2, <4>2
    <3> HIDE DEF in, out
    <3>4. SameColour(from, to, in, out)
      BY <2>6, <3>3 DEF SameColour
    <3> QED
      BY <3>4 DEF in, out
  <2>7. CASE from = "RAW8" /\ to = "YUV420P"
    <3>1. Stored(from, to, x, y) = {1} /\ q = p
      BY <2>7 DEF Stored, Colour
    <3>2. out[1] = in[1]
      <4> HIDE DEF in, out, p, q
      <4> QED
        BY <2>1, <2>3, <3>1
    <3>3. out[2] = 128 /\ out[3] = 128
      <4> HIDE DEF out
      <4>1. \A c \in {2, 3} : buffer[ComponentAt(to, w, h, x, y, c)] = 128
        BY <2>7, ChromaFilled
      <4> HIDE DEF buffer
      <4> QED
        BY <2>2, <4>1
    <3>4. out = <<in[1], 128, 128>>
      <4>1. out = [c \in 1 .. 3 |-> out[c]]
        OBVIOUS
      <4> HIDE DEF in, out
      <4> QED
        BY <3>2, <3>3, <4>1
    <3> HIDE DEF in, out
    <3>5. SameColour(from, to, in, out)
      BY <2>7, <3>4 DEF SameColour
    <3> QED
      BY <3>5 DEF in, out
  <2> QED
    BY <2>5, <2>6, <2>7 DEF FilePairs
<1> HIDE DEF image
<1>4. FileConverted(from, to, w, h, file, image)
  BY <1>1, <1>3 DEF FileConverted
<1> QED
  BY <1>4 DEF image
=============================================================================
