----------------------------- MODULE Conversion -----------------------------
(***************************************************************************)
(* The conversion library: BT.601 in integer arithmetic on pixels, and the *)
(* eight conversions of the table, each a walk over the pixels of two      *)
(* buffers of the same width and height.  A pixel has three components;    *)
(* where a format keeps them is Address, which a conversion uses to load   *)
(* from its source and to store to its destination.                        *)
(***************************************************************************)
EXTENDS FramePlanes

Byte == 0 .. 255

ClipU8(n) == IF n < 0 THEN 0 ELSE IF n > 255 THEN 255 ELSE n

\* n >> 8 of an int, which rounds towards minus infinity.
Shift8(n) == n \div 256

RgbToY(r, g, b) == ClipU8(Shift8(66 * r + 129 * g + 25 * b + 128) + 16)
RgbToU(r, g, b) == ClipU8(Shift8(112 * b - 38 * r - 74 * g + 128) + 128)
RgbToV(r, g, b) == ClipU8(Shift8(112 * r - 94 * g - 18 * b + 128) + 128)

YuvToR(c, e)    == ClipU8(Shift8(298 * c + 409 * e + 128))
YuvToG(c, d, e) == ClipU8(Shift8(298 * c - 100 * d - 208 * e + 128))
YuvToB(c, d)    == ClipU8(Shift8(298 * c + 516 * d + 128))

-----------------------------------------------------------------------------
\* g_conversion_table.
Supported ==
    {<<"RGB888", "YUV420P">>, <<"BGR888", "YUV420P">>, <<"YUV420P", "RGB888">>,
     <<"RGB888", "NV12">>, <<"NV12", "RGB888">>, <<"RAW8", "RGB888">>,
     <<"RAW8", "YUV420P">>, <<"YUYV", "RGB888">>}

\* The addresses of the components of pixel (x, y): red, green, blue or
\* luma, U, V.  Four pixels share a U and a V in YUV420P and NV12, two do in
\* YUYV; a pixel of RAW8 is its own three components.
Address(format, planes, x, y) ==
    CASE format = "RGB888"  -> <<At(planes, 1, 3 * x, y), At(planes, 1, 3 * x + 1, y),
                                 At(planes, 1, 3 * x + 2, y)>>
      [] format = "BGR888"  -> <<At(planes, 1, 3 * x + 2, y), At(planes, 1, 3 * x + 1, y),
                                 At(planes, 1, 3 * x, y)>>
      [] format = "RAW8"    -> <<At(planes, 1, x, y), At(planes, 1, x, y),
                                 At(planes, 1, x, y)>>
      [] format = "YUYV"    -> <<At(planes, 1, 2 * x, y),
                                 At(planes, 1, 4 * (x \div 2) + 1, y),
                                 At(planes, 1, 4 * (x \div 2) + 3, y)>>
      [] format = "YUV420P" -> <<At(planes, 1, x, y),
                                 At(planes, 2, x \div 2, y \div 2),
                                 At(planes, 3, x \div 2, y \div 2)>>
      [] format = "NV12"    -> <<At(planes, 1, x, y),
                                 At(planes, 2, 2 * (x \div 2), y \div 2),
                                 At(planes, 2, 2 * (x \div 2) + 1, y \div 2)>>

Encode(p) ==
    <<RgbToY(p[1], p[2], p[3]), RgbToU(p[1], p[2], p[3]), RgbToV(p[1], p[2], p[3])>>

Decode(p) ==
    LET c == p[1] - 16
        d == p[2] - 128
        e == p[3] - 128
    IN  <<YuvToR(c, e), YuvToG(c, d, e), YuvToB(c, d)>>

Colour(from, to, p) ==
    CASE from \in {"RGB888", "BGR888"}          -> Encode(p)
      [] from \in {"YUV420P", "NV12", "YUYV"} -> Decode(p)
      [] from = "RAW8"                          -> p

\* The YUYV loop takes the pixels of a line in pairs.
Columns(from, w) ==
    IF from = "YUYV" THEN 0 .. 2 * ((w + 1) \div 2) - 1 ELSE 0 .. w - 1

\* Which components of a pixel are stored: U and V once for 2 x 2 pixels, at
\* IS_UV_SAMPLE_POINT, and not at all for RAW8, where they are filled in.
Stored(from, to, x, y) ==
    CASE to = "RGB888"      -> {1, 2, 3}
      [] from = "RAW8" /\ to # "RGB888" -> {1}
      [] OTHER -> IF x % 2 = 0 /\ y % 2 = 0 THEN {1, 2, 3} ELSE {1}

\* RAW8 to YUV420P fills both chroma planes with 128, the padding included.
Prepared(from, to, planes, buffer) ==
    IF from = "RAW8" /\ to = "YUV420P"
    THEN [a \in DOMAIN buffer |-> IF a >= Base(planes, 2) THEN 128 ELSE buffer[a]]
    ELSE buffer

\* The function of the table, for buffers of which no two stores meet: for sizes
\* that Fits of both formats (nothing checks it).
Convert(from, to, w, h, src, dst) ==
    LET S == Planes(from, w, h)
        D == Planes(to, w, h)
        Pixel(x, y) == LET a == Address(from, S, x, y)
                       IN  <<src[a[1]], src[a[2]], src[a[3]]>>
        PixelStores(x, y) ==
            LET a == Address(to, D, x, y)
                v == Colour(from, to, Pixel(x, y))
            IN  {<<a[k], v[k]>> : k \in Stored(from, to, x, y)}
    IN  Overlay(Prepared(from, to, D, dst),
                UNION {PixelStores(x, y) : x \in Columns(from, w), y \in 0 .. h - 1})

-----------------------------------------------------------------------------
(* What a converted pixel should be.                                        *)

\* v is the byte nearest to num / 256.
Nearest(v, num) ==
    \/ v \in Byte /\ 256 * v - num \in -128 .. 128
    \/ v = 0 /\ num < 0
    \/ v = 255 /\ num > 255 * 256

\* The colour out is the colour in converted by the exact formulas of BT.601
\* with their coefficients scaled by 256.
SameColour(from, to, in, out) ==
    CASE from \in {"RGB888", "BGR888"} ->
            /\ Nearest(out[1], 66 * in[1] + 129 * in[2] + 25 * in[3] + 16 * 256)
            /\ Nearest(out[2], 112 * in[3] - 38 * in[1] - 74 * in[2] + 128 * 256)
            /\ Nearest(out[3], 112 * in[1] - 94 * in[2] - 18 * in[3] + 128 * 256)
      [] from \in {"YUV420P", "NV12", "YUYV"} ->
            LET y == 298 * (in[1] - 16)
                u == in[2] - 128
                v == in[3] - 128
            IN  /\ Nearest(out[1], y + 409 * v)
                /\ Nearest(out[2], y - 100 * u - 208 * v)
                /\ Nearest(out[3], y + 516 * u)
      [] from = "RAW8" /\ to = "RGB888"  -> out = in
      [] from = "RAW8" /\ to = "YUV420P" -> out = <<in[1], 128, 128>>

\* The sizes a format has room for: those of which its chroma is a half.
\* Nothing in the code checks it.
Fits(format, w, h) ==
    /\ format \in {"YUV420P", "NV12", "YUYV"} => w % 2 = 0
    /\ format \in {"YUV420P", "NV12"} => h % 2 = 0

\* Where a file without padding keeps the components of pixel (x, y).
FileOffset(format, w, h, x, y) ==
    CASE format = "RGB888"  -> LET n == 3 * (y * w + x) IN <<n, n + 1, n + 2>>
      [] format = "RAW8"    -> LET n == y * w + x IN <<n, n, n>>
      [] format = "YUV420P" ->
            LET n == (y \div 2) * (w \div 2) + x \div 2
            IN  <<y * w + x, w * h + n, w * h + (w * h) \div 4 + n>>

\* The file `image' is the file `file' converted, of each pixel whose colour it
\* keeps.
FileConverted(from, to, w, h, file, image) ==
    /\ DOMAIN image = 0 .. FileSize(Planes(to, w, h)) - 1
    /\ \A x \in 0 .. w - 1, y \in 0 .. h - 1 :
          LET in  == FileOffset(from, w, h, x, y)
              out == FileOffset(to, w, h, x, y)
              Sampled == to # "YUV420P" \/ (x % 2 = 0 /\ y % 2 = 0)
          IN  Sampled => SameColour(from, to, [c \in 1 .. 3 |-> file[in[c]]],
                                              [c \in 1 .. 3 |-> image[out[c]]])
=============================================================================
