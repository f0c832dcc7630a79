-------------------------- MODULE MCFileScenario --------------------------
(***************************************************************************)
(* FileScenario for TLC: three sets of two frames, images of four by four  *)
(* or four by two pixels, and configurations that are whole, that lack one *)
(* or two keys, that have two keys in the other order, or whose frames     *)
(* differ in size.                                                         *)
(***************************************************************************)
EXTENDS FileScenario

KeyValue(k, v) == [key |-> k, value |-> v, number |-> 0]
KeyNumber(k, n) == [key |-> k, value |-> Bad, number |-> n]

FrameText(file, w, h) ==
    <<KeyValue("file", file), KeyNumber("width", w), KeyNumber("height", h)>>

SetText(name, format, w, h, w2, h2) ==
    <<KeyValue("name", name), KeyValue("base_path", name), KeyValue("format", format),
      KeyValue("frames", name)>>
    \o FrameText("frame_1", w, h) \o FrameText("frame_2", w2, h2)
    \o <<KeyValue("]", name)>>

Whole ==
    SetText("raw", "RAW8", 4, 2, 4, 2) \o SetText("rgb", "RGB888", 4, 4, 4, 4)
    \o SetText("yuv", "YUV420", 4, 4, 4, 4)

\* First frames that are smaller and larger than their files.
Uneven ==
    SetText("raw", "RAW8", 2, 2, 4, 2) \o SetText("rgb", "RGB888", 4, 6, 4, 4)

\* More than the parser reads.
Long == Whole \o SetText("rgb", "RGB888", 2, 2, 2, 2)

Two == SetText("rgb", "RGB888", 4, 4, 4, 4) \o SetText("raw", "RAW8", 4, 2, 4, 2)

Keys(t) == {i \in 1 .. Len(t) : t[i].key # "]"}

Without(t, gone) ==
    LET kept == {i \in 1 .. Len(t) : i \notin gone}
        Place(n) == CHOOSE i \in kept : Cardinality({j \in kept : j <= i}) = n
    IN  [n \in 1 .. Cardinality(kept) |-> t[Place(n)]]

Swapped(t, i) == [t EXCEPT ![i] = t[i + 1], ![i + 1] = t[i]]

Lacking == {Without(Two, {i, j}) : i, j \in Keys(Two)}
Reordered == {Swapped(Two, i) : i \in {j \in Keys(Two) : j + 1 \in Keys(Two)}}
Spoilt == {[Two EXCEPT ![i].value = Bad, ![i].number = 0] : i \in Keys(Two)}

MCTexts == {Whole, Uneven, Long, << >>} \cup Lacking \cup Reordered \cup Spoilt

\* Files of the size of an image, with bytes from the whole range that differ
\* from frame to frame and from place to place.
MCImageFile(s, f) ==
    LET size == CASE s = "rgb" -> 48 [] s = "yuv" -> 24 [] s = "raw" -> 8
        seed == size + IF f = "frame_1" THEN 0 ELSE 3
    IN  [k \in 0 .. size - 1 |-> (k * k * 37 + k * 101 + seed * 83) % 256]
=============================================================================
