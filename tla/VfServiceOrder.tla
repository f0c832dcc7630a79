---------------------------- MODULE VfServiceOrder ----------------------------
(***************************************************************************)
(* The order of VfService's frames, the types of its state, and that it    *)
(* implements FrameLine, for pools and queues of every size.               *)
(*                                                                         *)
(* order = Pipeline is inductive beside VfServiceProofs' FrameInv, which   *)
(* says that the pipeline repeats no frame.  A step moves a frame between  *)
(* two neighbours of the pipeline and leaves the concatenation as it is,   *)
(* takes one frame out of its middle (RemoveMiddle), or replaces one by    *)
(* its converted twin (RenameMiddle).                                      *)
(***************************************************************************)
EXTENDS VfServiceProofs

\* The pipeline's seven segments, one after the other.  The operators keep
\* the provers from expanding a long concatenation where it does not matter.
Join2(a, b) == a \o b
Join3(a, b, c) == (a \o b) \o c
Join4(a, b, c, d) == Join3(a, b, c) \o d
Join5(a, b, c, d, e) == Join4(a, b, c, d) \o e
Join6(a, b, c, d, e, f) == Join5(a, b, c, d, e) \o f
Join7(a, b, c, d, e, f, g) == Join6(a, b, c, d, e, f) \o g

\* Removing the one occurrence of a frame.
LEMMA RemoveMiddle ==
  ASSUME NEW S, NEW a \in Seq(S), NEW b \in Seq(S), NEW s \in S,
         NoRepeat(Join3(a, <<s>>, b))
  PROVE  RemoveFirst(Join3(a, <<s>>, b), s) = a \o b
<1> DEFINE r == (a \o <<s>>) \o b
           k == Len(a) + 1
           n == Len(b)
<1>1. /\ Len(a) \in Nat /\ n \in Nat /\ k \in Nat /\ k >= 1
      /\ <<s>> \in Seq(S) /\ Len(<<s>>) = 1
  BY LenProperties
<1>2. a \o <<s>> \in Seq(S) /\ Len(a \o <<s>>) = k
  BY <1>1, ConcatProperties
<1>3. /\ r \in Seq(S) /\ Len(r) = k + n
      /\ \A i \in 1 .. k + n : r[i] = IF i <= k THEN (a \o <<s>>)[i] ELSE b[i - k]
  BY <1>2, ConcatProperties
<1>4. \A i \in 1 .. k : (a \o <<s>>)[i] = IF i <= Len(a) THEN a[i] ELSE <<s>>[i - Len(a)]
  BY <1>1, ConcatProperties
<1> HIDE DEF r
<1>5. r[k] = s /\ k \in 1 .. k + n
  BY <1>1, <1>3, <1>4
<1>6. \A i \in 1 .. k + n : r[i] = s <=> i = k
  BY <1>3, <1>5 DEF NoRepeat, Join3, r
<1>7. RemoveFirst(r, s) = RemoveAt(r, k)
  <2> DEFINE I == {i \in 1 .. Len(r) : r[i] = s}
  <2>1. I = {k}
    BY <1>3, <1>5, <1>6
  <2>2. Min(I) = k
    BY <1>1, <2>1 DEF Min
  <2>3. SelectInSeq(r, LAMBDA v : v = s) = k
    BY <2>1, <2>2 DEF SelectInSeq
  <2> QED
    BY <1>3, <1>5, <2>3 DEF RemoveFirst
<1>8. SubSeq(r, 1, k - 1) = a
  <2>1. \A i \in 1 .. k - 1 : r[i] = a[i] /\ a[i] \in S
    BY <1>1, <1>3, <1>4, LenProperties
  <2>2. /\ SubSeq(r, 1, k - 1) \in Seq(S)
        /\ Len(SubSeq(r, 1, k - 1)) = Len(a)
        /\ \A i \in 1 .. Len(a) : SubSeq(r, 1, k - 1)[i] = r[(1 + i) - 1]
    BY <1>1, <2>1, SubSeqProperties
  <2> QED
    BY <1>1, <2>1, <2>2, SeqEqual
<1>9. SubSeq(r, k + 1, Len(r)) = b
  <2>1. \A i \in k + 1 .. k + n : r[i] = b[i - k] /\ b[i - k] \in S
    BY <1>1, <1>3, LenProperties
  <2>2. /\ SubSeq(r, k + 1, k + n) \in Seq(S)
        /\ Len(SubSeq(r, k + 1, k + n)) = n
        /\ \A i \in 1 .. n : SubSeq(r, k + 1, k + n)[i] = r[((k + 1) + i) - 1]
    BY <1>1, <2>1, SubSeqProperties
  <2>3. \A i \in 1 .. n : r[((k + 1) + i) - 1] = b[i]
    BY <1>1, <2>1
  <2> QED
    BY <1>1, <1>3, <2>2, <2>3, SeqEqual
<1> QED
  BY <1>7, <1>8, <1>9 DEF RemoveAt, Join3, r

\* Renaming the one occurrence of a frame, which is what the conversion unit
\* does to the frame it has converted.
Renamed(seq, s, t) == [i \in DOMAIN seq |-> IF seq[i] = s THEN t ELSE seq[i]]

LEMMA RenameMiddle ==
  ASSUME NEW S, NEW a \in Seq(S), NEW b \in Seq(S), NEW s \in S, NEW t \in S,
         NoRepeat(Join3(a, <<s>>, b))
  PROVE  Renamed(Join3(a, <<s>>, b), s, t) = Join3(a, <<t>>, b)
<1> DEFINE r == (a \o <<s>>) \o b
           q == (a \o <<t>>) \o b
           k == Len(a) + 1
           n == Len(b)
<1>1. /\ Len(a) \in Nat /\ n \in Nat /\ k \in Nat /\ k >= 1
      /\ <<s>> \in Seq(S) /\ Len(<<s>>) = 1
      /\ <<t>> \in Seq(S) /\ Len(<<t>>) = 1
  BY LenProperties
<1>2. /\ a \o <<s>> \in Seq(S) /\ Len(a \o <<s>>) = k
      /\ a \o <<t>> \in Seq(S) /\ Len(a \o <<t>>) = k
  BY <1>1, ConcatProperties
<1>3. /\ r \in Seq(S) /\ Len(r) = k + n
      /\ \A i \in 1 .. k + n : r[i] = IF i <= k THEN (a \o <<s>>)[i] ELSE b[i - k]
  BY <1>2, ConcatProperties
<1>4. /\ q \in Seq(S) /\ Len(q) = k + n
      /\ \A i \in 1 .. k + n : q[i] = IF i <= k THEN (a \o <<t>>)[i] ELSE b[i - k]
  BY <1>2, ConcatProperties
<1>5. /\ \A i \in 1 .. k : (a \o <<s>>)[i] = IF i <= Len(a) THEN a[i] ELSE <<s>>[i - Len(a)]
      /\ \A i \in 1 .. k : (a \o <<t>>)[i] = IF i <= Len(a) THEN a[i] ELSE <<t>>[i - Len(a)]
  BY <1>1, ConcatProperties
<1> HIDE DEF r, q
<1>6. k \in 1 .. k + n /\ r[k] = s /\ q[k] = t
  <2>1. k \in 1 .. k + n /\ k \in 1 .. k /\ ~(k <= Len(a)) /\ k - Len(a) = 1
    BY <1>1
  <2>2. r[k] = (a \o <<s>>)[k] /\ q[k] = (a \o <<t>>)[k]
    BY <1>1, <1>3, <1>4, <2>1
  <2>3. (a \o <<s>>)[k] = <<s>>[1] /\ (a \o <<t>>)[k] = <<t>>[1]
    BY <1>5, <2>1
  <2> QED
    BY <2>1, <2>2, <2>3
<1>7. ASSUME NEW i \in 1 .. k + n, i # k
      PROVE  q[i] = r[i]
  <2>1. CASE i > k
    <3>1. ~(i <= k)
      BY <1>1, <2>1
    <3> QED
      BY <1>3, <1>4, <3>1
  <2>2. CASE i < k
    <3>1. i <= k /\ i \in 1 .. k /\ i <= Len(a)
      BY <1>1, <2>2
    <3> QED
      BY <1>3, <1>4, <1>5, <3>1
  <2> QED
    BY <1>1, <1>7, <2>1, <2>2
<1>8. \A i \in 1 .. k + n : r[i] = s <=> i = k
  BY <1>3, <1>6 DEF NoRepeat, Join3, r
<1>9. DOMAIN r = 1 .. k + n
  BY <1>3, LenProperties
<1>10. \A i \in 1 .. k + n : Renamed(r, s, t)[i] = q[i]
  BY <1>6, <1>7, <1>8, <1>9 DEF Renamed
<1>11. q \in [1 .. k + n -> S] /\ DOMAIN Renamed(r, s, t) = 1 .. k + n
  BY <1>4, <1>9, LenProperties DEF Renamed
<1>12. Renamed(r, s, t) = q
  BY <1>10, <1>11 DEF Renamed
<1> QED
  BY <1>12 DEF Join3, r, q

-----------------------------------------------------------------------------

Segments(S, a, b, c, d, e, f, g) ==
    /\ a \in Seq(S) /\ b \in Seq(S) /\ c \in Seq(S) /\ d \in Seq(S)
    /\ e \in Seq(S) /\ f \in Seq(S) /\ g \in Seq(S)

LEMMA JoinSeq ==
  ASSUME NEW S, NEW a \in Seq(S), NEW b \in Seq(S), NEW c \in Seq(S), NEW d \in Seq(S),
         NEW e \in Seq(S), NEW f \in Seq(S)
  PROVE  /\ a \o b \in Seq(S)
         /\ Join3(a, b, c) \in Seq(S)
         /\ Join4(a, b, c, d) \in Seq(S)
         /\ Join5(a, b, c, d, e) \in Seq(S)
         /\ Join6(a, b, c, d, e, f) \in Seq(S)
<1>1. a \o b \in Seq(S)
  BY ConcatProperties
<1>2. Join3(a, b, c) \in Seq(S)
  BY <1>1, ConcatProperties DEF Join3
<1>3. Join4(a, b, c, d) \in Seq(S)
  BY <1>2, ConcatProperties DEF Join4
<1>4. Join5(a, b, c, d, e) \in Seq(S)
  BY <1>3, ConcatProperties DEF Join5
<1>5. Join6(a, b, c, d, e, f) \in Seq(S)
  BY <1>4, ConcatProperties DEF Join6
<1> QED
  BY <1>1, <1>2, <1>3, <1>4, <1>5

LEMMA Regroup2 ==
  ASSUME NEW S, NEW x \in Seq(S), NEW a \in Seq(S), NEW b \in Seq(S)
  PROVE  Join3(x, a, b) = x \o Join2(a, b)
  BY ConcatAssociative DEF Join2, Join3

LEMMA Regroup3 ==
  ASSUME NEW S, NEW x \in Seq(S), NEW a \in Seq(S), NEW b \in Seq(S), NEW c \in Seq(S)
  PROVE  /\ Join4(x, a, b, c) = x \o Join3(a, b, c)
         /\ Join3(a, b, c) \in Seq(S)
<1>1. PICK m \in Seq(S) : m = a \o b
  BY ConcatProperties
<1>2. (x \o a) \o b = x \o m
  BY <1>1, ConcatAssociative
<1>3. (x \o m) \o c = x \o (m \o c) /\ m \o c \in Seq(S)
  BY ConcatAssociative, ConcatProperties
<1> QED
  BY <1>1, <1>2, <1>3 DEF Join3, Join4

LEMMA Regroup4 ==
  ASSUME NEW S, NEW x \in Seq(S), NEW a \in Seq(S), NEW b \in Seq(S), NEW c \in Seq(S),
         NEW d \in Seq(S)
  PROVE  /\ Join5(x, a, b, c, d) = x \o Join4(a, b, c, d)
         /\ Join4(a, b, c, d) \in Seq(S)
<1>1. Join4(x, a, b, c) = x \o Join3(a, b, c) /\ Join3(a, b, c) \in Seq(S)
  BY Regroup3
<1>2. PICK m \in Seq(S) : m = Join3(a, b, c)
  BY <1>1
<1>3. (x \o m) \o d = x \o (m \o d) /\ m \o d \in Seq(S)
  BY ConcatAssociative, ConcatProperties
<1> QED
  BY <1>1, <1>2, <1>3 DEF Join4, Join5

LEMMA Regroup6 ==
  ASSUME NEW S, NEW x, NEW a, NEW b, NEW c, NEW d, NEW e, NEW f,
         Segments(S, x, a, b, c, d, e, f)
  PROVE  /\ Join7(x, a, b, c, d, e, f) = x \o Join6(a, b, c, d, e, f)
         /\ Join6(a, b, c, d, e, f) \in Seq(S)
<1> USE DEF Segments
<1>1. Join5(x, a, b, c, d) = x \o Join4(a, b, c, d) /\ Join4(a, b, c, d) \in Seq(S)
  BY Regroup4
<1>2. PICK m \in Seq(S) : m = Join4(a, b, c, d)
  BY <1>1
<1>3. Join4(x, m, e, f) = x \o Join3(m, e, f) /\ Join3(m, e, f) \in Seq(S)
  BY Regroup3
<1>4. Join7(x, a, b, c, d, e, f) = Join4(x, m, e, f)
  BY <1>1, <1>2 DEF Join3, Join4, Join6, Join7
<1>5. Join6(a, b, c, d, e, f) = Join3(m, e, f)
  BY <1>2 DEF Join3, Join5, Join6
<1> QED
  BY <1>3, <1>4, <1>5

-----------------------------------------------------------------------------

\* Taking a frame out of the file unit's pointer ...
LEMMA TakeFirst ==
  ASSUME NEW S, NEW s \in S, NEW b, NEW c, NEW d, NEW e, NEW f, NEW g,
         Segments(S, << >>, b, c, d, e, f, g),
         NoRepeat(Join7(<<s>>, b, c, d, e, f, g))
  PROVE  RemoveFirst(Join7(<<s>>, b, c, d, e, f, g), s)
            = Join7(<< >>, b, c, d, e, f, g)
<1>1. <<s>> \in Seq(S) /\ << >> \in Seq(S)
  BY EmptySeq
<1>2. /\ Join7(<<s>>, b, c, d, e, f, g) = <<s>> \o Join6(b, c, d, e, f, g)
      /\ Join7(<< >>, b, c, d, e, f, g) = << >> \o Join6(b, c, d, e, f, g)
      /\ Join6(b, c, d, e, f, g) \in Seq(S)
  <2>1. ASSUME NEW y \in Seq(S)
        PROVE  /\ Join7(y, b, c, d, e, f, g) = y \o Join6(b, c, d, e, f, g)
               /\ Join6(b, c, d, e, f, g) \in Seq(S)
    <3>1. Segments(S, y, b, c, d, e, f, g)
      BY DEF Segments
    <3> QED
      BY <3>1, Regroup6
  <2> QED
    BY <1>1, <2>1
<1>3. PICK m \in Seq(S) : m = Join6(b, c, d, e, f, g)
  BY <1>2
<1>4. << >> \o <<s>> = <<s>>
  BY <1>1, ConcatEmptySeq
<1>5. Join3(<< >>, <<s>>, m) = Join7(<<s>>, b, c, d, e, f, g)
  BY <1>2, <1>3, <1>4 DEF Join3
<1>6. RemoveFirst(Join3(<< >>, <<s>>, m), s) = << >> \o m
  BY <1>1, <1>5, RemoveMiddle
<1> QED
  BY <1>2, <1>3, <1>5, <1>6

\* ... out of the conversion unit's, where it may be renamed instead ...
LEMMA TakeThird ==
  ASSUME NEW S, NEW s \in S, NEW x \in Seq(S), NEW d \in Seq(S), NEW e \in Seq(S),
         NEW f \in Seq(S), NEW g \in Seq(S), NoRepeat(Join5(x \o <<s>>, d, e, f, g))
  PROVE  RemoveFirst(Join5(x \o <<s>>, d, e, f, g), s) = Join5(x \o << >>, d, e, f, g)
<1>1. ASSUME NEW z \in Seq(S)
      PROVE  Join5(z, d, e, f, g) = z \o Join4(d, e, f, g) /\ Join4(d, e, f, g) \in Seq(S)
  BY Regroup4
<1>2. /\ <<s>> \in Seq(S) /\ << >> \in Seq(S)
      /\ x \o <<s>> \in Seq(S) /\ x \o << >> = x
  BY EmptySeq, ConcatProperties, ConcatEmptySeq
<1>3. PICK m \in Seq(S) : m = Join4(d, e, f, g)
  BY <1>1
<1>4. Join5(x \o <<s>>, d, e, f, g) = Join3(x, <<s>>, m)
  BY <1>1, <1>2, <1>3 DEF Join3
<1>5. RemoveFirst(Join3(x, <<s>>, m), s) = x \o m
  BY <1>4, RemoveMiddle
<1> QED
  BY <1>1, <1>2, <1>3, <1>4, <1>5

LEMMA RenameThird ==
  ASSUME NEW S, NEW s \in S, NEW t \in S, NEW x \in Seq(S), NEW d \in Seq(S),
         NEW e \in Seq(S), NEW f \in Seq(S), NEW g \in Seq(S),
         NoRepeat(Join5(x \o <<s>>, d, e, f, g))
  PROVE  Renamed(Join5(x \o <<s>>, d, e, f, g), s, t) = Join5(x \o <<t>>, d, e, f, g)
<1>1. ASSUME NEW z \in Seq(S)
      PROVE  Join5(z, d, e, f, g) = z \o Join4(d, e, f, g) /\ Join4(d, e, f, g) \in Seq(S)
  BY Regroup4
<1>2. /\ <<s>> \in Seq(S) /\ <<t>> \in Seq(S)
      /\ x \o <<s>> \in Seq(S) /\ x \o <<t>> \in Seq(S)
  BY EmptySeq, ConcatProperties
<1>3. PICK m \in Seq(S) : m = Join4(d, e, f, g)
  BY <1>1
<1>4. /\ Join5(x \o <<s>>, d, e, f, g) = Join3(x, <<s>>, m)
      /\ Join5(x \o <<t>>, d, e, f, g) = Join3(x, <<t>>, m)
  BY <1>1, <1>2, <1>3 DEF Join3
<1>5. Renamed(Join3(x, <<s>>, m), s, t) = Join3(x, <<t>>, m)
  BY <1>4, RenameMiddle
<1> QED
  BY <1>4, <1>5

\* ... out of the provider's ...
LEMMA TakeFifth ==
  ASSUME NEW S, NEW s \in S, NEW x \in Seq(S), NEW f \in Seq(S), NEW g \in Seq(S),
         NoRepeat(Join3(x \o <<s>>, f, g))
  PROVE  RemoveFirst(Join3(x \o <<s>>, f, g), s) = Join3(x \o << >>, f, g)
<1>1. ASSUME NEW z \in Seq(S)
      PROVE  Join3(z, f, g) = z \o Join2(f, g)
  BY Regroup2
<1>2. /\ <<s>> \in Seq(S) /\ << >> \in Seq(S)
      /\ x \o <<s>> \in Seq(S) /\ x \o << >> = x
  BY EmptySeq, ConcatProperties, ConcatEmptySeq
<1>3. PICK m \in Seq(S) : m = Join2(f, g)
  BY ConcatProperties DEF Join2
<1>4. Join3(x \o <<s>>, f, g) = Join3(x, <<s>>, m)
  <2>1. Join3(x \o <<s>>, f, g) = (x \o <<s>>) \o m
    BY <1>1, <1>2, <1>3
  <2> QED
    BY <2>1 DEF Join3
<1>5. RemoveFirst(Join3(x, <<s>>, m), s) = x \o m
  BY <1>4, RemoveMiddle
<1>6. Join3(x \o << >>, f, g) = x \o m
  BY <1>1, <1>2, <1>3
<1> QED
  BY <1>4, <1>5, <1>6

\* ... and out of the camera's.
LEMMA TakeLast ==
  ASSUME NEW S, NEW s \in S, NEW x \in Seq(S), NoRepeat(x \o <<s>>)
  PROVE  RemoveFirst(x \o <<s>>, s) = x \o << >>
<1>1. << >> \in Seq(S) /\ x \o <<s>> \in Seq(S)
  BY EmptySeq, ConcatProperties
<1>2. (x \o <<s>>) \o << >> = x \o <<s>>
  BY <1>1, ConcatEmptySeq
<1>3. Join3(x, <<s>>, << >>) = x \o <<s>>
  BY <1>2 DEF Join3
<1>4. RemoveFirst(Join3(x, <<s>>, << >>), s) = x \o << >>
  BY <1>1, <1>3, RemoveMiddle
<1> QED
  BY <1>3, <1>4

\* A frame that moves from a unit's pointer to the queue behind it, or from
\* a queue to the pointer of the unit that pops it, keeps its position.
LEMMA PushMoves ==
  ASSUME NEW S, NEW s \in S, NEW x \in Seq(S), NEW q \in Seq(S)
  PROVE  (x \o Append(q, s)) \o << >> = (x \o q) \o <<s>>
<1>1. PICK r \in Seq(S) : r = Append(q, s)
  BY AppendProperties
<1>2. PICK t \in Seq(S) : t = <<s>>
  <2>1. <<s>> \in Seq(S)
    BY EmptySeq
  <2> QED
    BY <2>1
<1>3. r = q \o t
  BY <1>1, <1>2, AppendIsConcat
<1>4. (x \o q) \o t = x \o (q \o t)
  BY ConcatAssociative
<1>5. x \o r \in Seq(S)
  BY ConcatProperties
<1>6. (x \o r) \o << >> = x \o r
  BY <1>5, ConcatEmptySeq
<1> QED
  BY <1>1, <1>2, <1>3, <1>4, <1>6

LEMMA PopMoves ==
  ASSUME NEW S, NEW x \in Seq(S), NEW q \in Seq(S), q # << >>
  PROVE  (x \o <<Head(q)>>) \o Tail(q) = (x \o << >>) \o q
<1>0. Head(q) \in S
  BY HeadTailProperties
<1>1. PICK h \in Seq(S) : h = <<Head(q)>>
  <2>1. <<Head(q)>> \in Seq(S)
    BY <1>0, EmptySeq
  <2> QED
    BY <2>1
<1>2. PICK t \in Seq(S) : t = Tail(q)
  BY HeadTailProperties
<1>3. h \o t = q
  BY <1>1, <1>2
<1>4. (x \o h) \o t = x \o (h \o t)
  BY ConcatAssociative
<1>5. x \o << >> = x
  BY ConcatEmptySeq
<1> QED
  BY <1>1, <1>2, <1>3, <1>4, <1>5

-----------------------------------------------------------------------------

OrderInv == order = Pipeline

LEMMA PipelineIs ==
  /\ Pipeline = Join7(AtMostOne(fb[4]), queue[3], Unconverted, queue[2],
                      AtMostOne(fb[2]), queue[1], AtMostOne(fb[1]))
  /\ Pipeline' = Join7(AtMostOne(fb'[4]), queue'[3], Unconverted', queue'[2],
                       AtMostOne(fb'[2]), queue'[1], AtMostOne(fb'[1]))
  BY DEF Pipeline, Join3, Join4, Join5, Join6, Join7, AtMostOne, FileOut, Provider, Camera

LEMMA SegmentTypes ==
  ASSUME FrameInv
  PROVE  /\ Segments(AllSlots, AtMostOne(fb[4]), queue[3], Unconverted, queue[2],
                     AtMostOne(fb[2]), queue[1], AtMostOne(fb[1]))
         /\ NoRepeat(Pipeline)
         /\ Pipeline \in Seq(AllSlots)
<1>1. \A u \in Units : AtMostOne(fb[u]) \in Seq(AllSlots)
  BY PtrSeq DEF FrameInv, FrameTypes
<1>2. \A q \in Queues : queue[q] \in Seq(AllSlots)
  BY DEF FrameInv, FrameTypes
<1> QED
  BY <1>1, <1>2, ConversionPtr, PlacesHold DEF Segments, Units, Queues

LEMMA Pointed ==
  /\ AtMostOne(NULL) = << >>
  /\ \A s \in AllSlots : AtMostOne(s) = <<s>>
  BY SlotSets DEF AtMostOne

LEMMA ForgetNull ==
  ASSUME FrameInv, OrderInv, Forget(NULL)
  PROVE  order' = order
<1>1. order \in Seq(AllSlots)
  BY SegmentTypes DEF OrderInv
<1>2. \A i \in 1 .. Len(order) : order[i] # NULL
  BY <1>1, LenProperties, SlotSets
<1> QED
  BY <1>2 DEF Forget, RemoveFirst

\* A step that leaves the queues, the frame pointers and the conversion
\* unit's input in place leaves the pipeline in place.
LEMMA SameOrder ==
  ASSUME OrderInv, UNCHANGED <<queue, fb, order>>, Unconverted' = Unconverted
  PROVE  OrderInv'
  BY PipelineIs DEF OrderInv

LEMMA CameraGetOrder ==
  ASSUME ThreadInv, FrameInv, OrderInv, CameraGet
  PROVE  OrderInv'
<1>1. PICK s \in InSlots : fb' = [fb EXCEPT ![1] = s] /\ order' = Append(order, s)
  BY DEF CameraGet, Camera
<1>2. /\ fb[1] = NULL /\ pc' = [pc EXCEPT ![1] = "send"] /\ s \in AllSlots
      /\ UNCHANGED queue
  BY <1>1, SlotSets DEF CameraGet, Goto, Camera, FrameInv, Pointers
<1>3. fb'[1] = s /\ fb'[2] = fb[2] /\ fb'[3] = fb[3] /\ fb'[4] = fb[4] /\ pc'[3] = pc[3]
  BY <1>1, <1>2 DEF FrameInv, FrameTypes, ThreadInv, ControlTypes, Units
<1>4. Unconverted' = Unconverted
  BY <1>3 DEF Unconverted, Conversion, AtMostOne
<1>5. PICK x \in Seq(AllSlots) :
         x = Join6(AtMostOne(fb[4]), queue[3], Unconverted, queue[2],
                   AtMostOne(fb[2]), queue[1])
  BY SegmentTypes, JoinSeq DEF Segments
<1>6. Pipeline = x \o << >> /\ Pipeline' = x \o <<s>>
  BY <1>2, <1>3, <1>4, <1>5, PipelineIs, Pointed DEF Join7
<1>7. x \o << >> = x /\ Append(x, s) = x \o <<s>>
  BY <1>2, ConcatEmptySeq, AppendIsConcat
<1> QED
  BY <1>1, <1>6, <1>7 DEF OrderInv

LEMMA CameraSendOrder ==
  ASSUME ThreadInv, FrameInv, OrderInv, CameraSend
  PROVE  OrderInv'
<1>1. PICK s \in AllSlots : s = fb[1]
  BY DEF CameraSend, Goto, Camera, FrameInv, FrameTypes, Pointers, Units
<1>2. fb' = [fb EXCEPT ![1] = NULL] /\ pc' = [pc EXCEPT ![1] = "loop"]
  BY DEF CameraSend, Goto, Camera
<1>3. fb'[1] = NULL /\ fb'[2] = fb[2] /\ fb'[3] = fb[3] /\ fb'[4] = fb[4] /\ pc'[3] = pc[3]
  BY <1>2 DEF FrameInv, FrameTypes, ThreadInv, ControlTypes, Units
<1>4. Unconverted' = Unconverted
  BY <1>3 DEF Unconverted, Conversion, AtMostOne
<1>5. PICK x \in Seq(AllSlots) :
         x = Join5(AtMostOne(fb[4]), queue[3], Unconverted, queue[2], AtMostOne(fb[2]))
  BY SegmentTypes, JoinSeq DEF Segments
<1>6. Pipeline = (x \o queue[1]) \o <<s>>
  BY <1>1, <1>5, PipelineIs, Pointed DEF Join6, Join7
<1>7. queue[1] \in Seq(AllSlots) /\ x \o queue[1] \in Seq(AllSlots)
  BY SegmentTypes, ConcatProperties DEF Segments
<1>8. CASE Push(1, s) /\ UNCHANGED order
  <2>1. queue'[1] = Append(queue[1], s) /\ queue'[2] = queue[2] /\ queue'[3] = queue[3]
    BY <1>8 DEF Push, FrameInv, FrameTypes, Queues
  <2>2. Pipeline' = (x \o Append(queue[1], s)) \o << >>
    BY <1>3, <1>4, <1>5, <2>1, PipelineIs, Pointed DEF Join6, Join7
  <2>3. Pipeline' = Pipeline
    BY <1>6, <1>7, <2>2, PushMoves
  <2> QED
    BY <1>8, <2>3 DEF OrderInv
<1>9. CASE Forget(s) /\ UNCHANGED queue
  <2>1. Pipeline' = (x \o queue[1]) \o << >>
    BY <1>3, <1>4, <1>5, <1>9, PipelineIs, Pointed DEF Join6, Join7
  <2>2. PICK y \in Seq(AllSlots) : y = x \o queue[1]
    BY <1>7
  <2>3. NoRepeat(y \o <<s>>)
    BY <1>6, <2>2, SegmentTypes
  <2>4. RemoveFirst(y \o <<s>>, s) = y \o << >>
    BY <2>3, TakeLast
  <2> QED
    BY <1>6, <1>9, <2>1, <2>2, <2>4 DEF OrderInv, Forget
<1> QED
  BY <1>1, <1>8, <1>9 DEF CameraSend, Camera

LEMMA ProviderGetOrder ==
  ASSUME ThreadInv, FrameInv, OrderInv, ProviderGet
  PROVE  OrderInv'
<1>1. PICK s \in InSlots : PopFrame(2, s) /\ fb' = [fb EXCEPT ![2] = s]
  BY DEF ProviderGet, Provider
<1>2. /\ fb[2] = NULL /\ pc' = [pc EXCEPT ![2] = "send"] /\ s \in AllSlots
      /\ UNCHANGED order
  BY <1>1, SlotSets DEF ProviderGet, Goto, Provider, FrameInv, Pointers
<1>3. fb'[1] = fb[1] /\ fb'[2] = s /\ fb'[3] = fb[3] /\ fb'[4] = fb[4] /\ pc'[3] = pc[3]
  BY <1>1, <1>2 DEF FrameInv, FrameTypes, ThreadInv, ControlTypes, Units
<1>4. Unconverted' = Unconverted
  BY <1>3 DEF Unconverted, Conversion, AtMostOne
<1>5. PICK x \in Seq(AllSlots) :
         x = Join4(AtMostOne(fb[4]), queue[3], Unconverted, queue[2])
  BY SegmentTypes, JoinSeq DEF Segments
<1>6. /\ queue[1] # << >> /\ s = Head(queue[1]) /\ queue[1] \in Seq(AllSlots)
      /\ queue'[1] = Tail(queue[1]) /\ queue'[2] = queue[2] /\ queue'[3] = queue[3]
  BY <1>1 DEF PopFrame, FrameInv, FrameTypes, Queues
<1>7. (x \o <<s>>) \o Tail(queue[1]) = (x \o << >>) \o queue[1]
  BY <1>6, PopMoves
<1>8. Pipeline = ((x \o << >>) \o queue[1]) \o AtMostOne(fb[1])
  BY <1>2, <1>5, PipelineIs, Pointed DEF Join5, Join6, Join7
<1>9. Pipeline' = ((x \o <<s>>) \o Tail(queue[1])) \o AtMostOne(fb[1])
  BY <1>2, <1>3, <1>4, <1>5, <1>6, PipelineIs, Pointed DEF Join5, Join6, Join7
<1> QED
  BY <1>2, <1>7, <1>8, <1>9 DEF OrderInv

LEMMA ProviderSendOrder ==
  ASSUME ThreadInv, FrameInv, OrderInv, ProviderSend
  PROVE  OrderInv'
<1>1. PICK s \in AllSlots : s = fb[2]
  BY DEF ProviderSend, Goto, Provider, FrameInv, FrameTypes, Pointers, Units
<1>2. fb' = [fb EXCEPT ![2] = NULL] /\ pc' = [pc EXCEPT ![2] = "loop"]
  BY DEF ProviderSend, Goto, Provider
<1>3. fb'[1] = fb[1] /\ fb'[2] = NULL /\ fb'[3] = fb[3] /\ fb'[4] = fb[4] /\ pc'[3] = pc[3]
  BY <1>2 DEF FrameInv, FrameTypes, ThreadInv, ControlTypes, Units
<1>4. Unconverted' = Unconverted
  BY <1>3 DEF Unconverted, Conversion, AtMostOne
<1>5. PICK x \in Seq(AllSlots) : x = Join3(AtMostOne(fb[4]), queue[3], Unconverted)
  BY SegmentTypes, JoinSeq DEF Segments
<1>6. PICK f \in Seq(AllSlots) : f = queue[1]
  BY SegmentTypes DEF Segments
<1>7. PICK g \in Seq(AllSlots) : g = AtMostOne(fb[1])
  BY SegmentTypes DEF Segments
<1>8. queue[2] \in Seq(AllSlots) /\ x \o queue[2] \in Seq(AllSlots)
  BY SegmentTypes, ConcatProperties DEF Segments
<1>9. Pipeline = (((x \o queue[2]) \o <<s>>) \o f) \o g
  BY <1>1, <1>5, <1>6, <1>7, PipelineIs, Pointed DEF Join4, Join5, Join6, Join7
<1>10. CASE Push(2, s) /\ UNCHANGED order
  <2>1. queue'[1] = queue[1] /\ queue'[2] = Append(queue[2], s) /\ queue'[3] = queue[3]
    BY <1>10 DEF Push, FrameInv, FrameTypes, Queues
  <2>2. Pipeline' = (((x \o Append(queue[2], s)) \o << >>) \o f) \o g
    BY <1>3, <1>4, <1>5, <1>6, <1>7, <2>1, PipelineIs, Pointed
       DEF Join4, Join5, Join6, Join7
  <2>3. (x \o Append(queue[2], s)) \o << >> = (x \o queue[2]) \o <<s>>
    BY <1>8, PushMoves
  <2> QED
    BY <1>9, <1>10, <2>2, <2>3 DEF OrderInv
<1>11. CASE Forget(s) /\ UNCHANGED queue
  <2>1. Pipeline' = (((x \o queue[2]) \o << >>) \o f) \o g
    BY <1>3, <1>4, <1>5, <1>6, <1>7, <1>11, PipelineIs, Pointed
       DEF Join4, Join5, Join6, Join7
  <2>2. PICK y \in Seq(AllSlots) : y = x \o queue[2]
    BY <1>8
  <2>3. Pipeline = Join3(y \o <<s>>, f, g) /\ Pipeline' = Join3(y \o << >>, f, g)
    BY <1>9, <2>1, <2>2 DEF Join3
  <2>4. NoRepeat(Join3(y \o <<s>>, f, g))
    BY <2>3, SegmentTypes
  <2>5. RemoveFirst(Join3(y \o <<s>>, f, g), s) = Join3(y \o << >>, f, g)
    BY <2>4, TakeFifth
  <2> QED
    BY <1>11, <2>3, <2>5 DEF OrderInv, Forget
<1> QED
  BY <1>1, <1>10, <1>11 DEF ProviderSend, Provider

LEMMA ConversionGetOrder ==
  ASSUME ThreadInv, FrameInv, OrderInv, ConversionGet
  PROVE  OrderInv'
<1>1. PICK s \in InSlots : PopFrame(3, s) /\ fb' = [fb EXCEPT ![3] = s]
  BY DEF ConversionGet, Conversion
<1>2. /\ fb[3] = NULL /\ pc[3] = "get" /\ pc' = [pc EXCEPT ![3] = "process"]
      /\ s \in AllSlots /\ UNCHANGED order
  BY <1>1, SlotSets DEF ConversionGet, Goto, Conversion, FrameInv, Pointers
<1>3. /\ fb'[1] = fb[1] /\ fb'[2] = fb[2] /\ fb'[3] = s /\ fb'[4] = fb[4]
      /\ pc'[3] = "process"
  BY <1>1, <1>2 DEF FrameInv, FrameTypes, ThreadInv, ControlTypes, Units
<1>4. Unconverted = << >> /\ Unconverted' = <<s>>
  <2>1. Unconverted = AtMostOne(fb[3])
    BY <1>2 DEF Unconverted, Conversion
  <2>2. Unconverted' = AtMostOne(fb'[3])
    BY <1>3 DEF Unconverted, Conversion, AtMostOne
  <2> QED
    BY <1>2, <1>3, <2>1, <2>2, Pointed
<1>5. PICK x \in Seq(AllSlots) : x = AtMostOne(fb[4]) \o queue[3]
  BY SegmentTypes, JoinSeq DEF Segments
<1>6. /\ queue[2] # << >> /\ s = Head(queue[2]) /\ queue[2] \in Seq(AllSlots)
      /\ queue'[1] = queue[1] /\ queue'[2] = Tail(queue[2]) /\ queue'[3] = queue[3]
  BY <1>1 DEF PopFrame, FrameInv, FrameTypes, Queues
<1>7. (x \o <<s>>) \o Tail(queue[2]) = (x \o << >>) \o queue[2]
  BY <1>6, PopMoves
<1> DEFINE e == AtMostOne(fb[2])
           f == queue[1]
           g == AtMostOne(fb[1])
<1>8. Pipeline = ((((x \o << >>) \o queue[2]) \o e) \o f) \o g
  BY <1>4, <1>5, PipelineIs DEF Join3, Join4, Join5, Join6, Join7
<1>9. Pipeline' = ((((x \o <<s>>) \o Tail(queue[2])) \o e) \o f) \o g
  BY <1>3, <1>4, <1>5, <1>6, PipelineIs DEF Join3, Join4, Join5, Join6, Join7
<1> QED
  BY <1>2, <1>7, <1>8, <1>9 DEF OrderInv

LEMMA ConversionSendOrder ==
  ASSUME ThreadInv, FrameInv, OrderInv, ConversionSend
  PROVE  OrderInv'
<1>1. CASE /\ Goto(3, "send", "unref") /\ Push(3, outFb)
           /\ order' = Renamed(order, fb[3], outFb)
  <2>1. /\ UNCHANGED fb /\ outFb \in AllSlots /\ fb[3] \in AllSlots
        /\ pc[3] = "send" /\ pc'[3] = "unref"
    BY <1>1, SlotSets DEF ConversionSend, Goto, FrameInv, FrameTypes, Pointers, Units,
                          ThreadInv, ControlTypes
  <2>2. Unconverted = <<fb[3]>> /\ Unconverted' = << >>
    BY <2>1, Pointed DEF Unconverted, Conversion
  <2>3. queue'[1] = queue[1] /\ queue'[2] = queue[2] /\ queue'[3] = Append(queue[3], outFb)
    BY <1>1 DEF Push, FrameInv, FrameTypes, Queues
  <2>4. PICK d \in Seq(AllSlots) : d = queue[2]
    BY SegmentTypes DEF Segments
  <2>5. PICK e \in Seq(AllSlots) : e = AtMostOne(fb[2])
    BY SegmentTypes DEF Segments
  <2>6. PICK f \in Seq(AllSlots) : f = queue[1]
    BY SegmentTypes DEF Segments
  <2>7. PICK g \in Seq(AllSlots) : g = AtMostOne(fb[1])
    BY SegmentTypes DEF Segments
  <2>8. PICK a \in Seq(AllSlots) : a = AtMostOne(fb[4])
    BY SegmentTypes DEF Segments
  <2>9. queue[3] \in Seq(AllSlots) /\ a \o queue[3] \in Seq(AllSlots)
    BY SegmentTypes, ConcatProperties DEF Segments
  <2>10. PICK x \in Seq(AllSlots) : x = a \o queue[3]
    BY <2>9
  <2>11. Pipeline = Join5(x \o <<fb[3]>>, d, e, f, g)
    BY <2>2, <2>4, <2>5, <2>6, <2>7, <2>8, <2>10, PipelineIs
       DEF Join3, Join4, Join5, Join6, Join7
  <2>12. Pipeline' = Join5((a \o Append(queue[3], outFb)) \o << >>, d, e, f, g)
    BY <2>1, <2>2, <2>3, <2>4, <2>5, <2>6, <2>7, <2>8, PipelineIs
       DEF Join3, Join4, Join5, Join6, Join7
  <2>13. (a \o Append(queue[3], outFb)) \o << >> = x \o <<outFb>>
    BY <2>1, <2>9, <2>10, PushMoves
  <2>14. NoRepeat(Join5(x \o <<fb[3]>>, d, e, f, g))
    BY <2>11, SegmentTypes
  <2>15. Renamed(Join5(x \o <<fb[3]>>, d, e, f, g), fb[3], outFb)
            = Join5(x \o <<outFb>>, d, e, f, g)
    BY <2>1, <2>14, RenameThird
  <2> QED
    BY <1>1, <2>11, <2>12, <2>13, <2>15 DEF OrderInv
<1>2. CASE Goto(3, "send", "loop") /\ UNCHANGED <<queue, order>>
  <2>1. UNCHANGED fb /\ pc[3] = "send" /\ pc'[3] = "loop"
    BY <1>2 DEF ConversionSend, Goto, ThreadInv, ControlTypes, Units
  <2>2. Unconverted' = Unconverted
    BY <2>1 DEF Unconverted, Conversion, AtMostOne
  <2> QED
    BY <1>2, <2>1, <2>2, SameOrder
<1> QED
  BY <1>1, <1>2 DEF ConversionSend, Conversion, Renamed

\* The input frame is beside the pipeline when it is let go.
LEMMA ConversionUnrefOrder ==
  ASSUME ThreadInv, FrameInv, OrderInv, ConversionUnref
  PROVE  OrderInv'
<1>1. /\ pc[3] = "unref" /\ pc'[3] = "loop" /\ fb'[3] = NULL
      /\ fb'[1] = fb[1] /\ fb'[2] = fb[2] /\ fb'[4] = fb[4]
      /\ UNCHANGED <<queue, order>>
  BY DEF ConversionUnref, Goto, Conversion, ThreadInv, ControlTypes, FrameInv, FrameTypes,
         Units
<1>2. Unconverted' = Unconverted
  BY <1>1 DEF Unconverted, Conversion, AtMostOne
<1> QED
  BY <1>1, <1>2, PipelineIs DEF OrderInv

LEMMA FileGetOrder ==
  ASSUME ThreadInv, FrameInv, OrderInv, FileGet
  PROVE  OrderInv'
<1>1. PICK s \in OutSlots : PopFrame(4, s) /\ fb' = [fb EXCEPT ![4] = s]
  BY DEF FileGet, FileOut
<1>2. /\ fb[4] = NULL /\ pc' = [pc EXCEPT ![4] = "send"] /\ s \in AllSlots
      /\ UNCHANGED order
  BY <1>1, SlotSets DEF FileGet, Goto, FileOut, FrameInv, Pointers
<1>3. fb'[1] = fb[1] /\ fb'[2] = fb[2] /\ fb'[3] = fb[3] /\ fb'[4] = s /\ pc'[3] = pc[3]
  BY <1>1, <1>2 DEF FrameInv, FrameTypes, ThreadInv, ControlTypes, Units
<1>4. Unconverted' = Unconverted
  BY <1>3 DEF Unconverted, Conversion, AtMostOne
<1>5. /\ queue[3] # << >> /\ s = Head(queue[3]) /\ queue[3] \in Seq(AllSlots)
      /\ queue'[1] = queue[1] /\ queue'[2] = queue[2] /\ queue'[3] = Tail(queue[3])
  BY <1>1 DEF PopFrame, FrameInv, FrameTypes, Queues
<1>6. <<s>> \o Tail(queue[3]) = << >> \o queue[3]
  BY <1>5, ConcatEmptySeq
<1>7. AtMostOne(fb[4]) = << >> /\ AtMostOne(fb'[4]) = <<s>>
  BY <1>2, <1>3, Pointed
<1> DEFINE c == Unconverted
           d == queue[2]
           e == AtMostOne(fb[2])
           f == queue[1]
           g == AtMostOne(fb[1])
<1>8. Pipeline = (((((<< >> \o queue[3]) \o c) \o d) \o e) \o f) \o g
  BY <1>7, PipelineIs DEF Join3, Join4, Join5, Join6, Join7
<1>9. Pipeline' = (((((<<s>> \o Tail(queue[3])) \o c) \o d) \o e) \o f) \o g
  BY <1>3, <1>4, <1>5, <1>7, PipelineIs DEF Join3, Join4, Join5, Join6, Join7
<1> QED
  BY <1>2, <1>6, <1>8, <1>9 DEF OrderInv

LEMMA FileSendOrder ==
  ASSUME ThreadInv, FrameInv, OrderInv, FileSend
  PROVE  OrderInv'
<1>1. PICK s \in AllSlots : s = fb[4]
  BY DEF FileSend, Goto, FileOut, FrameInv, FrameTypes, Pointers, Units
<1>2. /\ fb' = [fb EXCEPT ![4] = NULL] /\ pc' = [pc EXCEPT ![4] = "loop"]
      /\ Forget(s) /\ UNCHANGED queue
  BY <1>1 DEF FileSend, Goto, FileOut
<1>3. fb'[1] = fb[1] /\ fb'[2] = fb[2] /\ fb'[3] = fb[3] /\ fb'[4] = NULL /\ pc'[3] = pc[3]
  BY <1>2 DEF FrameInv, FrameTypes, ThreadInv, ControlTypes, Units
<1>4. Unconverted' = Unconverted
  BY <1>3 DEF Unconverted, Conversion, AtMostOne
<1> DEFINE b == queue[3]
           c == Unconverted
           d == queue[2]
           e == AtMostOne(fb[2])
           f == queue[1]
           g == AtMostOne(fb[1])
<1>5. Pipeline = Join7(<<s>>, b, c, d, e, f, g)
  BY <1>1, PipelineIs, Pointed
<1>6. Pipeline' = Join7(<< >>, b, c, d, e, f, g)
  BY <1>2, <1>3, <1>4, PipelineIs, Pointed
<1>7. Segments(AllSlots, << >>, b, c, d, e, f, g) /\ NoRepeat(Join7(<<s>>, b, c, d, e, f, g))
  BY <1>5, SegmentTypes, EmptySeq DEF Segments
<1> HIDE DEF b, c, d, e, f, g
<1>8. RemoveFirst(Join7(<<s>>, b, c, d, e, f, g), s) = Join7(<< >>, b, c, d, e, f, g)
  BY <1>7, TakeFirst
<1> QED
  BY <1>2, <1>5, <1>6, <1>8 DEF OrderInv, Forget

\* The head of the loop lets go of what the pointer still holds, which only
\* the conversion unit's can.
LEMMA BeginRunOrder ==
  ASSUME ThreadInv, FrameInv, OrderInv, NEW u \in Units, BeginRun(u)
  PROVE  OrderInv'
<1>1. /\ pc[u] = "loop" /\ UNCHANGED queue
      /\ pc' = [pc EXCEPT ![u] = pc'[u]] /\ pc'[u] \in {"get", "done"}
  BY DEF BeginRun, Goto, ThreadInv, ControlTypes
<1>2. pc'[3] # "unref" <=> pc[3] # "unref"
  BY <1>1 DEF ThreadInv, ControlTypes, Units
<1>3. CASE fb[u] = NULL \/ UNCHANGED <<fb, order>>
  <2>1. UNCHANGED <<fb, order>>
    <3>1. CASE fb[u] = NULL /\ fb' = [fb EXCEPT ![u] = NULL] /\ Forget(fb[u])
      BY <3>1, ForgetNull DEF FrameInv, FrameTypes
    <3> QED
      BY <1>3, <3>1 DEF BeginRun
  <2>2. Unconverted' = Unconverted
    BY <1>2, <2>1 DEF Unconverted, Conversion, AtMostOne
  <2> QED
    BY <1>1, <2>1, <2>2, SameOrder
<1>4. CASE fb[u] # NULL /\ fb' = [fb EXCEPT ![u] = NULL] /\ Forget(fb[u])
  <2>1. u = 3
    BY <1>1, <1>4 DEF FrameInv, Pointers, Units
  <2>2. PICK s \in AllSlots : s = fb[3]
    BY <1>4, <2>1 DEF FrameInv, FrameTypes, Units
  <2>3. fb'[1] = fb[1] /\ fb'[2] = fb[2] /\ fb'[3] = NULL /\ fb'[4] = fb[4]
    BY <1>4, <2>1 DEF FrameInv, FrameTypes, Units
  <2>4. Unconverted = <<s>> /\ Unconverted' = << >>
    <3>1. pc[3] # "unref" /\ pc'[3] # "unref"
      BY <1>1, <1>2, <2>1
    <3>2. Unconverted = AtMostOne(fb[3])
      BY <3>1 DEF Unconverted, Conversion
    <3>3. Unconverted' = AtMostOne(fb'[3])
      BY <3>1 DEF Unconverted, Conversion, AtMostOne
    <3> QED
      BY <2>2, <2>3, <3>2, <3>3, Pointed
  <2>5. PICK x \in Seq(AllSlots) : x = AtMostOne(fb[4]) \o queue[3]
    BY SegmentTypes, JoinSeq DEF Segments
  <2>6. PICK d \in Seq(AllSlots) : d = queue[2]
    BY SegmentTypes DEF Segments
  <2>7. PICK e \in Seq(AllSlots) : e = AtMostOne(fb[2])
    BY SegmentTypes DEF Segments
  <2>8. PICK f \in Seq(AllSlots) : f = queue[1]
    BY SegmentTypes DEF Segments
  <2>9. PICK g \in Seq(AllSlots) : g = AtMostOne(fb[1])
    BY SegmentTypes DEF Segments
  <2>10. Pipeline = Join5(x \o <<s>>, d, e, f, g)
    BY <2>4, <2>5, <2>6, <2>7, <2>8, <2>9, PipelineIs DEF Join3, Join4, Join5, Join6, Join7
  <2>11. Pipeline' = Join5(x \o << >>, d, e, f, g)
    BY <1>1, <2>3, <2>4, <2>5, <2>6, <2>7, <2>8, <2>9, PipelineIs
       DEF Join3, Join4, Join5, Join6, Join7
  <2>12. NoRepeat(Join5(x \o <<s>>, d, e, f, g))
    BY <2>10, SegmentTypes
  <2>13. RemoveFirst(Join5(x \o <<s>>, d, e, f, g), s) = Join5(x \o << >>, d, e, f, g)
    BY <2>12, TakeThird
  <2> QED
    BY <1>4, <2>1, <2>2, <2>10, <2>11, <2>13 DEF OrderInv, Forget
<1> QED
  BY <1>3, <1>4 DEF BeginRun

LEMMA UnitOrder ==
  ASSUME ThreadInv, FrameInv, OrderInv, NEW u \in Units, UnitStep(u)
  PROVE  OrderInv'
<1>1. CASE BeginRun(u)
  BY <1>1, BeginRunOrder
<1>2. CASE GiveUp(u)
  <2>1. /\ UNCHANGED <<queue, fb, order>> /\ pc[u] # "unref"
        /\ pc' = [pc EXCEPT ![u] = "done"]
    BY <1>2 DEF GiveUp, Goto, frames
  <2>2. Unconverted' = Unconverted
    BY <2>1 DEF Unconverted, Conversion, AtMostOne, ThreadInv, ControlTypes, Units
  <2> QED
    BY <2>1, <2>2, SameOrder
<1>3. CASE ConversionProcess
  <2>1. /\ UNCHANGED <<queue, fb, order>> /\ pc[3] = "process"
        /\ pc' = [pc EXCEPT ![3] = "send"]
    BY <1>3 DEF ConversionProcess, Goto, Conversion
  <2>2. Unconverted' = Unconverted
    BY <2>1 DEF Unconverted, Conversion, AtMostOne, ThreadInv, ControlTypes, Units
  <2> QED
    BY <2>1, <2>2, SameOrder
<1>4. CASE CameraGet \/ CameraSend
  BY <1>4, CameraGetOrder, CameraSendOrder
<1>5. CASE ProviderGet \/ ProviderSend
  BY <1>5, ProviderGetOrder, ProviderSendOrder
<1>6. CASE ConversionGet \/ ConversionSend \/ ConversionUnref
  BY <1>6, ConversionGetOrder, ConversionSendOrder, ConversionUnrefOrder
<1>7. CASE FileGet \/ FileSend
  BY <1>7, FileGetOrder, FileSendOrder
<1> QED
  BY <1>1, <1>2, <1>3, <1>4, <1>5, <1>6, <1>7 DEF UnitStep

LEMMA ControlOrder ==
  ASSUME ThreadInv, OrderInv, ServiceStart \/ ServiceStop \/ ControlStep
  PROVE  OrderInv'
<1>1. UNCHANGED <<queue, fb, order>>
  BY DEF ServiceStart, ServiceStop, ControlStep, UnitStart, UnitStartFails, StopOutPool,
         UnitStopClear, UnitStopWake, UnitStopJoin, frames
<1>2. pc'[3] # "unref" <=> pc[3] # "unref"
  <2>1. CASE UnitStart
    <3>1. /\ ctl.unit \in Units /\ pc[ctl.unit] = "none"
          /\ pc' = [pc EXCEPT ![ctl.unit] = "loop"]
      BY <2>1 DEF UnitStart, ThreadInv, Accounts, Gone, Units
    <3> QED
      BY <3>1 DEF ThreadInv, ControlTypes, Units
  <2>2. CASE UnitStopJoin
    BY <2>2 DEF UnitStopJoin, Goto, ThreadInv, ControlTypes, Units
  <2>3. CASE ServiceStart \/ ServiceStop \/ UnitStartFails \/ StopOutPool
               \/ UnitStopClear \/ UnitStopWake
    BY <2>3 DEF ServiceStart, ServiceStop, UnitStartFails, StopOutPool, UnitStopClear,
                UnitStopWake, threads
  <2> QED
    BY <2>1, <2>2, <2>3 DEF ControlStep
<1>3. Unconverted' = Unconverted
  BY <1>1, <1>2 DEF Unconverted, Conversion, AtMostOne
<1> QED
  BY <1>1, <1>3, SameOrder

LEMMA InitOrder == Init => OrderInv
<1> SUFFICES ASSUME Init PROVE OrderInv
  OBVIOUS
<1>1. /\ order = << >>
      /\ queue[1] = << >> /\ queue[2] = << >> /\ queue[3] = << >>
      /\ AtMostOne(fb[1]) = << >> /\ AtMostOne(fb[2]) = << >>
      /\ AtMostOne(fb[4]) = << >> /\ Unconverted = << >>
  BY Pointed DEF Init, Queues, Units, Unconverted, Conversion
<1>2. << >> \o << >> = << >>
  BY EmptySeq, ConcatEmptySeq
<1> QED
  BY <1>1, <1>2 DEF OrderInv, Pipeline, FileOut, Provider, Camera

LEMMA OrderInvariant == Spec => []OrderInv
<1>1. ThreadInv /\ FrameInv /\ OrderInv /\ [Next]_vars => OrderInv'
  <2> SUFFICES ASSUME ThreadInv, FrameInv, OrderInv, [Next]_vars PROVE OrderInv'
    OBVIOUS
  <2>1. CASE \E u \in Units : UnitStep(u)
    BY <2>1, UnitOrder
  <2>2. CASE ServiceStart \/ ServiceStop \/ ControlStep
    BY <2>2, ControlOrder
  <2>3. CASE UNCHANGED vars
    <3>1. UNCHANGED <<queue, fb, order>> /\ pc'[3] = pc[3]
      BY <2>3 DEF vars
    <3>2. Unconverted' = Unconverted
      BY <3>1 DEF Unconverted, Conversion, AtMostOne
    <3> QED
      BY <3>1, <3>2, SameOrder
  <2> QED
    BY <2>1, <2>2, <2>3 DEF Next
<1> QED
  BY <1>1, InitOrder, ThreadInvariant, FrameInvariant, PTL DEF Spec

-----------------------------------------------------------------------------

Bounds ==
    /\ poolDown \subseteq {"in", "out"}
    /\ queueDown \subseteq Queues
    /\ starts \in 0 .. MaxStarts
    /\ failures \in 0 .. MaxCreateFailures

LEMMA BoundsInvariant == Spec => []Bounds
<1>1. Init => Bounds
  BY ServiceAssumption DEF Init, Bounds
<1>2. Bounds /\ [Next]_vars => Bounds'
  <2> SUFFICES ASSUME Bounds, [Next]_vars PROVE Bounds'
    OBVIOUS
  <2>1. CASE UNCHANGED <<poolDown, queueDown, starts, failures>>
    BY <2>1 DEF Bounds
  <2>2. ASSUME NEW u \in Units, UnitStep(u)
        PROVE  UNCHANGED <<poolDown, queueDown, starts, failures>>
    BY <2>2 DEF UnitStep, BeginRun, GiveUp, CameraGet, CameraSend, ProviderGet,
                ProviderSend, ConversionGet, ConversionProcess, ConversionSend,
                ConversionUnref, FileGet, FileSend, AcquireSlot, ReleaseSlot, Unref,
                pools, control
  <2>3. CASE ServiceStart
    BY <2>3, ServiceAssumption DEF ServiceStart, Bounds
  <2>4. CASE ServiceStop \/ StopOutPool
    BY <2>4 DEF ServiceStop, StopOutPool, Bounds
  <2>5. CASE UnitStartFails
    BY <2>5, ServiceAssumption DEF UnitStartFails, Bounds, pools
  <2>6. CASE UnitStopWake
    BY <2>6 DEF UnitStopWake, Bounds, pools, Queues
  <2>7. CASE UnitStart \/ UnitStopClear \/ UnitStopJoin
    BY <2>1, <2>7 DEF UnitStart, UnitStopClear, UnitStopJoin, pools
  <2> QED
    BY <2>1, <2>2, <2>3, <2>4, <2>5, <2>6, <2>7 DEF Next, ControlStep, vars
<1> QED
  BY <1>1, <1>2, PTL DEF Spec

-----------------------------------------------------------------------------

\* Frames reach the disk in the order the camera captured them, through three
\* queues, four threads' pointers and the change of pool in the conversion
\* unit, whatever is dropped, stopped, restarted or fails to start.
THEOREM ServiceFramesInOrder == Spec => []FramesInOrder
  BY OrderInvariant, PTL DEF OrderInv, FramesInOrder

\* Every variable keeps its type: pointers and queues hold slots of the
\* pools, and a reference count is zero or one.
THEOREM ServiceTypeOK == Spec => []TypeOK
<1>1. ThreadInv /\ FrameInv /\ OrderInv /\ Bounds => TypeOK
  <2> SUFFICES ASSUME ThreadInv, FrameInv, OrderInv, Bounds PROVE TypeOK
    OBVIOUS
  <2>1. order \in Seq(AllSlots)
    BY SegmentTypes DEF OrderInv
  <2> QED
    BY <2>1 DEF ThreadInv, ControlTypes, FrameInv, FrameTypes, Bounds, TypeOK,
                CONSUMER_COUNT
<1> QED
  BY <1>1, ThreadInvariant, FrameInvariant, OrderInvariant, BoundsInvariant, PTL

-----------------------------------------------------------------------------
(* The service implements FrameLine.                                        *)

\* Removing a frame, and renaming one, by its place.
LEMMA RemoveIs ==
  ASSUME NEW S, NEW r \in Seq(S), NoRepeat(r), NEW i \in 1 .. Len(r)
  PROVE  RemoveFirst(r, r[i]) = RemoveAt(r, i)
<1> DEFINE I == {j \in 1 .. Len(r) : r[j] = r[i]}
<1>1. Len(r) \in Nat
  BY LenProperties
<1>2. I = {i}
  BY DEF NoRepeat
<1>3. Min(I) = i
  BY <1>1, <1>2 DEF Min
<1>4. SelectInSeq(r, LAMBDA v : v = r[i]) = i
  BY <1>2, <1>3 DEF SelectInSeq
<1> QED
  BY <1>1, <1>4 DEF RemoveFirst

LEMMA RenamedIs ==
  ASSUME NEW S, NEW r \in Seq(S), NoRepeat(r), NEW i \in 1 .. Len(r), NEW t
  PROVE  Renamed(r, r[i], t) = [r EXCEPT ![i] = t]
<1>1. DOMAIN r = 1 .. Len(r)
  BY LenProperties
<1> QED
  BY <1>1 DEF Renamed, NoRepeat

\* What the conversion unit has in hand is preceded by converted frames only.
LEMMA NextToConvert ==
  ASSUME FrameInv, fb[3] # NULL, pc[3] # "unref"
  PROVE  \E k \in 1 .. Len(Pipeline) :
            /\ Pipeline[k] = fb[3]
            /\ \A j \in 1 .. k - 1 : Pipeline[j] \in OutSlots
<1>1. PICK s \in AllSlots : s = fb[3]
  BY DEF FrameInv, FrameTypes, Units
<1>2. Unconverted = <<s>>
  BY <1>1, Pointed DEF Unconverted, Conversion
<1>3. PICK a \in Seq(AllSlots) : a = AtMostOne(fb[4])
  BY SegmentTypes DEF Segments
<1>4. PICK b \in Seq(AllSlots) : b = queue[3]
  BY SegmentTypes DEF Segments
<1>5. PICK x \in Seq(AllSlots) : x = a \o b
  BY ConcatProperties
<1>6. PICK d \in Seq(AllSlots) : d = queue[2]
  BY SegmentTypes DEF Segments
<1>7. PICK e \in Seq(AllSlots) : e = AtMostOne(fb[2])
  BY SegmentTypes DEF Segments
<1>8. PICK f \in Seq(AllSlots) : f = queue[1]
  BY SegmentTypes DEF Segments
<1>9. PICK g \in Seq(AllSlots) : g = AtMostOne(fb[1])
  BY SegmentTypes DEF Segments
<1>10. Pipeline = Join5(x \o <<s>>, d, e, f, g)
  BY <1>2, <1>3, <1>4, <1>5, <1>6, <1>7, <1>8, <1>9, PipelineIs
     DEF Join3, Join4, Join5, Join6, Join7
<1>11. /\ <<s>> \in Seq(AllSlots) /\ Len(<<s>>) = 1 /\ x \o <<s>> \in Seq(AllSlots)
       /\ Len(x) \in Nat
  BY ConcatProperties, LenProperties
<1>m. PICK z \in Seq(AllSlots) : z = x \o <<s>>
  BY <1>11
<1>12. PICK m \in Seq(AllSlots) : Pipeline = (x \o <<s>>) \o m
  <2>1. Join5(z, d, e, f, g) = z \o Join4(d, e, f, g) /\ Join4(d, e, f, g) \in Seq(AllSlots)
    BY Regroup4
  <2> QED
    BY <1>10, <1>m, <2>1
<1> DEFINE k == Len(x) + 1
<1>13. /\ Len(x \o <<s>>) = k
       /\ \A i \in 1 .. k : (x \o <<s>>)[i] = IF i <= Len(x) THEN x[i] ELSE <<s>>[i - Len(x)]
  BY <1>11, ConcatProperties
<1>14. /\ Len(Pipeline) = k + Len(m) /\ Len(m) \in Nat
       /\ \A i \in 1 .. k + Len(m) :
             Pipeline[i] = IF i <= k THEN (x \o <<s>>)[i] ELSE m[i - k]
  BY <1>11, <1>12, <1>13, ConcatProperties, LenProperties
<1>15. k \in 1 .. Len(Pipeline) /\ Pipeline[k] = s
  <2>1. k \in 1 .. Len(Pipeline) /\ k \in 1 .. k /\ ~(k <= Len(x)) /\ k - Len(x) = 1
    BY <1>11, <1>14
  <2>2. Pipeline[k] = (x \o <<s>>)[k]
    BY <1>11, <1>14, <2>1
  <2>3. (x \o <<s>>)[k] = <<s>>[1]
    BY <1>13, <2>1
  <2> QED
    BY <2>1, <2>2, <2>3
<1>16. \A i \in 1 .. Len(x) : x[i] \in OutSlots
  <2>1. /\ \A i \in 1 .. Len(a) : a[i] \in OutSlots
        /\ \A i \in 1 .. Len(b) : b[i] \in OutSlots
    <3>1. Slots(a) = Ptr(fb[4]) /\ Slots(b) = Slots(queue[3])
      BY <1>3, <1>4, PtrSeq DEF FrameInv, FrameTypes, Units
    <3>2. hold[7] \subseteq OutSlots /\ hold[3] \subseteq OutSlots
      BY DEF FrameInv, Kinds
    <3>3. Slots(a) \subseteq OutSlots /\ Slots(b) \subseteq OutSlots
      BY <3>1, <3>2 DEF hold
    <3> QED
      BY <3>3 DEF Slots
  <2>2. /\ Len(a) \in Nat /\ Len(b) \in Nat /\ Len(x) = Len(a) + Len(b)
        /\ \A i \in 1 .. Len(a) + Len(b) : x[i] = IF i <= Len(a) THEN a[i] ELSE b[i - Len(a)]
    BY <1>5, ConcatProperties, LenProperties
  <2>3. ASSUME NEW i \in 1 .. Len(x)
        PROVE  x[i] \in OutSlots
    <3>1. CASE i <= Len(a)
      <4>1. i \in 1 .. Len(a) /\ i \in 1 .. Len(a) + Len(b)
        BY <2>2, <3>1
      <4> QED
        BY <2>1, <2>2, <3>1, <4>1
    <3>2. CASE ~(i <= Len(a))
      <4>1. i - Len(a) \in 1 .. Len(b)
        BY <2>2, <3>2
      <4> QED
        BY <2>1, <2>2, <3>2, <4>1
    <3> QED
      BY <3>1, <3>2
  <2> QED
    BY <2>3
<1>17. \A j \in 1 .. k - 1 : Pipeline[j] \in OutSlots
  <2> SUFFICES ASSUME NEW j \in 1 .. k - 1
               PROVE  Pipeline[j] \in OutSlots
    OBVIOUS
  <2>1. j \in 1 .. Len(x) /\ j \in 1 .. k /\ j <= k /\ j <= Len(x) /\ j \in 1 .. k + Len(m)
    BY <1>11, <1>14
  <2> QED
    BY <1>13, <1>14, <1>16, <2>1
<1> QED
  BY <1>1, <1>15, <1>17

\* The pipeline's frames are in use, known to somebody, and apart from the
\* conversion unit's output.
LEMMA PipelineHolds ==
  ASSUME FrameInv
  PROVE  /\ Slots(Pipeline) \subseteq busy
         /\ Slots(Pipeline) \cap Astray = {}
         /\ outFb \notin Slots(Pipeline)
<1> DEFINE o == AtMostOne(outFb)
           n == Len(Pipeline)
<1>1. Places = (Pipeline \o o) \o Beside
  BY DEF Places, Pipeline, Beside, FileOut, Provider, Camera, Conversion
<1>2. /\ Pipeline \in Seq(AllSlots) /\ o \in Seq(AllSlots) /\ Beside \in Seq(AllSlots)
      /\ n \in Nat /\ Len(o) \in Nat /\ Len(Beside) \in Nat
  <2>1. outFb \in AllSlots \cup {NULL} /\ fb[3] \in AllSlots \cup {NULL}
    BY SlotSets DEF FrameInv, FrameTypes, Units
  <2>2. o \in Seq(AllSlots) /\ Beside \in Seq(AllSlots)
    BY <2>1, PtrSeq, EmptySeq DEF Beside
  <2> QED
    BY <2>2, PlacesHold, LenProperties
<1> HIDE DEF o
<1>3. /\ Pipeline \o o \in Seq(AllSlots) /\ Len(Pipeline \o o) = n + Len(o)
      /\ \A i \in 1 .. n + Len(o) :
            (Pipeline \o o)[i] = IF i <= n THEN Pipeline[i] ELSE o[i - n]
  BY <1>2, ConcatProperties
<1>4. /\ Len(Places) = n + Len(o) + Len(Beside)
      /\ \A i \in 1 .. n + Len(o) : Places[i] = (Pipeline \o o)[i]
  BY <1>1, <1>2, <1>3, ConcatProperties
<1>5. \A i \in 1 .. n : i \in 1 .. Len(Places) /\ Places[i] = Pipeline[i]
  BY <1>2, <1>3, <1>4
<1>6. Slots(Pipeline) \subseteq Slots(Places)
  BY <1>5 DEF Slots
<1>7. Slots(Places) \subseteq busy /\ Slots(Places) \cap Astray = {}
  BY PlacesHold DEF FrameInv, Within, Astray
<1>8. outFb \notin Slots(Pipeline)
  <2>1. CASE outFb = NULL
    <3>1. Slots(Pipeline) \subseteq AllSlots
      BY <1>2, LenProperties DEF Slots
    <3> QED
      BY <2>1, <3>1, SlotSets
  <2>2. CASE outFb # NULL
    <3>1. o = <<outFb>> /\ Len(o) = 1
      BY <2>2 DEF o, AtMostOne
    <3>2. n + 1 \in 1 .. Len(Places) /\ Places[n + 1] = outFb
      <4>1. n + 1 \in 1 .. n + Len(o) /\ ~(n + 1 <= n) /\ (n + 1) - n = 1
        BY <1>2, <3>1
      <4>2. Places[n + 1] = o[1]
        BY <1>3, <1>4, <4>1
      <4> QED
        BY <1>2, <1>4, <3>1, <4>1, <4>2
    <3>3. \A i \in 1 .. n : i # n + 1
      BY <1>2
    <3> QED
      BY <1>5, <3>2, <3>3, PlacesHold DEF NoRepeat, Slots
  <2> QED
    BY <2>1, <2>2
<1> QED
  BY <1>6, <1>7, <1>8

LEMMA LostIs == FrameInv => Lost = Astray
<1> SUFFICES ASSUME FrameInv PROVE Lost = Astray
  OBVIOUS
<1>1. Reachable = Slots(Places)
  BY PlacesHold, LenProperties DEF Reachable, Slots
<1> QED
  BY <1>1, PlacesHold DEF Lost, Astray

\* The invariants that hold before and after a step of the service, read as
\* facts about the line.
LineInv == ThreadInv /\ FrameInv /\ LossInv /\ OrderInv

LEMMA LineIs ==
  ASSUME LineInv
  PROVE  /\ order = Pipeline /\ Lost = Astray
         /\ order \in Seq(AllSlots) /\ NoRepeat(order) /\ DOMAIN order = 1 .. Len(order)
         /\ Len(order) \in Nat
         /\ Line!InLine = Slots(order)
<1>1. order = Pipeline /\ Lost = Astray /\ order \in Seq(AllSlots) /\ NoRepeat(order)
  BY SegmentTypes, LostIs DEF LineInv, OrderInv
<1>2. DOMAIN order = 1 .. Len(order) /\ Len(order) \in Nat
  BY <1>1, LenProperties
<1> QED
  BY <1>1, <1>2 DEF Line!InLine, Slots

\* The same of the state after a step.
LEMMA LineAfter == LineInv' => Pipeline' = order' /\ Lost' = Astray'
<1>1. LineInv => (Pipeline = order /\ Lost = Astray)
  BY LineIs
<1>2. LineInv' => (Pipeline = order /\ Lost = Astray)'
  BY <1>1, PTL
<1> QED
  BY <1>2

\* A step that loses nothing and leaves the order alone.
LEMMA SameLine ==
  ASSUME LineInv, LineInv', order' = order, Astray' = Astray, UNCHANGED starts
  PROVE  UNCHANGED Line!lineVars
<1>1. Pipeline = order /\ Lost = Astray
  BY LineIs
<1>2. Pipeline' = order' /\ Lost' = Astray'
  BY LineAfter
<1> QED
  BY <1>1, <1>2 DEF Line!lineVars

LEMMA CaptureStep ==
  ASSUME LineInv, LineInv', CameraGet
  PROVE  Line!Next
<1>1. PICK s \in InSlots : AcquireSlot(InSlots, s) /\ order' = Append(order, s)
  BY DEF CameraGet
<1>2. s \notin busy /\ UNCHANGED starts
  BY <1>1 DEF AcquireSlot, CameraGet, control
<1>3. Astray' = Astray
  BY CameraGetFrames DEF LineInv
<1>4. s \notin Line!InLine \cup Lost
  BY <1>2, LineIs, PipelineHolds DEF LineInv, Astray
<1>5. Pipeline' = Append(Pipeline, s) /\ Lost' = Lost
  BY <1>1, <1>3, LineIs, LineAfter
<1>6. Line!Capture(s)
  BY <1>2, <1>4, <1>5 DEF Line!Capture
<1> QED
  BY <1>6 DEF Line!Next

LEMMA ConvertStep ==
  ASSUME PoolSlots <= QueueCapacity, LineInv, LineInv', ConversionSend
  PROVE  Line!Next
<1>1. /\ pc[3] = "send" /\ fb[3] # NULL /\ outFb \in OutSlots /\ UNCHANGED starts
  BY DEF ConversionSend, Goto, Conversion, control, LineInv, FrameInv, Pointers, FrameTypes,
         ThreadInv, ControlTypes, Units
<1>2. Room(3)
  BY <1>1, RoomHolds DEF LineInv, QueueHasRoom, Queues
<1>3. order' = Renamed(order, fb[3], outFb)
  BY <1>2 DEF ConversionSend, Conversion, Renamed
<1>4. Astray' = Astray
  BY ConversionSendFrames DEF LineInv
<1>5. PICK k \in 1 .. Len(Pipeline) :
          /\ Pipeline[k] = fb[3]
          /\ \A j \in 1 .. k - 1 : Pipeline[j] \in OutSlots
  BY <1>1, NextToConvert DEF LineInv
<1>6. order = Pipeline /\ Lost = Astray /\ k \in DOMAIN Pipeline
  BY LineIs
<1>7. Pipeline' = [Pipeline EXCEPT ![k] = outFb]
  <2>1. Renamed(order, order[k], outFb) = [order EXCEPT ![k] = outFb]
    BY <1>6, LineIs, RenamedIs
  <2> QED
    BY <1>3, <1>5, <1>6, <2>1, LineAfter
<1>8. Lost' = Lost
  BY <1>4, <1>6, LineAfter
<1>9. fb[3] \in InSlots
  <2>1. hold[6] \subseteq InSlots
    BY DEF LineInv, FrameInv, Kinds
  <2> QED
    BY <1>1, <2>1 DEF hold, Ptr
<1>10. outFb \notin Line!InLine \cup Lost
  <2>1. outFb \in hold[8]
    BY <1>1, SlotSets DEF hold, Ptr
  <2> QED
    BY <1>6, <2>1, LineIs, PipelineHolds DEF LineInv, Astray
<1>11. Line!Convert(k, outFb)
  BY <1>1, <1>5, <1>7, <1>8, <1>9, <1>10 DEF Line!Convert, Line!IsNext
<1> QED
  BY <1>1, <1>6, <1>11 DEF Line!Next

LEMMA DeliverStep ==
  ASSUME LineInv, LineInv', FileSend
  PROVE  Line!Next
<1>1. /\ UNCHANGED <<queue, starts>> /\ fb' = [fb EXCEPT ![4] = NULL]
      /\ pc[4] = "send" /\ pc' = [pc EXCEPT ![4] = "loop"]
  BY DEF FileSend, Goto, FileOut, control
<1>2. fb[4] \in OutSlots /\ fb[4] \in AllSlots
  <2>1. fb[4] # NULL /\ hold[7] \subseteq OutSlots
    BY <1>1 DEF LineInv, FrameInv, Pointers, Kinds
  <2> QED
    BY <2>1, SlotSets DEF hold, Ptr
<1>3. fb'[1] = fb[1] /\ fb'[2] = fb[2] /\ fb'[3] = fb[3] /\ fb'[4] = NULL /\ pc'[3] = pc[3]
  BY <1>1 DEF LineInv, FrameInv, FrameTypes, ThreadInv, ControlTypes, Units
<1>4. Unconverted' = Unconverted
  BY <1>3 DEF Unconverted, Conversion, AtMostOne
<1> DEFINE b == queue[3]
           c == Unconverted
           d == queue[2]
           e == AtMostOne(fb[2])
           f == queue[1]
           g == AtMostOne(fb[1])
<1>5. Pipeline = Join7(<<fb[4]>>, b, c, d, e, f, g)
  BY <1>2, PipelineIs, Pointed
<1>6. Pipeline' = Join7(<< >>, b, c, d, e, f, g)
  BY <1>1, <1>3, <1>4, PipelineIs, Pointed
<1>7. Segments(AllSlots, << >>, b, c, d, e, f, g)
  BY SegmentTypes, EmptySeq DEF LineInv, Segments
<1> HIDE DEF b, c, d, e, f, g
<1>8. PICK m \in Seq(AllSlots) : m = Join6(b, c, d, e, f, g)
  BY <1>7, Regroup6
<1>9. Pipeline = <<fb[4]>> \o m /\ Pipeline' = m
  <2>1. ASSUME NEW y \in Seq(AllSlots)
        PROVE  Join7(y, b, c, d, e, f, g) = y \o m
    <3>1. Segments(AllSlots, y, b, c, d, e, f, g)
      BY <1>7 DEF Segments
    <3> QED
      BY <1>8, <3>1, Regroup6
  <2>2. << >> \in Seq(AllSlots) /\ <<fb[4]>> \in Seq(AllSlots) /\ << >> \o m = m
    BY <1>2, EmptySeq, ConcatEmptySeq
  <2> QED
    BY <1>5, <1>6, <2>1, <2>2
<1>10. Pipeline # << >> /\ Head(Pipeline) = fb[4] /\ Tail(Pipeline) = m
  BY <1>2, <1>9
<1>11. Lost' = Lost
  <2>1. Astray' = Astray
    BY FileSendFrames DEF LineInv
  <2> QED
    BY <2>1, LineIs, LineAfter
<1>12. Line!Deliver
  BY <1>1, <1>2, <1>9, <1>10, <1>11 DEF Line!Deliver
<1> QED
  BY <1>12 DEF Line!Next

\* The head of a loop loses the conversion unit's input, or nothing.
LEMMA LoseStep ==
  ASSUME LineInv, LineInv', NEW u \in Units, BeginRun(u)
  PROVE  [Line!Next]_(Line!lineVars)
<1>1. /\ pc[u] = "loop" /\ UNCHANGED <<busy, queue, outFb, starts>>
  BY DEF BeginRun, Goto, pools, control
<1>2. CASE fb[u] = NULL \/ UNCHANGED <<fb, order>>
  <2>1. UNCHANGED <<fb, order>>
    <3>1. CASE fb[u] = NULL /\ fb' = [fb EXCEPT ![u] = NULL] /\ Forget(fb[u])
      BY <3>1, ForgetNull DEF LineInv, FrameInv, FrameTypes
    <3> QED
      BY <1>2, <3>1 DEF BeginRun
  <2>2. Astray' = Astray
    BY <1>1, <2>1 DEF Astray, hold
  <2> QED
    BY <1>1, <2>1, <2>2, SameLine
<1>3. CASE fb[u] # NULL /\ fb' = [fb EXCEPT ![u] = NULL] /\ Forget(fb[u])
  <2>1. u = 3 /\ pc[3] # "unref"
    BY <1>1, <1>3 DEF LineInv, FrameInv, Pointers, Units
  <2>2. PICK k \in 1 .. Len(Pipeline) :
            /\ Pipeline[k] = fb[3]
            /\ \A j \in 1 .. k - 1 : Pipeline[j] \in OutSlots
    BY <1>3, <2>1, NextToConvert DEF LineInv
  <2>3. order = Pipeline /\ Lost = Astray /\ k \in DOMAIN Pipeline
    BY LineIs
  <2>4. Pipeline' = RemoveAt(Pipeline, k)
    <3>1. order' = RemoveFirst(order, order[k])
      BY <1>3, <2>1, <2>2, <2>3 DEF Forget
    <3>2. order' = RemoveAt(order, k)
      BY <2>2, <2>3, <3>1, LineIs, RemoveIs
    <3> QED
      BY <2>3, <3>2, LineAfter
  <2>5. fb'[1] = fb[1] /\ fb'[2] = fb[2] /\ fb'[3] = NULL /\ fb'[4] = fb[4]
    BY <1>3, <2>1 DEF LineInv, FrameInv, FrameTypes, Units
  <2>6. hold' = [hold EXCEPT ![6] = {}] /\ hold[6] = {fb[3]}
    BY <1>1, <1>3, <2>1, <2>5 DEF hold, Ptr
  <2>7. Astray' = Astray \cup {fb[3]}
    <3>1. /\ \A a \in 1 .. 8 : a # 6 => hold'[a] = hold[a]
          /\ hold'[6] = {}
      BY <2>6 DEF hold
    <3>2. \A a \in 1 .. 8 : a # 6 => fb[3] \notin hold[a]
      BY <2>6, HeldOnce DEF LineInv
    <3>3. fb[3] \in busy /\ busy' = busy
      BY <1>1, <2>6 DEF LineInv, FrameInv, Within
    <3> QED
      BY <2>6, <3>1, <3>2, <3>3 DEF Astray
  <2>8. fb[3] \in InSlots
    BY <2>6 DEF LineInv, FrameInv, Kinds
  <2>9. Lost' = Lost \cup {Pipeline[k]}
    BY <2>2, <2>3, <2>7, LineAfter
  <2>10. Cardinality(Lost') < starts
    <3>1. LossInv' /\ Lost' = Astray'
      BY LineAfter DEF LineInv
    <3>2. starts' > 0
      <4>1. Astray' # {}
        BY <2>7
      <4> QED
        BY <3>1, <4>1 DEF LossInv
    <3>3. Cardinality(Astray') \in Nat
      <4>1. IsFiniteSet(InSlots)
        BY ServiceAssumption, FS_Interval DEF InSlots
      <4>2. Astray' \subseteq InSlots
        BY <3>1 DEF LossInv
      <4> QED
        BY <4>1, <4>2, FS_Subset, FS_CardinalityType
    <3>4. \E r \in 0 .. 1 : Cardinality(Astray') + r < starts'
      BY <3>1, <3>2 DEF LossInv
    <3>5. starts' = starts /\ starts' \in Nat
      BY <1>1, <3>1 DEF LossInv
    <3> QED
      BY <3>1, <3>3, <3>4, <3>5
  <2>11. Line!Lose(k)
    <3>1. Line!IsNext(k)
      BY <2>2, <2>8 DEF Line!IsNext
    <3> QED
      BY <1>1, <2>4, <2>9, <2>10, <3>1
      DEF Line!Lose, Line!RemoveAt, RemoveAt, Line!Cardinality, Cardinality
  <2> QED
    BY <2>3, <2>11 DEF Line!Next
<1> QED
  BY <1>2, <1>3 DEF BeginRun

\* The other steps of the units move a frame within the line.
LEMMA UnitLine ==
  ASSUME PoolSlots <= QueueCapacity, LineInv, LineInv', NEW u \in Units, UnitStep(u)
  PROVE  [Line!Next]_(Line!lineVars)
<1>1. CASE BeginRun(u)
  BY <1>1, LoseStep
<1>2. CASE GiveUp(u)
  <2>1. UNCHANGED <<busy, queue, fb, outFb, order, starts>>
    BY <1>2 DEF GiveUp, pools, frames, control
  <2>2. Astray' = Astray
    BY <2>1 DEF Astray, hold
  <2> QED
    BY <2>1, <2>2, SameLine
<1>3. CASE CameraGet
  BY <1>3, CaptureStep
<1>4. CASE ConversionSend
  BY <1>4, ConvertStep
<1>5. CASE FileSend
  BY <1>5, DeliverStep
<1>6. CASE CameraSend \/ ProviderSend
  <2>1. /\ CameraSend => pc[1] = "send"
        /\ ProviderSend => pc[2] = "send"
    BY DEF CameraSend, ProviderSend, Goto, Camera, Provider
  <2>2. (CameraSend => Room(1)) /\ (ProviderSend => Room(2))
    BY <2>1, RoomHolds DEF LineInv, QueueHasRoom, Queues
  <2>3. UNCHANGED <<order, starts>>
    BY <1>6, <2>2 DEF CameraSend, ProviderSend, Camera, Provider, control
  <2>4. Astray' = Astray
    BY <1>6, CameraSendFrames, ProviderSendFrames DEF LineInv
  <2> QED
    BY <2>3, <2>4, SameLine
<1>7. CASE ProviderGet \/ ConversionGet \/ ConversionProcess \/ ConversionUnref \/ FileGet
  <2>1. UNCHANGED <<order, starts>>
    BY <1>7 DEF ProviderGet, ConversionGet, ConversionProcess, ConversionUnref, FileGet,
                control
  <2>2. Astray' = Astray
    BY <1>7, ProviderGetFrames, ConversionGetFrames, ConversionProcessFrames,
       ConversionUnrefFrames, FileGetFrames DEF LineInv
  <2> QED
    BY <2>1, <2>2, SameLine
<1> QED
  BY <1>1, <1>2, <1>3, <1>4, <1>5, <1>6, <1>7 DEF UnitStep

LEMMA ControlLine ==
  ASSUME LineInv, LineInv', ServiceStart \/ ServiceStop \/ ControlStep
  PROVE  [Line!Next]_(Line!lineVars)
<1>1. UNCHANGED <<busy, queue, fb, outFb, order>>
  BY DEF ServiceStart, ServiceStop, ControlStep, UnitStart, UnitStartFails, StopOutPool,
         UnitStopClear, UnitStopWake, UnitStopJoin, pools, frames
<1>2. Astray' = Astray
  BY <1>1 DEF Astray, hold
<1>3. CASE ServiceStart
  <2>1. starts' = starts + 1
    BY <1>3 DEF ServiceStart
  <2>2. Pipeline' = Pipeline /\ Lost' = Lost
    BY <1>1, <1>2, LineIs, LineAfter
  <2>3. Line!Start
    BY <2>1, <2>2 DEF Line!Start
  <2> QED
    BY <2>3 DEF Line!Next
<1>4. CASE ServiceStop \/ ControlStep
  <2>1. UNCHANGED starts
    BY <1>4 DEF ServiceStop, ControlStep, UnitStart, UnitStartFails, StopOutPool,
                UnitStopClear, UnitStopWake, UnitStopJoin
  <2> QED
    BY <1>1, <1>2, <2>1, SameLine
<1> QED
  BY <1>3, <1>4

\* When no queue can overflow, the service is the line of FrameLine: a frame
\* that was captured reaches the file unit converted, once, in its turn, unless a
\* restart forgets it, whatever the four threads, the controller and failing
\* starts do.
THEOREM ServiceImplementsLine ==
  ASSUME PoolSlots <= QueueCapacity
  PROVE  Spec => ImplementsLine
<1>1. Init => Line!Init
  <2> SUFFICES ASSUME Init PROVE Line!Init
    OBVIOUS
  <2>1. FrameInv /\ OrderInv /\ order = << >> /\ starts = 0 /\ busy = {}
    BY InitFrames, InitOrder DEF Init
  <2>2. Pipeline = << >> /\ Lost = {}
    BY <2>1 DEF OrderInv, Lost
  <2> QED
    BY <2>1, <2>2 DEF Line!Init
<1>2. LineInv /\ LineInv' /\ [Next]_vars => [Line!Next]_(Line!lineVars)
  <2> SUFFICES ASSUME LineInv, LineInv', [Next]_vars
               PROVE  [Line!Next]_(Line!lineVars)
    OBVIOUS
  <2>1. CASE UNCHANGED vars
    <3>1. Astray' = Astray /\ UNCHANGED <<order, starts>>
      BY <2>1 DEF vars, Astray, hold
    <3> QED
      BY <3>1, SameLine
  <2> QED
    BY <2>1, UnitLine, ControlLine DEF Next
<1>3. Spec => []LineInv
  <2>1. ThreadInv /\ FrameInv /\ LossInv /\ [Next]_vars => LossInv'
    BY LossStep
  <2>2. Init => LossInv
    BY LossInit
  <2>3. Spec => []LossInv
    BY <2>1, <2>2, ThreadInvariant, FrameInvariant, PTL DEF Spec
  <2> QED
    BY <2>3, ThreadInvariant, FrameInvariant, OrderInvariant, PTL DEF LineInv
<1> QED
  BY <1>1, <1>2, <1>3, PTL DEF Spec, ImplementsLine, Line!Spec
=============================================================================
