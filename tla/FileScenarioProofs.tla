------------------------- MODULE FileScenarioProofs -------------------------
(***************************************************************************)
(* The scenarios on files, for every configuration text, every number of   *)
(* slots and every failure: what is given back, that no call waits, what   *)
(* is written, that the images are the converted files, and what the       *)
(* parser may not mix.                                                     *)
(***************************************************************************)
EXTENDS FileScenario, ConversionProofs, FiniteSetTheorems, SequenceTheorems,
        WellFoundedInduction, TLAPS

-----------------------------------------------------------------------------
(* Sequences of anything.                                                   *)

IsSeq(s) == s \in Seq({s[i] : i \in DOMAIN s})

LEMMA SomeSeq ==
  ASSUME NEW S, NEW s \in Seq(S)
  PROVE  IsSeq(s)
<1>1. Len(s) \in Nat /\ DOMAIN s = 1 .. Len(s) /\ s \in [1 .. Len(s) -> S]
  BY LenProperties
<1>2. s \in [1 .. Len(s) -> {s[i] : i \in DOMAIN s}]
  BY <1>1
<1> QED
  BY <1>1, <1>2, SeqDef DEF IsSeq

LEMMA IsSeqFacts ==
  ASSUME NEW s, IsSeq(s)
  PROVE  Len(s) \in Nat /\ DOMAIN s = 1 .. Len(s)
BY LenProperties DEF IsSeq

LEMMA AppendAny ==
  ASSUME NEW s, IsSeq(s), NEW e
  PROVE  /\ IsSeq(Append(s, e)) /\ Len(Append(s, e)) = Len(s) + 1
         /\ Append(s, e)[Len(s) + 1] = e
         /\ \A i \in 1 .. Len(s) : Append(s, e)[i] = s[i]
<1> DEFINE S == {s[i] : i \in DOMAIN s}
           T == S \cup {e}
<1>1. s \in Seq(S)
  BY DEF IsSeq
<1>2. s \in Seq(T) /\ e \in T
  BY <1>1, SeqMonotonic
<1> HIDE DEF T
<1>3. /\ Append(s, e) \in Seq(T) /\ Len(Append(s, e)) = Len(s) + 1
      /\ \A i \in 1 .. Len(s) : Append(s, e)[i] = s[i]
      /\ Append(s, e)[Len(s) + 1] = e
  BY <1>2, AppendProperties
<1> QED
  BY <1>3, SomeSeq

LEMMA NoneSeq == IsSeq(<< >>) /\ Len(<< >>) = 0 /\ Len(<< >>) <= 1 /\ Len(<< >>) # 1
<1>1. << >> \in Seq({})
  BY EmptySeq
<1>2. IsSeq(<< >>)
  BY <1>1, SomeSeq
<1>3. Len(<< >>) = 0
  OBVIOUS
<1> QED
  BY <1>2, <1>3

LEMMA OneSeq ==
  ASSUME NEW e
  PROVE  IsSeq(<<e>>) /\ Len(<<e>>) = 1 /\ Len(<<e>>) <= 1
<1>1. <<e>> \in Seq({e})
  OBVIOUS
<1>2. IsSeq(<<e>>)
  BY <1>1, SomeSeq
<1>3. Len(<<e>>) = 1
  OBVIOUS
<1> QED
  BY <1>2, <1>3

LEMMA ExceptAny ==
  ASSUME NEW s, IsSeq(s), NEW n \in 1 .. Len(s), NEW e
  PROVE  /\ IsSeq([s EXCEPT ![n] = e]) /\ Len([s EXCEPT ![n] = e]) = Len(s)
         /\ [s EXCEPT ![n] = e][n] = e
         /\ \A i \in 1 .. Len(s) : i # n => [s EXCEPT ![n] = e][i] = s[i]
<1> DEFINE S == {s[i] : i \in DOMAIN s}
           T == S \cup {e}
<1>1. s \in Seq(S)
  BY DEF IsSeq
<1>2. s \in Seq(T) /\ e \in T
  BY <1>1, SeqMonotonic
<1> HIDE DEF T
<1>3. /\ [s EXCEPT ![n] = e] \in Seq(T) /\ Len([s EXCEPT ![n] = e]) = Len(s)
      /\ \A j \in 1 .. Len(s) : [s EXCEPT ![n] = e][j] = IF j = n THEN e ELSE s[j]
  BY <1>2, ExceptSeq
<1> QED
  BY <1>3, SomeSeq

\* The least element of a set of numbers, by the well-foundedness of <.
LEMMA LeastFacts ==
  ASSUME NEW S, S \subseteq Nat, S # {}
  PROVE  Least(S) \in S /\ \A j \in S : Least(S) <= j
<1> DEFINE R == {ss \in Nat \X Nat : ss[1] < ss[2]}
<1>1. IsWellFoundedOn(R, Nat)
  BY NatLessThanWellFounded DEF OpToRel
<1>2. \A x, y \in Nat : <<y, x>> \in R <=> y < x
  OBVIOUS
<1> HIDE DEF R
<1>3. PICK x \in S : \A y \in S : ~ (<<y, x>> \in R)
  BY <1>1, WFMin
<1>4. \A y \in S : x <= y
  <2> TAKE y \in S
  <2>1. x \in Nat /\ y \in Nat
    OBVIOUS
  <2>2. ~ (<<y, x>> \in R)
    BY <1>3
  <2>3. ~ (y < x)
    BY <1>2, <2>1, <2>2
  <2> QED
    BY <2>1, <2>3
<1> QED
  BY <1>4 DEF Least

-----------------------------------------------------------------------------
(* What the parser holds.                                                   *)

\* The blocks of memory the parser holds, by what it does next: the text and the
\* configuration; the table of the sets; the frames of each.
Memory ==
    /\ IsSeq(sets)
    /\ parsing \in {"read", "count", "set", "frame", "loaded", "rejected"}
    /\ parsing \in {"read", "rejected"} => blocks = 0
    /\ parsing = "count" => blocks = 2 /\ sets = << >>
    /\ parsing = "read" => sets = << >>
    /\ parsing \in {"set", "frame"} => blocks = 3 + Len(sets)
    /\ parsing = "frame" => Len(sets) >= 1
    /\ parsing = "loaded" => blocks = 2 + Len(sets)

LEMMA ParserKeepsMemory ==
  ASSUME Memory, ParserNext
  PROVE  Memory'
<1>0. IsSeq(sets) /\ Len(sets) \in Nat
  BY IsSeqFacts DEF Memory
<1>1. CASE ReadConfig
  <2>1. UNCHANGED sets /\ sets = << >> /\ blocks = 0
    BY <1>1 DEF ReadConfig, Memory, Reject
  <2>2. \/ blocks' = 2 /\ parsing' = "count"
        \/ blocks' = 0 /\ parsing' = "rejected"
    <3>1. CASE Reject(0)
      BY <2>1, <3>1 DEF Reject
    <3>2. CASE ~Reject(0)
      BY <1>1, <3>2 DEF ReadConfig
    <3> QED
      BY <3>1, <3>2
  <2> QED
    BY <1>0, <2>1, <2>2 DEF Memory
<1>2. CASE CountSets
  BY <1>0, <1>2, EmptySeq DEF CountSets, Memory, Reject
<1>3. CASE ParseSet
  <2>1. CASE Reject(3 + Len(sets))
    BY <1>0, <1>3, <2>1 DEF ParseSet, Memory, Reject
  <2>2. CASE ~Reject(3 + Len(sets))
    <3>1. PICK e : sets' = Append(sets, e)
      BY <1>3, <2>2 DEF ParseSet
    <3>2. blocks' = blocks + 1 /\ parsing' = "frame" /\ parsing = "set"
      BY <1>3, <2>2 DEF ParseSet
    <3>3. IsSeq(sets') /\ Len(sets') = Len(sets) + 1
      BY <1>0, <3>1, AppendAny
    <3> QED
      BY <1>0, <3>2, <3>3 DEF Memory
  <2> QED
    BY <2>1, <2>2
<1>4. CASE ParseFrame
  <2>1. CASE Reject(3 + Len(sets))
    BY <1>0, <1>4, <2>1 DEF ParseFrame, Memory, Reject
  <2>2. CASE ~Reject(3 + Len(sets))
    <3>1. PICK e : sets' = [sets EXCEPT ![Len(sets)] = e]
      BY <1>4, <2>2 DEF ParseFrame
    <3>2. /\ parsing = "frame" /\ parsing' \in {"frame", "set", "loaded"}
          /\ blocks' = IF parsing' = "loaded" THEN blocks - 1 ELSE blocks
      BY <1>4, <2>2 DEF ParseFrame
    <3>3. Len(sets) \in 1 .. Len(sets)
      BY <1>0, <3>2 DEF Memory
    <3>4. IsSeq(sets') /\ Len(sets') = Len(sets)
      BY <1>0, <3>1, <3>3, ExceptAny
    <3> QED
      BY <1>0, <3>2, <3>3, <3>4 DEF Memory
  <2> QED
    BY <2>1, <2>2
<1> QED
  BY <1>1, <1>2, <1>3, <1>4 DEF ParserNext

-----------------------------------------------------------------------------
(* Where the frames are.                                                    *)

Used(p) == {i \in Slots : pool[p][i].used}

\* Both pools are built: each slot is a record of its flag and its contents.
IsSlot(r) == \E D : r \in [used : BOOLEAN, data : D]
IsPool(f) == f = [i \in Slots |-> f[i]] /\ \A i \in Slots : IsSlot(f[i])
PoolsBuilt == \A p \in 1 .. 2 : IsPool(pool[p])

InHand(h, s) == [g \in 1 .. 4 |-> IF g = h THEN s ELSE NoSlot]
NoHand == [g \in 1 .. 4 |-> NoSlot]

Frame(used1, used2, hands, queue1, queue2) ==
    /\ Used(1) = used1 /\ Used(2) = used2
    /\ fb = hands
    /\ queue = <<queue1, queue2>>

Nothing == Frame({}, {}, NoHand, << >>, << >>)

BothHands ==
    \E s, t \in Slots :
        Frame({s}, {t}, [InHand(InFb, s) EXCEPT ![OutFb] = t], << >>, << >>)

Running == {"create", "unwind", "get", "process", "send", "destroy"}

\* One frame is under way at a time, and at every step of the pipeline it is
\* in one place: its slots are those of one hand, one queue or, in the
\* conversion, two hands.
FrameAt ==
    /\ pc \in {"create", "unwind", "destroy"} => Nothing
    /\ pc = "get" /\ unit = 1 => Nothing
    /\ pc = "send" /\ unit = 1 =>
          \E s \in Slots : Frame({s}, {}, InHand(In, s), << >>, << >>)
    /\ pc = "get" /\ unit = 2 =>
          \E s \in Slots : Frame({s}, {}, NoHand, <<s>>, << >>)
    /\ pc = "process" =>
          \E s \in Slots : Frame({s}, {}, InHand(InFb, s), << >>, << >>)
    /\ pc = "send" /\ unit = 2 => BothHands
    /\ pc = "get" /\ unit = 3 =>
          \E t \in Slots : Frame({}, {t}, NoHand, << >>, <<t>>)
    /\ pc = "send" /\ unit = 3 =>
          \E t \in Slots : Frame({}, {t}, InHand(Out, t), << >>, << >>)
    /\ pc \in {"get", "send"} => unit \in 1 .. 3
    /\ pc = "process" => unit = 2
    /\ pc \in {"parse", "find", "pools"} =>
          pool = << << >>, << >> >> /\ queue = << << >>, << >> >> /\ fb = NoHand

\* The two file streams.
Closed(i) == stream[i].open => stream[i].gone

Streams ==
    /\ stream \in [1 .. 2 -> {Shut, Opened, Gone}]
    /\ pc \in {"parse", "find", "pools"} => stream = <<Shut, Shut>>
    /\ pc = "create" => /\ unit \in 1 .. 3 /\ stream[2] = Shut
                        /\ unit = 1 => stream[1] = Shut
    /\ pc = "unwind" => /\ unit \in 0 .. 2 /\ stream[2] = Shut
                        /\ unit = 0 => Closed(1)
    /\ pc = "destroy" => /\ unit \in 1 .. 4
                         /\ unit > 1 => Closed(1)
                         /\ unit > 3 => Closed(2)

Ended ==
    pc = "end" => /\ \A p \in 1 .. 2 : \A i \in DOMAIN pool[p] : ~pool[p][i].used
                  /\ queue = << << >>, << >> >>
                  /\ Closed(1) /\ Closed(2)

Held0 ==
    /\ pc # "done" => Memory
    /\ pc = "parse" => parsing \in {"read", "count", "set", "frame"}
    /\ pc = "parse" /\ command = UnknownFlag => parsing = "read"
    /\ pc \notin {"parse", "done", "aborted"} => parsing = "loaded"
    /\ pc = "done" => blocks = 0
    /\ pc \in {"parse", "find", "pools", "end", "done", "aborted"} \cup Running

RunInv == /\ Held0 /\ FrameAt /\ Streams /\ Ended
          /\ pc \in Running => PoolsBuilt
          /\ DOMAIN pool = 1 .. 2

-----------------------------------------------------------------------------
(* The pools.                                                               *)

LEMMA FirstFreeFacts ==
  ASSUME NEW p \in 1 .. 2, FreeSlots(p) # {}
  PROVE  FirstFree(p) \in Slots /\ FirstFree(p) \notin Used(p)
<1>1. FreeSlots(p) \subseteq Nat
  BY DEF FreeSlots, Slots
<1>2. FirstFree(p) \in FreeSlots(p)
  BY <1>1, LeastFacts DEF FirstFree
<1> QED
  BY <1>2 DEF FreeSlots, Used

LEMMA SlotOf ==
  ASSUME NEW u \in BOOLEAN, NEW d
  PROVE  IsSlot([used |-> u, data |-> d])
<1>1. [used |-> u, data |-> d] \in [used : BOOLEAN, data : {d}]
  OBVIOUS
<1> QED
  BY <1>1 DEF IsSlot

LEMMA Freed ==
  ASSUME NEW r, IsSlot(r)
  PROVE  IsSlot([r EXCEPT !.used = FALSE]) /\ ~ [r EXCEPT !.used = FALSE].used
<1>1. PICK D : r \in [used : BOOLEAN, data : D]
  BY DEF IsSlot
<1>2. [r EXCEPT !.used = FALSE] \in [used : BOOLEAN, data : D]
  BY <1>1
<1>3. [r EXCEPT !.used = FALSE].used = FALSE
  BY <1>1
<1> QED
  BY <1>2, <1>3 DEF IsSlot

LEMMA Blank ==
  ASSUME NEW a, NEW b, pool' = <<BlankPool(a), BlankPool(b)>>
  PROVE  PoolsBuilt' /\ DOMAIN pool' = 1 .. 2 /\ Used(1)' = {} /\ Used(2)' = {}
<1>1. ASSUME NEW planes
      PROVE  /\ IsPool(BlankPool(planes))
             /\ \A i \in Slots : ~ BlankPool(planes)[i].used
  <2>1. \A i \in Slots : BlankPool(planes)[i] = [used |-> FALSE, data |-> BlankBuffer(planes)]
    BY DEF BlankPool
  <2>2. BlankPool(planes) = [i \in Slots |-> BlankPool(planes)[i]]
    BY DEF BlankPool
  <2> QED
    <3>1. \A i \in Slots : IsSlot(BlankPool(planes)[i])
      <4> TAKE i \in Slots
      <4> DEFINE d == BlankBuffer(planes)
      <4>1. IsSlot([used |-> FALSE, data |-> d])
        BY SlotOf
      <4> QED
        BY <2>1, <4>1
    <3>2. \A i \in Slots : ~ BlankPool(planes)[i].used
      BY <2>1
    <3> QED
      BY <2>2, <3>1, <3>2 DEF IsPool
<1>2. pool'[1] = BlankPool(a) /\ pool'[2] = BlankPool(b) /\ DOMAIN pool' = 1 .. 2
  OBVIOUS
<1> QED
  BY <1>1, <1>2 DEF PoolsBuilt, Used

LEMMA AcquiredIn ==
  ASSUME PoolsBuilt, DOMAIN pool = 1 .. 2, NEW s \in Slots, NEW d,
         pool' = [pool EXCEPT ![1][s] = [used |-> TRUE, data |-> d]]
  PROVE  /\ PoolsBuilt' /\ DOMAIN pool' = 1 .. 2
         /\ Used(1)' = Used(1) \cup {s} /\ Used(2)' = Used(2)
<1>1. IsPool(pool[1])
  BY DEF PoolsBuilt
<1>2. DOMAIN pool' = 1 .. 2 /\ pool'[2] = pool[2]
  OBVIOUS
<1>3. pool'[1] = [pool[1] EXCEPT ![s] = [used |-> TRUE, data |-> d]]
  OBVIOUS
<1>4. /\ pool'[1][s] = [used |-> TRUE, data |-> d]
      /\ \A i \in Slots : i # s => pool'[1][i] = pool[1][i]
      /\ pool'[1] = [i \in Slots |-> pool'[1][i]]
  BY <1>1, <1>3 DEF IsPool
<1>5. IsPool(pool'[1])
  BY <1>1, <1>4, SlotOf DEF IsPool
<1>6. PoolsBuilt'
  BY <1>2, <1>5 DEF PoolsBuilt
<1>7. Used(1)' = Used(1) \cup {s}
  BY <1>4 DEF Used
<1>8. Used(2)' = Used(2)
  BY <1>2 DEF Used
<1> QED
  BY <1>2, <1>6, <1>7, <1>8

LEMMA AcquiredOut ==
  ASSUME PoolsBuilt, DOMAIN pool = 1 .. 2, NEW s \in Slots, NEW d,
         pool' = [pool EXCEPT ![2][s] = [used |-> TRUE, data |-> d]]
  PROVE  /\ PoolsBuilt' /\ DOMAIN pool' = 1 .. 2
         /\ Used(2)' = Used(2) \cup {s} /\ Used(1)' = Used(1)
<1>1. IsPool(pool[2])
  BY DEF PoolsBuilt
<1>2. DOMAIN pool' = 1 .. 2 /\ pool'[1] = pool[1]
  OBVIOUS
<1>3. pool'[2] = [pool[2] EXCEPT ![s] = [used |-> TRUE, data |-> d]]
  OBVIOUS
<1>4. /\ pool'[2][s] = [used |-> TRUE, data |-> d]
      /\ \A i \in Slots : i # s => pool'[2][i] = pool[2][i]
      /\ pool'[2] = [i \in Slots |-> pool'[2][i]]
  BY <1>1, <1>3 DEF IsPool
<1>5. IsPool(pool'[2])
  BY <1>1, <1>4, SlotOf DEF IsPool
<1>6. PoolsBuilt'
  BY <1>2, <1>5 DEF PoolsBuilt
<1>7. Used(2)' = Used(2) \cup {s}
  BY <1>4 DEF Used
<1>8. Used(1)' = Used(1)
  BY <1>2 DEF Used
<1> QED
  BY <1>2, <1>6, <1>7, <1>8

LEMMA ReleaseFacts ==
  ASSUME PoolsBuilt, DOMAIN pool = 1 .. 2, NEW s \in Slots,
         pool' = [pool EXCEPT ![1][s].used = FALSE]
  PROVE  /\ PoolsBuilt' /\ DOMAIN pool' = 1 .. 2
         /\ Used(1)' = Used(1) \ {s} /\ Used(2)' = Used(2)
<1>1. IsPool(pool[1]) /\ IsSlot(pool[1][s])
  BY DEF PoolsBuilt, IsPool
<1>2. /\ DOMAIN pool' = 1 .. 2 /\ pool'[2] = pool[2]
      /\ pool'[1] = [pool[1] EXCEPT ![s] = [pool[1][s] EXCEPT !.used = FALSE]]
  OBVIOUS
<1>3. /\ IsSlot(pool'[1][s]) /\ ~ pool'[1][s].used
      /\ \A i \in Slots : i # s => pool'[1][i] = pool[1][i]
      /\ pool'[1] = [i \in Slots |-> pool'[1][i]]
  <2> DEFINE r == pool[1][s]
             v == [r EXCEPT !.used = FALSE]
  <2>1. IsSlot(v) /\ ~ v.used
    BY <1>1, Freed
  <2>2. pool'[1] = [pool[1] EXCEPT ![s] = v]
    BY <1>2
  <2> HIDE DEF v
  <2>3. /\ pool'[1][s] = v
        /\ \A i \in Slots : i # s => pool'[1][i] = pool[1][i]
        /\ pool'[1] = [i \in Slots |-> pool'[1][i]]
    BY <1>1, <2>2 DEF IsPool
  <2> QED
    BY <2>1, <2>3
<1>4. IsPool(pool'[1])
  BY <1>1, <1>3 DEF IsPool
<1>5. PoolsBuilt'
  BY <1>2, <1>4 DEF PoolsBuilt
<1>6. Used(1)' = Used(1) \ {s}
  BY <1>3 DEF Used
<1>7. Used(2)' = Used(2)
  BY <1>2 DEF Used
<1> QED
  BY <1>2, <1>5, <1>6, <1>7

LEMMA DropFacts ==
  ASSUME PoolsBuilt, NEW H \in SUBSET (1 .. 4), Drop(H)
  PROVE  /\ PoolsBuilt' /\ DOMAIN pool' = 1 .. 2
         /\ \A p \in 1 .. 2 :
               Used(p)' = {i \in Used(p) : ~ \E h \in H : PoolOf[h] = p /\ fb[h] = i}
         /\ fb' = [h \in 1 .. 4 |-> IF h \in H THEN NoSlot ELSE fb[h]]
<1> DEFINE G == [p \in 1 .. 2 |-> {i \in Slots : \E h \in H : PoolOf[h] = p /\ fb[h] = i}]
<1>1. pool' = [p \in 1 .. 2 |-> [i \in Slots |->
                 IF i \in G[p] THEN [pool[p][i] EXCEPT !.used = FALSE] ELSE pool[p][i]]]
  BY DEF Drop
<1>2. \A p \in 1 .. 2 : Used(p) \ G[p]
                          = {i \in Used(p) : ~ \E h \in H : PoolOf[h] = p /\ fb[h] = i}
  BY DEF Used
<1> HIDE DEF G
<1>3. \A p \in 1 .. 2 : \A i \in Slots : IsSlot(pool[p][i])
  BY DEF PoolsBuilt, IsPool
<1>4. \A p \in 1 .. 2 : \A i \in Slots :
         pool'[p][i] = IF i \in G[p] THEN [pool[p][i] EXCEPT !.used = FALSE] ELSE pool[p][i]
  BY <1>1
<1>5. \A p \in 1 .. 2 : \A i \in Slots :
         i \in G[p] => IsSlot(pool'[p][i]) /\ ~ pool'[p][i].used
  <2> TAKE p \in 1 .. 2
  <2> TAKE i \in Slots
  <2> HAVE i \in G[p]
  <2> DEFINE r == pool[p][i]
             v == [r EXCEPT !.used = FALSE]
  <2>1. IsSlot(r)
    BY <1>3
  <2>2. pool'[p][i] = v
    BY <1>4
  <2>3. IsSlot(v) /\ ~ v.used
    BY <2>1, Freed
  <2> QED
    BY <2>2, <2>3
<1>6. \A p \in 1 .. 2 : \A i \in Slots : IsSlot(pool'[p][i])
  BY <1>3, <1>4, <1>5
<1>7. PoolsBuilt'
  BY <1>1, <1>6 DEF PoolsBuilt, IsPool
<1>8. \A p \in 1 .. 2 : Used(p)' = Used(p) \ G[p]
  BY <1>4, <1>5 DEF Used
<1> QED
  BY <1>1, <1>2, <1>7, <1>8 DEF Drop

LEMMA Dropped ==
  ASSUME PoolsBuilt, NEW H \in SUBSET (1 .. 4), Drop(H)
  PROVE  /\ PoolsBuilt' /\ DOMAIN pool' = 1 .. 2
         /\ Used(1)' = {i \in Used(1) : ~ \E h \in H : PoolOf[h] = 1 /\ fb[h] = i}
         /\ Used(2)' = {i \in Used(2) : ~ \E h \in H : PoolOf[h] = 2 /\ fb[h] = i}
         /\ fb' = [h \in 1 .. 4 |-> IF h \in H THEN NoSlot ELSE fb[h]]
BY DropFacts

-----------------------------------------------------------------------------
(* Every step keeps the invariant.                                          *)

\* While a scenario runs the parser's memory stays as it is.
LEMMA HeldStays ==
  ASSUME Held0, UNCHANGED <<parserVars, command>>, pc \notin {"parse", "done", "aborted"},
         pc' \in {"find", "pools", "end"} \cup Running
  PROVE  Held0'
<1>1. UNCHANGED <<text, cursor, todo, want, sets, blocks, parsing>>
  BY DEF parserVars
<1>2. Memory'
  BY <1>1 DEF Held0, Memory, IsSeq
<1> QED
  BY <1>1, <1>2 DEF Held0, Running

\* A step within the pipeline that leaves the streams well formed.
LEMMA Within ==
  ASSUME RunInv, UNCHANGED <<parserVars, command>>, pc \in {"get", "process", "send"},
         pc' \in {"get", "process", "send"} \/ (pc' = "destroy" /\ unit' = 1),
         stream' \in [1 .. 2 -> {Shut, Opened, Gone}],
         FrameAt', PoolsBuilt', DOMAIN pool' = 1 .. 2
  PROVE  RunInv'
<1>1. Held0'
  BY HeldStays DEF RunInv, Running
<1>2. Streams'
  BY DEF Streams
<1>3. Ended'
  BY DEF Ended
<1> QED
  BY <1>1, <1>2, <1>3 DEF RunInv

LEMMA CloseFacts ==
  ASSUME NEW s \in {Shut, Opened, Gone}, NEW t \in AfterClose(s)
  PROVE  t \in {Shut, Opened, Gone} /\ (t.open => t.gone)
BY DEF AfterClose, Shut, Opened, Gone

LEMMA SameUsed ==
  ASSUME UNCHANGED pool
  PROVE  Used(1)' = Used(1) /\ Used(2)' = Used(2) /\ (PoolsBuilt => PoolsBuilt')
BY DEF Used, PoolsBuilt

LEMMA RefuseFlagKeeps ==
  ASSUME RunInv, RefuseFlag
  PROVE  RunInv'
<1>1. UNCHANGED <<text, cursor, todo, want, sets, blocks, parsing, pool, queue, fb, stream>>
  BY DEF RefuseFlag, parserVars, unitVars
<1>2. pc' = "done" /\ blocks = 0
  BY DEF RefuseFlag, RunInv, Held0, Memory
<1> QED
  BY <1>1, <1>2 DEF RunInv, Held0, FrameAt, Streams, Ended, Running

LEMMA ParseKeeps ==
  ASSUME RunInv, Parse
  PROVE  RunInv'
<1>1. UNCHANGED <<command, pool, queue, fb, stream>> /\ pc = "parse" /\ command # UnknownFlag
  BY DEF Parse, unitVars
<1>2. Memory'
  BY <1>1, ParserKeepsMemory DEF Parse, RunInv, Held0
<1>3. pc' = CASE parsing' = "loaded"   -> "find"
              [] parsing' = "rejected" -> "done"
              [] OTHER                 -> "parse"
  BY DEF Parse
<1>4. Held0'
  BY <1>1, <1>2, <1>3 DEF Held0, Memory
<1>5. FrameAt' /\ Streams' /\ Ended'
  BY <1>1, <1>3 DEF RunInv, FrameAt, Streams, Ended
<1> QED
  BY <1>1, <1>3, <1>4, <1>5 DEF RunInv, Running

LEMMA FindSetKeeps ==
  ASSUME RunInv, FindSet
  PROVE  RunInv'
<1>1. /\ UNCHANGED <<parserVars, command, pool, queue, fb, stream>>
      /\ pc = "find" /\ pc' \in {"pools", "end"}
  BY DEF FindSet, unitVars
<1>2. Held0'
  BY <1>1, HeldStays DEF RunInv
<1>3. pool = << << >>, << >> >> /\ queue = << << >>, << >> >> /\ fb = NoHand
      /\ stream = <<Shut, Shut>>
  BY <1>1 DEF RunInv, FrameAt, Streams
<1>4. FrameAt' /\ Streams'
  BY <1>1, <1>3 DEF FrameAt, Streams, RunInv
<1>5. Ended'
  BY <1>1, <1>3 DEF Ended, Closed, Shut
<1> QED
  BY <1>1, <1>2, <1>4, <1>5 DEF RunInv, Running

LEMMA InitPoolsKeeps ==
  ASSUME RunInv, InitPools
  PROVE  RunInv'
<1>1. /\ UNCHANGED <<parserVars, command, queue, fb, stream>> /\ pc = "pools"
      /\ pool = << << >>, << >> >> /\ queue = << << >>, << >> >> /\ fb = NoHand
      /\ stream = <<Shut, Shut>>
  BY DEF InitPools, RunInv, FrameAt, Streams
<1>2. CASE pc' = "end" /\ UNCHANGED pool
  <2>1. Held0'
    BY <1>1, <1>2, HeldStays DEF RunInv
  <2>2. Ended'
    BY <1>1, <1>2 DEF Ended, Closed, Shut
  <2> QED
    BY <1>1, <1>2, <2>1, <2>2 DEF RunInv, FrameAt, Streams, Running
<1>3. CASE /\ pool' = <<BlankPool(InPlanes), BlankPool(OutPlanes)>>
           /\ unit' = 1 /\ pc' = "create"
  <2>1. Held0'
    BY <1>1, <1>3, HeldStays DEF RunInv, Running
  <2>2. PoolsBuilt' /\ DOMAIN pool' = 1 .. 2 /\ Used(1)' = {} /\ Used(2)' = {}
    BY <1>3, Blank
  <2>3. FrameAt'
    BY <1>1, <1>3, <2>2 DEF FrameAt, Nothing, Frame
  <2>4. Streams' /\ Ended'
    BY <1>1, <1>3 DEF RunInv, Streams, Ended
  <2> QED
    BY <2>1, <2>2, <2>3, <2>4 DEF RunInv
<1> QED
  BY <1>2, <1>3 DEF InitPools

LEMMA CreateUnitKeeps ==
  ASSUME RunInv, CreateUnit
  PROVE  RunInv'
<1>0. UNCHANGED <<parserVars, command, pool, queue, fb>> /\ pc = "create"
  BY DEF CreateUnit, runVars
<1>k. PoolsBuilt /\ DOMAIN pool = 1 .. 2
  BY <1>0 DEF RunInv, Running
<1>l. Nothing
  <2>1. FrameAt
    BY DEF RunInv
  <2> QED
    BY <1>0, <2>1 DEF FrameAt
<1>m. /\ unit \in 1 .. 3 /\ stream[2] = Shut /\ (unit = 1 => stream[1] = Shut)
      /\ stream \in [1 .. 2 -> {Shut, Opened, Gone}]
  BY <1>0 DEF RunInv, Streams
<1>1. /\ UNCHANGED <<parserVars, command, pool, queue, fb>> /\ pc = "create" /\ Nothing
      /\ unit \in 1 .. 3 /\ stream[2] = Shut
      /\ stream \in [1 .. 2 -> {Shut, Opened, Gone}]
      /\ PoolsBuilt /\ DOMAIN pool = 1 .. 2
  BY <1>0, <1>k, <1>l, <1>m
<1>2. /\ pc' = IF unit < 3 THEN "create" ELSE "get"
      /\ unit' = IF unit < 3 THEN unit + 1 ELSE 1
      /\ stream' = CASE unit = 1 -> [stream EXCEPT ![1] = Opened]
                     [] unit = 3 /\ ~This.split -> [stream EXCEPT ![2] = Opened]
                     [] OTHER -> stream
  BY DEF CreateUnit
<1>3. Held0'
  BY <1>1, <1>2, HeldStays DEF RunInv, Running
<1>4. Nothing' /\ PoolsBuilt'
  BY <1>1, SameUsed DEF Nothing, Frame
<1>5. FrameAt'
  BY <1>1, <1>2, <1>4 DEF FrameAt
<1>6. Streams'
  <2>1. stream' \in [1 .. 2 -> {Shut, Opened, Gone}]
    BY <1>1, <1>2
  <2>2. unit < 3 => unit' \in 1 .. 3 /\ unit' # 1 /\ stream'[2] = Shut
    BY <1>1, <1>2
  <2> QED
    BY <1>1, <1>2, <2>1, <2>2 DEF Streams
<1>7. Ended'
  BY <1>2 DEF Ended
<1> QED
  BY <1>1, <1>3, <1>4, <1>5, <1>6, <1>7 DEF RunInv

LEMMA CreateFailsKeeps ==
  ASSUME RunInv, CreateFails
  PROVE  RunInv'
<1>0. /\ UNCHANGED <<parserVars, command, pool, queue, fb, stream>> /\ pc = "create"
      /\ pc' = "unwind" /\ unit' = unit - 1
  BY DEF CreateFails, unitVars
<1>k. PoolsBuilt /\ DOMAIN pool = 1 .. 2
  BY <1>0 DEF RunInv, Running
<1>l. Nothing
  <2>1. FrameAt
    BY DEF RunInv
  <2> QED
    BY <1>0, <2>1 DEF FrameAt
<1>m. /\ unit \in 1 .. 3 /\ stream[2] = Shut /\ (unit = 1 => stream[1] = Shut)
      /\ stream \in [1 .. 2 -> {Shut, Opened, Gone}]
  BY <1>0 DEF RunInv, Streams
<1>1. /\ UNCHANGED <<parserVars, command, pool, queue, fb, stream>> /\ pc = "create" /\ Nothing
      /\ unit \in 1 .. 3 /\ stream[2] = Shut /\ (unit = 1 => stream[1] = Shut)
      /\ stream \in [1 .. 2 -> {Shut, Opened, Gone}]
      /\ PoolsBuilt /\ DOMAIN pool = 1 .. 2
      /\ pc' = "unwind" /\ unit' = unit - 1
  BY <1>0, <1>k, <1>l, <1>m
<1>2. Held0'
  BY <1>1, HeldStays DEF RunInv, Running
<1>3. Nothing' /\ PoolsBuilt'
  BY <1>1, SameUsed DEF Nothing, Frame
<1>4. FrameAt' /\ Ended'
  BY <1>1, <1>3 DEF FrameAt, Ended
<1>5. Streams'
  BY <1>1 DEF Streams, Closed, Shut
<1> QED
  BY <1>1, <1>2, <1>3, <1>4, <1>5 DEF RunInv

-----------------------------------------------------------------------------
(* The pipeline's steps.                                                    *)

LEMMA HandFacts ==
  ASSUME NEW h \in 1 .. 4, NEW s \in Slots, NEW t \in Slots
  PROVE  /\ [NoHand EXCEPT ![h] = s] = InHand(h, s)
         /\ [NoHand EXCEPT ![h] = NoSlot] = NoHand
         /\ [InHand(h, s) EXCEPT ![h] = NoSlot] = NoHand
         /\ InHand(h, s)[h] = s
         /\ [[InHand(InFb, s) EXCEPT ![OutFb] = t] EXCEPT ![InFb] = NoSlot, ![OutFb] = NoSlot]
              = NoHand
BY DEF InHand, NoHand, InFb, OutFb

LEMMA QueueFacts ==
  ASSUME NEW s, NEW a, NEW b
  PROVE  /\ Append(<< >>, s) = <<s>> /\ Head(<<s>>) = s /\ Tail(<<s>>) = << >>
         /\ [<<a, b>> EXCEPT ![1] = s] = <<s, b>>
         /\ [<<a, b>> EXCEPT ![2] = s] = <<a, s>>
<1>1. Append(<< >>, s) = <<s>> /\ Head(<<s>>) = s /\ Tail(<<s>>) = << >>
  OBVIOUS
<1>2. [<<a, b>> EXCEPT ![1] = s] = <<s, b>>
  OBVIOUS
<1>3. [<<a, b>> EXCEPT ![2] = s] = <<a, s>>
  OBVIOUS
<1> QED
  BY <1>1, <1>2, <1>3

\* The facts of the invariant that the steps of the pipeline start from.
LEMMA PipelineFacts ==
  ASSUME RunInv, pc \in {"get", "process", "send"}
  PROVE  /\ PoolsBuilt /\ DOMAIN pool = 1 .. 2 /\ FrameAt
         /\ stream \in [1 .. 2 -> {Shut, Opened, Gone}]
<1>1. PoolsBuilt /\ DOMAIN pool = 1 .. 2
  BY DEF RunInv, Running
<1>2. FrameAt /\ Streams
  BY DEF RunInv
<1> QED
  BY <1>1, <1>2 DEF Streams

LEMMA FileInGetKeeps ==
  ASSUME RunInv, FileInGet
  PROVE  RunInv'
<1>0. pc = "get" /\ unit = 1 /\ UNCHANGED <<parserVars, command, queue>>
  BY DEF FileInGet
<1>1. /\ PoolsBuilt /\ DOMAIN pool = 1 .. 2
      /\ stream \in [1 .. 2 -> {Shut, Opened, Gone}]
  BY <1>0, PipelineFacts
<1>2. Used(1) = {} /\ Used(2) = {} /\ fb = NoHand /\ queue = << << >>, << >> >>
  <2>1. FrameAt
    BY DEF RunInv
  <2>2. Nothing
    BY <1>0, <2>1 DEF FrameAt
  <2> QED
    BY <2>2 DEF Nothing, Frame
<1>3. PICK s \in AfterClose(stream[1]) :
        \/ /\ stream' = [stream EXCEPT ![1] = s]
           /\ Fails
           /\ UNCHANGED <<pool, fb, index>>
        \/ /\ ~s.open
           /\ FreeSlots(1) # {}
           /\ stream' = [stream EXCEPT ![1] = Opened]
           /\ \/ /\ Fails
                 /\ fb' = [fb EXCEPT ![In] = NoSlot]
                 /\ UNCHANGED <<pool, index>>
              \/ /\ pool' = [pool EXCEPT ![1][FirstFree(1)] =
                        [used |-> TRUE,
                         data |-> ReadFromFile(InPlanes, @.data, FileBytes(index[1]))]]
                 /\ fb' = [fb EXCEPT ![In] = FirstFree(1)]
                 /\ Goto(1, "send")
  BY DEF FileInGet
<1>4. s \in {Shut, Opened, Gone}
  BY <1>1, CloseFacts
<1>5. stream' \in [1 .. 2 -> {Shut, Opened, Gone}]
  BY <1>1, <1>3, <1>4
<1>6. CASE Fails /\ UNCHANGED pool /\ fb' \in {fb, [fb EXCEPT ![In] = NoSlot]}
  <2>1. fb' = NoHand
    BY <1>2, <1>6 DEF NoHand, In
  <2>2. Nothing' /\ PoolsBuilt'
    BY <1>0, <1>1, <1>2, <1>6, <2>1, SameUsed DEF Nothing, Frame
  <2>3. FrameAt'
    BY <1>6, <2>2 DEF FrameAt, Fails
  <2> QED
    BY <1>0, <1>1, <1>5, <1>6, <2>2, <2>3, Within DEF Fails
<1>7. CASE /\ FreeSlots(1) # {}
           /\ pool' = [pool EXCEPT ![1][FirstFree(1)] =
                  [used |-> TRUE,
                   data |-> ReadFromFile(InPlanes, @.data, FileBytes(index[1]))]]
           /\ fb' = [fb EXCEPT ![In] = FirstFree(1)]
           /\ Goto(1, "send")
  <2>0. PICK f : f = FirstFree(1)
    OBVIOUS
  <2> DEFINE d == ReadFromFile(InPlanes, pool[1][f].data, FileBytes(index[1]))
  <2>1. f \in Slots
    BY <1>7, <2>0, FirstFreeFacts
  <2>2. pool' = [pool EXCEPT ![1][f] = [used |-> TRUE, data |-> d]]
    BY <1>7, <2>0
  <2> HIDE DEF d
  <2>3. /\ PoolsBuilt' /\ DOMAIN pool' = 1 .. 2
        /\ Used(1)' = Used(1) \cup {f} /\ Used(2)' = Used(2)
    BY <1>1, <2>1, <2>2, AcquiredIn
  <2>4. fb' = InHand(In, f)
    BY <1>2, <1>7, <2>0, <2>1, HandFacts DEF In
  <2>5. Frame({f}, {}, InHand(In, f), << >>, << >>)'
    BY <1>0, <1>2, <2>3, <2>4 DEF Frame, InHand
  <2>6. FrameAt'
    BY <1>7, <2>1, <2>5 DEF FrameAt, Frame, Goto
  <2> QED
    BY <1>0, <1>5, <1>7, <2>3, <2>6, Within DEF Goto
<1> QED
  BY <1>3, <1>6, <1>7

LEMMA FileInSendKeeps ==
  ASSUME RunInv, FileInSend
  PROVE  RunInv'
<1>0. /\ pc = "send" /\ unit = 1 /\ UNCHANGED <<parserVars, command, pool, stream>>
      /\ pc' = "get" /\ unit' = 2
  BY DEF FileInSend, Goto
<1>1. PoolsBuilt /\ DOMAIN pool = 1 .. 2 /\ stream \in [1 .. 2 -> {Shut, Opened, Gone}]
  BY <1>0, PipelineFacts
<1>2. PICK s \in Slots : Frame({s}, {}, InHand(In, s), << >>, << >>)
  <2>1. FrameAt
    BY DEF RunInv
  <2> QED
    BY <1>0, <2>1 DEF FrameAt
<1>3. queue' = <<<<s>>, << >>>> /\ fb' = NoHand
  <2>1. queue = << << >>, << >> >> /\ fb = InHand(In, s) /\ fb[In] = s
    BY <1>2, HandFacts DEF Frame, In
  <2>2. queue' = [queue EXCEPT ![1] = Append(<< >>, s)] /\ fb' = [fb EXCEPT ![In] = NoSlot]
    BY <2>1 DEF FileInSend
  <2> QED
    BY <2>1, <2>2, HandFacts, QueueFacts DEF In
<1>4. Frame({s}, {}, NoHand, <<s>>, << >>)' /\ PoolsBuilt'
  BY <1>0, <1>1, <1>2, <1>3, SameUsed DEF Frame, NoHand
<1>5. FrameAt'
  <2>1. \E x \in Slots : Frame({x}, {}, NoHand, <<x>>, << >>)'
    BY <1>4
  <2> QED
    BY <1>0, <2>1 DEF FrameAt, Frame
<1> QED
  BY <1>0, <1>1, <1>4, <1>5, Within

LEMMA ConversionGetKeeps ==
  ASSUME RunInv, ConversionGet
  PROVE  RunInv'
<1>0. /\ pc = "get" /\ unit = 2 /\ UNCHANGED <<parserVars, command, pool, stream>>
      /\ pc' = "process" /\ unit' = 2
  BY DEF ConversionGet, Goto
<1>1. PoolsBuilt /\ DOMAIN pool = 1 .. 2 /\ stream \in [1 .. 2 -> {Shut, Opened, Gone}]
  BY <1>0, PipelineFacts
<1>2. PICK s \in Slots : Frame({s}, {}, NoHand, <<s>>, << >>)
  <2>1. FrameAt
    BY DEF RunInv
  <2> QED
    BY <1>0, <2>1 DEF FrameAt
<1>3. queue' = << << >>, << >> >> /\ fb' = InHand(InFb, s)
  <2>1. queue = << <<s>>, << >> >> /\ fb = NoHand
    BY <1>2 DEF Frame
  <2>2. queue' = [queue EXCEPT ![1] = << >>] /\ fb' = [fb EXCEPT ![InFb] = s]
    BY <2>1, QueueFacts DEF ConversionGet
  <2> QED
    BY <2>1, <2>2, HandFacts, QueueFacts DEF InFb
<1>4. Frame({s}, {}, InHand(InFb, s), << >>, << >>)' /\ PoolsBuilt'
  BY <1>0, <1>1, <1>2, <1>3, SameUsed DEF Frame, InHand
<1>5. FrameAt'
  BY <1>0, <1>4 DEF FrameAt
<1> QED
  BY <1>0, <1>1, <1>4, <1>5, Within

LEMMA ConversionProcessKeeps ==
  ASSUME RunInv, ConversionProcess
  PROVE  RunInv'
<1>0. /\ pc = "process" /\ UNCHANGED <<parserVars, command, queue, stream>>
      /\ pc' = "send" /\ unit' = 2 /\ FreeSlots(2) # {}
  BY DEF ConversionProcess, Goto
<1>1. PoolsBuilt /\ DOMAIN pool = 1 .. 2 /\ stream \in [1 .. 2 -> {Shut, Opened, Gone}]
  BY <1>0, PipelineFacts
<1>2. PICK s \in Slots : Frame({s}, {}, InHand(InFb, s), << >>, << >>)
  <2>1. FrameAt
    BY DEF RunInv
  <2> QED
    BY <1>0, <2>1 DEF FrameAt
<1>k. PICK t : t = FirstFree(2)
  OBVIOUS
<1> DEFINE d == Convert(This.from, This.to, Width, Height,
                        pool[1][fb[InFb]].data, pool[2][t].data)
<1>3. t \in Slots
  BY <1>0, <1>k, FirstFreeFacts
<1>4. pool' = [pool EXCEPT ![2][t] = [used |-> TRUE, data |-> d]]
  BY <1>k DEF ConversionProcess
<1>5. fb' = [fb EXCEPT ![OutFb] = t]
  BY <1>k DEF ConversionProcess
<1> HIDE DEF d
<1>6. /\ PoolsBuilt' /\ DOMAIN pool' = 1 .. 2
      /\ Used(2)' = Used(2) \cup {t} /\ Used(1)' = Used(1)
  BY <1>1, <1>3, <1>4, AcquiredOut
<1>7. Frame({s}, {t}, [InHand(InFb, s) EXCEPT ![OutFb] = t], << >>, << >>)'
  BY <1>0, <1>2, <1>5, <1>6 DEF Frame, InHand
<1>8. FrameAt'
  <2>1. BothHands'
    BY <1>3, <1>7 DEF BothHands
  <2> QED
    BY <1>0, <2>1 DEF FrameAt
<1> QED
  BY <1>0, <1>1, <1>6, <1>8, Within

LEMMA ConversionSendKeeps ==
  ASSUME RunInv, ConversionSend
  PROVE  RunInv'
<1>0. /\ pc = "send" /\ unit = 2 /\ UNCHANGED <<parserVars, command, stream>>
      /\ pc' = "get" /\ unit' = 3
  BY DEF ConversionSend, Goto
<1>1. PoolsBuilt /\ DOMAIN pool = 1 .. 2 /\ stream \in [1 .. 2 -> {Shut, Opened, Gone}]
  BY <1>0, PipelineFacts
<1>2. PICK s, t \in Slots :
         Frame({s}, {t}, [InHand(InFb, s) EXCEPT ![OutFb] = t], << >>, << >>)
  <2>1. FrameAt
    BY DEF RunInv
  <2>2. BothHands
    BY <1>0, <2>1 DEF FrameAt
  <2> QED
    BY <2>2 DEF BothHands
<1>3. /\ fb[InFb] = s /\ fb[OutFb] = t
      /\ fb = [InHand(InFb, s) EXCEPT ![OutFb] = t]
      /\ queue = << << >>, << >> >> /\ Used(1) = {s} /\ Used(2) = {t}
  BY <1>2 DEF Frame, InHand, InFb, OutFb
<1>4. queue' = << << >>, <<t>> >>
  <2>1. queue' = [queue EXCEPT ![2] = Append(<< >>, t)]
    BY <1>3 DEF ConversionSend
  <2> QED
    BY <1>3, <2>1, QueueFacts
<1>5. fb' = NoHand
  BY <1>3, HandFacts DEF ConversionSend, InFb
<1>6. pool' = [pool EXCEPT ![1][s].used = FALSE]
  BY <1>3 DEF ConversionSend
<1>7. /\ PoolsBuilt' /\ DOMAIN pool' = 1 .. 2
      /\ Used(1)' = Used(1) \ {s} /\ Used(2)' = Used(2)
  BY <1>1, <1>6, ReleaseFacts
<1>8. Frame({}, {t}, NoHand, << >>, <<t>>)'
  BY <1>3, <1>4, <1>5, <1>7 DEF Frame, NoHand
<1>9. FrameAt'
  BY <1>0, <1>8 DEF FrameAt, Frame
<1> QED
  BY <1>0, <1>1, <1>7, <1>9, Within

LEMMA FileOutGetKeeps ==
  ASSUME RunInv, FileOutGet
  PROVE  RunInv'
<1>0. /\ pc = "get" /\ unit = 3 /\ UNCHANGED <<parserVars, command, pool, stream>>
      /\ pc' = "send" /\ unit' = 3
  BY DEF FileOutGet, Goto
<1>1. PoolsBuilt /\ DOMAIN pool = 1 .. 2 /\ stream \in [1 .. 2 -> {Shut, Opened, Gone}]
  BY <1>0, PipelineFacts
<1>2. PICK t \in Slots : Frame({}, {t}, NoHand, << >>, <<t>>)
  <2>1. FrameAt
    BY DEF RunInv
  <2> QED
    BY <1>0, <2>1 DEF FrameAt
<1>3. queue' = << << >>, << >> >> /\ fb' = InHand(Out, t)
  <2>1. queue = << << >>, <<t>> >> /\ fb = NoHand
    BY <1>2 DEF Frame
  <2>2. queue' = [queue EXCEPT ![2] = << >>] /\ fb' = [fb EXCEPT ![Out] = t]
    BY <2>1, QueueFacts DEF FileOutGet
  <2> QED
    BY <2>1, <2>2, HandFacts, QueueFacts DEF Out
<1>4. Frame({}, {t}, InHand(Out, t), << >>, << >>)' /\ PoolsBuilt'
  BY <1>0, <1>1, <1>2, <1>3, SameUsed DEF Frame, InHand
<1>5. FrameAt'
  BY <1>0, <1>4 DEF FrameAt, Frame
<1> QED
  BY <1>0, <1>1, <1>4, <1>5, Within

LEMMA FileOutSendKeeps ==
  ASSUME RunInv, FileOutSend
  PROVE  RunInv'
<1>0. /\ pc = "send" /\ unit = 3 /\ UNCHANGED <<parserVars, command, queue>> /\ Drop({Out})
  BY DEF FileOutSend
<1>1. PoolsBuilt /\ DOMAIN pool = 1 .. 2 /\ stream \in [1 .. 2 -> {Shut, Opened, Gone}]
  BY <1>0, PipelineFacts
<1>2. PICK t \in Slots : Frame({}, {t}, InHand(Out, t), << >>, << >>)
  <2>1. FrameAt
    BY DEF RunInv
  <2> QED
    BY <1>0, <2>1 DEF FrameAt
<1>3. /\ Used(1) = {} /\ Used(2) = {t} /\ fb = InHand(Out, t) /\ fb[Out] = t
      /\ queue = << << >>, << >> >>
  BY <1>2, HandFacts DEF Frame, Out
<1>4. /\ PoolsBuilt' /\ DOMAIN pool' = 1 .. 2 /\ Used(1)' = {} /\ Used(2)' = {} /\ fb' = NoHand
  <2>1. {Out} \in SUBSET (1 .. 4)
    BY DEF Out
  <2>2. /\ PoolsBuilt' /\ DOMAIN pool' = 1 .. 2
        /\ Used(1)' = {i \in Used(1) : ~ \E h \in {Out} : PoolOf[h] = 1 /\ fb[h] = i}
        /\ Used(2)' = {i \in Used(2) : ~ \E h \in {Out} : PoolOf[h] = 2 /\ fb[h] = i}
        /\ fb' = [h \in 1 .. 4 |-> IF h \in {Out} THEN NoSlot ELSE fb[h]]
    BY <1>0, <1>1, <2>1, Dropped
  <2>3. PoolOf[Out] = 2
    BY DEF PoolOf, Out
  <2>4. Used(1)' = {} /\ Used(2)' = {}
    BY <1>3, <2>2, <2>3
  <2>5. fb' = NoHand
    BY <1>3, <2>2 DEF InHand, NoHand
  <2> QED
    BY <2>2, <2>4, <2>5
<1>5. Nothing'
  BY <1>0, <1>3, <1>4 DEF Nothing, Frame
<1>6. /\ \/ pc' = "get" /\ unit' = 1
         \/ pc' = "destroy" /\ unit' = 1
      /\ stream' \in [1 .. 2 -> {Shut, Opened, Gone}]
  <2>1. \A s \in AfterClose(stream[2]) : s \in {Shut, Opened, Gone}
    BY <1>1, CloseFacts
  <2>2. ASSUME NEW files, NEW path, Write(files, path)
        PROVE  unit' = 1 /\ pc' \in {"get", "destroy"}
    BY <2>2 DEF Write
  <2>3. CASE This.split
    <3>1. PICK s \in AfterClose(stream[2]) :
              \/ stream' = [stream EXCEPT ![2] = s] /\ Fails
              \/ /\ stream' = [stream EXCEPT ![2] = Opened]
                 /\ \/ Write(Truncated(OutPath(index[2])), OutPath(index[2]))
                    \/ Fails
      BY <2>3 DEF FileOutSend
    <3>2. stream' \in [1 .. 2 -> {Shut, Opened, Gone}]
      BY <1>1, <2>1, <3>1
    <3>3. unit' = 1 /\ pc' \in {"get", "destroy"}
      BY <2>2, <3>1 DEF Fails
    <3> QED
      BY <3>2, <3>3
  <2>4. CASE ~This.split
    <3>1. UNCHANGED stream /\ (Write(disk, ConcatPath) \/ Fails)
      BY <2>4 DEF FileOutSend
    <3>2. unit' = 1 /\ pc' \in {"get", "destroy"}
      BY <2>2, <3>1 DEF Fails
    <3> QED
      BY <1>1, <3>1, <3>2
  <2> QED
    BY <2>3, <2>4
<1>7. FrameAt'
  BY <1>5, <1>6 DEF FrameAt
<1> QED
  BY <1>0, <1>4, <1>6, <1>7, Within

-----------------------------------------------------------------------------
(* The end of a scenario.                                                   *)

LEMMA DestroyUnitKeeps ==
  ASSUME RunInv, DestroyUnit
  PROVE  RunInv'
<1>0. /\ pc \in {"destroy", "unwind"} /\ unit \in 1 .. 3 /\ Drop(HandsOf[unit])
      /\ UNCHANGED <<parserVars, command, pc, queue>>
      /\ unit' = IF pc = "unwind" THEN unit - 1 ELSE unit + 1
  BY DEF DestroyUnit, runVars
<1>1. PoolsBuilt /\ DOMAIN pool = 1 .. 2
  BY <1>0 DEF RunInv, Running
<1>2. Nothing
  <2>1. FrameAt
    BY DEF RunInv
  <2> QED
    BY <1>0, <2>1 DEF FrameAt
<1>3. /\ PoolsBuilt' /\ DOMAIN pool' = 1 .. 2 /\ Used(1)' = {} /\ Used(2)' = {} /\ fb' = NoHand
  <2>1. Used(1) = {} /\ Used(2) = {} /\ fb = NoHand
    BY <1>2 DEF Nothing, Frame
  <2>2. HandsOf[unit] \in SUBSET (1 .. 4)
    BY <1>0 DEF HandsOf, In, InFb, OutFb, Out
  <2>3. PICK H \in SUBSET (1 .. 4) : H = HandsOf[unit]
    BY <2>2
  <2>4. Drop(H)
    BY <1>0, <2>3
  <2>5. /\ PoolsBuilt' /\ DOMAIN pool' = 1 .. 2
        /\ Used(1)' = {i \in Used(1) : ~ \E h \in H : PoolOf[h] = 1 /\ fb[h] = i}
        /\ Used(2)' = {i \in Used(2) : ~ \E h \in H : PoolOf[h] = 2 /\ fb[h] = i}
        /\ fb' = [h \in 1 .. 4 |-> IF h \in H THEN NoSlot ELSE fb[h]]
    BY <1>1, <2>4, Dropped
  <2>6. fb' = NoHand
    BY <2>1, <2>5 DEF NoHand
  <2> QED
    BY <2>1, <2>5, <2>6
<1>4. Nothing'
  BY <1>0, <1>2, <1>3 DEF Nothing, Frame
<1>5. FrameAt'
  BY <1>0, <1>4 DEF FrameAt
<1>6. Streams'
  <2>1. /\ stream \in [1 .. 2 -> {Shut, Opened, Gone}]
        /\ pc = "unwind" => unit \in 1 .. 2 /\ stream[2] = Shut
        /\ pc = "destroy" => /\ unit > 1 => Closed(1)
                             /\ unit > 3 => Closed(2)
    BY <1>0 DEF RunInv, Streams
  <2>2. CASE unit = 2
    <3>1. UNCHANGED stream
      BY <2>2 DEF DestroyUnit
    <3> QED
      BY <1>0, <2>1, <2>2, <3>1 DEF Streams, Closed
  <2>3. CASE unit # 2
    <3>1. StreamOf(unit) = IF unit = 1 THEN 1 ELSE 2
      BY DEF StreamOf
    <3>2. PICK s \in AfterClose(stream[StreamOf(unit)]) :
            stream' = [stream EXCEPT ![StreamOf(unit)] = s]
      BY <2>3 DEF DestroyUnit
    <3>3. s \in {Shut, Opened, Gone} /\ (s.open => s.gone)
      BY <2>1, <3>1, <3>2, CloseFacts
    <3>4. CASE unit = 1
      BY <1>0, <2>1, <3>1, <3>2, <3>3, <3>4 DEF Streams, Closed
    <3>5. CASE unit = 3
      BY <1>0, <2>1, <3>1, <3>2, <3>3, <3>5 DEF Streams, Closed
    <3> QED
      BY <1>0, <2>3, <3>4, <3>5
  <2> QED
    BY <2>2, <2>3
<1>7. Held0' /\ Ended'
  BY <1>0, HeldStays DEF RunInv, Running, Ended
<1> QED
  BY <1>3, <1>5, <1>6, <1>7 DEF RunInv

LEMMA CloseTwiceKeeps ==
  ASSUME RunInv, CloseTwice
  PROVE  RunInv'
<1>1. UNCHANGED <<text, cursor, todo, want, sets, blocks, parsing, pool, queue, fb, stream>>
      /\ pc' = "aborted" /\ pc \in {"destroy", "unwind"}
  BY DEF CloseTwice, parserVars, unitVars
<1>2. Held0' /\ FrameAt' /\ Streams' /\ Ended'
  <2>1. Held0'
    <3>1. Memory'
      BY <1>1 DEF RunInv, Held0, Memory, IsSeq
    <3> QED
      BY <1>1, <3>1 DEF Held0
  <2>2. stream' \in [1 .. 2 -> {Shut, Opened, Gone}]
    BY <1>1 DEF RunInv, Streams
  <2> QED
    BY <1>1, <2>1, <2>2 DEF FrameAt, Streams, Ended
<1> QED
  BY <1>1, <1>2 DEF RunInv, Running

LEMMA DeinitPoolsKeeps ==
  ASSUME RunInv, DeinitPools
  PROVE  RunInv'
<1>0. /\ pc \in {"destroy", "unwind"} /\ unit \notin 1 .. 3 /\ pc' = "end"
      /\ UNCHANGED <<parserVars, command, pool, queue, fb, stream>>
  BY DEF DeinitPools, runVars, unitVars
<1>1. PoolsBuilt /\ DOMAIN pool = 1 .. 2
  BY <1>0 DEF RunInv, Running
<1>2. Used(1) = {} /\ Used(2) = {} /\ queue = << << >>, << >> >>
  <2>1. FrameAt
    BY DEF RunInv
  <2>2. Nothing
    BY <1>0, <2>1 DEF FrameAt
  <2> QED
    BY <2>2 DEF Nothing, Frame
<1>3. Closed(1) /\ Closed(2) /\ stream \in [1 .. 2 -> {Shut, Opened, Gone}]
  <2>1. Streams
    BY DEF RunInv
  <2>2. Shut.open = FALSE
    BY DEF Shut
  <2>3. pc = "destroy" => unit = 4
    BY <1>0, <2>1 DEF Streams
  <2>4. pc = "unwind" => unit = 0
    BY <1>0, <2>1 DEF Streams
  <2> QED
    BY <1>0, <2>1, <2>2, <2>3, <2>4 DEF Streams, Closed
<1>4. \A p \in 1 .. 2 : \A i \in DOMAIN pool[p] : ~pool[p][i].used
  BY <1>1, <1>2 DEF PoolsBuilt, IsPool, Used
<1>5. Ended'
  BY <1>0, <1>2, <1>3, <1>4 DEF Ended, Closed
<1>6. Held0' /\ FrameAt' /\ Streams'
  BY <1>0, <1>3, HeldStays DEF RunInv, FrameAt, Streams
<1> QED
  BY <1>0, <1>1, <1>5, <1>6 DEF RunInv, Running

LEMMA EndScenarioKeeps ==
  ASSUME RunInv, EndScenario
  PROVE  RunInv'
<1>0. /\ pc = "end" /\ UNCHANGED command
      /\ pool' = << << >>, << >> >> /\ queue' = << << >>, << >> >>
      /\ fb' = NoHand /\ stream' = <<Shut, Shut>>
      /\ \/ pc' = "find" /\ UNCHANGED parserVars
         \/ pc' = "done" /\ FreeConfig
  BY DEF EndScenario, NoHand
<1>1. Memory /\ parsing = "loaded"
  BY <1>0 DEF RunInv, Held0
<1>2. FrameAt' /\ Streams' /\ Ended'
  <2>1. stream' \in [1 .. 2 -> {Shut, Opened, Gone}]
    BY <1>0
  <2> QED
    BY <1>0, <2>1 DEF FrameAt, Streams, Ended
<1>3. Held0'
  <2>1. CASE pc' = "find" /\ UNCHANGED parserVars
    BY <1>0, <2>1, HeldStays DEF RunInv
  <2>2. CASE pc' = "done" /\ FreeConfig
    <3>1. blocks = 2 + Len(sets) /\ Len(sets) \in Nat
      BY <1>1, IsSeqFacts DEF Memory
    <3>2. blocks' = 0
      BY <2>2, <3>1 DEF FreeConfig
    <3> QED
      BY <2>2, <3>2 DEF Held0
  <2> QED
    BY <1>0, <2>1, <2>2
<1>4. DOMAIN pool' = 1 .. 2
  BY <1>0
<1> QED
  BY <1>0, <1>2, <1>3, <1>4 DEF RunInv, Running

-----------------------------------------------------------------------------
(* The invariant.                                                           *)

LEMMA RunInit == Init => RunInv
<1> SUFFICES ASSUME Init
             PROVE  RunInv
  OBVIOUS
<1>1. /\ pc = "parse" /\ pool = << << >>, << >> >> /\ queue = << << >>, << >> >>
      /\ fb = NoHand /\ stream = <<Shut, Shut>>
      /\ sets = << >> /\ blocks = 0 /\ parsing = "read"
  BY DEF Init, ParserInit, NoHand
<1>2. IsSeq(sets)
  <2>1. << >> \in Seq({})
    BY EmptySeq
  <2> QED
    BY <1>1, <2>1, SomeSeq
<1>3. stream \in [1 .. 2 -> {Shut, Opened, Gone}] /\ DOMAIN pool = 1 .. 2
  BY <1>1
<1> QED
  BY <1>1, <1>2, <1>3 DEF RunInv, Held0, Memory, FrameAt, Streams, Ended, Running

LEMMA RunNext == RunInv /\ [Next]_vars => RunInv'
<1> SUFFICES ASSUME RunInv, [Next]_vars
             PROVE  RunInv'
  OBVIOUS
<1>1. ASSUME UNCHANGED vars
      PROVE  RunInv'
  <2>1. UNCHANGED <<text, cursor, todo, want, sets, blocks, parsing, command, pc, unit,
                    pool, queue, fb, stream>>
    BY <1>1 DEF vars, parserVars, runVars, unitVars
  <2>2. Memory' <=> Memory
    BY <2>1 DEF Memory, IsSeq
  <2>3. Nothing' <=> Nothing
    BY <2>1 DEF Nothing, Frame, Used
  <2>4. BothHands' <=> BothHands
    BY <2>1 DEF BothHands, Frame, Used
  <2>5. FrameAt'
    <3>1. FrameAt
      BY DEF RunInv
    <3> QED
      BY <2>1, <2>3, <2>4, <3>1 DEF FrameAt, Frame, Used
  <2>6. Held0' /\ Streams' /\ Ended' /\ (PoolsBuilt' <=> PoolsBuilt)
    BY <2>1, <2>2 DEF RunInv, Held0, Streams, Ended, PoolsBuilt, Closed
  <2> QED
    BY <2>1, <2>5, <2>6 DEF RunInv
<1> QED
  BY <1>1, RefuseFlagKeeps, ParseKeeps, FindSetKeeps, InitPoolsKeeps, CreateUnitKeeps,
     CreateFailsKeeps, FileInGetKeeps, FileInSendKeeps, ConversionGetKeeps,
     ConversionProcessKeeps, ConversionSendKeeps, FileOutGetKeeps, FileOutSendKeeps,
     DestroyUnitKeeps, CloseTwiceKeeps, DeinitPoolsKeeps, EndScenarioKeeps
  DEF Next, Returned

\* Whichever call of a scenario fails, and whatever the configuration holds:
\* when its pools are freed every slot is back in its pool, the queues are empty
\* and no file that could be closed is open; and vf_core_run_all returns with
\* nothing of the configuration left, by the parser's own error paths or by
\* vf_parser_free_frames_cfg.
THEOREM FilesAllGivenBack == Spec => []AllGivenBack
<1>1. RunInv => AllGivenBack
  <2> SUFFICES ASSUME RunInv
               PROVE  AllGivenBack
    OBVIOUS
  <2>1. Ended /\ Held0
    BY DEF RunInv
  <2>2. queue = << << >>, << >> >> => queue[1] = << >> /\ queue[2] = << >>
    OBVIOUS
  <2> QED
    BY <2>1, <2>2 DEF AllGivenBack, Ended, Held0, Closed
<1> QED
  BY <1>1, RunInit, RunNext, PTL DEF Spec

\* The blocking calls of a turn: vf_file_unit and vf_conversion_unit acquire a
\* slot, and both units that follow pop a frame.
CallsReturn ==
    /\ pc = "get" /\ unit = 1 => FreeSlots(1) # {}
    /\ pc = "get" /\ unit = 2 => queue[1] # << >>
    /\ pc = "process" => FreeSlots(2) # {}
    /\ pc = "get" /\ unit = 3 => queue[2] # << >>

\* The scenarios run blocking calls, written for a thread per unit, on one
\* thread: nobody would end a wait.  No call of vf_pipeline_run_once has to
\* wait, in any turn and after any failure, although a pool may have one slot
\* only.
THEOREM FilesNeverWait == Spec => []CallsReturn
<1>1. RunInv => CallsReturn
  <2> SUFFICES ASSUME RunInv
               PROVE  CallsReturn
    OBVIOUS
  <2>1. FrameAt /\ 1 \in Slots
    BY ScenarioAssumption DEF RunInv, Slots
  <2>2. \A p \in 1 .. 2 : Used(p) = {} => FreeSlots(p) # {}
    BY <2>1 DEF Used, FreeSlots
  <2>3. pc = "get" /\ unit = 1 => FreeSlots(1) # {}
    BY <2>1, <2>2 DEF FrameAt, Nothing, Frame
  <2>4. pc = "process" => FreeSlots(2) # {}
    BY <2>1, <2>2 DEF FrameAt, Frame
  <2>5. ASSUME pc = "get", unit = 2
        PROVE  queue[1] # << >>
    <3>1. PICK s \in Slots : queue = << <<s>>, << >> >>
      BY <2>1, <2>5 DEF FrameAt, Frame
    <3> QED
      BY <3>1
  <2>6. ASSUME pc = "get", unit = 3
        PROVE  queue[2] # << >>
    <3>1. PICK t \in Slots : queue = << << >>, <<t>> >>
      BY <2>1, <2>6 DEF FrameAt, Frame
    <3> QED
      BY <3>1
  <2> QED
    BY <2>3, <2>4, <2>5, <2>6 DEF CallsReturn
<1> QED
  BY <1>1, RunInit, RunNext, PTL DEF Spec

-----------------------------------------------------------------------------
(* What is written.                                                         *)

Count == Len(Frames)

\* Every finished set has at least one frame, which run_pipeline_for_frames
\* does not ask for.
FrameSets ==
    /\ \A i \in 1 .. Len(sets) : "frames" \in DOMAIN sets[i] /\ IsSeq(sets[i].frames)
    /\ \A i \in 1 .. Len(sets) :
          (parsing \in {"set", "loaded"} \/ (parsing = "frame" /\ i < Len(sets)))
             => Len(sets[i].frames) >= 1

\* The frames whose images are in the output directory, and no file with more.
Images == {f \in 1 .. Count : OnDisk(f)}
Bounded == \A p \in DOMAIN disk : Len(disk[p]) <= IF This.split THEN 1 ELSE Count

\* Nothing is written yet.
Fresh == /\ disk = << >> /\ announced = 0 /\ lost = {} /\ turn = 1 /\ index = <<1, 1>>
         /\ ~err

\* The images of the frames before this one are.
Kept == /\ \A p \in DOMAIN disk : IsSeq(disk[p])
        /\ This.split => /\ \A p \in DOMAIN disk : Len(disk[p]) <= 1
                         /\ NamesDiffer => Images = 1 .. turn - 1
        /\ ~This.split => DOMAIN disk = {ConcatPath} /\ Len(disk[ConcatPath]) = turn - 1

InLoop == /\ ~err /\ subscribed /\ lost = {} /\ turn \in 1 .. Count
          /\ index \in [1 .. 2 -> Nat] /\ index[2] = turn /\ Kept
          /\ announced = IF unit = 1 THEN turn - 1 ELSE turn

Succeeded == /\ ~err /\ announced = Count /\ lost \subseteq {OutPath(Count)} /\ Bounded
             /\ (This.split => NamesDiffer) => Images = 1 .. Count

Failed == /\ err /\ Bounded
          /\ (This.split => NamesDiffer) =>
                \E w \in 0 .. Count - 1 : Images = 1 .. w /\ announced - w \in {0, 1}

WrittenInv ==
    /\ FrameSets
    /\ pc \in {"parse", "find"} => Fresh /\ set = 0
    /\ pc \in {"pools"} \cup Running => set \in 1 .. Len(sets)
    /\ pc \in {"pools", "create"} => Fresh
    /\ pc = "unwind" => err /\ disk = << >> /\ announced = 0
    /\ pc \in {"get", "process", "send"} => InLoop
    /\ pc = "destroy" => (Succeeded /\ index[2] = Count + 1) \/ Failed
    /\ pc = "end" => set = 0 \/ (set \in 1 .. Len(sets) /\ (Succeeded \/ Failed))

LEMMA ParserFrameSets ==
  ASSUME Memory, FrameSets, ParserNext
  PROVE  FrameSets'
<1>0. IsSeq(sets) /\ Len(sets) \in Nat
  BY IsSeqFacts DEF Memory
<1>1. ASSUME UNCHANGED sets, parsing' = "rejected" \/ parsing' = parsing \/ sets = << >>
      PROVE  FrameSets'
  BY <1>1 DEF FrameSets
<1>2. CASE ReadConfig
  BY <1>1, <1>2 DEF ReadConfig, Reject, Memory
<1>3. CASE CountSets
  BY <1>1, <1>3 DEF CountSets, Reject, Memory
<1>4. CASE ParseSet
  <2>1. CASE Reject(3 + Len(sets))
    BY <1>1, <2>1 DEF Reject
  <2>2. CASE ~Reject(3 + Len(sets))
    <3>1. PICK a, b : sets' = Append(sets, [name |-> a, at |-> b, frames |-> << >>])
      BY <1>4, <2>2 DEF ParseSet
    <3>2. parsing' = "frame" /\ parsing = "set"
      BY <1>4, <2>2 DEF ParseSet
    <3> DEFINE e == [name |-> a, at |-> b, frames |-> << >>]
    <3>3. "frames" \in DOMAIN e /\ e.frames = << >>
      OBVIOUS
    <3>4. IsSeq(<< >>)
      <4>1. << >> \in Seq({})
        BY EmptySeq
      <4> QED
        BY <4>1, SomeSeq
    <3> HIDE DEF e
    <3>5. /\ Len(sets') = Len(sets) + 1 /\ sets'[Len(sets) + 1] = e
          /\ \A i \in 1 .. Len(sets) : sets'[i] = sets[i]
      <4>1. sets' = Append(sets, e)
        BY <3>1 DEF e
      <4> QED
        BY <1>0, <4>1, AppendAny
    <3> QED
      BY <1>0, <3>2, <3>3, <3>4, <3>5 DEF FrameSets
  <2> QED
    BY <2>1, <2>2
<1>5. CASE ParseFrame
  <2>1. CASE Reject(3 + Len(sets))
    BY <1>1, <2>1 DEF Reject
  <2>2. CASE ~Reject(3 + Len(sets))
    <3>1. PICK x : sets' = [sets EXCEPT ![Len(sets)].frames = Append(@, x)]
      BY <1>5, <2>2 DEF ParseFrame
    <3>2. parsing = "frame" /\ parsing' \in {"frame", "set", "loaded"}
      BY <1>5, <2>2 DEF ParseFrame
    <3>3. Len(sets) \in 1 .. Len(sets)
      BY <1>0, <3>2 DEF Memory
    <3> DEFINE r == sets[Len(sets)]
               e == [r EXCEPT !.frames = Append(@, x)]
    <3>4. "frames" \in DOMAIN r /\ IsSeq(r.frames)
      BY <3>3 DEF FrameSets
    <3>5. "frames" \in DOMAIN e /\ e.frames = Append(r.frames, x)
      BY <3>4
    <3>6. IsSeq(e.frames) /\ Len(e.frames) >= 1
      BY <3>4, <3>5, AppendAny, IsSeqFacts
    <3>7. sets' = [sets EXCEPT ![Len(sets)] = e]
      BY <3>1
    <3> HIDE DEF e
    <3>8. /\ Len(sets') = Len(sets) /\ sets'[Len(sets)] = e
          /\ \A i \in 1 .. Len(sets) : i # Len(sets) => sets'[i] = sets[i]
      BY <1>0, <3>3, <3>7, ExceptAny
    <3>9. \A i \in 1 .. Len(sets) : "frames" \in DOMAIN sets'[i] /\ IsSeq(sets'[i].frames)
      <4> TAKE i \in 1 .. Len(sets)
      <4>1. CASE i = Len(sets)
        BY <3>5, <3>6, <3>8, <4>1
      <4>2. CASE i # Len(sets)
        BY <3>8, <4>2 DEF FrameSets
      <4> QED
        BY <4>1, <4>2
    <3>10. \A i \in 1 .. Len(sets) : Len(sets'[i].frames) >= 1
      <4> TAKE i \in 1 .. Len(sets)
      <4>1. CASE i = Len(sets)
        BY <3>6, <3>8, <4>1
      <4>2. CASE i # Len(sets)
        <5>1. i < Len(sets)
          BY <1>0, <4>2
        <5> QED
          BY <3>2, <3>8, <4>2, <5>1 DEF FrameSets
      <4> QED
        BY <4>1, <4>2
    <3> QED
      BY <3>8, <3>9, <3>10 DEF FrameSets
  <2> QED
    BY <2>1, <2>2
<1> QED
  BY <1>2, <1>3, <1>4, <1>5 DEF ParserNext

\* What depends only on the scenario and its set.
LEMMA SameSet ==
  ASSUME UNCHANGED <<scen, set, sets>>
  PROVE  /\ This' = This /\ Frames' = Frames /\ Count' = Count
         /\ NamesDiffer' <=> NamesDiffer
BY DEF This, Frames, Count, NamesDiffer

LEMMA SameDisk ==
  ASSUME UNCHANGED <<scen, set, sets, disk>>
  PROVE  Images' = Images /\ (Bounded' <=> Bounded)
<1>1. This' = This /\ Frames' = Frames /\ Count' = Count
  BY SameSet
<1> QED
  BY <1>1 DEF Images, OnDisk, OutPath, Bounded

LEMMA CountFacts ==
  ASSUME RunInv, WrittenInv, set \in 1 .. Len(sets), pc \notin {"parse", "done", "aborted"}
  PROVE  Count \in Nat /\ Count >= 1
<1>1. parsing = "loaded"
  BY DEF RunInv, Held0
<1>2. IsSeq(Frames) /\ Len(Frames) >= 1
  BY <1>1 DEF WrittenInv, FrameSets, Frames
<1> QED
  BY <1>2, IsSeqFacts DEF Count

LEMMA NoImages ==
  ASSUME disk = << >>
  PROVE  Images = {} /\ Bounded
<1>1. DOMAIN disk = {}
  OBVIOUS
<1> QED
  BY <1>1 DEF Images, OnDisk, Bounded

LEMMA OneOrNone ==
  ASSUME NEW q, IsSeq(q), Len(q) <= 1
  PROVE  Len(q) >= 1 <=> Len(q) = 1
<1>1. Len(q) \in Nat
  BY IsSeqFacts
<1> QED
  BY <1>1

\* With a file per frame: the file of this one is replaced by q.
LEMMA SplitDisk ==
  ASSUME Kept, This.split, Count \in Nat, turn \in 1 .. Count, UNCHANGED <<scen, set, sets>>,
         NEW q, IsSeq(q), Len(q) <= 1,
         disk' = [p \in DOMAIN disk \cup {Frames[turn].file} |->
                     IF p = Frames[turn].file THEN q ELSE disk[p]]
  PROVE  /\ \A p \in DOMAIN disk' : IsSeq(disk'[p]) /\ Len(disk'[p]) <= 1
         /\ NamesDiffer => Images' = IF Len(q) = 1 THEN 1 .. turn ELSE 1 .. turn - 1
<1>1. This' = This /\ Frames' = Frames /\ Count' = Count
  BY SameSet
<1> DEFINE P == Frames[turn].file
<1>2. /\ DOMAIN disk' = DOMAIN disk \cup {P} /\ disk'[P] = q
      /\ \A p \in DOMAIN disk : p # P => disk'[p] = disk[p]
  OBVIOUS
<1>3. \A p \in DOMAIN disk' : IsSeq(disk'[p]) /\ Len(disk'[p]) <= 1
  <2> TAKE p \in DOMAIN disk'
  <2>1. CASE p = P
    BY <1>2, <2>1
  <2>2. CASE p # P
    BY <1>2, <2>2 DEF Kept
  <2> QED
    BY <2>1, <2>2
<1>4. ASSUME NamesDiffer
      PROVE  Images' = IF Len(q) = 1 THEN 1 .. turn ELSE 1 .. turn - 1
  <2>1. Images = 1 .. turn - 1
    BY <1>4 DEF Kept
  <2>2. \A f \in 1 .. Count : OnDisk(f) <=> /\ Frames[f].file \in DOMAIN disk
                                           /\ Len(disk[Frames[f].file]) >= 1
    BY DEF OnDisk, OutPath
  <2>3. Images' = {f \in 1 .. Count : /\ Frames[f].file \in DOMAIN disk'
                                      /\ Len(disk'[Frames[f].file]) >= 1}
    BY <1>1 DEF Images, OnDisk, OutPath
  <2>4. \A f \in 1 .. Count : f # turn => Frames[f].file # P
    BY <1>4 DEF NamesDiffer, Count
  <2>5. \A f \in 1 .. Count : f # turn => (f \in Images' <=> f \in Images)
    BY <1>2, <2>2, <2>3, <2>4 DEF Images
  <2>6. turn \in Images' <=> Len(q) = 1
    <3>1. turn \in Images' <=> Len(q) >= 1
      BY <1>2, <2>3
    <3>2. Len(q) >= 1 <=> Len(q) = 1
      BY OneOrNone
    <3> QED
      BY <3>1, <3>2
  <2>7. Images' \subseteq 1 .. Count
    BY <2>3
  <2>8. \A f \in 1 .. Count : f \in Images' <=>
            f \in (IF Len(q) = 1 THEN 1 .. turn ELSE 1 .. turn - 1)
    BY <2>1, <2>5, <2>6
  <2>9. (IF Len(q) = 1 THEN 1 .. turn ELSE 1 .. turn - 1) \subseteq 1 .. Count
    OBVIOUS
  <2> QED
    BY <2>7, <2>8, <2>9
<1> QED
  BY <1>3, <1>4

\* With one file for all: one more image in it, or none.
LEMMA WholeDisk ==
  ASSUME Kept, ~This.split, Count \in Nat, turn \in 1 .. Count
  PROVE  /\ Images = 1 .. turn - 1 /\ Bounded
<1>1. DOMAIN disk = {ConcatPath} /\ Len(disk[ConcatPath]) = turn - 1
  BY DEF Kept
<1>2. \A f \in 1 .. Count : OnDisk(f) <=> Len(disk[ConcatPath]) >= f
  BY <1>1 DEF OnDisk, OutPath
<1>3. Images = {f \in 1 .. Count : f <= turn - 1}
  BY <1>1, <1>2 DEF Images
<1> QED
  BY <1>1, <1>3 DEF Bounded

LEMMA WholeDiskWritten ==
  ASSUME Kept, ~This.split, Count \in Nat, turn \in 1 .. Count, UNCHANGED <<scen, set, sets>>,
         NEW e, disk' = [disk EXCEPT ![ConcatPath] = Append(@, e)]
  PROVE  /\ \A p \in DOMAIN disk' : IsSeq(disk'[p])
         /\ DOMAIN disk' = {ConcatPath} /\ Len(disk'[ConcatPath]) = turn
         /\ Images' = 1 .. turn /\ Bounded'
<1>1. This' = This /\ Frames' = Frames /\ Count' = Count
  BY SameSet
<1>2. DOMAIN disk = {ConcatPath} /\ Len(disk[ConcatPath]) = turn - 1 /\ IsSeq(disk[ConcatPath])
  BY DEF Kept
<1>3. DOMAIN disk' = {ConcatPath} /\ disk'[ConcatPath] = Append(disk[ConcatPath], e)
  BY <1>2
<1>4. IsSeq(disk'[ConcatPath]) /\ Len(disk'[ConcatPath]) = turn
  BY <1>2, <1>3, AppendAny
<1>5. Images' = {f \in 1 .. Count : Len(disk'[ConcatPath]) >= f}
  BY <1>1, <1>3 DEF Images, OnDisk, OutPath
<1>6. Bounded'
  BY <1>1, <1>3, <1>4 DEF Bounded
<1> QED
  BY <1>3, <1>4, <1>5, <1>6

\* A run that fails before this frame's image is written.
LEMMA FailsAt ==
  ASSUME InLoop, Count \in Nat, UNCHANGED <<scen, set, sets, disk, announced>>, err'
  PROVE  Failed'
<1>1. Count' = Count /\ This' = This /\ (NamesDiffer' <=> NamesDiffer)
  BY SameSet
<1>2. Images' = Images /\ (Bounded' <=> Bounded)
  BY SameDisk
<1>3. turn \in 1 .. Count /\ Kept /\ announced \in {turn - 1, turn}
  BY DEF InLoop
<1>4. CASE This.split
  <2>1. Bounded
    BY <1>3, <1>4 DEF Kept, Bounded
  <2>2. NamesDiffer => Images = 1 .. turn - 1
    BY <1>3, <1>4 DEF Kept
  <2>3. turn - 1 \in 0 .. Count - 1 /\ announced - (turn - 1) \in {0, 1}
    BY <1>3
  <2>4. NamesDiffer => \E w \in 0 .. Count - 1 : Images = 1 .. w /\ announced - w \in {0, 1}
    BY <2>2, <2>3
  <2> QED
    BY <1>1, <1>2, <1>4, <2>1, <2>4 DEF Failed
<1>5. CASE ~This.split
  <2>1. Bounded /\ Images = 1 .. turn - 1
    BY <1>3, <1>5, WholeDisk
  <2>3. turn - 1 \in 0 .. Count - 1 /\ announced - (turn - 1) \in {0, 1}
    BY <1>3
  <2> QED
    BY <1>1, <1>2, <2>1, <2>3 DEF Failed
<1> QED
  BY <1>4, <1>5

LEMMA NoImagesNext ==
  ASSUME disk' = << >>
  PROVE  Images' = {} /\ Bounded'
<1>1. DOMAIN disk' = {}
  OBVIOUS
<1> QED
  BY <1>1 DEF Images, OnDisk, Bounded

\* A scenario that fails before its first frame.
LEMMA NothingFailed ==
  ASSUME Count' \in Nat, Count' >= 1, disk' = << >>, announced' = 0, err'
  PROVE  Failed'
<1>1. Images' = {} /\ Bounded'
  BY NoImagesNext
<1>2. 1 .. 0 = {}
  OBVIOUS
<1>3. announced' - 0 = 0
  OBVIOUS
<1>4. 0 \in 0 .. Count' - 1
  <2>1. \A n \in Nat : n >= 1 => 0 \in 0 .. n - 1
    OBVIOUS
  <2> QED
    BY <2>1
<1>5. \E w \in 0 .. Count' - 1 : Images' = 1 .. w /\ announced' - w \in {0, 1}
  BY <1>1, <1>2, <1>3, <1>4
<1> QED
  BY <1>1, <1>5 DEF Failed

\* A step within a frame that writes nothing.
LEMMA StaysInLoop ==
  ASSUME InLoop, UNCHANGED <<scen, set, sets, disk, lost, subscribed, err, turn>>,
         index' \in [1 .. 2 -> Nat], index'[2] = index[2],
         announced' = IF unit' = 1 THEN turn - 1 ELSE turn
  PROVE  InLoop'
<1>1. Count' = Count /\ This' = This /\ (NamesDiffer' <=> NamesDiffer) /\ Images' = Images
  BY SameSet, SameDisk
<1>2. Kept'
  BY <1>1 DEF InLoop, Kept
<1> QED
  BY <1>1, <1>2 DEF InLoop

LEMMA FrameSetsStay ==
  ASSUME FrameSets, UNCHANGED parserVars
  PROVE  FrameSets' /\ UNCHANGED sets
BY DEF FrameSets, parserVars

\* The steps that neither write nor fail, by where they go.
LEMMA WithinFrame ==
  ASSUME RunInv, WrittenInv, UNCHANGED <<parserVars, scen, set, disk, lost, subscribed, err, turn>>,
         pc \in {"get", "process", "send"}, pc' \in {"get", "process", "send"},
         index' \in [1 .. 2 -> Nat], index'[2] = index[2],
         announced' = IF unit' = 1 THEN turn - 1 ELSE turn
  PROVE  WrittenInv'
<1>1. FrameSets' /\ UNCHANGED sets
  BY FrameSetsStay DEF WrittenInv
<1>2. InLoop /\ set \in 1 .. Len(sets)
  BY DEF WrittenInv, Running
<1>3. InLoop'
  BY <1>1, <1>2, StaysInLoop
<1> QED
  BY <1>1, <1>2, <1>3 DEF WrittenInv, Running

\* A frame that fails with nothing written.
LEMMA FrameFails ==
  ASSUME RunInv, WrittenInv, UNCHANGED <<parserVars, scen, set, disk, announced>>,
         pc \in {"get", "process", "send"}, Fails
  PROVE  WrittenInv'
<1>1. FrameSets' /\ UNCHANGED sets
  BY FrameSetsStay DEF WrittenInv
<1>2. InLoop /\ set \in 1 .. Len(sets)
  BY DEF WrittenInv, Running
<1>3. Count \in Nat
  BY <1>2, CountFacts
<1>4. err' /\ pc' = "destroy"
  BY DEF Fails
<1>5. Failed'
  BY <1>1, <1>2, <1>3, <1>4, FailsAt
<1> QED
  BY <1>1, <1>2, <1>4, <1>5 DEF WrittenInv, Running

LEMMA SentWritten ==
  ASSUME RunInv, WrittenInv, FileOutSend
  PROVE  WrittenInv'
<1>0. /\ pc = "send" /\ unit = 3 /\ UNCHANGED <<parserVars, scen, set, subscribed, announced>>
  BY DEF FileOutSend
<1>1. FrameSets' /\ UNCHANGED sets
  BY <1>0, FrameSetsStay DEF WrittenInv
<1>2. InLoop /\ set \in 1 .. Len(sets)
  BY <1>0 DEF WrittenInv, Running
<1>3. Count \in Nat /\ Count >= 1
  BY <1>0, <1>2, CountFacts
<1>4. /\ Count' = Count /\ This' = This /\ Frames' = Frames
      /\ (NamesDiffer' <=> NamesDiffer)
  BY <1>0, <1>1, SameSet
<1>5. /\ ~err /\ subscribed /\ lost = {} /\ turn \in 1 .. Count
      /\ index \in [1 .. 2 -> Nat] /\ index[2] = turn /\ Kept /\ announced = turn
  BY <1>0, <1>2 DEF InLoop
<1>6. index' = [index EXCEPT ![2] = @ + 1] =>
         index' \in [1 .. 2 -> Nat] /\ index'[2] = turn + 1
  BY <1>3, <1>5
\* When the image is written.
<1>7. ASSUME NEW files, NEW path, Write(files, path), index' = [index EXCEPT ![2] = @ + 1],
             lost' = {}, \A p \in DOMAIN disk' : IsSeq(disk'[p]),
             This.split => /\ \A p \in DOMAIN disk' : Len(disk'[p]) <= 1
                           /\ NamesDiffer => Images' = 1 .. turn,
             ~This.split => /\ DOMAIN disk' = {ConcatPath} /\ Len(disk'[ConcatPath]) = turn
                            /\ Images' = 1 .. turn /\ Bounded'
      PROVE  WrittenInv'
  <2>1. CASE turn < Count
    <3>1. turn' = turn + 1 /\ pc' = "get" /\ unit' = 1 /\ UNCHANGED err
      BY <1>7, <2>1 DEF Write, Count
    <3>2. turn' - 1 = turn
      BY <1>3, <1>5, <3>1
    <3>3. Kept'
      BY <1>4, <1>7, <3>2 DEF Kept
    <3>4. InLoop'
      BY <1>0, <1>3, <1>4, <1>5, <1>6, <1>7, <2>1, <3>1, <3>2, <3>3 DEF InLoop
    <3> QED
      BY <1>0, <1>1, <1>2, <3>1, <3>4 DEF WrittenInv, Running
  <2>2. CASE ~(turn < Count)
    <3>1. pc' = "destroy" /\ UNCHANGED <<turn, err>>
      BY <1>7, <2>2 DEF Write, Count
    <3>2. turn = Count
      BY <1>3, <1>5, <2>2
    <3>3. Bounded'
      BY <1>4, <1>7 DEF Bounded
    <3>4. Succeeded' /\ index'[2] = Count' + 1
      BY <1>0, <1>4, <1>5, <1>6, <1>7, <3>1, <3>2, <3>3 DEF Succeeded
    <3> QED
      BY <1>0, <1>1, <1>2, <3>1, <3>4 DEF WrittenInv, Running
  <2> QED
    BY <2>1, <2>2
<1>8. CASE This.split
  <2>1. PICK s \in AfterClose(stream[2]) :
          /\ lost' = IF s.gone THEN lost \cup {OutPath(index[2] - 1)} ELSE lost
          /\ \/ Fails /\ UNCHANGED <<index, disk>>
             \/ /\ ~s.open
                /\ index' = [index EXCEPT ![2] = @ + 1]
                /\ \/ Write(Truncated(OutPath(index[2])), OutPath(index[2]))
                   \/ disk' = Truncated(OutPath(index[2])) /\ Fails
    BY <1>8 DEF FileOutSend
  <2>2. OutPath(index[2]) = Frames[turn].file
    BY <1>5, <1>8 DEF OutPath
  <2> DEFINE P == Frames[turn].file
  <2>3. Truncated(P) = [p \in DOMAIN disk \cup {P} |-> IF p = P THEN << >> ELSE disk[p]]
    BY DEF Truncated
  <2>4. CASE Fails /\ UNCHANGED <<index, disk>>
    BY <1>0, <2>4, FrameFails
  <2>5. CASE disk' = Truncated(P) /\ Fails
    <3>1. IsSeq(<< >>) /\ Len(<< >>) <= 1 /\ Len(<< >>) # 1
      BY NoneSeq
    <3>2. PICK q : q = << >>
      OBVIOUS
    <3>3. disk' = [p \in DOMAIN disk \cup {P} |-> IF p = P THEN q ELSE disk[p]]
      BY <2>3, <2>5, <3>2
    <3>4. IsSeq(q) /\ Len(q) <= 1 /\ Len(q) # 1
      BY <3>1, <3>2
    <3>5. /\ \A p \in DOMAIN disk' : IsSeq(disk'[p]) /\ Len(disk'[p]) <= 1
          /\ NamesDiffer => Images' = IF Len(q) = 1 THEN 1 .. turn ELSE 1 .. turn - 1
      BY <1>0, <1>1, <1>3, <1>5, <1>8, <3>3, <3>4, SplitDisk
    <3>6. Bounded'
      BY <1>4, <1>8, <3>5 DEF Bounded
    <3>7. turn - 1 \in 0 .. Count - 1 /\ announced' - (turn - 1) \in {0, 1}
      BY <1>0, <1>3, <1>5
    <3>8. NamesDiffer' => \E w \in 0 .. Count' - 1 : Images' = 1 .. w /\ announced' - w \in {0, 1}
      BY <1>4, <3>4, <3>5, <3>7
    <3>9. err' /\ pc' = "destroy"
      BY <2>5 DEF Fails
    <3>10. Failed'
      BY <1>4, <1>8, <3>6, <3>8, <3>9 DEF Failed
    <3> QED
      BY <1>0, <1>1, <1>2, <3>9, <3>10 DEF WrittenInv, Running
  <2>6. CASE /\ ~s.open /\ index' = [index EXCEPT ![2] = @ + 1]
             /\ Write(Truncated(P), P)
    <3>1. ~s.gone
      BY <2>6 DEF AfterClose, Shut, Gone
    <3>2. lost' = {}
      BY <1>5, <2>1, <3>1
    <3> DEFINE img == WriteToFile(OutPlanes, pool[2][fb[Out]].data)
    <3>3. PICK q : q = <<img>>
      OBVIOUS
    <3>4. disk' = [Truncated(P) EXCEPT ![P] = Append(@, img)]
      BY <2>6 DEF Write
    <3> HIDE DEF img
    <3>5. Truncated(P)[P] = << >> /\ P \in DOMAIN Truncated(P)
      BY <2>3
    <3>6. Append(<< >>, img) = q
      BY <3>3, QueueFacts
    <3>7. disk' = [Truncated(P) EXCEPT ![P] = q]
      BY <3>4, <3>5, <3>6
    <3>8. disk' = [p \in DOMAIN disk \cup {P} |-> IF p = P THEN q ELSE disk[p]]
      BY <2>3, <3>7
    <3>9. IsSeq(q) /\ Len(q) = 1 /\ Len(q) <= 1
      BY <3>3, OneSeq
    <3>10. /\ \A p \in DOMAIN disk' : IsSeq(disk'[p]) /\ Len(disk'[p]) <= 1
           /\ NamesDiffer => Images' = IF Len(q) = 1 THEN 1 .. turn ELSE 1 .. turn - 1
      BY <1>0, <1>1, <1>3, <1>5, <1>8, <3>8, <3>9, SplitDisk
    <3> QED
      BY <1>7, <1>8, <2>6, <3>2, <3>9, <3>10
  <2> QED
    BY <2>1, <2>2, <2>4, <2>5, <2>6
<1>9. CASE ~This.split
  <2>1. /\ index' = [index EXCEPT ![2] = @ + 1] /\ UNCHANGED lost
        /\ \/ Write(disk, ConcatPath)
           \/ Fails /\ UNCHANGED disk
    BY <1>9 DEF FileOutSend
  <2>2. CASE Fails /\ UNCHANGED disk
    BY <1>0, <2>2, FrameFails
  <2>3. CASE Write(disk, ConcatPath)
    <3>1. PICK e : disk' = [disk EXCEPT ![ConcatPath] = Append(@, e)]
      BY <2>3 DEF Write
    <3>2. /\ \A p \in DOMAIN disk' : IsSeq(disk'[p])
          /\ DOMAIN disk' = {ConcatPath} /\ Len(disk'[ConcatPath]) = turn
          /\ Images' = 1 .. turn /\ Bounded'
      BY <1>0, <1>1, <1>3, <1>5, <1>9, <3>1, WholeDiskWritten
    <3> QED
      BY <1>5, <1>7, <1>9, <2>1, <2>3, <3>2
  <2> QED
    BY <2>1, <2>2, <2>3
<1> QED
  BY <1>8, <1>9

LEMMA FileInGetWritten ==
  ASSUME RunInv, WrittenInv, FileInGet
  PROVE  WrittenInv'
<1>0. /\ pc = "get" /\ unit = 1
      /\ UNCHANGED <<parserVars, scen, set, disk, lost, subscribed, announced>>
  BY DEF FileInGet
<1>1. InLoop
  BY <1>0 DEF WrittenInv
<1>2. \/ Fails
      \/ index' = [index EXCEPT ![1] = @ + 1] /\ Goto(1, "send")
  BY DEF FileInGet
<1>3. CASE Fails
  BY <1>0, <1>3, FrameFails
<1>4. CASE index' = [index EXCEPT ![1] = @ + 1] /\ Goto(1, "send")
  <2>1. index' \in [1 .. 2 -> Nat] /\ index'[2] = index[2]
    BY <1>1, <1>4 DEF InLoop
  <2>2. announced' = IF unit' = 1 THEN turn - 1 ELSE turn
    BY <1>0, <1>1, <1>4 DEF InLoop, Goto
  <2> QED
    BY <1>0, <1>4, <2>1, <2>2, WithinFrame DEF Goto
<1> QED
  BY <1>2, <1>3, <1>4

LEMMA FileInSendWritten ==
  ASSUME RunInv, WrittenInv, FileInSend
  PROVE  WrittenInv'
<1>0. /\ pc = "send" /\ unit = 1 /\ pc' = "get" /\ unit' = 2
      /\ UNCHANGED <<parserVars, scen, set, disk, lost, subscribed, err, turn, index>>
  BY DEF FileInSend, Goto
<1>1. InLoop
  BY <1>0 DEF WrittenInv
<1>2. announced' = IF unit' = 1 THEN turn - 1 ELSE turn
  BY <1>0, <1>1 DEF FileInSend, InLoop
<1>3. index' \in [1 .. 2 -> Nat] /\ index'[2] = index[2]
  BY <1>0, <1>1 DEF InLoop
<1> QED
  BY <1>0, <1>2, <1>3, WithinFrame

LEMMA MovesWritten ==
  ASSUME RunInv, WrittenInv, ConversionGet \/ ConversionProcess \/ ConversionSend \/ FileOutGet
  PROVE  WrittenInv'
<1>0. /\ pc \in {"get", "process", "send"} /\ unit' \in {2, 3}
      /\ pc' \in {"get", "process", "send"} /\ (pc # "process" => unit \in {2, 3})
      /\ UNCHANGED <<parserVars, scen, set, disk, lost, subscribed, err, turn, index, announced>>
  BY DEF ConversionGet, ConversionProcess, ConversionSend, FileOutGet, Goto
<1>1. InLoop
  BY <1>0 DEF WrittenInv
<1>2. index' \in [1 .. 2 -> Nat] /\ index'[2] = index[2]
  BY <1>0, <1>1 DEF InLoop
<1>3. unit # 1
  BY <1>0 DEF RunInv, FrameAt
<1>4. announced' = IF unit' = 1 THEN turn - 1 ELSE turn
  BY <1>0, <1>1, <1>3 DEF InLoop
<1> QED
  BY <1>0, <1>2, <1>4, WithinFrame

LEMMA BeforeWritten ==
  ASSUME RunInv, WrittenInv, FindSet \/ InitPools \/ CreateFails
  PROVE  WrittenInv'
<1>0. UNCHANGED <<parserVars, scen, disk, lost, announced, index, turn>>
  BY DEF FindSet, InitPools, CreateFails, unitVars
<1>1. FrameSets' /\ UNCHANGED sets
  BY <1>0, FrameSetsStay DEF WrittenInv
<1>2. CASE FindSet
  <2>1. pc = "find" /\ Fresh /\ set = 0 /\ Memory
    BY <1>2 DEF FindSet, WrittenInv, RunInv, Held0
  <2> DEFINE hits == {i \in 1 .. Len(sets) : sets[i].name = This.set}
  <2>2. CASE pc' = "end" /\ UNCHANGED set
    BY <1>1, <2>1, <2>2 DEF WrittenInv, Running
  <2>3. CASE hits # {} /\ set' = Least(hits) /\ pc' = "pools" /\ UNCHANGED err
    <3>1. hits \subseteq Nat
      BY <2>1, IsSeqFacts DEF Memory
    <3>2. set' \in 1 .. Len(sets)
      BY <2>3, <3>1, LeastFacts
    <3>3. Fresh'
      BY <1>0, <2>1, <2>3 DEF Fresh
    <3> QED
      BY <1>1, <2>3, <3>2, <3>3 DEF WrittenInv, Running
  <2> QED
    BY <1>2, <2>2, <2>3 DEF FindSet
<1>3. CASE InitPools
  <2>1. /\ pc = "pools" /\ Fresh /\ set \in 1 .. Len(sets) /\ UNCHANGED set
    BY <1>3 DEF InitPools, WrittenInv
  <2>2. CASE pc' = "create" /\ UNCHANGED err
    <3>1. Fresh'
      BY <1>0, <2>1, <2>2 DEF Fresh
    <3> QED
      BY <1>1, <2>1, <2>2, <3>1 DEF WrittenInv, Running
  <2>3. CASE err' = TRUE /\ pc' = "end"
    <3>1. Count \in Nat /\ Count >= 1
      BY <2>1, CountFacts
    <3>2. Count' = Count
      BY <1>0, <1>1, <2>1, SameSet
    <3>3. disk' = << >> /\ announced' = 0
      BY <1>0, <2>1 DEF Fresh
    <3>4. Failed'
      BY <3>1, <3>2, <3>3, <2>3, NothingFailed
    <3> QED
      BY <1>1, <2>1, <2>3, <3>4 DEF WrittenInv, Running
  <2> QED
    BY <1>3, <2>2, <2>3 DEF InitPools
<1>4. CASE CreateFails
  <2>1. /\ pc = "create" /\ Fresh /\ set \in 1 .. Len(sets) /\ UNCHANGED set
        /\ err' = TRUE /\ pc' = "unwind"
    BY <1>4 DEF CreateFails, WrittenInv, Running
  <2>2. err' /\ disk' = << >> /\ announced' = 0
    BY <1>0, <2>1 DEF Fresh
  <2> QED
    BY <1>1, <2>1, <2>2 DEF WrittenInv, Running
<1> QED
  BY <1>2, <1>3, <1>4

LEMMA CreateUnitWritten ==
  ASSUME RunInv, WrittenInv, CreateUnit
  PROVE  WrittenInv'
<1>0. /\ pc = "create"
      /\ UNCHANGED <<parserVars, scen, set, turn, err, index, lost, announced>>
      /\ pc' = IF unit < 3 THEN "create" ELSE "get"
      /\ disk' = IF unit = 3 /\ ~This.split THEN Truncated(ConcatPath) ELSE disk
      /\ unit' = IF unit < 3 THEN unit + 1 ELSE 1
      /\ subscribed' = (unit = 3)
  BY DEF CreateUnit, runVars
<1>1. FrameSets' /\ UNCHANGED sets
  BY <1>0, FrameSetsStay DEF WrittenInv
<1>2. Fresh /\ set \in 1 .. Len(sets)
  BY <1>0 DEF WrittenInv, Running
<1>3. unit \in 1 .. 3
  BY <1>0 DEF RunInv, Streams
<1>4. CASE unit < 3
  <2>1. Fresh'
    BY <1>0, <1>2, <1>3, <1>4 DEF Fresh
  <2> QED
    BY <1>0, <1>1, <1>2, <1>4, <2>1 DEF WrittenInv, Running
<1>5. CASE unit = 3
  <2>1. Count \in Nat /\ Count >= 1
    BY <1>0, <1>2, CountFacts
  <2>2. Count' = Count /\ This' = This
    BY <1>0, <1>1, SameSet
  <2>3. /\ ~err' /\ subscribed' /\ lost' = {} /\ turn' = 1 /\ announced' = 0
        /\ index' \in [1 .. 2 -> Nat] /\ index'[2] = 1
    <3>1. ~err' /\ subscribed' /\ lost' = {} /\ turn' = 1 /\ announced' = 0 /\ index' = <<1, 1>>
      BY <1>0, <1>2, <1>5 DEF Fresh
    <3>2. <<1, 1>> \in [1 .. 2 -> Nat] /\ <<1, 1>>[2] = 1
      OBVIOUS
    <3> QED
      BY <3>1, <3>2
  <2>4. Kept'
    <3>1. CASE This.split
      <4>1. disk' = << >> /\ DOMAIN disk' = {}
        BY <1>0, <1>2, <3>1 DEF Fresh
      <4>2. Images' = {}
        BY <4>1, NoImagesNext
      <4>3. 1 .. turn' - 1 = {}
        BY <2>3
      <4> QED
        BY <2>2, <3>1, <4>1, <4>2, <4>3 DEF Kept
    <3>2. CASE ~This.split
      <4>1. disk' = Truncated(ConcatPath) /\ DOMAIN disk = {}
        BY <1>0, <1>2, <1>5, <3>2 DEF Fresh
      <4>2. DOMAIN disk' = {ConcatPath} /\ disk'[ConcatPath] = << >>
        BY <4>1 DEF Truncated
      <4>3. Len(disk'[ConcatPath]) = turn' - 1 /\ IsSeq(disk'[ConcatPath])
        BY <2>3, <4>2, NoneSeq
      <4> QED
        BY <2>2, <3>2, <4>2, <4>3 DEF Kept
    <3> QED
      BY <3>1, <3>2
  <2>5. InLoop'
    BY <1>0, <1>5, <2>1, <2>2, <2>3, <2>4 DEF InLoop
  <2> QED
    BY <1>0, <1>1, <1>2, <1>5, <2>5 DEF WrittenInv, Running
<1> QED
  BY <1>3, <1>4, <1>5

LEMMA AfterWritten ==
  ASSUME RunInv, WrittenInv, DestroyUnit \/ CloseTwice \/ DeinitPools
  PROVE  WrittenInv'
<1>0. /\ UNCHANGED <<parserVars, scen, set, disk, announced, err, turn, index>>
      /\ pc \in {"destroy", "unwind"}
      /\ pc' \in {pc, "end", "aborted"}
  BY DEF DestroyUnit, CloseTwice, DeinitPools, runVars, unitVars
<1>1. FrameSets' /\ UNCHANGED sets
  BY <1>0, FrameSetsStay DEF WrittenInv
<1>2. set \in 1 .. Len(sets)
  BY <1>0 DEF WrittenInv, Running
<1>3. Count \in Nat /\ Count >= 1
  BY <1>0, <1>2, CountFacts
<1>4. /\ Count' = Count /\ This' = This /\ Frames' = Frames
      /\ (NamesDiffer' <=> NamesDiffer)
      /\ Images' = Images /\ (Bounded' <=> Bounded)
  BY <1>0, <1>1, SameSet, SameDisk
<1>5. Failed => Failed'
  BY <1>0, <1>4 DEF Failed
<1>6. Succeeded /\ index[2] = Count + 1 => Succeeded' /\ index'[2] = Count' + 1
  <2> SUFFICES ASSUME Succeeded, index[2] = Count + 1
               PROVE  Succeeded' /\ index'[2] = Count' + 1
    OBVIOUS
  <2>1. lost' \subseteq lost \cup {OutPath(index[2] - 1)}
    BY DEF DestroyUnit, CloseTwice, DeinitPools, unitVars
  <2>2. index[2] - 1 = Count
    BY <1>3
  <2>3. lost' \subseteq {OutPath(Count)}
    BY <2>1, <2>2 DEF Succeeded
  <2>4. OutPath(Count)' = OutPath(Count)
    BY <1>4 DEF OutPath
  <2> QED
    BY <1>0, <1>4, <2>3, <2>4 DEF Succeeded
<1>7. CASE pc = "destroy"
  <2>1. (Succeeded /\ index[2] = Count + 1) \/ Failed
    BY <1>7 DEF WrittenInv
  <2> QED
    BY <1>0, <1>1, <1>2, <1>5, <1>6, <1>7, <2>1 DEF WrittenInv, Running
<1>8. CASE pc = "unwind"
  <2>1. err' /\ disk' = << >> /\ announced' = 0
    BY <1>0, <1>8 DEF WrittenInv
  <2>2. Failed'
    BY <1>3, <1>4, <2>1, NothingFailed
  <2> QED
    BY <1>0, <1>1, <1>2, <1>8, <2>1, <2>2 DEF WrittenInv, Running
<1> QED
  BY <1>0, <1>7, <1>8

LEMMA WrittenNext == RunInv /\ WrittenInv /\ [Next]_vars => WrittenInv'
<1> SUFFICES ASSUME RunInv, WrittenInv, [Next]_vars
             PROVE  WrittenInv'
  OBVIOUS
<1>1. CASE RefuseFlag
  <2>1. UNCHANGED parserVars /\ pc' = "done"
    BY <1>1 DEF RefuseFlag
  <2>2. FrameSets'
    BY <2>1, FrameSetsStay DEF WrittenInv
  <2> QED
    BY <2>1, <2>2 DEF WrittenInv, Running
<1>2. CASE Parse
  <2>1. pc = "parse" /\ ParserNext /\ UNCHANGED <<err, set, turn, unitVars>>
    BY <1>2 DEF Parse
  <2>2. FrameSets'
    BY <2>1, ParserFrameSets DEF WrittenInv, RunInv, Held0
  <2>3. Fresh /\ set = 0
    BY <2>1 DEF WrittenInv
  <2>4. Fresh' /\ set' = 0
    BY <2>1, <2>3 DEF Fresh, unitVars
  <2>5. pc' \in {"find", "done", "parse"}
    BY <1>2 DEF Parse
  <2> QED
    BY <2>2, <2>4, <2>5 DEF WrittenInv, Running
<1>3. CASE EndScenario
  <2>1. Fresh' /\ set' = 0 /\ pc' \in {"find", "done"}
    BY <1>3 DEF EndScenario, Fresh
  <2>2. UNCHANGED <<sets, parsing>>
    BY <1>3 DEF EndScenario, FreeConfig, parserVars
  <2>3. FrameSets'
    BY <2>2 DEF WrittenInv, FrameSets
  <2> QED
    BY <2>1, <2>3 DEF WrittenInv, Running
<1>4. CASE UNCHANGED vars
  <2>1. /\ UNCHANGED parserVars
        /\ UNCHANGED <<sets, scen, set, disk, announced, err, turn, index, lost, subscribed, pc, unit>>
    BY <1>4 DEF vars, parserVars, runVars, unitVars
  <2>2. FrameSets'
    BY <2>1, FrameSetsStay DEF WrittenInv
  <2>3. /\ Count' = Count /\ This' = This /\ Frames' = Frames
        /\ (NamesDiffer' <=> NamesDiffer)
        /\ Images' = Images /\ (Bounded' <=> Bounded)
    BY <2>1, SameSet, SameDisk
  <2>4. (Fresh' <=> Fresh) /\ (Kept' <=> Kept) /\ (Failed' <=> Failed)
    BY <2>1, <2>3 DEF Fresh, Kept, Failed
  <2>5. (InLoop' <=> InLoop) /\ (Succeeded' <=> Succeeded)
    BY <2>1, <2>3, <2>4 DEF InLoop, Succeeded, OutPath
  <2> QED
    BY <2>1, <2>2, <2>3, <2>4, <2>5 DEF WrittenInv
<1> QED
  BY <1>1, <1>2, <1>3, <1>4, FileInGetWritten, FileInSendWritten, MovesWritten, SentWritten,
     BeforeWritten, CreateUnitWritten, AfterWritten
  DEF Next, Returned

LEMMA WrittenInit == Init => WrittenInv
<1> SUFFICES ASSUME Init
             PROVE  WrittenInv
  OBVIOUS
<1>1. Fresh /\ set = 0 /\ pc = "parse" /\ sets = << >>
  BY DEF Init, ParserInit, Fresh
<1>2. FrameSets
  BY <1>1 DEF FrameSets
<1> QED
  BY <1>1, <1>2 DEF WrittenInv, Running

\* For every configuration, however many frames its sets have, and whichever
\* call fails: run_pipeline_for_frames reports success only when the image of
\* each frame of the set is in the output directory, each announced once, with
\* no failing close missed but the last; and when it reports an error there are
\* the images of the frames before that one and of no other.
THEOREM FilesFramesWritten == Spec => []FramesWritten
<1>1. RunInv /\ WrittenInv => FramesWritten
  <2> SUFFICES ASSUME RunInv, WrittenInv, pc = "end", set # 0, This.split => NamesDiffer
               PROVE  /\ Images = 1 .. Cardinality(Images)
                      /\ ~err => /\ Images = 1 .. Len(Frames)
                                 /\ announced = Len(Frames)
                                 /\ lost \subseteq {OutPath(Len(Frames))}
                      /\ err  => /\ Cardinality(Images) < Len(Frames)
                                 /\ announced - Cardinality(Images) \in {0, 1}
                      /\ \A p \in DOMAIN disk :
                            Len(disk[p]) <= IF This.split THEN 1 ELSE Len(Frames)
    BY DEF FramesWritten, Images, Count
  <2>1. set \in 1 .. Len(sets) /\ (Succeeded \/ Failed)
    BY DEF WrittenInv
  <2>2. Count \in Nat
    BY <2>1, CountFacts
  <2>3. \A w \in Nat : Cardinality(1 .. w) = w
    BY FS_Interval
  <2>4. CASE Succeeded
    <3>1. Images = 1 .. Count
      BY <2>4 DEF Succeeded
    <3>2. Cardinality(Images) = Count
      BY <2>2, <2>3, <3>1
    <3> QED
      BY <2>4, <3>1, <3>2 DEF Succeeded, Bounded, Count
  <2>5. CASE Failed
    <3>1. PICK w \in 0 .. Count - 1 : Images = 1 .. w /\ announced - w \in {0, 1}
      BY <2>5 DEF Failed
    <3>2. Cardinality(Images) = w /\ w < Count
      BY <2>2, <2>3, <3>1
    <3> QED
      BY <2>5, <3>1, <3>2 DEF Failed, Bounded, Count
  <2> QED
    BY <2>1, <2>4, <2>5
<1>2. RunInv /\ WrittenInv /\ [Next]_vars => (RunInv /\ WrittenInv)'
  BY RunNext, WrittenNext
<1> QED
  BY <1>1, <1>2, RunInit, WrittenInit, PTL DEF Spec

-----------------------------------------------------------------------------
(* What the parser takes from where.                                        *)

\* How many sets are named up to each place of the text.
Rank == [n \in 0 .. Len(text) |-> Cardinality({j \in 1 .. n : text[j].key = "name"})]

LEMMA RankFacts ==
  ASSUME Len(text) \in Nat
  PROVE  /\ \A n \in 0 .. Len(text) : Rank[n] \in Nat
         /\ \A n, m \in 0 .. Len(text) : n <= m => Rank[n] <= Rank[m]
         /\ \A n, m \in 0 .. Len(text) :
               n < m /\ text[m].key = "name" => Rank[n] < Rank[m]
<1> DEFINE N(n) == {j \in 1 .. n : text[j].key = "name"}
<1>1. \A n \in 0 .. Len(text) : Rank[n] = Cardinality(N(n))
  BY DEF Rank
<1>2. ASSUME NEW n \in 0 .. Len(text)
      PROVE  IsFiniteSet(N(n)) /\ Cardinality(N(n)) \in Nat
  <2>1. IsFiniteSet(1 .. n)
    BY FS_Interval
  <2>2. N(n) \in SUBSET (1 .. n)
    OBVIOUS
  <2>3. IsFiniteSet(N(n))
    BY <2>1, <2>2, FS_Subset
  <2> QED
    BY <2>3, FS_CardinalityType
<1>3. ASSUME NEW n \in 0 .. Len(text), NEW m \in 0 .. Len(text), n <= m
      PROVE  /\ N(n) \in SUBSET N(m) /\ Cardinality(N(n)) <= Cardinality(N(m))
             /\ Cardinality(N(n)) = Cardinality(N(m)) => N(m) = N(n)
  <2>1. N(n) \in SUBSET N(m)
    BY <1>3
  <2>2. IsFiniteSet(N(m))
    BY <1>2
  <2> HIDE DEF N
  <2> QED
    BY <2>1, <2>2, FS_Subset
<1>4. ASSUME NEW n \in 0 .. Len(text), NEW m \in 0 .. Len(text), n < m, text[m].key = "name"
      PROVE  Cardinality(N(n)) < Cardinality(N(m))
  <2>1. m \in N(m) /\ m \notin N(n)
    BY <1>4
  <2>0. n <= m
    BY <1>4
  <2> HIDE DEF N
  <2>2. /\ Cardinality(N(n)) <= Cardinality(N(m))
        /\ Cardinality(N(n)) = Cardinality(N(m)) => N(m) = N(n)
    BY <1>3, <2>0
  <2>3. Cardinality(N(n)) \in Nat /\ Cardinality(N(m)) \in Nat
    BY <1>2
  <2> QED
    BY <2>1, <2>2, <2>3
<1> HIDE DEF N
<1> QED
  BY <1>1, <1>2, <1>3, <1>4

LEMMA FindFacts ==
  ASSUME Len(text) \in Nat, NEW k, NEW i \in Nat, Find(k, i) # 0
  PROVE  /\ i # 0 /\ Find(k, i) \in i .. Len(text) /\ text[Find(k, i)].key = k
<1> DEFINE hits == {j \in i .. Len(text) : text[j].key = k}
<1>1. i # 0 /\ hits # {} /\ Find(k, i) = Least(hits)
  BY DEF Find
<1>2. hits \subseteq Nat
  OBVIOUS
<1>3. Least(hits) \in hits
  BY <1>1, <1>2, LeastFacts
<1> QED
  BY <1>1, <1>3

\* A set was found at a name, behind the frames of the sets before it.
ASet(r, t, c) ==
    /\ DOMAIN r = {"name", "at", "frames"} /\ IsSeq(r.frames)
    /\ r.at \in 1 .. Len(t) /\ r.at <= c /\ t[r.at].key = "name"
    /\ \A f \in 1 .. Len(r.frames) :
          /\ r.frames[f].at[3] \in Nat /\ r.at <= r.frames[f].at[3]
          /\ r.frames[f].at[3] <= c /\ r.frames[f].at[3] <= Len(t)

Placed ==
    /\ IsSeq(text) /\ cursor \in 1 .. Len(text) + 1
    /\ parsing \in {"read", "count"} => cursor = 1
    /\ \A i \in 1 .. Len(sets) : ASet(sets[i], text, cursor)
    /\ \A i, j \in 1 .. Len(sets) : i < j =>
          /\ Rank[sets[j].at] - Rank[sets[i].at] >= j - i
          /\ \A f \in 1 .. Len(sets[i].frames) : sets[i].frames[f].at[3] < sets[j].at
    /\ todo \in Nat /\ Len(sets) <= todo
    /\ parsing \in {"set", "frame", "loaded"} => todo = Rank[Len(text)]
    /\ parsing = "set" => /\ Len(sets) < todo
                          /\ Len(sets) > 0 => text[cursor].key # "name"
    /\ parsing = "loaded" => Len(sets) = todo

LEMMA TextRead ==
  ASSUME NEW t \in Texts
  PROVE  LET u == SubSeq(t, 1, Least({Len(t), MaxText})) IN IsSeq(u)
<1>1. IsSeq(t) /\ MaxText \in Nat
  BY ParserAssumption DEF IsSeq
<1>2. Len(t) \in Nat /\ DOMAIN t = 1 .. Len(t)
  BY <1>1, IsSeqFacts
<1> DEFINE n == Least({Len(t), MaxText})
<1>3. n \in {Len(t), MaxText} /\ n <= Len(t)
  BY <1>1, <1>2, LeastFacts
<1>4. n \in Nat
  BY <1>1, <1>2, <1>3
<1> HIDE DEF n
<1>5. \A i \in 1 .. n : t[i] \in {t[j] : j \in DOMAIN t}
  <2> TAKE i \in 1 .. n
  <2>1. i \in 1 .. Len(t)
    <3>1. PICK l \in Nat : l = Len(t)
      BY <1>2
    <3>2. n <= l
      BY <1>3, <3>1
    <3>3. i \in 1 .. l
      BY <1>4, <3>2
    <3> QED
      BY <3>1, <3>3
  <2>2. i \in DOMAIN t
    BY <1>2, <2>1
  <2> QED
    BY <2>2
<1>6. SubSeq(t, 1, n) \in Seq({t[j] : j \in DOMAIN t})
  BY <1>4, <1>5, SubSeqProperties
<1> QED
  BY <1>6, SomeSeq DEF n

\* What an error leaves.
LEMMA PlacedStays ==
  ASSUME Placed, UNCHANGED <<text, cursor, todo, sets>>, parsing' = "rejected" \/ parsing' = parsing
  PROVE  Placed'
<1>1. Rank' = Rank
  BY DEF Rank
<1>2. \A i \in 1 .. Len(sets) : ASet(sets'[i], text', cursor')
  BY DEF Placed, ASet
<1> QED
  BY <1>1, <1>2 DEF Placed

LEMMA SetPlaced ==
  ASSUME Memory, Placed, ParseSet
  PROVE  Placed'
<1>0. /\ IsSeq(sets) /\ Len(sets) \in Nat /\ Len(text) \in Nat /\ parsing = "set"
      /\ cursor \in Nat /\ cursor \in 1 .. Len(text) + 1 /\ todo \in Nat /\ Len(sets) < todo
      /\ (Len(sets) > 0 => text[cursor].key # "name") /\ todo = Rank[Len(text)]
  BY IsSeqFacts DEF Memory, Placed, ParseSet
<1>1. CASE Reject(3 + Len(sets))
  BY <1>1, PlacedStays DEF Reject
<1>2. CASE ~Reject(3 + Len(sets))
  <2>1. PICK name, path, format, first, end :
          /\ name   = Find("name", cursor)
          /\ path   = Find("base_path", name)
          /\ format = Find("format", path)
          /\ first  = Find("frames", format)
          /\ end    = Find("]", first)
    OBVIOUS
  <2>2. /\ end # 0 /\ cursor' = format /\ UNCHANGED <<text, todo>> /\ parsing' = "frame"
        /\ sets' = Append(sets, [name |-> text[name].value, at |-> name, frames |-> << >>])
    BY <1>2, <2>1 DEF ParseSet
  <2>3. /\ name \in cursor .. Len(text) /\ text[name].key = "name"
        /\ format \in name .. Len(text)
    <3>0. /\ name \in Nat => (path # 0 => name # 0 /\ path \in name .. Len(text))
          /\ path \in Nat => (format # 0 => path # 0 /\ format \in path .. Len(text))
          /\ format \in Nat => (first # 0 => format # 0 /\ first \in format .. Len(text))
          /\ first \in Nat => (end # 0 => first # 0)
          /\ name # 0 => name \in cursor .. Len(text) /\ text[name].key = "name"
      BY <1>0, <2>1, FindFacts
    <3>1. name \in Nat
      BY <1>0, <3>0
    <3>2. path \in Nat
      BY <1>0, <3>0, <3>1
    <3>3. format \in Nat
      BY <1>0, <3>0, <3>2
    <3>4. first \in Nat
      BY <1>0, <3>0, <3>3
    <3> QED
      BY <1>0, <2>2, <3>0, <3>1, <3>2, <3>3, <3>4
  <2> DEFINE e == [name |-> text[name].value, at |-> name, frames |-> << >>]
             n == Len(sets)
  <2>4. DOMAIN e = {"name", "at", "frames"} /\ e.at = name /\ e.frames = << >>
    OBVIOUS
  <2> HIDE DEF e
  <2>5. /\ Len(sets') = n + 1 /\ sets'[n + 1] = e
        /\ \A i \in 1 .. n : sets'[i] = sets[i]
    <3>1. sets' = Append(sets, e)
      BY <2>2 DEF e
    <3> QED
      BY <1>0, <3>1, AppendAny
  <2>6. Rank' = Rank
    BY <2>2 DEF Rank
  <2>7. format \in 1 .. Len(text) + 1 /\ cursor <= format /\ name <= format /\ name \in 1 .. Len(text)
    BY <1>0, <2>3
  <2>8. \A i \in 1 .. n : ASet(sets'[i], text', cursor')
    <3> TAKE i \in 1 .. n
    <3>1. ASet(sets[i], text, cursor)
      BY DEF Placed
    <3>2. sets'[i] = sets[i]
      BY <2>5
    <3> QED
      BY <1>0, <2>2, <2>7, <3>1, <3>2 DEF ASet
  <2>9. ASet(sets'[n + 1], text', cursor')
    <3>1. IsSeq(e.frames) /\ 1 .. Len(e.frames) = {}
      BY <2>4, NoneSeq
    <3>2. e.at \in 1 .. Len(text) /\ e.at <= format /\ text[e.at].key = "name"
      BY <2>3, <2>4, <2>7
    <3>3. ASet(e, text, format)
      BY <2>4, <3>1, <3>2 DEF ASet
    <3> QED
      BY <2>2, <2>5, <3>3
  <2>10. ASSUME NEW i \in 1 .. n
         PROVE  /\ sets[i].at < name
                /\ \A f \in 1 .. Len(sets[i].frames) : sets[i].frames[f].at[3] < name
    <3>1. ASet(sets[i], text, cursor) /\ Len(sets) > 0
      BY <1>0 DEF Placed
    <3>2. cursor < name
      BY <1>0, <2>3, <3>1
    <3> QED
      BY <1>0, <2>7, <3>1, <3>2 DEF ASet
  <2>11. \A i, j \in 1 .. n + 1 : i < j =>
          /\ Rank[sets'[j].at] - Rank[sets'[i].at] >= j - i
          /\ \A f \in 1 .. Len(sets'[i].frames) : sets'[i].frames[f].at[3] < sets'[j].at
    <3> SUFFICES ASSUME NEW i \in 1 .. n + 1, NEW j \in 1 .. n + 1, i < j
                 PROVE  /\ Rank[sets'[j].at] - Rank[sets'[i].at] >= j - i
                        /\ \A f \in 1 .. Len(sets'[i].frames) :
                               sets'[i].frames[f].at[3] < sets'[j].at
      OBVIOUS
    <3>0. i \in 1 .. n /\ sets'[i] = sets[i]
      BY <1>0, <2>5
    <3>1. CASE j \in 1 .. n
      BY <2>5, <3>0, <3>1 DEF Placed
    <3>2. CASE j = n + 1
      <4>1. sets'[j].at = name
        BY <2>4, <2>5, <3>2
      <4>2. \A k \in 1 .. n : sets[k].at \in 0 .. Len(text)
        BY <1>0 DEF Placed, ASet
      <4>3. Rank[sets[n].at] < Rank[name] /\ Rank[sets[n].at] \in Nat /\ Rank[name] \in Nat
            /\ Rank[sets[i].at] \in Nat
        <5>1. n \in 1 .. n /\ name \in 0 .. Len(text) /\ sets[n].at \in 0 .. Len(text)
              /\ sets[i].at \in 0 .. Len(text)
          BY <1>0, <2>7, <3>0, <4>2
        <5>2. sets[n].at < name
          BY <2>10, <5>1
        <5> QED
          BY <1>0, <2>3, <5>1, <5>2, RankFacts
      <4>4. Rank[sets[n].at] - Rank[sets[i].at] >= n - i
        <5>1. CASE i = n
          BY <4>3, <5>1
        <5>2. CASE i < n
          BY <1>0, <3>0, <5>2 DEF Placed
        <5> QED
          BY <1>0, <3>0, <5>1, <5>2
      <4>5. Rank[name] - Rank[sets[i].at] >= j - i
        <5>1. \A a, b, c \in Nat : b < c /\ b - a >= n - i => c - a >= n + 1 - i
          BY <1>0
        <5> QED
          BY <3>2, <4>3, <4>4, <5>1
      <4> QED
        BY <2>10, <3>0, <4>1, <4>5
    <3> QED
      BY <1>0, <3>1, <3>2
  <2>12. \A i \in 1 .. n + 1 : ASet(sets'[i], text', cursor')
    BY <1>0, <2>8, <2>9
  <2>13. /\ IsSeq(text') /\ cursor' \in 1 .. Len(text') + 1 /\ todo' \in Nat
         /\ todo' = Rank'[Len(text')] /\ Len(sets') <= todo'
    <3>1. IsSeq(text)
      BY DEF Placed
    <3>2. n + 1 <= todo
      BY <1>0
    <3> QED
      BY <1>0, <2>2, <2>5, <2>6, <2>7, <3>1, <3>2
  <2>14. /\ \A i \in 1 .. Len(sets') : ASet(sets'[i], text', cursor')
         /\ \A i, j \in 1 .. Len(sets') : i < j =>
               /\ Rank'[sets'[j].at] - Rank'[sets'[i].at] >= j - i
               /\ \A f \in 1 .. Len(sets'[i].frames) : sets'[i].frames[f].at[3] < sets'[j].at
    BY <2>5, <2>6, <2>11, <2>12
  <2> QED
    BY <2>2, <2>13, <2>14 DEF Placed
<1> QED
  BY <1>1, <1>2

LEMMA FramePlaced ==
  ASSUME Memory, Placed, ParseFrame
  PROVE  Placed'
<1>0. /\ IsSeq(sets) /\ Len(sets) \in Nat /\ Len(sets) >= 1 /\ Len(text) \in Nat
      /\ parsing = "frame" /\ cursor \in 1 .. Len(text) + 1 /\ todo \in Nat
      /\ Len(sets) <= todo /\ todo = Rank[Len(text)]
  BY IsSeqFacts DEF Memory, Placed, ParseFrame
<1>1. CASE Reject(3 + Len(sets))
  BY <1>1, PlacedStays DEF Reject
<1>2. CASE ~Reject(3 + Len(sets))
  <2>1. PICK file, width, height :
          file = Find("file", cursor) /\ width = Find("width", file) /\ height = Find("height", width)
    OBVIOUS
  <2>2. PICK x :
          /\ height # 0 /\ cursor' = height /\ UNCHANGED <<text, todo>>
          /\ x.at[3] = height
          /\ sets' = [sets EXCEPT ![Len(sets)].frames = Append(@, x)]
          /\ \/ parsing' = "frame"
             \/ parsing' = "set" /\ Len(sets) < todo
             \/ parsing' = "loaded" /\ ~(Len(sets) < todo)
    <3> DEFINE x == [file |-> text[file].value, width |-> text[width].number,
                     height |-> text[height].number, at |-> <<file, width, height>>]
    <3>1. x.at[3] = height
      OBVIOUS
    <3>2. /\ height # 0 /\ cursor' = height /\ UNCHANGED <<text, todo>>
          /\ sets' = [sets EXCEPT ![Len(sets)].frames = Append(@, x)]
      BY <1>2, <2>1 DEF ParseFrame
    <3>3. \/ parsing' = "frame"
          \/ parsing' = "set" /\ Len(sets) < todo
          \/ parsing' = "loaded" /\ ~(Len(sets) < todo)
      BY <1>2 DEF ParseFrame
    <3> HIDE DEF x
    <3> QED
      BY <3>1, <3>2, <3>3
  <2>3. height \in cursor .. Len(text) /\ text[height].key = "height" /\ height \in Nat
    <3>0. /\ file # 0 => file \in cursor .. Len(text)
          /\ file \in Nat => (width # 0 => file # 0 /\ width \in file .. Len(text))
          /\ width \in Nat => (height # 0 => width # 0 /\ height \in width .. Len(text))
          /\ width \in Nat => (height # 0 => text[height].key = "height")
      BY <1>0, <2>1, FindFacts
    <3>1. file \in Nat
      BY <1>0, <3>0
    <3>2. width \in Nat
      BY <1>0, <3>0, <3>1
    <3>k. height # 0
      BY <2>2
    <3>3. height \in width .. Len(text) /\ text[height].key = "height" /\ width # 0
      BY <3>0, <3>2, <3>k
    <3>4. width \in file .. Len(text) /\ file # 0
      BY <3>0, <3>1, <3>3
    <3>5. file \in cursor .. Len(text)
      BY <3>0, <3>4
    <3> QED
      BY <1>0, <3>1, <3>2, <3>3, <3>4, <3>5
  <2> DEFINE n == Len(sets)
             r == sets[n]
             e == [r EXCEPT !.frames = Append(@, x)]
  <2>4. ASet(r, text, cursor)
    BY <1>0 DEF Placed
  <2>5. /\ DOMAIN e = {"name", "at", "frames"} /\ e.at = r.at
        /\ e.frames = Append(r.frames, x)
    BY <2>4 DEF ASet
  <2>6. sets' = [sets EXCEPT ![n] = e]
    BY <2>2
  <2> HIDE DEF e
  <2>7. /\ Len(sets') = n /\ sets'[n] = e
        /\ \A i \in 1 .. n : i # n => sets'[i] = sets[i]
    <3>1. n \in 1 .. Len(sets)
      BY <1>0
    <3> QED
      BY <1>0, <2>6, <3>1, ExceptAny
  <2>8. Rank' = Rank
    BY <2>2 DEF Rank
  <2>9. ASSUME NEW z, ASet(z, text, cursor)
        PROVE  ASet(z, text, height)
    BY <1>0, <2>3, <2>9 DEF ASet
  <2>10. ASet(e, text, height)
    <3>1. ASet(r, text, height) /\ IsSeq(r.frames)
      BY <2>4, <2>9 DEF ASet
    <3>2. /\ IsSeq(e.frames) /\ Len(e.frames) = Len(r.frames) + 1 /\ Len(r.frames) \in Nat
          /\ e.frames[Len(r.frames) + 1] = x
          /\ \A i \in 1 .. Len(r.frames) : e.frames[i] = r.frames[i]
      BY <2>5, <3>1, AppendAny, IsSeqFacts
    <3>3. r.at <= height /\ height <= Len(text) /\ height <= height
      BY <1>0, <2>3, <3>1 DEF ASet
    <3>4. ASSUME NEW f \in 1 .. Len(e.frames)
          PROVE  /\ e.frames[f].at[3] \in Nat /\ e.at <= e.frames[f].at[3]
                 /\ e.frames[f].at[3] <= height /\ e.frames[f].at[3] <= Len(text)
      <4>1. CASE f = Len(r.frames) + 1
        BY <2>2, <2>3, <2>5, <3>2, <3>3, <4>1
      <4>2. CASE f \in 1 .. Len(r.frames)
        BY <2>5, <3>1, <3>2, <4>2 DEF ASet
      <4>3. f = Len(r.frames) + 1 \/ f \in 1 .. Len(r.frames)
        BY <3>2
      <4> QED
        BY <4>1, <4>2, <4>3
    <3> QED
      BY <2>5, <3>1, <3>2, <3>4 DEF ASet
  <2>11. \A i \in 1 .. n : ASet(sets'[i], text', cursor')
    <3> TAKE i \in 1 .. n
    <3>1. CASE i = n
      BY <2>2, <2>7, <2>10, <3>1
    <3>2. CASE i # n
      <4>1. ASet(sets[i], text, cursor)
        BY DEF Placed
      <4> QED
        BY <2>2, <2>7, <2>9, <3>2, <4>1
    <3> QED
      BY <3>1, <3>2
  <2>12. \A i, j \in 1 .. n : i < j =>
           /\ Rank[sets'[j].at] - Rank[sets'[i].at] >= j - i
           /\ \A f \in 1 .. Len(sets'[i].frames) : sets'[i].frames[f].at[3] < sets'[j].at
    <3> SUFFICES ASSUME NEW i \in 1 .. n, NEW j \in 1 .. n, i < j
                 PROVE  /\ Rank[sets'[j].at] - Rank[sets'[i].at] >= j - i
                        /\ \A f \in 1 .. Len(sets'[i].frames) :
                               sets'[i].frames[f].at[3] < sets'[j].at
      OBVIOUS
    <3>1. i # n
      BY <1>0
    <3>2. sets'[i] = sets[i] /\ sets'[j].at = sets[j].at
      BY <2>5, <2>7, <3>1
    <3> QED
      BY <3>2 DEF Placed
  <2>13. /\ IsSeq(text') /\ cursor' \in 1 .. Len(text') + 1 /\ todo' \in Nat
         /\ todo' = Rank'[Len(text')] /\ Len(sets') <= todo' /\ text'[cursor'].key # "name"
    <3>1. IsSeq(text)
      BY DEF Placed
    <3>2. height \in 1 .. Len(text) + 1
      BY <1>0, <2>3
    <3> QED
      BY <1>0, <2>2, <2>3, <2>7, <2>8, <3>1, <3>2
  <2>14. /\ \A i \in 1 .. Len(sets') : ASet(sets'[i], text', cursor')
         /\ \A i, j \in 1 .. Len(sets') : i < j =>
               /\ Rank'[sets'[j].at] - Rank'[sets'[i].at] >= j - i
               /\ \A f \in 1 .. Len(sets'[i].frames) : sets'[i].frames[f].at[3] < sets'[j].at
    BY <2>7, <2>8, <2>11, <2>12
  <2>15. /\ parsing' \in {"frame", "set", "loaded"}
         /\ parsing' = "set" => Len(sets') < todo'
         /\ parsing' = "loaded" => Len(sets') = todo'
    BY <1>0, <2>2, <2>7
  <2> QED
    BY <2>13, <2>14, <2>15 DEF Placed
<1> QED
  BY <1>1, <1>2 DEF ParseFrame

LEMMA ParserPlaced ==
  ASSUME Memory, Placed, ParserNext
  PROVE  Placed'
<1>1. CASE ReadConfig
  <2>1. CASE Reject(0)
    BY <2>1, PlacedStays DEF Reject
  <2>2. CASE ~Reject(0)
    <3>1. PICK t \in Texts : /\ text' = SubSeq(t, 1, Least({Len(t), MaxText}))
                             /\ parsing' = "count" /\ UNCHANGED <<cursor, todo, sets>>
      BY <1>1, <2>2 DEF ReadConfig
    <3>2. IsSeq(text')
      BY <3>1, TextRead
    <3>3. Len(text') \in Nat
      BY <3>2, IsSeqFacts
    <3>4. cursor = 1 /\ sets = << >> /\ Len(sets) = 0 /\ todo \in Nat
      <4>1. parsing = "read"
        BY <1>1 DEF ReadConfig
      <4> QED
        BY <4>1, NoneSeq DEF Memory, Placed
    <3>5. cursor' \in 1 .. Len(text') + 1
      <4>1. \A l \in Nat : 1 \in 1 .. l + 1
        OBVIOUS
      <4>2. cursor' = 1
        BY <3>1, <3>4
      <4> QED
        BY <3>3, <4>1, <4>2
    <3>6. /\ 1 .. Len(sets') = {} /\ todo' \in Nat /\ Len(sets') <= todo'
          /\ cursor' = 1 /\ parsing' = "count"
      BY <3>1, <3>4
    <3> QED
      BY <3>2, <3>5, <3>6 DEF Placed
  <2> QED
    BY <2>1, <2>2
<1>2. CASE CountSets
  <2>1. CASE Reject(2)
    BY <2>1, PlacedStays DEF Reject
  <2>2. CASE ~Reject(2)
    <3> DEFINE names == {i \in 1 .. Len(text) : text[i].key = "name"}
    <3>1. /\ names # {} /\ todo' = Cardinality(names) /\ parsing' = "set"
          /\ UNCHANGED <<text, cursor, sets>>
      BY <1>2, <2>2 DEF CountSets
    <3>2. Len(text) \in Nat /\ sets = << >> /\ Len(sets) = 0
      BY <1>2, IsSeqFacts, NoneSeq DEF CountSets, Memory, Placed
    <3>3. Rank'[Len(text')] = Cardinality(names)
      BY <3>1, <3>2 DEF Rank
    <3>4. Cardinality(names) \in Nat /\ Cardinality(names) # 0
      <4>1. IsFiniteSet(1 .. Len(text)) /\ names \in SUBSET (1 .. Len(text))
        BY <3>2, FS_Interval
      <4>2. IsFiniteSet(names)
        BY <4>1, FS_Subset
      <4> HIDE DEF names
      <4> QED
        BY <3>1, <4>2, FS_CardinalityType, FS_EmptySet
    <3>5. todo' \in Nat /\ 0 < todo' /\ todo' = Rank'[Len(text')]
      BY <3>1, <3>3, <3>4
    <3> QED
      BY <3>1, <3>2, <3>5 DEF Placed
  <2> QED
    BY <2>1, <2>2
<1> QED
  BY <1>1, <1>2, SetPlaced, FramePlaced DEF ParserNext

LEMMA PlacedInit == Init => Placed
<1> SUFFICES ASSUME Init
             PROVE  Placed
  OBVIOUS
<1>1. text = << >> /\ cursor = 1 /\ todo = 0 /\ sets = << >> /\ parsing = "read"
  BY DEF Init, ParserInit
<1>2. IsSeq(text) /\ Len(text) = 0 /\ Len(sets) = 0
  BY <1>1, NoneSeq
<1> QED
  BY <1>1, <1>2 DEF Placed

LEMMA PlacedNext == RunInv /\ Placed /\ [Next]_vars => Placed'
<1> SUFFICES ASSUME RunInv, Placed, [Next]_vars
             PROVE  Placed'
  OBVIOUS
<1>1. CASE Parse
  BY <1>1, ParserPlaced DEF Parse, RunInv, Held0
<1>2. CASE UNCHANGED <<text, cursor, todo, sets, parsing>>
  BY <1>2, PlacedStays
<1>3. CASE EndScenario
  BY <1>2, <1>3 DEF EndScenario, FreeConfig, parserVars
<1> QED
  BY <1>1, <1>2, <1>3 DEF Next, Returned, RefuseFlag, FindSet, InitPools, CreateUnit,
     CreateFails, FileInGet, FileInSend, ConversionGet, ConversionProcess, ConversionSend,
     FileOutGet, FileOutSend, DestroyUnit, CloseTwice, DeinitPools, parserVars, vars

\* Of any text at all, whichever keys it lacks and in whatever order it has
\* them: if vf_parser_load_frames_cfg accepts it, the i-th set has the i-th name
\* of the text, at least one frame, and no key of a later set in its frames.
\* The names that searches skip are missing at the end, where as many sets are
\* looked for as names were counted: of two sets, the later one's name has at
\* least as many names between as sets.
THEOREM ParserSetsUnmixed == Spec => []SetsUnmixed
<1>1. Placed /\ RunInv /\ WrittenInv => SetsUnmixed
  <2> SUFFICES ASSUME Placed, RunInv, WrittenInv, parsing = "loaded", NEW i \in 1 .. Len(sets)
               PROVE  /\ Named("name", sets[i].at) = i
                      /\ Len(sets[i].frames) >= 1
                      /\ \A f \in 1 .. Len(sets[i].frames) :
                            Named("name", sets[i].frames[f].at[3]) = i
    BY DEF SetsUnmixed
  <2>1. Len(text) \in Nat
    BY IsSeqFacts DEF Placed
  <2>2. \A n \in 0 .. Len(text) : Named("name", n) = Rank[n]
    BY DEF Named, Rank
  <2> DEFINE n == Len(sets)
  <2>3. n = Rank[Len(text)] /\ n \in Nat
    BY DEF Placed
  <2>4. \A j \in 1 .. n : ASet(sets[j], text, cursor)
    BY DEF Placed
  <2>5. \A j \in 1 .. n : sets[j].at \in 1 .. Len(text) /\ sets[j].at \in 0 .. Len(text)
    BY <2>1, <2>4 DEF ASet
  <2>6. 1 \in 1 .. n /\ n \in 1 .. n /\ i \in 1 .. n
    BY <2>3
  <2>7. Rank[sets[1].at] \in Nat /\ Rank[sets[1].at] >= 1 /\ Rank[sets[i].at] \in Nat
    <3>1. Rank[0] < Rank[sets[1].at] /\ Rank[0] \in Nat /\ Rank[sets[1].at] \in Nat
      <4>1. 0 \in 0 .. Len(text) /\ 0 < sets[1].at /\ text[sets[1].at].key = "name"
        BY <2>1, <2>4, <2>5, <2>6 DEF ASet
      <4> QED
        BY <2>1, <2>5, <2>6, <4>1, RankFacts
    <3> QED
      BY <2>1, <2>5, <2>6, <3>1, RankFacts
  <2>8. Rank[sets[n].at] \in Nat /\ Rank[sets[n].at] <= n
    <3>1. Len(text) \in 0 .. Len(text) /\ sets[n].at <= Len(text)
      BY <2>1, <2>5, <2>6
    <3> QED
      BY <2>1, <2>3, <2>5, <2>6, <3>1, RankFacts
  <2>9. Rank[sets[i].at] - Rank[sets[1].at] >= i - 1
    <3>1. CASE i = 1
      BY <2>7, <3>1
    <3>2. CASE 1 < i
      BY <2>6, <3>2 DEF Placed
    <3> QED
      BY <3>1, <3>2
  <2>10. Rank[sets[n].at] - Rank[sets[i].at] >= n - i
    <3>1. CASE i = n
      BY <2>8, <3>1
    <3>2. CASE i < n
      BY <2>6, <3>2 DEF Placed
    <3> QED
      BY <2>3, <2>6, <3>1, <3>2
  <2>11. Rank[sets[i].at] = i
    BY <2>3, <2>6, <2>7, <2>8, <2>9, <2>10
  <2>12. ASSUME NEW f \in 1 .. Len(sets[i].frames)
         PROVE  /\ sets[i].frames[f].at[3] \in 0 .. Len(text)
                /\ Rank[sets[i].frames[f].at[3]] = i
    <3> DEFINE h == sets[i].frames[f].at[3]
    <3>1. h \in Nat /\ sets[i].at <= h /\ h <= Len(text)
      BY <2>4, <2>6 DEF ASet
    <3>2. h \in 0 .. Len(text)
      BY <2>1, <3>1
    <3>3. Rank[h] \in Nat /\ i <= Rank[h]
      BY <2>1, <2>5, <2>6, <2>11, <3>1, <3>2, RankFacts
    <3>4. CASE i = n
      <4>1. Rank[h] <= n
        <5>1. Len(text) \in 0 .. Len(text)
          BY <2>1
        <5> QED
          BY <2>1, <2>3, <3>1, <3>2, <5>1, RankFacts
      <4> QED
        BY <2>3, <3>2, <3>3, <3>4, <4>1
    <3>5. CASE i < n
      <4>1. i + 1 \in 1 .. n /\ i < i + 1
        BY <2>3, <2>6, <3>5
      <4>2. h < sets[i + 1].at
        BY <2>6, <4>1 DEF Placed
      <4>3. Rank[h] < Rank[sets[i + 1].at] /\ Rank[sets[i + 1].at] \in Nat
        BY <2>1, <2>4, <2>5, <3>2, <4>1, <4>2, RankFacts DEF ASet
      <4>4. Rank[sets[n].at] - Rank[sets[i + 1].at] >= n - (i + 1)
        <5>1. CASE i + 1 = n
          BY <2>8, <5>1
        <5>2. CASE i + 1 < n
          BY <2>6, <4>1, <5>2 DEF Placed
        <5> QED
          BY <2>3, <2>6, <4>1, <5>1, <5>2
      <4>5. Rank[sets[i + 1].at] <= i + 1
        BY <2>3, <2>6, <2>8, <4>3, <4>4
      <4> QED
        BY <2>6, <3>2, <3>3, <4>3, <4>5
    <3> QED
      BY <2>3, <2>6, <3>4, <3>5
  <2>13. Len(sets[i].frames) >= 1
    BY <2>6 DEF WrittenInv, FrameSets
  <2> QED
    BY <2>2, <2>5, <2>6, <2>11, <2>12, <2>13
<1>2. /\ RunInv /\ WrittenInv /\ Placed /\ [Next]_vars
         => (RunInv /\ WrittenInv /\ Placed)'
      /\ Init => RunInv /\ WrittenInv /\ Placed
  BY RunNext, WrittenNext, PlacedNext, RunInit, WrittenInit, PlacedInit
<1> QED
  BY <1>1, <1>2, PTL DEF Spec

-----------------------------------------------------------------------------
(* Which files the frames of a set are of.                                  *)

\* strstr finds the first one.
LEMMA FindFirst ==
  ASSUME Len(text) \in Nat, NEW k, NEW i \in Nat, Find(k, i) # 0
  PROVE  \A j \in i .. Find(k, i) - 1 : text[j].key # k
<1> DEFINE hits == {j \in i .. Len(text) : text[j].key = k}
<1>1. i # 0 /\ hits # {} /\ Find(k, i) = Least(hits)
  BY DEF Find
<1>2. hits \subseteq Nat
  OBVIOUS
<1>3. Least(hits) \in hits /\ \A j \in hits : Least(hits) <= j
  BY <1>1, <1>2, LeastFacts
<1> QED
  BY <1>1, <1>3

\* The files counted from one key to another.
Counted(t, first, end) == {j \in first .. end : t[j].key = "file"}

\* Of a set that was found, those of the first array after its format were
\* counted, n of them at most, and its frames begin behind that format.
AnArray(r, t, c, n) ==
    \E format, first, end \in 1 .. Len(t) :
        /\ r.at <= format /\ format <= c /\ t[format].key = "format"
        /\ format <= first /\ t[first].key = "frames"
        /\ \A j \in format .. first - 1 : t[j].key # "frames"
        /\ first <= end
        /\ t[end].key = "]"
        /\ Cardinality(Counted(t, first, end)) <= n
        /\ \A f \in 1 .. Len(r.frames) : format <= r.frames[f].at[1]

\* The files of its frames, in the order of the text.
InOrder(r, t) ==
    /\ \A f \in 1 .. Len(r.frames) :
          /\ r.frames[f].at[1] \in 1 .. Len(t) /\ t[r.frames[f].at[1]].key = "file"
          /\ r.frames[f].at[1] <= r.frames[f].at[3]
          /\ t[r.frames[f].at[3]].key = "height"
    /\ \A f, g \in 1 .. Len(r.frames) : f < g => r.frames[f].at[3] < r.frames[g].at[1]

\* How many frames set i has in the end.
Due(i) == IF i = Len(sets) /\ parsing = "frame" THEN want ELSE Len(sets[i].frames)

Taken ==
    parsing # "rejected" =>
        want \in Nat /\ \A i \in 1 .. Len(sets) :
            InOrder(sets[i], text) /\ AnArray(sets[i], text, cursor, Due(i))

LEMMA Later ==
  ASSUME NEW r, NEW t, NEW c, NEW d, NEW n, AnArray(r, t, c, n), Len(t) \in Nat,
         c \in Nat, d \in Nat, c <= d
  PROVE  AnArray(r, t, d, n)
<1>1. \A format \in 1 .. Len(t) : format <= c => format <= d
  OBVIOUS
<1> QED
  BY <1>1 DEF AnArray

LEMMA CountedFinite ==
  ASSUME NEW t, NEW first \in Nat, NEW end \in Nat
  PROVE  IsFiniteSet(Counted(t, first, end)) /\ Cardinality(Counted(t, first, end)) \in Nat
<1>1. IsFiniteSet(first .. end)
  BY FS_Interval
<1>2. Counted(t, first, end) \in SUBSET (first .. end)
  BY DEF Counted
<1>3. IsFiniteSet(Counted(t, first, end))
  BY <1>1, <1>2, FS_Subset
<1> QED
  BY <1>3, FS_CardinalityType

LEMMA SetTaken ==
  ASSUME Memory, Placed, Taken, ParseSet
  PROVE  Taken'
<1>0. /\ IsSeq(sets) /\ Len(sets) \in Nat /\ Len(text) \in Nat /\ parsing = "set"
      /\ cursor \in Nat /\ cursor \in 1 .. Len(text) + 1
  BY IsSeqFacts DEF Memory, Placed, ParseSet
<1>1. CASE Reject(3 + Len(sets))
  BY <1>1 DEF Reject, Taken
<1>2. CASE ~Reject(3 + Len(sets))
  <2>1. PICK name, path, format, first, end :
          /\ name   = Find("name", cursor)
          /\ path   = Find("base_path", name)
          /\ format = Find("format", path)
          /\ first  = Find("frames", format)
          /\ end    = Find("]", first)
    OBVIOUS
  <2>2. /\ end # 0 /\ cursor' = format /\ UNCHANGED text /\ parsing' = "frame"
        /\ want' = Cardinality(Counted(text, first, end))
        /\ sets' = Append(sets, [name |-> text[name].value, at |-> name, frames |-> << >>])
    BY <1>2, <2>1 DEF ParseSet, Counted
  <2>3. /\ name \in cursor .. Len(text)
        /\ format \in name .. Len(text) /\ text[format].key = "format"
        /\ first \in format .. Len(text) /\ text[first].key = "frames"
        /\ \A j \in format .. first - 1 : text[j].key # "frames"
        /\ end \in first .. Len(text)
        /\ text[end].key = "]"
    <3>0. /\ name # 0 => name \in cursor .. Len(text)
          /\ name \in Nat /\ path # 0 => name # 0 /\ path \in name .. Len(text)
          /\ path \in Nat /\ format # 0 =>
                path # 0 /\ format \in path .. Len(text) /\ text[format].key = "format"
          /\ format \in Nat /\ first # 0 =>
                /\ format # 0 /\ first \in format .. Len(text) /\ text[first].key = "frames"
                /\ \A j \in format .. first - 1 : text[j].key # "frames"
          /\ first \in Nat /\ end # 0 =>
                /\ first # 0 /\ end \in first .. Len(text)
                /\ text[end].key = "]"
      BY <1>0, <2>1, FindFacts, FindFirst
    <3>1. name \in Nat
      BY <1>0, <3>0
    <3>2. path \in Nat
      BY <1>0, <3>0, <3>1
    <3>3. format \in Nat
      BY <1>0, <3>0, <3>2
    <3>4. first \in Nat
      BY <1>0, <3>0, <3>3
    <3>5. first # 0 /\ end \in first .. Len(text) /\ text[end].key = "]"
      BY <2>2, <3>0, <3>4
    <3>6. /\ format # 0 /\ first \in format .. Len(text) /\ text[first].key = "frames"
          /\ \A j \in format .. first - 1 : text[j].key # "frames"
      BY <3>0, <3>3, <3>5
    <3>7. path # 0 /\ format \in path .. Len(text) /\ text[format].key = "format"
      BY <3>0, <3>2, <3>6
    <3>8. name # 0 /\ path \in name .. Len(text)
      BY <3>0, <3>1, <3>7
    <3>9. name \in cursor .. Len(text) /\ format \in name .. Len(text)
      BY <1>0, <3>0, <3>1, <3>2, <3>3, <3>7, <3>8
    <3> QED
      BY <3>5, <3>6, <3>7, <3>9
  <2>n. PICK n \in Nat : n = Len(sets)
    BY <1>0
  <2> DEFINE e == [name |-> text[name].value, at |-> name, frames |-> << >>]
  <2>4. e.at = name /\ e.frames = << >>
    OBVIOUS
  <2> HIDE DEF e
  <2>5. /\ Len(sets') = n + 1 /\ sets'[n + 1] = e
        /\ \A i \in 1 .. n : sets'[i] = sets[i]
    <3>1. sets' = Append(sets, e)
      BY <2>2 DEF e
    <3> QED
      BY <1>0, <2>n, <3>1, AppendAny
  <2>6. /\ name \in 1 .. Len(text) /\ format \in 1 .. Len(text) /\ first \in 1 .. Len(text)
        /\ end \in 1 .. Len(text) /\ cursor <= format /\ name <= format /\ format <= first
        /\ first <= end /\ format \in Nat
    BY <1>0, <2>3
  <2>7. want' \in Nat
    BY <2>2, <2>6, CountedFinite
  <2>8. ASSUME NEW i \in 1 .. n
        PROVE  InOrder(sets'[i], text') /\ AnArray(sets'[i], text', cursor', Due(i)')
    <3>1. InOrder(sets[i], text) /\ AnArray(sets[i], text, cursor, Due(i))
      BY <1>0, <2>n DEF Taken
    <3>2. Due(i) = Len(sets[i].frames) /\ Due(i)' = Len(sets[i].frames)
      BY <1>0, <2>n, <2>5 DEF Due
    <3>3. AnArray(sets[i], text, format, Due(i))
      BY <1>0, <2>6, <3>1, Later
    <3> QED
      BY <2>2, <2>5, <3>1, <3>2, <3>3
  <2>9. InOrder(sets'[n + 1], text') /\ AnArray(sets'[n + 1], text', cursor', Due(n + 1)')
    <3>1. 1 .. Len(e.frames) = {}
      BY <2>4, NoneSeq
    <3>2. Due(n + 1)' = want'
      BY <2>2, <2>5 DEF Due
    <3>3. InOrder(e, text)
      BY <3>1 DEF InOrder
    <3>4. want' <= want'
      BY <2>7
    <3>5. AnArray(e, text, format, want')
      <4>1. format <= format
        BY <2>6
      <4>2. /\ e.at <= format /\ format <= format /\ text[format].key = "format"
            /\ format <= first /\ text[first].key = "frames"
            /\ \A j \in format .. first - 1 : text[j].key # "frames"
            /\ first <= end
            /\ text[end].key = "]"
            /\ Cardinality(Counted(text, first, end)) <= want'
            /\ \A f \in 1 .. Len(e.frames) : format <= e.frames[f].at[1]
        BY <2>2, <2>3, <2>4, <2>6, <3>1, <3>4, <4>1
      <4> QED
        BY <2>6, <4>2 DEF AnArray
    <3> QED
      BY <2>2, <2>5, <3>2, <3>3, <3>5
  <2>10. 1 .. Len(sets') = 1 .. n \cup {n + 1}
    BY <2>5
  <2>11. \A i \in 1 .. Len(sets') :
           InOrder(sets'[i], text') /\ AnArray(sets'[i], text', cursor', Due(i)')
    BY <2>8, <2>9, <2>10
  <2> QED
    BY <2>7, <2>11 DEF Taken
<1> QED
  BY <1>1, <1>2

LEMMA FrameTaken ==
  ASSUME Memory, Placed, Taken, ParseFrame
  PROVE  Taken'
<1>0. /\ IsSeq(sets) /\ Len(sets) \in Nat /\ Len(sets) >= 1 /\ Len(text) \in Nat
      /\ parsing = "frame" /\ cursor \in 1 .. Len(text) + 1 /\ cursor \in Nat /\ want \in Nat
  BY IsSeqFacts DEF Memory, Placed, Taken, ParseFrame
<1>1. CASE Reject(3 + Len(sets))
  BY <1>1 DEF Reject, Taken
<1>2. CASE ~Reject(3 + Len(sets))
  <2>1. PICK file, width, height :
          file = Find("file", cursor) /\ width = Find("width", file) /\ height = Find("height", width)
    OBVIOUS
  <2>2. PICK x :
          /\ height # 0 /\ cursor' = height /\ UNCHANGED <<text, want>>
          /\ x.at[1] = file /\ x.at[3] = height
          /\ sets' = [sets EXCEPT ![Len(sets)].frames = Append(@, x)]
          /\ \/ parsing' = "frame"
             \/ /\ parsing' \in {"set", "loaded"}
                /\ ~(Len(sets'[Len(sets)].frames) < want)
    <3> DEFINE x == [file |-> text[file].value, width |-> text[width].number,
                     height |-> text[height].number, at |-> <<file, width, height>>]
    <3>1. x.at[1] = file /\ x.at[3] = height
      OBVIOUS
    <3>2. /\ height # 0 /\ cursor' = height /\ UNCHANGED <<text, want>>
          /\ sets' = [sets EXCEPT ![Len(sets)].frames = Append(@, x)]
      BY <1>2, <2>1 DEF ParseFrame
    <3>3. \/ parsing' = "frame"
          \/ parsing' \in {"set", "loaded"} /\ ~(Len(sets'[Len(sets)].frames) < want)
      BY <1>2 DEF ParseFrame
    <3> HIDE DEF x
    <3> QED
      BY <3>1, <3>2, <3>3
  <2>3. /\ file \in cursor .. Len(text) /\ text[file].key = "file"
        /\ height \in file .. Len(text) /\ text[height].key = "height"
    <3>0. /\ file # 0 => file \in cursor .. Len(text) /\ text[file].key = "file"
          /\ file \in Nat => (width # 0 => file # 0 /\ width \in file .. Len(text))
          /\ width \in Nat => (height # 0 => width # 0 /\ height \in width .. Len(text))
          /\ width \in Nat => (height # 0 => text[height].key = "height")
      BY <1>0, <2>1, FindFacts
    <3>1. file \in Nat
      BY <1>0, <3>0
    <3>2. width \in Nat
      BY <1>0, <3>0, <3>1
    <3>3. height \in width .. Len(text) /\ text[height].key = "height" /\ width # 0
      BY <2>2, <3>0, <3>2
    <3>4. width \in file .. Len(text) /\ file # 0
      BY <3>0, <3>1, <3>3
    <3>5. file \in cursor .. Len(text) /\ text[file].key = "file"
      BY <3>0, <3>4
    <3> QED
      BY <1>0, <3>1, <3>2, <3>3, <3>4, <3>5
  <2>n. PICK n \in Nat : n = Len(sets) /\ n \in 1 .. n
    BY <1>0
  <2> DEFINE r == sets[n]
             e == [r EXCEPT !.frames = Append(@, x)]
  <2>4. ASet(r, text, cursor)
    BY <2>n DEF Placed
  <2>5. e.at = r.at /\ e.frames = Append(r.frames, x) /\ IsSeq(r.frames)
    BY <2>4 DEF ASet
  <2>6. sets' = [sets EXCEPT ![n] = e]
    BY <2>2, <2>n
  <2> HIDE DEF e
  <2>7. /\ Len(sets') = n /\ sets'[n] = e
        /\ \A i \in 1 .. n : i # n => sets'[i] = sets[i]
    BY <1>0, <2>6, <2>n, ExceptAny
  <2>8. /\ Len(e.frames) = Len(r.frames) + 1 /\ Len(r.frames) \in Nat
        /\ e.frames[Len(r.frames) + 1] = x
        /\ \A i \in 1 .. Len(r.frames) : e.frames[i] = r.frames[i]
    BY <2>5, AppendAny, IsSeqFacts
  <2>9. /\ file \in 1 .. Len(text) /\ height \in 1 .. Len(text) /\ cursor <= file
        /\ file <= height /\ cursor <= height /\ height \in Nat /\ file \in Nat
    BY <1>0, <2>3
  <2>10. InOrder(r, text) /\ AnArray(r, text, cursor, want)
    <3>1. Due(n) = want
      BY <1>0, <2>n DEF Due
    <3> QED
      BY <1>0, <2>n, <3>1 DEF Taken
  <2>11. InOrder(e, text)
    <3>1. ASSUME NEW f \in 1 .. Len(e.frames)
          PROVE  /\ e.frames[f].at[1] \in 1 .. Len(text)
                 /\ text[e.frames[f].at[1]].key = "file"
                 /\ e.frames[f].at[1] <= e.frames[f].at[3]
                 /\ text[e.frames[f].at[3]].key = "height"
      <4>1. CASE f = Len(r.frames) + 1
        BY <2>2, <2>3, <2>8, <2>9, <4>1
      <4>2. CASE f \in 1 .. Len(r.frames)
        BY <2>8, <2>10, <4>2 DEF InOrder
      <4>3. f = Len(r.frames) + 1 \/ f \in 1 .. Len(r.frames)
        BY <2>8
      <4> QED
        BY <4>1, <4>2, <4>3
    <3>2. ASSUME NEW f \in 1 .. Len(e.frames), NEW g \in 1 .. Len(e.frames), f < g
          PROVE  e.frames[f].at[3] < e.frames[g].at[1]
      <4>0. f \in 1 .. Len(r.frames) /\ (g = Len(r.frames) + 1 \/ g \in 1 .. Len(r.frames))
        BY <2>8, <3>2
      <4>1. CASE g = Len(r.frames) + 1
        <5>1. /\ r.frames[f].at[3] \in Nat /\ r.frames[f].at[3] <= cursor
              /\ text[r.frames[f].at[3]].key = "height"
          BY <2>4, <2>10, <4>0 DEF ASet, InOrder
        <5>2. r.frames[f].at[3] # file
          BY <2>3, <5>1
        <5>3. \A h \in Nat : h <= cursor /\ h # file => h < file
          BY <1>0, <2>9
        <5> QED
          BY <2>2, <2>8, <4>0, <4>1, <5>1, <5>2, <5>3
      <4>2. CASE g \in 1 .. Len(r.frames)
        BY <2>8, <2>10, <3>2, <4>0, <4>2 DEF InOrder
      <4> QED
        BY <4>0, <4>1, <4>2
    <3> QED
      BY <3>1, <3>2 DEF InOrder
  <2>12. ASSUME NEW m \in Nat, want <= m
         PROVE  AnArray(e, text, height, m)
    <3>1. PICK format \in 1 .. Len(text), first \in 1 .. Len(text), end \in 1 .. Len(text) :
            /\ r.at <= format /\ format <= cursor /\ text[format].key = "format"
            /\ format <= first /\ text[first].key = "frames"
            /\ \A j \in format .. first - 1 : text[j].key # "frames"
            /\ first <= end
            /\ text[end].key = "]"
            /\ Cardinality(Counted(text, first, end)) <= want
            /\ \A f \in 1 .. Len(r.frames) : format <= r.frames[f].at[1]
      BY <2>10 DEF AnArray
    <3>2. format <= height /\ format <= file
      BY <1>0, <2>9, <3>1
    <3>3. Cardinality(Counted(text, first, end)) <= m
      <4>1. Cardinality(Counted(text, first, end)) \in Nat
        BY <1>0, CountedFinite
      <4> QED
        BY <1>0, <2>12, <3>1, <4>1
    <3>4. \A f \in 1 .. Len(e.frames) : format <= e.frames[f].at[1]
      <4> TAKE f \in 1 .. Len(e.frames)
      <4>1. CASE f = Len(r.frames) + 1
        BY <2>2, <2>8, <3>2, <4>1
      <4>2. CASE f \in 1 .. Len(r.frames)
        BY <2>8, <3>1, <4>2
      <4>3. f = Len(r.frames) + 1 \/ f \in 1 .. Len(r.frames)
        BY <2>8
      <4> QED
        BY <4>1, <4>2, <4>3
    <3>5. e.at <= format
      BY <2>5, <3>1
    <3> QED
      BY <3>1, <3>2, <3>3, <3>4, <3>5 DEF AnArray
  <2>13. Len(e.frames) \in Nat
    BY <2>8
  <2>14. Due(n)' \in Nat /\ want <= Due(n)'
    <3>1. Due(n)' = IF parsing' = "frame" THEN want ELSE Len(e.frames)
      <4>1. want' = want /\ sets'[n] = e /\ n = Len(sets')
        BY <2>2, <2>7
      <4> QED
        BY <4>1 DEF Due
    <3>2. CASE parsing' = "frame"
      BY <1>0, <3>1, <3>2
    <3>3. CASE parsing' # "frame"
      <4>1. ~(Len(e.frames) < want)
        BY <2>2, <2>7, <2>n, <3>3
      <4> QED
        BY <1>0, <2>13, <3>1, <3>3, <4>1
    <3> QED
      BY <3>2, <3>3
  <2>15. ASSUME NEW i \in 1 .. n
         PROVE  InOrder(sets'[i], text') /\ AnArray(sets'[i], text', cursor', Due(i)')
    <3>1. CASE i = n
      BY <2>2, <2>7, <2>11, <2>12, <2>14, <3>1
    <3>2. CASE i # n
      <4>1. InOrder(sets[i], text) /\ AnArray(sets[i], text, cursor, Due(i))
        BY <1>0, <2>n DEF Taken
      <4>2. Due(i) = Len(sets[i].frames) /\ Due(i)' = Len(sets[i].frames)
        BY <2>7, <2>n, <3>2 DEF Due
      <4>3. AnArray(sets[i], text, height, Due(i))
        BY <1>0, <2>9, <4>1, Later
      <4> QED
        BY <2>2, <2>7, <3>2, <4>1, <4>2, <4>3
    <3> QED
      BY <3>1, <3>2
  <2> QED
    BY <1>0, <2>2, <2>7, <2>15 DEF Taken
<1> QED
  BY <1>1, <1>2 DEF ParseFrame

\* What leaves the sets and the parser where they are.
LEMMA TakenStays ==
  ASSUME Taken, UNCHANGED <<text, cursor, want, sets, parsing>>
  PROVE  Taken'
<1>1. \A i : Due(i)' = Due(i)
  BY DEF Due
<1> QED
  BY <1>1 DEF Taken

LEMMA ParserTaken ==
  ASSUME Memory, Placed, Taken, ParserNext
  PROVE  Taken'
<1>1. CASE ReadConfig \/ CountSets
  <2>1. CASE parsing' = "rejected"
    BY <2>1 DEF Taken
  <2>2. CASE parsing' # "rejected"
    <3>1. UNCHANGED <<want, sets>> /\ parsing \in {"read", "count"}
      BY <1>1, <2>2 DEF ReadConfig, CountSets, Reject
    <3>2. sets = << >> /\ Len(sets) = 0
      BY <3>1, NoneSeq DEF Memory
    <3> QED
      BY <3>1, <3>2 DEF Taken
  <2> QED
    BY <2>1, <2>2
<1> QED
  BY <1>1, SetTaken, FrameTaken DEF ParserNext

LEMMA TakenInit == Init => Taken
<1> SUFFICES ASSUME Init
             PROVE  Taken
  OBVIOUS
<1>1. want = 0 /\ sets = << >> /\ Len(sets) = 0
  BY NoneSeq DEF Init, ParserInit
<1> QED
  BY <1>1 DEF Taken

LEMMA TakenNext == RunInv /\ Placed /\ Taken /\ [Next]_vars => Taken'
<1> SUFFICES ASSUME RunInv, Placed, Taken, [Next]_vars
             PROVE  Taken'
  OBVIOUS
<1>1. CASE Parse
  BY <1>1, ParserTaken DEF Parse, RunInv, Held0
<1>2. CASE UNCHANGED <<text, cursor, want, sets, parsing>>
  BY <1>2, TakenStays
<1>3. CASE EndScenario
  BY <1>2, <1>3 DEF EndScenario, FreeConfig, parserVars
<1> QED
  BY <1>1, <1>2, <1>3 DEF Next, Returned, RefuseFlag, FindSet, InitPools, CreateUnit,
     CreateFails, FileInGet, FileInSend, ConversionGet, ConversionProcess, ConversionSend,
     FileOutGet, FileOutSend, DestroyUnit, CloseTwice, DeinitPools, parserVars, vars

\* From the name of an accepted set to the last key of any of its frames all is
\* its own.
LEMMA InSegment ==
  ASSUME SetsUnmixed, Placed, parsing = "loaded", NEW i \in 1 .. Len(sets)
  PROVE  /\ sets[i].at \in 1 .. Len(text) /\ text[sets[i].at].key = "name"
         /\ Rank[sets[i].at] = i /\ i \in Nat
         /\ \A f \in 1 .. Len(sets[i].frames), j \in 1 .. Len(text) :
               sets[i].at <= j /\ j <= sets[i].frames[f].at[3] => Rank[j] = i
<1>1. ASet(sets[i], text, cursor) /\ Len(text) \in Nat /\ i \in Nat
  BY IsSeqFacts DEF Placed
<1>2. \A n \in 0 .. Len(text) : Named("name", n) = Rank[n]
  BY DEF Named, Rank
<1>3. /\ sets[i].at \in 1 .. Len(text) /\ text[sets[i].at].key = "name"
      /\ sets[i].at \in 0 .. Len(text)
  BY <1>1 DEF ASet
<1>4. Rank[sets[i].at] = i
  BY <1>2, <1>3 DEF SetsUnmixed
<1>5. ASSUME NEW f \in 1 .. Len(sets[i].frames), NEW j \in 1 .. Len(text),
             sets[i].at <= j, j <= sets[i].frames[f].at[3]
      PROVE  Rank[j] = i
  <2>1. sets[i].frames[f].at[3] \in 0 .. Len(text) /\ j \in 0 .. Len(text)
    BY <1>1 DEF ASet
  <2>2. Rank[sets[i].frames[f].at[3]] = i
    BY <1>2, <2>1 DEF SetsUnmixed
  <2>3. i <= Rank[j] /\ Rank[j] <= i /\ Rank[j] \in Nat
    BY <1>1, <1>3, <1>4, <1>5, <2>1, <2>2, RankFacts
  <2> QED
    BY <1>1, <2>3
<1> QED
  BY <1>1, <1>3, <1>4, <1>5

\* Of as many frames as files each has one, and what lies between the keys of a
\* frame would be one more.
LEMMA AllFiles ==
  ASSUME SetsUnmixed, Placed, Taken, parsing = "loaded", NEW i \in 1 .. Len(sets),
         Cardinality(FilesOf(i)) <= Len(sets[i].frames)
  PROVE  /\ \A f \in 1 .. Len(sets[i].frames) :
               Named("file", sets[i].frames[f].at[1]) = Named("file", sets[i].frames[f].at[3])
         /\ FilesOf(i) = {sets[i].frames[f].at[1] : f \in 1 .. Len(sets[i].frames)}
<1> DEFINE r == sets[i]
           n == Len(r.frames)
           g == [f \in 1 .. n |-> r.frames[f].at[1]]
<1>1. ASet(r, text, cursor) /\ InOrder(r, text) /\ Len(text) \in Nat
  BY IsSeqFacts DEF Placed, Taken
<1>2. n \in Nat
  BY <1>1, IsSeqFacts DEF ASet
<1>3. \A j \in 1 .. Len(text) : Named("name", j) = Rank[j]
  BY DEF Named, Rank
<1>4. \A f \in 1 .. n : /\ g[f] \in 1 .. Len(text) /\ text[g[f]].key = "file"
                        /\ g[f] <= r.frames[f].at[3] /\ r.frames[f].at[3] \in 1 .. Len(text)
                        /\ r.at <= r.frames[f].at[3]
  BY <1>1 DEF ASet, InOrder
<1>5. \A f, h \in 1 .. n : f < h => r.frames[f].at[3] < g[h]
  BY <1>1 DEF InOrder
<1>6. \A f \in 1 .. n : r.at <= g[f]
  <2>1. PICK format \in 1 .. Len(text) :
           r.at <= format /\ \A f \in 1 .. n : format <= r.frames[f].at[1]
    BY DEF Taken, AnArray
  <2>2. r.at \in 1 .. Len(text)
    BY <1>1 DEF ASet
  <2> TAKE f \in 1 .. n
  <2>3. g[f] \in 1 .. Len(text) /\ format <= g[f]
    BY <1>4, <2>1
  <2> HIDE DEF g, r
  <2> QED
    BY <1>1, <2>1, <2>2, <2>3
<1>7. \A f \in 1 .. n, j \in 1 .. Len(text) :
          r.at <= j /\ j <= r.frames[f].at[3] => Rank[j] = i
  BY InSegment
<1>8. FilesOf(i) \in SUBSET (1 .. Len(text)) /\ IsFiniteSet(FilesOf(i))
      /\ Cardinality(FilesOf(i)) \in Nat
  <2>1. IsFiniteSet(1 .. Len(text)) /\ FilesOf(i) \in SUBSET (1 .. Len(text))
    BY <1>1, FS_Interval DEF FilesOf
  <2>2. IsFiniteSet(FilesOf(i))
    BY <2>1, FS_Subset
  <2> QED
    BY <2>1, <2>2, FS_CardinalityType
<1>9. g \in Injection(1 .. n, FilesOf(i))
  <2>1. \A f \in 1 .. n : g[f] \in FilesOf(i)
    <3> TAKE f \in 1 .. n
    <3>1. /\ g[f] \in 1 .. Len(text) /\ text[g[f]].key = "file"
          /\ r.at <= g[f] /\ g[f] <= r.frames[f].at[3]
      BY <1>4, <1>6
    <3>2. Rank[g[f]] = i
      BY <1>7, <3>1
    <3> HIDE DEF g
    <3> QED
      BY <1>3, <3>1, <3>2 DEF FilesOf
  <2>2. \A f, h \in 1 .. n : f < h => g[f] < g[h]
    <3> TAKE f, h \in 1 .. n
    <3>1. g[f] <= r.frames[f].at[3] /\ (f < h => r.frames[f].at[3] < g[h])
      BY <1>4, <1>5
    <3>2. g[f] \in 1 .. Len(text) /\ g[h] \in 1 .. Len(text) /\ r.frames[f].at[3] \in 1 .. Len(text)
      BY <1>4
    <3> HIDE DEF g, r
    <3> QED
      BY <1>1, <3>1, <3>2
  <2>3. \A f, h \in 1 .. n : g[f] = g[h] => f = h
    <3> TAKE f, h \in 1 .. n
    <3>1. g[f] \in 1 .. Len(text) /\ g[h] \in 1 .. Len(text)
      BY <1>4
    <3>2. (f < h => g[f] < g[h]) /\ (h < f => g[h] < g[f])
      BY <2>2
    <3> HIDE DEF g
    <3> QED
      BY <1>1, <1>2, <3>1, <3>2
  <2>4. g \in [1 .. n -> FilesOf(i)]
    BY <2>1
  <2> HIDE DEF g
  <2> QED
    BY <2>3, <2>4 DEF Injection, IsInjective
<1>10. \A j \in FilesOf(i) : \E f \in 1 .. n : g[f] = j
  <2>1. IsFiniteSet(1 .. n) /\ Cardinality(1 .. n) = n
    <3>1. \A m \in Nat : Cardinality(1 .. m) = m
      BY FS_Interval
    <3>2. \A m \in Nat : IsFiniteSet(1 .. m)
      BY FS_Interval
    <3> QED
      BY <1>2, <3>1, <3>2
  <2>2. /\ Cardinality(1 .. n) <= Cardinality(FilesOf(i))
        /\ Cardinality(1 .. n) = Cardinality(FilesOf(i)) => g \in Surjection(1 .. n, FilesOf(i))
    <3> HIDE DEF g
    <3> QED
      BY <1>8, <1>9, FS_Injection
  <2>3. Cardinality(1 .. n) = Cardinality(FilesOf(i))
    BY <1>2, <1>8, <2>1, <2>2
  <2> HIDE DEF g
  <2> QED
    BY <2>2, <2>3 DEF Surjection
<1>11. FilesOf(i) = {r.frames[f].at[1] : f \in 1 .. n}
  <2>1. \A f \in 1 .. n : g[f] = r.frames[f].at[1] /\ g[f] \in FilesOf(i)
    BY <1>9 DEF Injection
  <2> HIDE DEF g
  <2> QED
    BY <1>10, <2>1
<1>12. ASSUME NEW f \in 1 .. n
       PROVE  Named("file", r.frames[f].at[1]) = Named("file", r.frames[f].at[3])
  <2> DEFINE a == r.frames[f].at[1]
             b == r.frames[f].at[3]
  <2>1. a \in 1 .. Len(text) /\ b \in 1 .. Len(text) /\ a <= b
    BY <1>4
  <2>2. ASSUME NEW j \in a + 1 .. b
        PROVE  text[j].key # "file"
    <3>1. SUFFICES ASSUME text[j].key = "file"
                   PROVE  FALSE
      OBVIOUS
    <3>2. j \in 1 .. Len(text) /\ r.at <= j /\ j <= b /\ a < j
      <4>1. r.at <= a /\ r.at \in 1 .. Len(text)
        BY <1>1, <1>4, <1>6 DEF ASet
      <4> HIDE DEF a, b, r
      <4> QED
        BY <1>1, <2>1, <2>2, <4>1
    <3>3. j \in FilesOf(i)
      <4>1. Rank[j] = i
        BY <1>7, <3>2
      <4> QED
        BY <1>3, <3>1, <3>2, <4>1 DEF FilesOf
    <3>4. PICK h \in 1 .. n : g[h] = j
      BY <1>10, <3>3
    <3>5. (h < f => r.frames[h].at[3] < g[f]) /\ (f < h => b < g[h])
          /\ g[h] <= r.frames[h].at[3] /\ r.frames[h].at[3] \in 1 .. Len(text)
          /\ g[f] = a /\ (h = f => g[h] = a)
      BY <1>4, <1>5
    <3> HIDE DEF a, b, r, g
    <3> QED
      BY <1>1, <2>1, <3>2, <3>4, <3>5
  <2>3. {j \in 1 .. a : text[j].key = "file"} = {j \in 1 .. b : text[j].key = "file"}
    <3> HIDE DEF a, b
    <3> QED
      BY <1>1, <2>1, <2>2
  <2> QED
    BY <2>3 DEF Named
<1> QED
  BY <1>11, <1>12

\* In whole arrays the files of a set are behind its one key for them and before
\* the bracket, so that they are the files counted.
LEMMA ArraysTaken ==
  ASSUME SetsUnmixed, Placed, Taken, parsing = "loaded", ArraysWhole, NEW i \in 1 .. Len(sets)
  PROVE  Cardinality(FilesOf(i)) <= Len(sets[i].frames)
<1> DEFINE r == sets[i]
<1>1. /\ ASet(r, text, cursor) /\ InOrder(r, text) /\ Len(text) \in Nat
      /\ AnArray(r, text, cursor, Len(r.frames))
  <2>1. Due(i) = Len(r.frames)
    BY DEF Due
  <2> QED
    BY <2>1, IsSeqFacts DEF Placed, Taken
<1>2. PICK format \in 1 .. Len(text), first \in 1 .. Len(text), end \in 1 .. Len(text) :
        /\ r.at <= format /\ text[format].key = "format"
        /\ format <= first /\ text[first].key = "frames"
        /\ \A j \in format .. first - 1 : text[j].key # "frames"
        /\ first <= end
        /\ Cardinality(Counted(text, first, end)) <= Len(r.frames)
        /\ \A f \in 1 .. Len(r.frames) : format <= r.frames[f].at[1]
        /\ text[end].key = "]"
  BY <1>1 DEF AnArray
<1>3. \A j \in 1 .. Len(text) : text[j].key = "file" =>
        \E l \in 1 .. j - 1 :
          /\ text[l].key = "frames"
          /\ \A m \in 1 .. j - 1 : text[m].key \in {"name", "format", "frames", "]"} => m <= l
  BY DEF ArraysWhole
<1>4. \A j \in 1 .. Len(text), l \in 1 .. Len(text) :
        l < j /\ text[j].key = "frames" /\ text[l].key = "frames" =>
          \E m \in 1 .. j - 1 : text[m].key = "name" /\ l < m
  <2> TAKE j \in 1 .. Len(text), l \in 1 .. Len(text)
  <2> HAVE l < j /\ text[j].key = "frames" /\ text[l].key = "frames"
  <2>1. l \in 1 .. j - 1
    BY <1>1
  <2> QED
    BY <2>1 DEF ArraysWhole
<1>5. /\ r.at \in 1 .. Len(text) /\ text[r.at].key = "name" /\ Rank[r.at] = i /\ i \in Nat
      /\ \A f \in 1 .. Len(r.frames), j \in 1 .. Len(text) :
            r.at <= j /\ j <= r.frames[f].at[3] => Rank[j] = i
  BY InSegment
\* Two arrays are in different sets.
<1>6. ASSUME NEW p \in 1 .. Len(text), NEW q \in 1 .. Len(text), p < q,
             text[p].key = "frames", text[q].key = "frames"
      PROVE  Rank[p] < Rank[q]
  <2>1. PICK m \in 1 .. q - 1 : text[m].key = "name" /\ p < m
    BY <1>4, <1>6
  <2>2. p \in 0 .. Len(text) /\ q \in 0 .. Len(text) /\ m \in 0 .. Len(text) /\ m <= q
    BY <1>1
  <2>3. Rank[p] < Rank[m] /\ Rank[m] <= Rank[q]
    BY <1>1, <2>1, <2>2, RankFacts
  <2>4. Rank[p] \in Nat /\ Rank[m] \in Nat /\ Rank[q] \in Nat
    BY <1>1, <2>2, RankFacts
  <2> QED
    BY <2>3, <2>4
<1>7. Rank[first] = i
  <2>1. 1 \in 1 .. Len(r.frames)
    <3>1. Len(r.frames) \in Nat /\ Len(r.frames) >= 1
      BY <1>1, IsSeqFacts DEF ASet, SetsUnmixed
    <3> QED
      BY <3>1
  <2>2. PICK a \in 1 .. Len(text) :
          /\ a = r.frames[1].at[1] /\ text[a].key = "file" /\ a <= r.frames[1].at[3]
          /\ format <= a
    BY <1>1, <1>2, <2>1 DEF InOrder
  <2>3. PICK l \in 1 .. a - 1 :
          /\ text[l].key = "frames"
          /\ \A m \in 1 .. a - 1 : text[m].key \in {"name", "format", "frames", "]"} => m <= l
    BY <1>3, <2>2
  <2>4. format \in 1 .. a - 1
    <3>1. format # a
      BY <1>2, <2>2
    <3> HIDE DEF r
    <3> QED
      BY <1>1, <2>2, <3>1
  <2>5. format <= l
    BY <1>2, <2>3, <2>4
  <2>6. first <= l
    BY <1>1, <1>2, <2>3, <2>5
  <2>7. r.frames[1].at[3] \in Nat
    BY <1>1, <2>1 DEF ASet
  <2>8. r.at <= first /\ first <= r.frames[1].at[3]
    <3>1. r.at <= first /\ first < a /\ a <= r.frames[1].at[3]
      <4>1. Len(text) \in Nat /\ r.at \in Nat /\ r.at <= format /\ format <= first
        BY <1>1, <1>2, <1>5
      <4>2. r.at <= first
        <5> HIDE DEF r
        <5> QED
          BY <4>1
      <4>3. first < a
        BY <2>6, <4>1
      <4> QED
        BY <2>2, <4>2, <4>3
    <3> HIDE DEF r
    <3> QED
      BY <1>1, <2>7, <3>1
  <2> QED
    BY <1>5, <2>1, <2>8
<1>8. FilesOf(i) \in SUBSET Counted(text, first, end)
  <2> SUFFICES ASSUME NEW g \in FilesOf(i)
               PROVE  g \in first .. end /\ text[g].key = "file"
    BY DEF Counted
  <2>1. g \in 1 .. Len(text) /\ text[g].key = "file" /\ Rank[g] = i
    BY DEF FilesOf, Named, Rank
  <2>2. PICK q \in 1 .. g - 1 :
          /\ text[q].key = "frames"
          /\ \A m \in 1 .. g - 1 : text[m].key \in {"name", "format", "frames", "]"} => m <= q
    BY <1>3, <2>1
  <2>3. q \in 1 .. Len(text) /\ q \in 0 .. Len(text) /\ g \in 0 .. Len(text)
        /\ r.at \in 0 .. Len(text)
    BY <1>1, <1>5, <2>1, <2>2
  <2>4. r.at < g
    <3>1. r.at # g
      BY <1>5, <2>1
    <3>2. ~(g < r.at)
      <4>1. g < r.at => Rank[g] < Rank[r.at]
        BY <1>1, <1>5, <2>3, RankFacts
      <4> QED
        BY <1>5, <2>1, <4>1
    <3> HIDE DEF r
    <3> QED
      BY <1>1, <2>3, <3>1, <3>2
  <2>5. r.at <= q
    <3>1. r.at \in 1 .. g - 1
      <4> HIDE DEF r
      <4> QED
        BY <1>1, <1>5, <2>1, <2>4
    <3> QED
      BY <1>5, <2>2, <3>1
  <2>6. Rank[q] = i
    <3>1. Rank[r.at] <= Rank[q] /\ Rank[q] <= Rank[g] /\ Rank[q] \in Nat
      BY <1>1, <2>1, <2>2, <2>3, <2>5, RankFacts
    <3> QED
      BY <1>5, <2>1, <3>1
  <2>7. q = first
    <3>1. ~(q < first) /\ ~(first < q)
      BY <1>2, <1>5, <1>6, <1>7, <2>2, <2>3, <2>6
    <3> QED
      BY <1>1, <2>3, <3>1
  <2>8. g <= end
    <3>1. SUFFICES ASSUME end < g
                   PROVE  FALSE
      BY <1>1, <2>1
    <3>2. end \in 1 .. g - 1
      BY <1>1, <2>1, <3>1
    <3>3. end <= q
      BY <1>2, <2>2, <3>2
    <3>4. end = first
      BY <1>1, <1>2, <2>3, <2>7, <3>3
    <3> QED
      BY <1>2, <3>4
  <2> QED
    BY <1>1, <2>1, <2>2, <2>3, <2>7, <2>8
<1>9. IsFiniteSet(Counted(text, first, end)) /\ Cardinality(Counted(text, first, end)) \in Nat
  BY <1>1, CountedFinite
<1>10. /\ Cardinality(FilesOf(i)) <= Cardinality(Counted(text, first, end))
       /\ Cardinality(FilesOf(i)) \in Nat
  BY <1>8, <1>9, FS_Subset, FS_CardinalityType
<1>11. Len(r.frames) \in Nat
  BY <1>1, IsSeqFacts DEF ASet
<1> QED
  BY <1>2, <1>9, <1>10, <1>11

\* Nor are the frames of a set mixed, of which text whatever: if as many were
\* taken as files are named in the set, or the text has its arrays whole, each
\* frame of an accepted configuration has a file, a width and a height between
\* which no other file is named, and every file of the set is in one of its
\* frames.  The search for a key of a frame starts at the last one found, so
\* that no two frames have the same file, and a file that is skipped is missing
\* at the end.
THEOREM ParserAcceptedIsUnmixed == Spec => []AcceptedIsUnmixed
<1>1. Placed /\ Taken /\ SetsUnmixed => FilesUnmixed
  BY AllFiles, ArraysTaken DEF FilesUnmixed
<1>2. /\ RunInv /\ Placed /\ Taken /\ [Next]_vars => (RunInv /\ Placed /\ Taken)'
      /\ Init => RunInv /\ Placed /\ Taken
  BY RunNext, PlacedNext, TakenNext, RunInit, PlacedInit, TakenInit
<1>3. Placed /\ Taken /\ SetsUnmixed => AcceptedIsUnmixed
  BY <1>1 DEF AcceptedIsUnmixed
<1> QED
  BY <1>2, <1>3, ParserSetsUnmixed, PTL DEF Spec

-----------------------------------------------------------------------------
(* The shape of every variable.                                             *)

LEMMA Joined ==
  ASSUME NEW S, NEW A \in Seq(S), NEW B \in Seq(S), NEW n \in Nat, Len(A) = n, Len(B) = 2
  PROVE  A \o B \in Seq(S) /\ Len(A \o B) = n + 2
<1>1. A \o B \in Seq(S) /\ Len(A \o B) = Len(A) + Len(B)
  BY ConcatProperties
<1> QED
  BY <1>1

LEMMA FourPairs ==
  ASSUME NEW S, NEW A \in Seq(S), NEW B \in Seq(S), NEW C \in Seq(S), NEW D \in Seq(S),
         Len(A) = 2, Len(B) = 2, Len(C) = 2, Len(D) = 2
  PROVE  Len(A \o B \o C \o D) = 8
<1>1. A \o B \in Seq(S) /\ Len(A \o B) = 2 + 2
  BY Joined
<1>2. (A \o B) \o C \in Seq(S) /\ Len((A \o B) \o C) = 4 + 2
  BY <1>1, Joined
<1>3. Len(((A \o B) \o C) \o D) = 6 + 2
  BY <1>2, Joined
<1> QED
  BY <1>3

LEMMA EightScenarios == Len(ScenarioTable) = 8
<1> DEFINE P(set_, from_, to_) ==
             <<[set |-> set_, from |-> from_, to |-> to_, split |-> FALSE],
               [set |-> set_, from |-> from_, to |-> to_, split |-> TRUE]>>
           A == P("rgb", "RGB888", "YUV420P")
           B == P("yuv", "YUV420P", "RGB888")
           C == P("raw", "RAW8", "RGB888")
           D == P("raw", "RAW8", "YUV420P")
           S == {A[1], A[2], B[1], B[2], C[1], C[2], D[1], D[2]}
<1>1. /\ A \in Seq(S) /\ B \in Seq(S) /\ C \in Seq(S) /\ D \in Seq(S)
      /\ Len(A) = 2 /\ Len(B) = 2 /\ Len(C) = 2 /\ Len(D) = 2
  OBVIOUS
<1>2. ScenarioTable = A \o B \o C \o D
  BY DEF ScenarioTable
<1> HIDE DEF A, B, C, D, S
<1> QED
  BY <1>1, <1>2, FourPairs

Shape ==
    /\ parsing \in {"read", "count", "set", "frame", "loaded", "rejected"}
    /\ command \in 0 .. 9 /\ scen \in 0 .. 8 /\ failed \in 0 .. 8
    /\ pc = "parse" => scen = 0 /\ failed = 0
    /\ pc \in {"find", "pools", "end"} \cup Running => 1 <= scen /\ failed < scen
    /\ set \in 0 .. Len(sets) /\ (pc = "parse" => set = 0) /\ Len(sets) \in Nat
    /\ unit \in 0 .. 4
    /\ pc \in {"end", "done", "aborted"} => fb = NoHand /\ queue = << << >>, << >> >>
    /\ pc \in {"get", "process", "send"} =>
          index[1] = IF pc = "get" /\ unit = 1 THEN turn ELSE turn + 1

LEMMA ShapeInit == Init => Shape
<1> SUFFICES ASSUME Init
             PROVE  Shape
  OBVIOUS
<1>1. command \in 0 .. 9
  BY EightScenarios, ScenarioAssumption DEF Init, UnknownFlag
<1>2. Len(sets) = 0 /\ parsing = "read"
  BY NoneSeq DEF Init, ParserInit
<1> QED
  BY <1>1, <1>2 DEF Init, Shape, Running

LEMMA ShapeNext ==
  ASSUME RunInv, WrittenInv, Placed, Shape, [Next]_vars
  PROVE  Shape'
<1>1. CASE RefuseFlag
  BY <1>1 DEF RefuseFlag, parserVars, unitVars, Shape, RunInv, FrameAt, Running
<1>2. CASE Parse
  <2>1. /\ pc = "parse" /\ UNCHANGED <<command, set, unit, fb, queue>> /\ command # UnknownFlag
        /\ pc' \in {"find", "done", "parse"} /\ set = 0
        /\ fb = NoHand /\ queue = << << >>, << >> >> /\ scen = 0 /\ failed = 0
    BY <1>2 DEF Parse, unitVars, RunInv, FrameAt, Shape
  <2>2. /\ pc' = "find" => scen' = IF command = 0 THEN 1 ELSE command
        /\ pc' # "find" => UNCHANGED scen
        /\ failed' = IF parsing' = "rejected" THEN 1 ELSE failed
        /\ pc' # "done" => parsing' # "rejected"
    BY <1>2 DEF Parse
  <2>3. command \in 0 .. 8
    BY <2>1, EightScenarios DEF Shape, UnknownFlag
  <2>4. Memory'
    BY <1>2, ParserKeepsMemory DEF Parse, RunInv, Held0
  <2>5. set' \in 0 .. Len(sets') /\ parsing' \in {"read", "count", "set", "frame", "loaded", "rejected"}
    BY <2>1, <2>4, IsSeqFacts DEF Memory
  <2>6. /\ scen' \in 0 .. 8 /\ failed' \in {0, 1} /\ (pc' = "find" => scen' >= 1 /\ failed' = 0)
        /\ (pc' = "parse" => scen' = 0 /\ failed' = 0)
    BY <2>1, <2>2, <2>3
  <2>7. failed' \in 0 .. 8
    BY <2>6
  <2> QED
    BY <2>1, <2>5, <2>6, <2>7 DEF Shape, Running
<1>3. CASE UNCHANGED <<parserVars, command, scen, failed>> /\ pc \in {"find", "pools"} \cup Running
  <2>1. UNCHANGED <<sets, parsing>>
    BY <1>3 DEF parserVars
  <2>2. /\ parsing' \in {"read", "count", "set", "frame", "loaded", "rejected"}
        /\ command' \in 0 .. 9 /\ scen' \in 0 .. 8 /\ failed' \in 0 .. 8
        /\ 1 <= scen' /\ failed' < scen'
    BY <1>3, <2>1 DEF Shape
  <2>3. ASSUME set' \in 0 .. Len(sets'), unit' \in 0 .. 4, pc' # "parse",
               pc' \in {"end", "done", "aborted"} => fb' = NoHand /\ queue' = << << >>, << >> >>,
               pc' \in {"get", "process", "send"} =>
                 index'[1] = IF pc' = "get" /\ unit' = 1 THEN turn' ELSE turn' + 1
        PROVE  Shape'
    BY <2>2, <2>3 DEF Shape
  <2>4. set \in 0 .. Len(sets) /\ unit \in 0 .. 4
    BY DEF Shape
  <2>5. CASE FindSet
    <3>1. /\ pc = "find" /\ pc' \in {"pools", "end"} /\ UNCHANGED <<unit, fb, queue>>
      BY <2>5 DEF FindSet, unitVars
    <3>2. fb = NoHand /\ queue = << << >>, << >> >>
      BY <3>1 DEF RunInv, FrameAt
    <3>3. set' \in 0 .. Len(sets')
      <4>1. CASE UNCHANGED set
        BY <2>1, <2>4, <4>1
      <4>2. CASE pc' = "pools"
        <5>1. WrittenInv'
          BY <2>5, BeforeWritten
        <5>2. set' \in 1 .. Len(sets')
          BY <4>2, <5>1 DEF WrittenInv
        <5> QED
          BY <5>2
      <4> QED
        BY <2>5, <4>1, <4>2 DEF FindSet
    <3> QED
      BY <2>3, <2>4, <3>1, <3>2, <3>3
  <2>6. CASE InitPools \/ CreateFails \/ CreateUnit
    <3>1. /\ pc \in {"pools", "create"} /\ UNCHANGED <<set, fb, queue, turn, index>>
          /\ pc' \in {"create", "end", "unwind", "get"}
      BY <2>6 DEF InitPools, CreateFails, CreateUnit, unitVars, runVars
    <3>2. pc = "create" => unit \in 1 .. 3
      BY DEF RunInv, Streams
    <3>3. unit' \in 0 .. 4 /\ (pc' = "get" => unit' = 1)
      BY <2>4, <2>6, <3>2 DEF InitPools, CreateFails, CreateUnit
    <3>4. pc' = "end" => fb = NoHand /\ queue = << << >>, << >> >>
      <4>1. pc' = "end" => pc = "pools"
        BY <2>6 DEF InitPools, CreateFails, CreateUnit
      <4> QED
        BY <4>1 DEF RunInv, FrameAt
    <3>5. index[1] = turn
      BY <3>1 DEF WrittenInv, Fresh
    <3> QED
      BY <2>1, <2>3, <2>4, <3>1, <3>3, <3>4, <3>5
  <2>7. CASE FileInGet
    <3>1. /\ pc = "get" /\ unit = 1 /\ UNCHANGED set
          /\ \/ Fails
             \/ index' = [index EXCEPT ![1] = @ + 1] /\ Goto(1, "send")
      BY <2>7 DEF FileInGet
    <3>2. index \in [1 .. 2 -> Nat] /\ index[1] = turn
      BY <3>1 DEF WrittenInv, InLoop, Shape
    <3>3. /\ unit' = 1 /\ pc' \in {"destroy", "send"}
          /\ pc' = "send" => UNCHANGED turn /\ index'[1] = turn + 1
      BY <3>1, <3>2 DEF Fails, Goto
    <3> QED
      BY <2>1, <2>3, <2>4, <3>1, <3>3
  <2>8. CASE FileInSend \/ ConversionGet \/ ConversionProcess \/ ConversionSend \/ FileOutGet
    <3>1. /\ UNCHANGED <<set, index, turn>> /\ unit' \in {2, 3} /\ pc' \in {"get", "process", "send"}
          /\ pc \in {"get", "process", "send"} /\ (pc = "get" => unit # 1)
      BY <2>8 DEF FileInSend, ConversionGet, ConversionProcess, ConversionSend, FileOutGet, Goto
    <3>2. index[1] = turn + 1
      BY <3>1 DEF Shape
    <3> QED
      BY <2>1, <2>3, <2>4, <3>1, <3>2
  <2>9. CASE FileOutSend
    <3>1. pc = "send" /\ unit = 3 /\ UNCHANGED set
      BY <2>9 DEF FileOutSend
    <3>2. index[1] = turn + 1 /\ index \in [1 .. 2 -> Nat]
      BY <3>1 DEF Shape, WrittenInv, InLoop
    <3>3. UNCHANGED index \/ index' = [index EXCEPT ![2] = @ + 1]
      BY <2>9 DEF FileOutSend
    <3>4. index'[1] = turn + 1
      BY <3>2, <3>3
    <3>5. /\ unit' = 1 /\ pc' \in {"get", "destroy"}
          /\ pc' = "get" => turn' = turn + 1
      <4>1. \/ Fails
            \/ \E files, path : Write(files, path)
        BY <2>9 DEF FileOutSend
      <4> QED
        BY <4>1 DEF Fails, Write
    <3> QED
      BY <2>1, <2>3, <2>4, <3>1, <3>4, <3>5
  <2>10. CASE DestroyUnit \/ CloseTwice \/ DeinitPools
    <3>1. /\ pc \in {"destroy", "unwind"} /\ UNCHANGED <<set, queue>>
          /\ pc' \in {"destroy", "unwind", "end", "aborted"}
          /\ pc' \in {"end", "aborted"} => UNCHANGED <<fb, unit>>
          /\ unit' = unit \/ (unit \in 1 .. 3 /\ unit' \in {unit - 1, unit + 1})
      BY <2>10 DEF DestroyUnit, CloseTwice, DeinitPools, runVars, unitVars
    <3>2. fb = NoHand /\ queue = << << >>, << >> >>
      <4>1. FrameAt
        BY DEF RunInv
      <4>2. Nothing
        BY <3>1, <4>1 DEF FrameAt
      <4> QED
        BY <4>2 DEF Nothing, Frame
    <3>3. unit' \in 0 .. 4
      BY <2>4, <3>1
    <3> QED
      BY <2>1, <2>3, <2>4, <3>1, <3>2, <3>3
  <2>11. CASE UNCHANGED vars
    BY <2>1, <2>11 DEF Shape, vars, runVars, unitVars, parserVars
  <2>12. CASE RefuseFlag \/ Parse \/ EndScenario
    BY <1>3, <2>12 DEF RefuseFlag, Parse, EndScenario, Running
  <2> QED
    BY <2>5, <2>6, <2>7, <2>8, <2>9, <2>10, <2>11, <2>12 DEF Next, Returned
<1>4. CASE EndScenario
  <2>1. /\ pc = "end" /\ UNCHANGED <<command, sets, parsing>> /\ set' = 0 /\ unit' = 0
        /\ fb' = NoHand /\ queue' = << << >>, << >> >>
        /\ failed' = IF err THEN failed + 1 ELSE failed
        /\ \/ pc' = "find" /\ scen' = scen + 1 /\ scen < 8
           \/ pc' = "done" /\ UNCHANGED scen
    BY <1>4, EightScenarios DEF EndScenario, FreeConfig, parserVars, NoHand
  <2>2. /\ scen \in 1 .. 8 /\ failed \in 0 .. 7 /\ failed < scen /\ command \in 0 .. 9
        /\ parsing \in {"read", "count", "set", "frame", "loaded", "rejected"}
    BY <2>1 DEF Shape
  <2>3. set' \in 0 .. Len(sets') /\ unit' \in 0 .. 4
    BY <2>1 DEF Shape
  <2>4. scen' \in 0 .. 8 /\ failed' \in 0 .. 8 /\ (pc' = "find" => 1 <= scen' /\ failed' < scen')
    BY <2>1, <2>2
  <2> QED
    BY <2>1, <2>2, <2>3, <2>4 DEF Shape, Running
<1>5. CASE pc \in {"done", "aborted"} /\ UNCHANGED vars
  BY <1>5 DEF Shape, vars, runVars, unitVars, parserVars
<1>6. CASE UNCHANGED vars
  BY <1>6 DEF Shape, vars, runVars, unitVars, parserVars
<1> QED
  BY <1>1, <1>2, <1>3, <1>4, <1>5, <1>6 DEF Next, Returned, FindSet, InitPools, CreateUnit,
     CreateFails, FileInGet, FileInSend, ConversionGet, ConversionProcess, ConversionSend,
     FileOutGet, FileOutSend, DestroyUnit, CloseTwice, DeinitPools, Running, runVars

\* Wherever the frame is, hands and queues hold slots.
LEMMA ShapeOfFrame ==
  ASSUME RunInv, Shape
  PROVE  /\ fb \in [1 .. 4 -> Slots \cup {NoSlot}]
         /\ queue[1] \in Seq(Slots) /\ queue[2] \in Seq(Slots)
<1>1. << >> \in Seq(Slots) /\ \A s \in Slots : <<s>> \in Seq(Slots)
  OBVIOUS
<1>2. /\ NoHand \in [1 .. 4 -> Slots \cup {NoSlot}]
      /\ \A h \in 1 .. 4 : \A s \in Slots : InHand(h, s) \in [1 .. 4 -> Slots \cup {NoSlot}]
      /\ \A s, t \in Slots :
            [InHand(InFb, s) EXCEPT ![OutFb] = t] \in [1 .. 4 -> Slots \cup {NoSlot}]
  BY DEF NoHand, InHand, InFb, OutFb
<1>3. ASSUME fb = NoHand, queue = << << >>, << >> >>
      PROVE  /\ fb \in [1 .. 4 -> Slots \cup {NoSlot}]
             /\ queue[1] \in Seq(Slots) /\ queue[2] \in Seq(Slots)
  BY <1>1, <1>2, <1>3
<1>4. ASSUME NEW u1, NEW u2, NEW hands \in [1 .. 4 -> Slots \cup {NoSlot}],
             NEW q1 \in Seq(Slots), NEW q2 \in Seq(Slots), Frame(u1, u2, hands, q1, q2)
      PROVE  /\ fb \in [1 .. 4 -> Slots \cup {NoSlot}]
             /\ queue[1] \in Seq(Slots) /\ queue[2] \in Seq(Slots)
  BY <1>4 DEF Frame
<1>5. FrameAt
  BY DEF RunInv
<1>6. CASE pc \in {"parse", "find", "pools", "end", "done", "aborted"}
  BY <1>3, <1>5, <1>6 DEF FrameAt, Shape
<1>7. CASE pc \in {"create", "unwind", "destroy"} \/ (pc = "get" /\ unit = 1)
  <2>1. Nothing
    BY <1>5, <1>7 DEF FrameAt
  <2> QED
    BY <1>3, <2>1 DEF Nothing, Frame
<1>8. CASE pc = "send" /\ unit = 1
  <2>1. PICK s \in Slots : Frame({s}, {}, InHand(In, s), << >>, << >>)
    BY <1>5, <1>8 DEF FrameAt
  <2>2. InHand(In, s) \in [1 .. 4 -> Slots \cup {NoSlot}]
    BY DEF InHand, In
  <2> QED
    BY <1>1, <1>4, <2>1, <2>2
<1>9. CASE pc = "get" /\ unit = 2
  <2>1. PICK s \in Slots : Frame({s}, {}, NoHand, <<s>>, << >>)
    BY <1>5, <1>9 DEF FrameAt
  <2> QED
    BY <1>1, <1>2, <1>4, <2>1
<1>10. CASE pc = "process"
  <2>1. PICK s \in Slots : Frame({s}, {}, InHand(InFb, s), << >>, << >>)
    BY <1>5, <1>10 DEF FrameAt
  <2>2. InHand(InFb, s) \in [1 .. 4 -> Slots \cup {NoSlot}]
    BY DEF InHand, InFb
  <2> QED
    BY <1>1, <1>4, <2>1, <2>2
<1>11. CASE pc = "send" /\ unit = 2
  <2>1. BothHands
    BY <1>5, <1>11 DEF FrameAt
  <2>2. PICK s, t \in Slots :
           Frame({s}, {t}, [InHand(InFb, s) EXCEPT ![OutFb] = t], << >>, << >>)
    BY <2>1 DEF BothHands
  <2> QED
    BY <1>1, <1>2, <1>4, <2>2
<1>12. CASE pc = "get" /\ unit = 3
  <2>1. PICK t \in Slots : Frame({}, {t}, NoHand, << >>, <<t>>)
    BY <1>5, <1>12 DEF FrameAt
  <2> QED
    BY <1>1, <1>2, <1>4, <2>1
<1>13. CASE pc = "send" /\ unit = 3
  <2>1. PICK t \in Slots : Frame({}, {t}, InHand(Out, t), << >>, << >>)
    BY <1>5, <1>13 DEF FrameAt
  <2>2. InHand(Out, t) \in [1 .. 4 -> Slots \cup {NoSlot}]
    BY DEF InHand, Out
  <2> QED
    BY <1>1, <1>4, <2>1, <2>2
<1>14. /\ pc \in {"parse", "find", "pools", "end", "done", "aborted"} \cup Running
       /\ pc \in {"get", "send"} => unit \in {1, 2, 3}
  BY <1>5 DEF RunInv, Held0, FrameAt
<1> QED
  BY <1>6, <1>7, <1>8, <1>9, <1>10, <1>11, <1>12, <1>13, <1>14 DEF Running

\* Type correctness, for every text and every number of slots and of frames:
\* the hands and the queues hold slots, what vf_file_unit_get_data and
\* vf_file_unit_send_data index is a frame of the set, and the parser writes no
\* more sets than it has allocated.
THEOREM FilesTypeOK == Spec => []TypeOK
<1>1. RunInv /\ WrittenInv /\ Placed /\ Shape => TypeOK
  <2> SUFFICES ASSUME RunInv, WrittenInv, Placed, Shape
               PROVE  TypeOK
    OBVIOUS
  <2>1. /\ parsing \in {"read", "count", "set", "frame", "loaded", "rejected"}
        /\ scen \in 0 .. Len(ScenarioTable) /\ failed \in 0 .. Len(ScenarioTable)
        /\ set \in 0 .. Len(sets) /\ unit \in 0 .. 4
    BY EightScenarios DEF Shape
  <2>2. cursor \in 1 .. Len(text) + 1 /\ Len(sets) <= todo
    BY DEF Placed
  <2>3. pc \in {"parse", "find", "pools", "create", "unwind", "get", "process", "send",
                "destroy", "end", "done", "aborted"}
    BY DEF RunInv, Held0, Running
  <2>4. blocks \in 0 .. 3 + Len(sets)
    <3>1. Len(sets) \in Nat
      BY DEF Shape
    <3> QED
      BY <3>1 DEF RunInv, Held0, Memory
  <2>5. fb \in [1 .. 4 -> Slots \cup {NoSlot}] /\ queue[1] \in Seq(Slots) /\ queue[2] \in Seq(Slots)
    BY ShapeOfFrame
  <2>6. stream[1] \in {Shut, Opened, Gone} /\ stream[2] \in {Shut, Opened, Gone}
    BY DEF RunInv, Streams
  <2>7. (pc = "get" /\ unit = 1) \/ (pc = "send" /\ unit = 3) =>
          turn \in 1 .. Len(Frames) /\ index[2] = turn
    BY DEF WrittenInv, InLoop, Count
  <2>8. pc = "get" /\ unit = 1 => index[1] = turn
    BY DEF Shape
  <2> QED
    BY <2>1, <2>2, <2>3, <2>4, <2>5, <2>6, <2>7, <2>8 DEF TypeOK
<1>2. /\ RunInv /\ WrittenInv /\ Placed /\ Shape /\ [Next]_vars
         => (RunInv /\ WrittenInv /\ Placed /\ Shape)'
      /\ Init => RunInv /\ WrittenInv /\ Placed /\ Shape
  BY RunNext, WrittenNext, PlacedNext, ShapeNext, RunInit, WrittenInit, PlacedInit, ShapeInit
<1> QED
  BY <1>1, <1>2, PTL DEF Spec

-----------------------------------------------------------------------------
(* What the images are.                                                     *)

\* What a configuration gives is of the texts that are tried, and the frames
\* of its sets have the sizes of images.
AFrame(r) == r.file \in Names /\ r.width \in Nat /\ r.height \in Nat

Sized ==
    /\ \A i \in 1 .. Len(text) : text[i].number \in Int /\ text[i].value \in Names
    /\ \A i \in 1 .. Len(sets) :
          /\ "frames" \in DOMAIN sets[i]
          /\ \A f \in 1 .. Len(sets[i].frames) : AFrame(sets[i].frames[f])

LEMMA TextSized ==
  ASSUME NEW t \in Texts
  PROVE  LET u == SubSeq(t, 1, Least({Len(t), MaxText}))
         IN  \A i \in 1 .. Len(u) : u[i].number \in Int /\ u[i].value \in Names
<1>1. /\ t \in Seq({t[i] : i \in DOMAIN t}) /\ MaxText \in Nat
      /\ \A i \in DOMAIN t : t[i].number \in Int
  BY ParserAssumption
<1>2. Len(t) \in Nat /\ DOMAIN t = 1 .. Len(t)
  BY <1>1, LenProperties
<1> DEFINE n == Least({Len(t), MaxText})
<1>3. n \in Nat /\ n <= Len(t)
  BY <1>1, <1>2, LeastFacts
<1> HIDE DEF n
<1>4. \A i \in 1 .. n : t[i].number \in Int /\ t[i].value \in Names
  <2> TAKE i \in 1 .. n
  <2>1. i \in DOMAIN t
    <3>1. PICK l \in Nat : l = Len(t)
      BY <1>2
    <3>2. i \in 1 .. l
      BY <1>3, <3>1
    <3> QED
      BY <1>2, <3>1, <3>2
  <2>2. t[i].value \in Names
    BY <2>1 DEF Names
  <2> QED
    BY <1>1, <2>1, <2>2
<1>5. /\ Len(SubSeq(t, 1, n)) = n
      /\ \A i \in 1 .. n : SubSeq(t, 1, n)[i] = t[i]
  <2>1. \A i \in 1 .. n : t[i] \in {t[j] : j \in DOMAIN t}
    <3> TAKE i \in 1 .. n
    <3>1. PICK l \in Nat : l = Len(t)
      BY <1>2
    <3>2. i \in 1 .. l
      BY <1>3, <3>1
    <3>3. i \in DOMAIN t
      BY <1>2, <3>1, <3>2
    <3> QED
      BY <3>3
  <2> QED
    BY <1>3, <2>1, SubSeqProperties
<1> QED
  BY <1>4, <1>5 DEF n

\* The parser takes a size that is a positive number, and a name of the text.
LEMMA ParserSized ==
  ASSUME Memory, Placed, Sized, ParserNext
  PROVE  Sized'
<1>0. IsSeq(sets) /\ Len(sets) \in Nat /\ Len(text) \in Nat
  BY IsSeqFacts DEF Memory, Placed
<1>1. CASE UNCHANGED <<text, sets>>
  BY <1>1 DEF Sized
<1>2. CASE ReadConfig
  <2>1. CASE Reject(0)
    BY <1>1, <2>1 DEF Reject
  <2>2. CASE ~Reject(0)
    <3>1. PICK t \in Texts : text' = SubSeq(t, 1, Least({Len(t), MaxText}))
      BY <1>2, <2>2 DEF ReadConfig
    <3>2. UNCHANGED sets
      BY <1>2, <2>2 DEF ReadConfig
    <3>3. \A i \in 1 .. Len(text') : text'[i].number \in Int /\ text'[i].value \in Names
      BY <3>1, TextSized
    <3> QED
      BY <3>2, <3>3 DEF Sized
  <2> QED
    BY <2>1, <2>2
<1>3. CASE CountSets
  BY <1>1, <1>3 DEF CountSets, Reject
<1>4. CASE ParseSet
  <2>1. CASE Reject(3 + Len(sets))
    BY <1>1, <2>1 DEF Reject
  <2>2. CASE ~Reject(3 + Len(sets))
    <3>1. PICK a, b : sets' = Append(sets, [name |-> a, at |-> b, frames |-> << >>])
      BY <1>4, <2>2 DEF ParseSet
    <3>2. UNCHANGED text
      BY <1>4, <2>2 DEF ParseSet
    <3> DEFINE e == [name |-> a, at |-> b, frames |-> << >>]
    <3>3. "frames" \in DOMAIN e /\ Len(e.frames) = 0
      OBVIOUS
    <3>4. /\ Len(sets') = Len(sets) + 1 /\ sets'[Len(sets) + 1] = e
          /\ \A i \in 1 .. Len(sets) : sets'[i] = sets[i]
      <4>1. sets' = Append(sets, e)
        BY <3>1
      <4> HIDE DEF e
      <4> QED
        BY <1>0, <4>1, AppendAny
    <3> HIDE DEF e
    <3>5. ASSUME NEW i \in 1 .. Len(sets')
          PROVE  /\ "frames" \in DOMAIN sets'[i]
                 /\ \A f \in 1 .. Len(sets'[i].frames) : AFrame(sets'[i].frames[f])
      <4>1. CASE i \in 1 .. Len(sets)
        BY <3>4, <4>1 DEF Sized
      <4>2. CASE i = Len(sets) + 1
        BY <3>3, <3>4, <4>2
      <4> QED
        BY <1>0, <3>4, <4>1, <4>2
    <3> QED
      BY <3>2, <3>5 DEF Sized
  <2> QED
    BY <2>1, <2>2
<1>5. CASE ParseFrame
  <2>1. CASE Reject(3 + Len(sets))
    BY <1>1, <2>1 DEF Reject
  <2>2. CASE ~Reject(3 + Len(sets))
    <3>1. PICK file, width, height :
            file = Find("file", cursor) /\ width = Find("width", file) /\ height = Find("height", width)
      OBVIOUS
    <3> DEFINE x == [file |-> text[file].value, width |-> text[width].number,
                     height |-> text[height].number, at |-> <<file, width, height>>]
    <3>2. /\ height # 0 /\ x.width > 0 /\ x.height > 0 /\ UNCHANGED text
          /\ sets' = [sets EXCEPT ![Len(sets)].frames = Append(@, x)]
      BY <1>5, <2>2, <3>1 DEF ParseFrame
    <3>3. file \in 1 .. Len(text) /\ width \in 1 .. Len(text) /\ height \in 1 .. Len(text)
      <4>0. cursor \in 1 .. Len(text) + 1
        BY DEF Placed
      <4>1. /\ file # 0 => file \in cursor .. Len(text)
            /\ file \in Nat => (width # 0 => file # 0 /\ width \in file .. Len(text))
            /\ width \in Nat => (height # 0 => width # 0 /\ height \in width .. Len(text))
        BY <1>0, <3>1, <4>0, FindFacts
      <4>2. file \in Nat
        BY <1>0, <4>0, <4>1
      <4>3. width \in Nat
        BY <1>0, <4>1, <4>2
      <4>4. height \in width .. Len(text) /\ width # 0
        BY <3>2, <4>1, <4>3
      <4>5. width \in file .. Len(text) /\ file # 0
        BY <4>1, <4>2, <4>4
      <4>6. file \in cursor .. Len(text)
        BY <4>1, <4>5
      <4> HIDE DEF x
      <4> QED
        BY <1>0, <4>0, <4>2, <4>3, <4>4, <4>5, <4>6
    <3>4. AFrame(x)
      <4>1. /\ x.file = text[file].value /\ x.width = text[width].number
            /\ x.height = text[height].number
        OBVIOUS
      <4> HIDE DEF x
      <4>2. x.file \in Names /\ x.width \in Int /\ x.height \in Int
        BY <3>3, <4>1 DEF Sized
      <4>3. x.width > 0 /\ x.height > 0
        BY <3>2
      <4> QED
        BY <4>2, <4>3 DEF AFrame
    <3> DEFINE n == Len(sets)
               r == sets[n]
               e == [r EXCEPT !.frames = Append(@, x)]
    <3> HIDE DEF x
    <3>5. n \in 1 .. n /\ ASet(r, text, cursor)
      BY <1>0, <1>5 DEF Placed, Memory, ParseFrame
    <3>6. "frames" \in DOMAIN e /\ e.frames = Append(r.frames, x)
      BY <3>5 DEF ASet
    <3>7. sets' = [sets EXCEPT ![n] = e]
      BY <3>2
    <3> HIDE DEF e
    <3>8. /\ Len(sets') = n /\ sets'[n] = e
          /\ \A i \in 1 .. n : i # n => sets'[i] = sets[i]
      BY <1>0, <3>5, <3>7, ExceptAny
    <3>9. /\ Len(e.frames) = Len(r.frames) + 1 /\ Len(r.frames) \in Nat
          /\ e.frames[Len(r.frames) + 1] = x
          /\ \A f \in 1 .. Len(r.frames) : e.frames[f] = r.frames[f]
      BY <3>5, <3>6, AppendAny, IsSeqFacts DEF ASet
    <3>10. \A f \in 1 .. Len(e.frames) : AFrame(e.frames[f])
      <4> TAKE f \in 1 .. Len(e.frames)
      <4>1. CASE f \in 1 .. Len(r.frames)
        BY <3>5, <3>9, <4>1 DEF Sized
      <4>2. CASE f = Len(r.frames) + 1
        BY <3>4, <3>9, <4>2
      <4> QED
        BY <3>9, <4>1, <4>2
    <3>11. ASSUME NEW i \in 1 .. Len(sets')
           PROVE  /\ "frames" \in DOMAIN sets'[i]
                  /\ \A f \in 1 .. Len(sets'[i].frames) : AFrame(sets'[i].frames[f])
      <4>1. CASE i = n
        BY <3>6, <3>8, <3>10, <4>1
      <4>2. CASE i # n
        BY <3>8, <4>2 DEF Sized
      <4> QED
        BY <4>1, <4>2
    <3> QED
      BY <3>2, <3>11 DEF Sized
  <2> QED
    BY <2>1, <2>2
<1> QED
  BY <1>2, <1>3, <1>4, <1>5 DEF ParserNext

LEMMA SizedInit == Init => Sized
<1> SUFFICES ASSUME Init
             PROVE  Sized
  OBVIOUS
<1>1. Len(text) = 0 /\ Len(sets) = 0
  BY NoneSeq DEF Init, ParserInit
<1> QED
  BY <1>1 DEF Sized

LEMMA SizedNext == RunInv /\ Placed /\ Sized /\ [Next]_vars => Sized'
<1> SUFFICES ASSUME RunInv, Placed, Sized, [Next]_vars
             PROVE  Sized'
  OBVIOUS
<1>1. CASE Parse
  <2>1. ParserNext /\ Memory
    BY <1>1 DEF Parse, RunInv, Held0
  <2> QED
    BY <2>1, ParserSized
<1>2. CASE UNCHANGED <<text, sets>>
  BY <1>2 DEF Sized
<1> QED
  BY <1>1, <1>2 DEF Next, Returned, RefuseFlag, FindSet, InitPools, CreateUnit, CreateFails,
     FileInGet, FileInSend, ConversionGet, ConversionProcess, ConversionSend, FileOutGet,
     FileOutSend, DestroyUnit, CloseTwice, DeinitPools, EndScenario, FreeConfig, vars, parserVars

\* The slots of both pools have room for the scenario's images.
Roomy == \A i \in Slots :
            /\ DOMAIN pool[1][i].data = 0 .. TotalSize(InPlanes) - 1
            /\ DOMAIN pool[2][i].data = 0 .. TotalSize(OutPlanes) - 1

\* An image is a file converted, and a slot holds a file or an image of it, as
\* far as the formats have room for images of this size.
Fitting == Fits(This.from, Width, Height) /\ Fits(This.to, Width, Height)

Converts(file, image) ==
    Fitting => FileConverted(This.from, This.to, Width, Height, file, image)

HoldsFile(i) ==
    \A k \in 0 .. FileSize(InPlanes) - 1 :
        /\ FileBytes(turn)[k] \in Byte
        /\ pool[1][i].data[InBuffer(InPlanes, k)] = FileBytes(turn)[k]

HoldsImage(i) == Converts(FileBytes(turn), WriteToFile(OutPlanes, pool[2][i].data))

\* The frame on its way through the pipeline is this turn's.
Contents ==
    /\ pc = "send" /\ unit = 1 => HoldsFile(fb[In])
    /\ pc = "get" /\ unit = 2  => HoldsFile(queue[1][1])
    /\ pc = "process"          => HoldsFile(fb[InFb])
    /\ pc = "send" /\ unit = 2 => HoldsImage(fb[OutFb])
    /\ pc = "get" /\ unit = 3  => HoldsImage(queue[2][1])
    /\ pc = "send" /\ unit = 3 => HoldsImage(fb[Out])

DiskConverted == \A f \in 1 .. Count : OnDisk(f) => Converts(FileBytes(f), Image(f))

ImagesInv ==
    /\ pc \in Running => Roomy /\ Contents
    /\ pc \in Running \cup {"end"} /\ set # 0 => DiskConverted

\* The formats of a scenario, and the size of its set.
LEMMA TableFormats ==
  \A n \in 1 .. 8 : <<ScenarioTable[n].from, ScenarioTable[n].to>> \in FilePairs
<1> DEFINE P(set_, from_, to_) ==
             <<[set |-> set_, from |-> from_, to |-> to_, split |-> FALSE],
               [set |-> set_, from |-> from_, to |-> to_, split |-> TRUE]>>
           A == P("rgb", "RGB888", "YUV420P")
           B == P("yuv", "YUV420P", "RGB888")
           C == P("raw", "RAW8", "RGB888")
           D == P("raw", "RAW8", "YUV420P")
           S == {A[1], A[2], B[1], B[2], C[1], C[2], D[1], D[2]}
<1>1. /\ A \in Seq(S) /\ B \in Seq(S) /\ C \in Seq(S) /\ D \in Seq(S)
  OBVIOUS
<1>2. \A r \in S : <<r.from, r.to>> \in FilePairs
  BY DEF FilePairs
<1>3. ScenarioTable = A \o B \o C \o D
  BY DEF ScenarioTable
<1> HIDE DEF A, B, C, D, S
<1>4. A \o B \in Seq(S)
  BY <1>1, ConcatProperties
<1>5. (A \o B) \o C \in Seq(S)
  BY <1>1, <1>4, ConcatProperties
<1>6. ScenarioTable \in Seq(S)
  BY <1>1, <1>3, <1>5, ConcatProperties
<1>7. \A n \in 1 .. 8 : ScenarioTable[n] \in S
  <2>1. \A n \in 1 .. Len(ScenarioTable) : ScenarioTable[n] \in S
    BY <1>6, ElementOfSeq
  <2> QED
    BY <2>1, EightScenarios
<1> QED
  BY <1>2, <1>7

LEMMA ScenarioFacts ==
  ASSUME RunInv, WrittenInv, Sized, Shape, set \in 1 .. Len(sets),
         pc \in {"pools", "end"} \cup Running
  PROVE  /\ <<This.from, This.to>> \in FilePairs /\ Width \in Nat /\ Height \in Nat
         /\ WellFormed(InPlanes) /\ WellFormed(OutPlanes)
         /\ Count \in Nat /\ Count >= 1
         /\ \A f \in 1 .. Count : \A k \in DOMAIN FileBytes(f) : FileBytes(f)[k] \in Byte
<1>1. scen \in 1 .. 8
  BY DEF Shape
<1>2. <<This.from, This.to>> \in FilePairs
  BY <1>1, TableFormats DEF This
<1>3. Count \in Nat /\ Count >= 1
  BY CountFacts DEF Running
<1>4. \A f \in 1 .. Count : AFrame(Frames[f])
  BY DEF Sized, Frames, Count
<1>5. Width \in Nat /\ Height \in Nat
  BY <1>3, <1>4 DEF AFrame, Width, Height
<1>6. This.from \in Formats /\ This.to \in Formats
  BY <1>2 DEF FilePairs, Formats, Packed, Bpp
<1>7. WellFormed(InPlanes) /\ WellFormed(OutPlanes)
  BY <1>5, <1>6, PlanesWellFormed DEF InPlanes, OutPlanes
<1>8. \A f \in 1 .. Count : \A k \in DOMAIN FileBytes(f) : FileBytes(f)[k] \in Byte
  <2> TAKE f \in 1 .. Count
  <2>1. Frames[f].file \in Names
    BY <1>4 DEF AFrame
  <2>2. FileBytes(f) = ImageFile(ScenarioTable[scen].set, Frames[f].file)
    BY DEF FileBytes, This
  <2>3. scen \in 1 .. Len(ScenarioTable)
    BY <1>1, EightScenarios
  <2> QED
    BY <2>1, <2>2, <2>3, FilesAssumption
<1> QED
  BY <1>2, <1>3, <1>5, <1>7, <1>8

\* What depends on the scenario, its set and the turn.
LEMMA SameSizes ==
  ASSUME UNCHANGED <<scen, set, sets>>
  PROVE  /\ This' = This /\ Frames' = Frames /\ Count' = Count
         /\ Width' = Width /\ Height' = Height /\ InPlanes' = InPlanes /\ OutPlanes' = OutPlanes
         /\ \A f : FileBytes(f)' = FileBytes(f)
         /\ \A file, image : Converts(file, image)' <=> Converts(file, image)
<1>1. This' = This /\ Frames' = Frames /\ Count' = Count
  BY SameSet
<1>2. Width' = Width /\ Height' = Height
  BY <1>1 DEF Width, Height
<1>3. InPlanes' = InPlanes /\ OutPlanes' = OutPlanes
  BY <1>1, <1>2 DEF InPlanes, OutPlanes
<1>4. \A f : FileBytes(f)' = FileBytes(f)
  BY <1>1 DEF FileBytes
<1>5. \A file, image : Converts(file, image)' <=> Converts(file, image)
  BY <1>1, <1>2 DEF Converts, Fitting
<1> QED
  BY <1>1, <1>2, <1>3, <1>4, <1>5

LEMMA DiskStays ==
  ASSUME DiskConverted, UNCHANGED <<scen, set, sets, disk>>
  PROVE  DiskConverted'
<1>1. /\ This' = This /\ Frames' = Frames /\ Count' = Count
      /\ \A f : FileBytes(f)' = FileBytes(f)
      /\ \A file, image : Converts(file, image)' <=> Converts(file, image)
  BY SameSizes
<1>2. \A f : (OnDisk(f)' <=> OnDisk(f)) /\ Image(f)' = Image(f)
  BY <1>1 DEF OnDisk, Image, OutPath
<1> QED
  BY <1>1, <1>2 DEF DiskConverted

\* Nothing is on a disk of empty files.
LEMMA EmptyDisk ==
  ASSUME \A p \in DOMAIN disk' : Len(disk'[p]) = 0
  PROVE  DiskConverted'
BY DEF DiskConverted, OnDisk, Count

\* What the steps do to the contents of the slots.
SameData == \A p \in 1 .. 2 : \A i \in Slots : pool'[p][i].data = pool[p][i].data

LEMMA DataAcquiredIn ==
  ASSUME PoolsBuilt, DOMAIN pool = 1 .. 2, NEW s \in Slots, NEW d,
         pool' = [pool EXCEPT ![1][s] = [used |-> TRUE, data |-> d]]
  PROVE  /\ \A i \in Slots : pool'[1][i].data = IF i = s THEN d ELSE pool[1][i].data
         /\ pool'[2] = pool[2]
<1>1. IsPool(pool[1])
  BY DEF PoolsBuilt
<1>2. pool'[2] = pool[2] /\ pool'[1] = [pool[1] EXCEPT ![s] = [used |-> TRUE, data |-> d]]
  OBVIOUS
<1>3. /\ pool'[1][s] = [used |-> TRUE, data |-> d]
      /\ \A i \in Slots : i # s => pool'[1][i] = pool[1][i]
  BY <1>1, <1>2 DEF IsPool
<1> QED
  BY <1>2, <1>3

LEMMA DataAcquiredOut ==
  ASSUME PoolsBuilt, DOMAIN pool = 1 .. 2, NEW s \in Slots, NEW d,
         pool' = [pool EXCEPT ![2][s] = [used |-> TRUE, data |-> d]]
  PROVE  /\ \A i \in Slots : pool'[2][i].data = IF i = s THEN d ELSE pool[2][i].data
         /\ pool'[1] = pool[1]
<1>1. IsPool(pool[2])
  BY DEF PoolsBuilt
<1>2. pool'[1] = pool[1] /\ pool'[2] = [pool[2] EXCEPT ![s] = [used |-> TRUE, data |-> d]]
  OBVIOUS
<1>3. /\ pool'[2][s] = [used |-> TRUE, data |-> d]
      /\ \A i \in Slots : i # s => pool'[2][i] = pool[2][i]
  BY <1>1, <1>2 DEF IsPool
<1> QED
  BY <1>2, <1>3

LEMMA FreedData ==
  ASSUME NEW r, IsSlot(r)
  PROVE  [r EXCEPT !.used = FALSE].data = r.data
<1>1. PICK D : r \in [used : BOOLEAN, data : D]
  BY DEF IsSlot
<1> QED
  BY <1>1

LEMMA DataReleased ==
  ASSUME PoolsBuilt, DOMAIN pool = 1 .. 2, NEW s \in Slots,
         pool' = [pool EXCEPT ![1][s].used = FALSE]
  PROVE  SameData
<1>1. IsPool(pool[1]) /\ IsSlot(pool[1][s])
  BY DEF PoolsBuilt, IsPool
<1>2. pool'[2] = pool[2]
  OBVIOUS
<1> DEFINE r == pool[1][s]
           v == [r EXCEPT !.used = FALSE]
<1>3. v.data = r.data
  BY <1>1, FreedData
<1>4. pool'[1] = [pool[1] EXCEPT ![s] = v]
  OBVIOUS
<1> HIDE DEF v
<1>5. pool'[1][s] = v /\ \A i \in Slots : i # s => pool'[1][i] = pool[1][i]
  BY <1>1, <1>4 DEF IsPool
<1> QED
  BY <1>2, <1>3, <1>5 DEF SameData

LEMMA DataDropped ==
  ASSUME PoolsBuilt, NEW H, Drop(H)
  PROVE  SameData
<1> DEFINE G == [p \in 1 .. 2 |-> {i \in Slots : \E h \in H : PoolOf[h] = p /\ fb[h] = i}]
<1>1. pool' = [p \in 1 .. 2 |-> [i \in Slots |->
                 IF i \in G[p] THEN [pool[p][i] EXCEPT !.used = FALSE] ELSE pool[p][i]]]
  BY DEF Drop
<1> HIDE DEF G
<1>2. \A p \in 1 .. 2 : \A i \in Slots :
         pool'[p][i] = IF i \in G[p] THEN [pool[p][i] EXCEPT !.used = FALSE] ELSE pool[p][i]
  BY <1>1
<1>3. ASSUME NEW p \in 1 .. 2, NEW i \in Slots
      PROVE  pool'[p][i].data = pool[p][i].data
  <2> DEFINE r == pool[p][i]
             v == [r EXCEPT !.used = FALSE]
  <2>1. v.data = r.data
    BY FreedData DEF PoolsBuilt, IsPool
  <2>2. pool'[p][i] = IF i \in G[p] THEN v ELSE r
    BY <1>2
  <2> HIDE DEF v, r
  <2>3. pool'[p][i].data = r.data
    BY <2>1, <2>2
  <2> QED
    BY <2>3 DEF r
<1> QED
  BY <1>3 DEF SameData

LEMMA DataRoomy ==
  ASSUME Roomy, SameData, UNCHANGED <<scen, set, sets>>
  PROVE  Roomy'
<1>1. InPlanes' = InPlanes /\ OutPlanes' = OutPlanes
  BY SameSizes
<1> QED
  BY <1>1 DEF Roomy, SameData

LEMMA DataHeld ==
  ASSUME SameData, UNCHANGED <<scen, set, sets, turn>>, NEW i \in Slots
  PROVE  /\ HoldsFile(i) => HoldsFile(i)'
         /\ HoldsImage(i) => HoldsImage(i)'
<1>1. /\ InPlanes' = InPlanes /\ OutPlanes' = OutPlanes
      /\ \A f : FileBytes(f)' = FileBytes(f)
      /\ \A file, image : Converts(file, image)' <=> Converts(file, image)
  BY SameSizes
<1>2. FileBytes(turn)' = FileBytes(turn)
  BY <1>1 DEF FileBytes
<1>3. pool'[1][i].data = pool[1][i].data /\ pool'[2][i].data = pool[2][i].data
  BY DEF SameData
<1>4. HoldsFile(i) => HoldsFile(i)'
  BY <1>1, <1>2, <1>3 DEF HoldsFile
<1>5. HoldsImage(i) => HoldsImage(i)'
  BY <1>1, <1>2, <1>3 DEF HoldsImage
<1> QED
  BY <1>4, <1>5

\* What holds of the steps of a frame, and what their lemmas are to prove.
InFrame ==
    /\ RunInv /\ WrittenInv /\ Sized /\ Shape /\ ImagesInv
    /\ pc \in {"get", "process", "send"}

LEMMA FrameHas ==
  ASSUME InFrame
  PROVE  /\ PoolsBuilt /\ DOMAIN pool = 1 .. 2 /\ FrameAt
         /\ <<This.from, This.to>> \in FilePairs /\ Width \in Nat /\ Height \in Nat
         /\ WellFormed(InPlanes) /\ WellFormed(OutPlanes)
         /\ Count \in Nat /\ turn \in 1 .. Count /\ Kept /\ index[2] = turn
         /\ \A f \in 1 .. Count : \A k \in DOMAIN FileBytes(f) : FileBytes(f)[k] \in Byte
         /\ Roomy /\ Contents /\ DiskConverted
<1>0. RunInv /\ WrittenInv /\ Sized /\ Shape /\ ImagesInv /\ pc \in {"get", "process", "send"}
  BY DEF InFrame
<1>1. PoolsBuilt /\ DOMAIN pool = 1 .. 2 /\ FrameAt
  BY <1>0, PipelineFacts
<1>2. set \in 1 .. Len(sets) /\ InLoop
  BY <1>0 DEF WrittenInv, Running
<1>3. Len(sets) \in Nat
  BY <1>0 DEF Shape
<1>4. set # 0
  BY <1>2, <1>3
<1>5. Roomy /\ Contents /\ DiskConverted
  BY <1>0, <1>4 DEF ImagesInv, Running
<1>6. turn \in 1 .. Count /\ Kept /\ index[2] = turn
  BY <1>2 DEF InLoop
<1>7. /\ <<This.from, This.to>> \in FilePairs /\ Width \in Nat /\ Height \in Nat
      /\ WellFormed(InPlanes) /\ WellFormed(OutPlanes)
      /\ Count \in Nat
      /\ \A f \in 1 .. Count : \A k \in DOMAIN FileBytes(f) : FileBytes(f)[k] \in Byte
  BY <1>0, <1>2, ScenarioFacts DEF Running
<1> QED
  BY <1>1, <1>5, <1>6, <1>7

\* A step that writes nothing and goes where no slot need hold anything.
LEMMA NothingHeld ==
  ASSUME Roomy', pc' \in {"destroy", "unwind", "create"} \/ (pc' = "get" /\ unit' = 1),
         DiskConverted'
  PROVE  ImagesInv'
BY DEF ImagesInv, Contents

LEMMA FileInGetImages ==
  ASSUME InFrame, FileInGet
  PROVE  ImagesInv'
<1>0. pc = "get" /\ unit = 1 /\ UNCHANGED <<parserVars, scen, set, disk>>
  BY DEF FileInGet
<1>a. UNCHANGED sets
  BY <1>0 DEF parserVars
<1>1. /\ PoolsBuilt /\ DOMAIN pool = 1 .. 2 /\ Roomy /\ DiskConverted
      /\ WellFormed(InPlanes) /\ turn \in 1 .. Count
      /\ \A f \in 1 .. Count : \A k \in DOMAIN FileBytes(f) : FileBytes(f)[k] \in Byte
  BY FrameHas
<1>2. index[1] = turn
  BY <1>0 DEF InFrame, Shape
<1>3. DiskConverted'
  BY <1>0, <1>a, <1>1, DiskStays
<1>4. \/ Fails /\ UNCHANGED pool
      \/ /\ FreeSlots(1) # {}
         /\ 0 .. FileSize(InPlanes) - 1 \subseteq DOMAIN FileBytes(index[1])
         /\ pool' = [pool EXCEPT ![1][FirstFree(1)] =
                [used |-> TRUE,
                 data |-> ReadFromFile(InPlanes, @.data, FileBytes(index[1]))]]
         /\ fb' = [fb EXCEPT ![In] = FirstFree(1)]
         /\ Goto(1, "send")
  BY DEF FileInGet
<1>5. CASE Fails /\ UNCHANGED pool
  <2>1. SameData
    BY <1>5 DEF SameData
  <2>2. Roomy'
    BY <1>0, <1>a, <1>1, <2>1, DataRoomy
  <2> QED
    BY <1>3, <1>5, <2>2, NothingHeld DEF Fails
<1>6. CASE /\ FreeSlots(1) # {}
           /\ 0 .. FileSize(InPlanes) - 1 \subseteq DOMAIN FileBytes(index[1])
           /\ pool' = [pool EXCEPT ![1][FirstFree(1)] =
                  [used |-> TRUE,
                   data |-> ReadFromFile(InPlanes, @.data, FileBytes(index[1]))]]
           /\ fb' = [fb EXCEPT ![In] = FirstFree(1)]
           /\ Goto(1, "send")
  <2>0. PICK s : s = FirstFree(1)
    OBVIOUS
  <2>1. s \in Slots
    BY <1>6, <2>0, FirstFreeFacts
  <2>2. PICK file : file = FileBytes(turn)
    OBVIOUS
  <2> DEFINE d == ReadFromFile(InPlanes, pool[1][s].data, file)
  <2>3. pool' = [pool EXCEPT ![1][s] = [used |-> TRUE, data |-> d]]
    BY <1>2, <1>6, <2>0, <2>2
  <2>4. DOMAIN pool[1][s].data = 0 .. TotalSize(InPlanes) - 1
    BY <1>1, <2>1 DEF Roomy
  <2>5. \A k \in 0 .. FileSize(InPlanes) - 1 : d[InBuffer(InPlanes, k)] = file[k]
    BY <1>1, <2>4, ByteRead
  <2>6. DOMAIN d = DOMAIN pool[1][s].data
    BY DEF ReadFromFile, Overlay
  <2> HIDE DEF d
  <2>7. /\ \A i \in Slots : pool'[1][i].data = IF i = s THEN d ELSE pool[1][i].data
        /\ pool'[2] = pool[2]
    BY <1>1, <2>1, <2>3, DataAcquiredIn
  <2>8. /\ InPlanes' = InPlanes /\ OutPlanes' = OutPlanes
        /\ \A f : FileBytes(f)' = FileBytes(f)
    BY <1>0, <1>a, SameSizes
  <2>9. Roomy'
    BY <1>1, <2>4, <2>6, <2>7, <2>8 DEF Roomy
  <2>10. \A k \in 0 .. FileSize(InPlanes) - 1 : file[k] \in Byte
    BY <1>1, <1>2, <1>6, <2>2
  <2>11. FileBytes(turn)' = file /\ fb'[In] = s
    <3>1. turn' = turn /\ fb' = [fb EXCEPT ![In] = s]
      BY <1>6, <2>0 DEF Goto
    <3>2. FileBytes(turn)' = FileBytes(turn)
      BY <2>8, <3>1 DEF FileBytes
    <3>3. fb = NoHand
      BY <1>0 DEF InFrame, RunInv, FrameAt, Nothing, Frame
    <3> QED
      BY <2>2, <3>1, <3>2, <3>3 DEF NoHand, In
  <2>12. HoldsFile(fb[In])'
    BY <2>1, <2>5, <2>7, <2>8, <2>10, <2>11 DEF HoldsFile
  <2>13. Contents'
    BY <1>6, <2>12 DEF Contents, Goto
  <2> QED
    BY <1>3, <2>9, <2>13 DEF ImagesInv
<1> QED
  BY <1>4, <1>5, <1>6

LEMMA FileInSendImages ==
  ASSUME InFrame, FileInSend
  PROVE  ImagesInv'
<1>0. /\ pc = "send" /\ unit = 1 /\ pc' = "get" /\ unit' = 2
      /\ UNCHANGED <<parserVars, scen, set, disk, turn, pool>>
  BY DEF FileInSend, Goto
<1>a. UNCHANGED sets /\ SameData
  BY <1>0 DEF parserVars, SameData
<1>1. FrameAt /\ Roomy /\ Contents /\ DiskConverted
  BY FrameHas
<1>2. DiskConverted' /\ Roomy'
  BY <1>0, <1>a, <1>1, DiskStays, DataRoomy
<1>3. PICK s \in Slots : Frame({s}, {}, InHand(In, s), << >>, << >>)
  BY <1>0, <1>1 DEF FrameAt
<1>4. queue' = <<<<s>>, << >>>> /\ fb[In] = s
  <2>1. queue = << << >>, << >> >> /\ fb[In] = s
    BY <1>3, HandFacts DEF Frame, In
  <2>2. queue' = [queue EXCEPT ![1] = Append(<< >>, s)]
    BY <2>1 DEF FileInSend
  <2> QED
    BY <2>1, <2>2, QueueFacts
<1>5. HoldsFile(s)
  BY <1>0, <1>1, <1>4 DEF Contents
<1>6. HoldsFile(s)'
  BY <1>0, <1>a, <1>5, DataHeld
<1>7. HoldsFile(queue[1][1])'
  <2>1. queue'[1][1] = s
    BY <1>4
  <2> QED
    BY <1>6, <2>1 DEF HoldsFile
<1> QED
  BY <1>0, <1>2, <1>7 DEF ImagesInv, Contents

LEMMA ConversionGetImages ==
  ASSUME InFrame, ConversionGet
  PROVE  ImagesInv'
<1>0. /\ pc = "get" /\ unit = 2 /\ pc' = "process" /\ unit' = 2
      /\ UNCHANGED <<parserVars, scen, set, disk, turn, pool>>
  BY DEF ConversionGet, Goto
<1>a. UNCHANGED sets /\ SameData
  BY <1>0 DEF parserVars, SameData
<1>1. FrameAt /\ Roomy /\ Contents /\ DiskConverted
  BY FrameHas
<1>2. DiskConverted' /\ Roomy'
  BY <1>0, <1>a, <1>1, DiskStays, DataRoomy
<1>3. PICK s \in Slots : Frame({s}, {}, NoHand, <<s>>, << >>)
  BY <1>0, <1>1 DEF FrameAt
<1>4. queue[1][1] = s /\ fb'[InFb] = s
  <2>1. queue = << <<s>>, << >> >> /\ fb = NoHand
    BY <1>3 DEF Frame
  <2>2. fb' = [fb EXCEPT ![InFb] = s]
    BY <2>1, QueueFacts DEF ConversionGet
  <2> QED
    BY <2>1, <2>2 DEF NoHand, InFb
<1>5. HoldsFile(s)
  BY <1>0, <1>1, <1>4 DEF Contents
<1>6. HoldsFile(s)'
  BY <1>0, <1>a, <1>5, DataHeld
<1>7. HoldsFile(fb[InFb])'
  BY <1>4, <1>6 DEF HoldsFile
<1> QED
  BY <1>0, <1>2, <1>7 DEF ImagesInv, Contents

LEMMA ConvertDomain ==
  ASSUME NEW from, NEW to, NEW w, NEW h, NEW src, NEW dst
  PROVE  DOMAIN Convert(from, to, w, h, src, dst) = DOMAIN dst
<1>1. DOMAIN Prepared(from, to, Planes(to, w, h), dst) = DOMAIN dst
  BY PreparedDomain
<1>2. Convert(from, to, w, h, src, dst)
        = Overlay(Prepared(from, to, Planes(to, w, h), dst), Stores(from, to, w, h, src))
  BY ConvertIsStores
<1> QED
  BY <1>1, <1>2 DEF Overlay

LEMMA ConversionProcessImages ==
  ASSUME InFrame, ConversionProcess
  PROVE  ImagesInv'
<1>0. /\ pc = "process" /\ pc' = "send" /\ unit' = 2 /\ FreeSlots(2) # {}
      /\ UNCHANGED <<parserVars, scen, set, disk, turn>>
  BY DEF ConversionProcess, Goto
<1>a. UNCHANGED sets
  BY <1>0 DEF parserVars
<1>1. /\ PoolsBuilt /\ DOMAIN pool = 1 .. 2 /\ Roomy /\ Contents /\ DiskConverted /\ FrameAt
      /\ <<This.from, This.to>> \in FilePairs /\ Width \in Nat /\ Height \in Nat
  BY FrameHas
<1>2. DiskConverted'
  BY <1>0, <1>a, <1>1, DiskStays
<1>3. PICK s \in Slots : Frame({s}, {}, InHand(InFb, s), << >>, << >>)
  BY <1>0, <1>1 DEF FrameAt
<1>4. fb = InHand(InFb, s) /\ fb[InFb] = s
  BY <1>3 DEF Frame, InHand, InFb
<1>5. HoldsFile(s)
  BY <1>0, <1>1, <1>4 DEF Contents
<1>6. PICK t : t = FirstFree(2)
  OBVIOUS
<1>7. t \in Slots
  BY <1>0, <1>6, FirstFreeFacts
<1>8. PICK src, dst : src = pool[1][s].data /\ dst = pool[2][t].data
  OBVIOUS
<1> DEFINE d == Convert(This.from, This.to, Width, Height, src, dst)
<1>9. /\ pool' = [pool EXCEPT ![2][t] = [used |-> TRUE, data |-> d]]
      /\ fb' = [fb EXCEPT ![OutFb] = t]
  BY <1>4, <1>6, <1>8 DEF ConversionProcess
<1>10. DOMAIN dst = 0 .. TotalSize(OutPlanes) - 1 /\ DOMAIN d = DOMAIN dst
  BY <1>1, <1>7, <1>8, ConvertDomain DEF Roomy
<1>11. Converts(FileBytes(turn), WriteToFile(OutPlanes, d))
  <2>1. PICK file : file = FileBytes(turn)
    OBVIOUS
  <2>2. PICK from, to : from = This.from /\ to = This.to
    OBVIOUS
  <2>3. PICK w \in Nat, h \in Nat : w = Width /\ h = Height
    BY <1>1
  <2>4. \A k \in 0 .. FileSize(Planes(from, w, h)) - 1 :
           file[k] \in Byte /\ src[InBuffer(Planes(from, w, h), k)] = file[k]
    BY <1>5, <1>8, <2>1, <2>2, <2>3 DEF HoldsFile, InPlanes
  <2>5. DOMAIN dst = 0 .. TotalSize(Planes(to, w, h)) - 1
    BY <1>10, <2>2, <2>3 DEF OutPlanes
  <2>6. <<from, to>> \in FilePairs
    BY <1>1, <2>2
  <2>7. ASSUME Fits(from, w, h), Fits(to, w, h)
        PROVE  FileConverted(from, to, w, h, file,
                             WriteToFile(Planes(to, w, h), Convert(from, to, w, h, src, dst)))
    BY <2>4, <2>5, <2>6, <2>7, ConvertedImage
  <2>8. ASSUME Fitting
        PROVE  FileConverted(This.from, This.to, Width, Height, file, WriteToFile(OutPlanes, d))
    BY <2>2, <2>7, <2>8, <2>3 DEF Fitting, OutPlanes
  <2> HIDE DEF d
  <2> QED
    BY <2>1, <2>8 DEF Converts
<1> HIDE DEF d
<1>12. /\ \A i \in Slots : pool'[2][i].data = IF i = t THEN d ELSE pool[2][i].data
       /\ pool'[1] = pool[1]
  BY <1>1, <1>7, <1>9, DataAcquiredOut
<1>13. /\ InPlanes' = InPlanes /\ OutPlanes' = OutPlanes
       /\ \A f : FileBytes(f)' = FileBytes(f)
       /\ \A file, image : Converts(file, image)' <=> Converts(file, image)
  BY <1>0, <1>a, SameSizes
<1>14. Roomy'
  BY <1>1, <1>10, <1>12, <1>13 DEF Roomy
<1>15. HoldsImage(fb[OutFb])'
  <2>1. fb'[OutFb] = t /\ pool'[2][t].data = d
    BY <1>4, <1>7, <1>9, <1>12 DEF InHand, OutFb
  <2>2. FileBytes(turn)' = FileBytes(turn)
    BY <1>0, <1>13 DEF FileBytes
  <2> QED
    BY <1>11, <1>13, <2>1, <2>2 DEF HoldsImage
<1> QED
  BY <1>0, <1>2, <1>14, <1>15 DEF ImagesInv, Contents

LEMMA ConversionSendImages ==
  ASSUME InFrame, ConversionSend
  PROVE  ImagesInv'
<1>0. /\ pc = "send" /\ unit = 2 /\ pc' = "get" /\ unit' = 3
      /\ UNCHANGED <<parserVars, scen, set, disk, turn>>
  BY DEF ConversionSend, Goto
<1>a. UNCHANGED sets
  BY <1>0 DEF parserVars
<1>1. /\ PoolsBuilt /\ DOMAIN pool = 1 .. 2 /\ FrameAt
      /\ Roomy /\ Contents /\ DiskConverted
  BY FrameHas
<1>2. PICK s, t \in Slots :
         Frame({s}, {t}, [InHand(InFb, s) EXCEPT ![OutFb] = t], << >>, << >>)
  BY <1>0, <1>1 DEF FrameAt, BothHands
<1>3. fb[InFb] = s /\ fb[OutFb] = t /\ queue = << << >>, << >> >>
  BY <1>2 DEF Frame, InHand, InFb, OutFb
<1>4. queue' = << << >>, <<t>> >>
  <2>1. queue' = [queue EXCEPT ![2] = Append(<< >>, t)]
    BY <1>3 DEF ConversionSend
  <2> QED
    BY <1>3, <2>1, QueueFacts
<1>5. pool' = [pool EXCEPT ![1][s].used = FALSE]
  BY <1>3 DEF ConversionSend
<1>6. SameData
  BY <1>1, <1>5, DataReleased
<1>7. DiskConverted' /\ Roomy'
  BY <1>0, <1>a, <1>1, <1>6, DiskStays, DataRoomy
<1>8. HoldsImage(t)
  BY <1>0, <1>1, <1>3 DEF Contents
<1>9. HoldsImage(t)'
  BY <1>0, <1>a, <1>6, <1>8, DataHeld
<1>10. HoldsImage(queue[2][1])'
  <2>1. queue'[2][1] = t
    BY <1>4
  <2> QED
    BY <1>9, <2>1 DEF HoldsImage
<1> QED
  BY <1>0, <1>7, <1>10 DEF ImagesInv, Contents

LEMMA FileOutGetImages ==
  ASSUME InFrame, FileOutGet
  PROVE  ImagesInv'
<1>0. /\ pc = "get" /\ unit = 3 /\ pc' = "send" /\ unit' = 3
      /\ UNCHANGED <<parserVars, scen, set, disk, turn, pool>>
  BY DEF FileOutGet, Goto
<1>a. UNCHANGED sets /\ SameData
  BY <1>0 DEF parserVars, SameData
<1>1. FrameAt /\ Roomy /\ Contents /\ DiskConverted
  BY FrameHas
<1>2. DiskConverted' /\ Roomy'
  BY <1>0, <1>a, <1>1, DiskStays, DataRoomy
<1>3. PICK t \in Slots : Frame({}, {t}, NoHand, << >>, <<t>>)
  BY <1>0, <1>1 DEF FrameAt
<1>4. queue[2][1] = t /\ fb'[Out] = t
  <2>1. queue = << << >>, <<t>> >> /\ fb = NoHand
    BY <1>3 DEF Frame
  <2>2. fb' = [fb EXCEPT ![Out] = t]
    BY <2>1, QueueFacts DEF FileOutGet
  <2> QED
    BY <2>1, <2>2 DEF NoHand, Out
<1>5. HoldsImage(t)
  BY <1>0, <1>1, <1>4 DEF Contents
<1>6. HoldsImage(t)'
  BY <1>0, <1>a, <1>5, DataHeld
<1>7. HoldsImage(fb[Out])'
  BY <1>4, <1>6 DEF HoldsImage
<1> QED
  BY <1>0, <1>2, <1>7 DEF ImagesInv, Contents

\* With a file per frame: this one's is replaced by q, nothing or its image.
\* Frames of one name are of one file, so that to overwrite one does no harm.
LEMMA SplitImages ==
  ASSUME DiskConverted, This.split, turn \in 1 .. Count, UNCHANGED <<scen, set, sets>>,
         NEW q, Len(q) # 1 => Len(q) = 0,
         Len(q) = 1 => Converts(FileBytes(turn), q[1]),
         disk' = [p \in DOMAIN disk \cup {Frames[turn].file} |->
                     IF p = Frames[turn].file THEN q ELSE disk[p]]
  PROVE  DiskConverted'
<1>1. /\ This' = This /\ Frames' = Frames /\ Count' = Count
      /\ \A f : FileBytes(f)' = FileBytes(f)
      /\ \A file, image : Converts(file, image)' <=> Converts(file, image)
  BY SameSizes
<1>2. PICK P : P = Frames[turn].file
  OBVIOUS
<1>3. /\ DOMAIN disk' = DOMAIN disk \cup {P} /\ disk'[P] = q
      /\ \A p \in DOMAIN disk : p # P => disk'[p] = disk[p]
  BY <1>2
<1>4. ASSUME NEW f \in 1 .. Count, OnDisk(f)'
      PROVE  Converts(FileBytes(f), Image(f)')
  <2>1. /\ Frames[f].file \in DOMAIN disk' /\ Len(disk'[Frames[f].file]) >= 1
        /\ Image(f)' = disk'[Frames[f].file][1]
    BY <1>1, <1>4 DEF OnDisk, Image, OutPath
  <2>2. CASE Frames[f].file = P
    <3>1. FileBytes(f) = FileBytes(turn)
      BY <1>2, <2>2 DEF FileBytes
    <3>2. Len(q) = 1 /\ Image(f)' = q[1]
      BY <1>3, <2>1, <2>2
    <3> QED
      BY <3>1, <3>2
  <2>3. CASE Frames[f].file # P
    <3>1. Frames[f].file \in DOMAIN disk /\ disk'[Frames[f].file] = disk[Frames[f].file]
      BY <1>3, <2>1, <2>3
    <3>2. OnDisk(f) /\ Image(f)' = Image(f)
      BY <2>1, <3>1 DEF OnDisk, Image, OutPath
    <3> QED
      BY <3>2 DEF DiskConverted
  <2> QED
    BY <2>2, <2>3
<1> QED
  BY <1>1, <1>4 DEF DiskConverted

\* With one file for all: this frame's image is its last.
LEMMA WholeImages ==
  ASSUME DiskConverted, Kept, ~This.split, Count \in Nat, turn \in 1 .. Count,
         UNCHANGED <<scen, set, sets>>, NEW e, Converts(FileBytes(turn), e),
         disk' = [disk EXCEPT ![ConcatPath] = Append(@, e)]
  PROVE  DiskConverted'
<1>1. /\ This' = This /\ Frames' = Frames /\ Count' = Count
      /\ \A f : FileBytes(f)' = FileBytes(f)
      /\ \A file, image : Converts(file, image)' <=> Converts(file, image)
  BY SameSizes
<1>2. DOMAIN disk = {ConcatPath} /\ Len(disk[ConcatPath]) = turn - 1 /\ IsSeq(disk[ConcatPath])
  BY DEF Kept
<1>3. PICK l : l = disk[ConcatPath]
  OBVIOUS
<1>4. disk'[ConcatPath] = Append(l, e)
  BY <1>2, <1>3
<1>5. /\ Len(Append(l, e)) = turn /\ Append(l, e)[turn] = e
      /\ \A f \in 1 .. turn - 1 : Append(l, e)[f] = l[f]
  <2>1. IsSeq(l) /\ Len(l) = turn - 1
    BY <1>2, <1>3
  <2> QED
    BY <2>1, AppendAny
<1>6. ASSUME NEW f \in 1 .. Count, OnDisk(f)'
      PROVE  Converts(FileBytes(f), Image(f)')
  <2>1. Len(disk'[ConcatPath]) >= f /\ Image(f)' = disk'[ConcatPath][f]
    BY <1>1, <1>6 DEF OnDisk, Image, OutPath
  <2>2. f <= turn /\ Image(f)' = Append(l, e)[f]
    BY <1>4, <1>5, <2>1
  <2>3. CASE f = turn
    BY <1>5, <2>2, <2>3
  <2>4. CASE f < turn
    <3>1. f \in 1 .. turn - 1
      BY <2>4
    <3>2. OnDisk(f) /\ Image(f) = l[f]
      BY <1>2, <1>3, <3>1 DEF OnDisk, Image, OutPath
    <3>3. Image(f)' = Image(f)
      BY <1>5, <2>2, <3>1, <3>2
    <3> QED
      BY <3>2, <3>3 DEF DiskConverted
  <2>5. f = turn \/ f < turn
    <3>1. f \in Int /\ turn \in Int
      OBVIOUS
    <3> QED
      BY <2>2, <3>1
  <2> QED
    BY <2>3, <2>4, <2>5
<1> QED
  BY <1>1, <1>6 DEF DiskConverted

LEMMA FileOutSendImages ==
  ASSUME InFrame, FileOutSend
  PROVE  ImagesInv'
<1>0. /\ pc = "send" /\ unit = 3 /\ UNCHANGED <<parserVars, scen, set>> /\ Drop({Out})
  BY DEF FileOutSend
<1>a. UNCHANGED sets
  BY <1>0 DEF parserVars
<1>1. /\ PoolsBuilt /\ FrameAt /\ Roomy /\ Contents /\ DiskConverted
      /\ Count \in Nat /\ turn \in 1 .. Count /\ Kept /\ index[2] = turn
  BY FrameHas
<1>2. SameData
  BY <1>0, <1>1, DataDropped
<1>3. Roomy'
  BY <1>0, <1>a, <1>1, <1>2, DataRoomy
<1>4. PICK img : img = WriteToFile(OutPlanes, pool[2][fb[Out]].data)
  OBVIOUS
<1>5. Converts(FileBytes(turn), img)
  <2>1. HoldsImage(fb[Out])
    BY <1>0, <1>1 DEF Contents
  <2> QED
    BY <1>4, <2>1 DEF HoldsImage
<1>6. ASSUME NEW files, NEW path, Write(files, path)
      PROVE  /\ disk' = [files EXCEPT ![path] = Append(@, img)]
             /\ pc' = "destroy" \/ (pc' = "get" /\ unit' = 1)
  BY <1>4, <1>6 DEF Write
<1>7. Fails => pc' = "destroy"
  BY DEF Fails
<1>8. CASE This.split
  <2>1. PICK P : P = Frames[turn].file
    OBVIOUS
  <2>2. OutPath(index[2]) = P
    BY <1>1, <1>8, <2>1 DEF OutPath
  <2>3. \/ Fails /\ UNCHANGED disk
        \/ Write(Truncated(P), P)
        \/ disk' = Truncated(P) /\ Fails
    BY <1>8, <2>2 DEF FileOutSend
  <2>4. Truncated(P) = [p \in DOMAIN disk \cup {P} |-> IF p = P THEN << >> ELSE disk[p]]
    BY DEF Truncated
  <2>5. CASE Fails /\ UNCHANGED disk
    <3>1. DiskConverted'
      BY <1>0, <1>a, <1>1, <2>5, DiskStays
    <3> QED
      BY <1>3, <1>7, <2>5, <3>1, NothingHeld
  <2>6. CASE disk' = Truncated(P) /\ Fails
    <3>1. PICK q : q = << >>
      OBVIOUS
    <3>2. Len(q) = 0
      BY <3>1, NoneSeq
    <3>3. disk' = [p \in DOMAIN disk \cup {Frames[turn].file} |->
                      IF p = Frames[turn].file THEN q ELSE disk[p]]
      BY <2>1, <2>4, <2>6, <3>1
    <3>4. DiskConverted'
      BY <1>0, <1>a, <1>1, <1>8, <3>2, <3>3, SplitImages
    <3> QED
      BY <1>3, <1>7, <2>6, <3>4, NothingHeld
  <2>7. CASE Write(Truncated(P), P)
    <3>1. PICK q : q = <<img>>
      OBVIOUS
    <3>2. Len(q) = 1 /\ q[1] = img
      BY <3>1
    <3>3. disk' = [Truncated(P) EXCEPT ![P] = Append(@, img)]
      BY <1>6, <2>7
    <3>4. Truncated(P)[P] = << >> /\ P \in DOMAIN Truncated(P)
      BY <2>4
    <3>5. Append(<< >>, img) = q
      BY <3>1, QueueFacts
    <3>6. disk' = [Truncated(P) EXCEPT ![P] = q]
      BY <3>3, <3>4, <3>5
    <3>7. disk' = [p \in DOMAIN disk \cup {Frames[turn].file} |->
                      IF p = Frames[turn].file THEN q ELSE disk[p]]
      BY <2>1, <2>4, <3>6
    <3>8. DiskConverted'
      BY <1>0, <1>a, <1>1, <1>5, <1>8, <3>2, <3>7, SplitImages
    <3> QED
      BY <1>3, <1>6, <2>7, <3>8, NothingHeld
  <2> QED
    BY <2>3, <2>5, <2>6, <2>7
<1>9. CASE ~This.split
  <2>1. Write(disk, ConcatPath) \/ (Fails /\ UNCHANGED disk)
    BY <1>9 DEF FileOutSend
  <2>2. CASE Fails /\ UNCHANGED disk
    <3>1. DiskConverted'
      BY <1>0, <1>a, <1>1, <2>2, DiskStays
    <3> QED
      BY <1>3, <1>7, <2>2, <3>1, NothingHeld
  <2>3. CASE Write(disk, ConcatPath)
    <3>1. disk' = [disk EXCEPT ![ConcatPath] = Append(@, img)]
      BY <1>6, <2>3
    <3>2. DiskConverted'
      BY <1>0, <1>a, <1>1, <1>5, <1>9, <3>1, WholeImages
    <3> QED
      BY <1>3, <1>6, <2>3, <3>2, NothingHeld
  <2> QED
    BY <2>1, <2>2, <2>3
<1> QED
  BY <1>8, <1>9

\* Before the first frame: the pools are of the scenario's planes, and the file
\* that a pipeline opens is empty.
LEMMA BlankRoom ==
  ASSUME NEW planes, NEW i \in Slots
  PROVE  DOMAIN BlankPool(planes)[i].data = 0 .. TotalSize(planes) - 1
BY DEF BlankPool, BlankBuffer

LEMMA BeforeImages ==
  ASSUME RunInv, WrittenInv, Sized, Shape, ImagesInv,
         FindSet \/ InitPools \/ CreateUnit \/ CreateFails
  PROVE  ImagesInv'
<1>1. CASE FindSet
  <2>1. /\ pc = "find" /\ UNCHANGED <<parserVars, scen, disk>>
        /\ \/ pc' = "end" /\ UNCHANGED set
           \/ pc' = "pools"
    BY <1>1 DEF FindSet, unitVars
  <2>2. set = 0
    BY <2>1 DEF WrittenInv
  <2> QED
    BY <2>1, <2>2 DEF ImagesInv, Running
<1>2. CASE InitPools
  <2>1. /\ pc = "pools" /\ UNCHANGED <<parserVars, scen, set, disk>>
        /\ \/ /\ pool' = <<BlankPool(InPlanes), BlankPool(OutPlanes)>>
              /\ unit' = 1 /\ pc' = "create"
           \/ pc' = "end"
    BY <1>2 DEF InitPools
  <2>2. disk' = << >>
    BY <2>1 DEF WrittenInv, Fresh
  <2>3. DiskConverted'
    BY <2>2, EmptyDisk
  <2>4. CASE pc' = "end"
    BY <2>3, <2>4 DEF ImagesInv, Running
  <2>5. CASE /\ pool' = <<BlankPool(InPlanes), BlankPool(OutPlanes)>>
             /\ unit' = 1 /\ pc' = "create"
    <3>1. InPlanes' = InPlanes /\ OutPlanes' = OutPlanes
      BY <2>1, SameSizes DEF parserVars
    <3>2. pool'[1] = BlankPool(InPlanes) /\ pool'[2] = BlankPool(OutPlanes)
      BY <2>5
    <3>3. Roomy'
      BY <3>1, <3>2, BlankRoom DEF Roomy
    <3> QED
      BY <2>3, <2>5, <3>3, NothingHeld
  <2> QED
    BY <2>1, <2>4, <2>5
<1>3. CASE CreateUnit
  <2>1. /\ pc = "create" /\ UNCHANGED <<parserVars, scen, set, pool>>
        /\ pc' = "create" \/ (pc' = "get" /\ unit' = 1)
        /\ UNCHANGED disk \/ disk' = Truncated(ConcatPath)
    BY <1>3 DEF CreateUnit, runVars
  <2>2. disk = << >>
    BY <2>1 DEF WrittenInv, Fresh
  <2>3. \A p \in DOMAIN disk' : Len(disk'[p]) = 0
    <3>1. DOMAIN disk = {} /\ Len(<< >>) = 0
      BY <2>2
    <3>2. \A p \in DOMAIN Truncated(ConcatPath) : Truncated(ConcatPath)[p] = << >>
      BY <3>1 DEF Truncated
    <3> QED
      BY <2>1, <3>1, <3>2
  <2>4. DiskConverted'
    BY <2>3, EmptyDisk
  <2>5. Roomy /\ SameData /\ UNCHANGED sets
    BY <2>1 DEF ImagesInv, Running, SameData, parserVars
  <2>6. Roomy'
    BY <2>1, <2>5, DataRoomy
  <2> QED
    BY <2>1, <2>4, <2>6, NothingHeld
<1>4. CASE CreateFails
  <2>1. /\ pc = "create" /\ pc' = "unwind" /\ UNCHANGED <<parserVars, scen, set, pool, disk>>
    BY <1>4 DEF CreateFails, unitVars
  <2>2. disk' = << >>
    BY <2>1 DEF WrittenInv, Fresh
  <2>3. DiskConverted'
    BY <2>2, EmptyDisk
  <2>4. Roomy /\ SameData /\ UNCHANGED sets
    BY <2>1 DEF ImagesInv, Running, SameData, parserVars
  <2>5. Roomy'
    BY <2>1, <2>4, DataRoomy
  <2> QED
    BY <2>1, <2>3, <2>5, NothingHeld
<1> QED
  BY <1>1, <1>2, <1>3, <1>4

\* After the last: the slots are given back as they are, and the files stay.
LEMMA AfterImages ==
  ASSUME RunInv, WrittenInv, Shape, ImagesInv, DestroyUnit \/ DeinitPools
  PROVE  ImagesInv'
<1>0. pc \in {"destroy", "unwind"} /\ UNCHANGED <<parserVars, scen, set, disk>>
  BY DEF DestroyUnit, DeinitPools, runVars, unitVars
<1>a. UNCHANGED sets
  BY <1>0 DEF parserVars
<1>1. set # 0
  <2>1. set \in 1 .. Len(sets) /\ Len(sets) \in Nat
    BY <1>0 DEF WrittenInv, Running, Shape
  <2> QED
    BY <2>1
<1>2. Roomy /\ DiskConverted /\ PoolsBuilt
  BY <1>0, <1>1 DEF ImagesInv, Running, RunInv
<1>3. DiskConverted'
  BY <1>0, <1>a, <1>2, DiskStays
<1>4. CASE DestroyUnit
  <2>1. pc' \in {"destroy", "unwind"} /\ Drop(HandsOf[unit])
    BY <1>0, <1>4 DEF DestroyUnit
  <2>2. PICK H : H = HandsOf[unit]
    OBVIOUS
  <2>3. Drop(H)
    BY <2>1, <2>2
  <2>4. SameData
    BY <1>2, <2>3, DataDropped
  <2>5. Roomy'
    BY <1>0, <1>a, <1>2, <2>4, DataRoomy
  <2> QED
    BY <1>3, <2>1, <2>5, NothingHeld
<1>5. CASE DeinitPools
  BY <1>3, <1>5 DEF DeinitPools, ImagesInv, Running
<1> QED
  BY <1>4, <1>5

LEMMA ImagesInit == Init => ImagesInv
BY DEF Init, ImagesInv, Running

LEMMA ImagesNext ==
  RunInv /\ WrittenInv /\ Sized /\ Shape /\ ImagesInv /\ [Next]_vars => ImagesInv'
<1> SUFFICES ASSUME RunInv, WrittenInv, Sized, Shape, ImagesInv, [Next]_vars
             PROVE  ImagesInv'
  OBVIOUS
<1>1. pc \in {"get", "process", "send"} => InFrame
  BY DEF InFrame
<1>2. CASE FileInGet \/ FileInSend \/ ConversionGet \/ ConversionProcess \/ ConversionSend
           \/ FileOutGet \/ FileOutSend
  <2>1. pc \in {"get", "process", "send"}
    BY <1>2 DEF FileInGet, FileInSend, ConversionGet, ConversionProcess, ConversionSend,
       FileOutGet, FileOutSend
  <2> QED
    BY <1>1, <1>2, <2>1, FileInGetImages, FileInSendImages, ConversionGetImages,
       ConversionProcessImages, ConversionSendImages, FileOutGetImages, FileOutSendImages
<1>3. CASE FindSet \/ InitPools \/ CreateUnit \/ CreateFails
  BY <1>3, BeforeImages
<1>4. CASE DestroyUnit \/ DeinitPools
  BY <1>4, AfterImages
<1>5. CASE RefuseFlag \/ Parse \/ CloseTwice \/ EndScenario
  <2>1. pc' \in {"parse", "find", "done", "aborted"}
    BY <1>5 DEF RefuseFlag, Parse, CloseTwice, EndScenario
  <2> QED
    BY <2>1 DEF ImagesInv, Running
<1>6. CASE UNCHANGED vars
  <2>1. UNCHANGED <<text, cursor, todo, want, sets, blocks, parsing, pc, scen, set, turn, unit,
                    pool, queue, fb, disk>>
    BY <1>6 DEF vars, parserVars, runVars, unitVars
  <2>2. /\ InPlanes' = InPlanes /\ OutPlanes' = OutPlanes
        /\ \A f : FileBytes(f)' = FileBytes(f)
        /\ \A file, image : Converts(file, image)' <=> Converts(file, image)
    BY <2>1, SameSizes
  <2>3. FileBytes(turn)' = FileBytes(turn)
    BY <2>1, <2>2 DEF FileBytes
  <2>4. Roomy => Roomy'
    BY <2>1, <2>2 DEF Roomy
  <2>5. DiskConverted => DiskConverted'
    BY <2>1, DiskStays
  <2>6. Contents => Contents'
    BY <2>1, <2>2, <2>3 DEF Contents, HoldsFile, HoldsImage
  <2> QED
    BY <2>1, <2>4, <2>5, <2>6 DEF ImagesInv
<1> QED
  BY <1>2, <1>3, <1>4, <1>5, <1>6 DEF Next, Returned

\* Whatever the configuration, the sizes of its frames, the files there are and
\* the calls that fail: at the end of a scenario whose formats have room for
\* images of its size, every image in the output directory is the conversion of
\* its own frame's file, pixel by pixel.  The bytes went through the slot that
\* vf_framebuffer_read_from_fptr filled, the slot that vf_conversion_process
\* wrote and vf_framebuffer_write_to_fptr, and at no step was a slot another
\* frame's.
THEOREM FilesImagesConverted == Spec => []ImagesConverted
<1> DEFINE Inv == RunInv /\ WrittenInv /\ Placed /\ Sized /\ Shape /\ ImagesInv
<1>1. Init => Inv
  BY RunInit, WrittenInit, PlacedInit, SizedInit, ShapeInit, ImagesInit
<1>2. Inv /\ [Next]_vars => Inv'
  BY RunNext, WrittenNext, PlacedNext, SizedNext, ShapeNext, ImagesNext
<1>3. Inv => ImagesConverted
  BY DEF ImagesConverted, ImagesInv, DiskConverted, Converts, Fitting, Count
<1> QED
  BY <1>1, <1>2, <1>3, PTL DEF Spec
===============================================================================
