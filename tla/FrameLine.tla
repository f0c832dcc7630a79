------------------------------ MODULE FrameLine ------------------------------
(***************************************************************************)
(* What the camera service promises of its frames, without units, threads, *)
(* queues, pools or the controller: they stand in one line, in the order   *)
(* of their capture.  A frame joins it at its end, is converted in turn    *)
(* and where it stands, and leaves it at its head.  The price of stopping  *)
(* and starting is the frame whose turn it was, at most once a restart.    *)
(***************************************************************************)
EXTENDS Naturals, Sequences, FiniteSets, SequencesExt

CONSTANTS Captured,  \* buffers that hold frames as the camera gives them
          Converted  \* buffers that hold converted ones

VARIABLES line,    \* the buffers of the frames, oldest frame first
          lost,    \* the buffers of frames that a start forgot
          starts   \* how often the service was started

lineVars == <<line, lost, starts>>

InLine == {line[i] : i \in DOMAIN line}

\* The i-th frame is the next to be converted: all before it are.
IsNext(i) == /\ line[i] \in Captured
             /\ \A j \in 1 .. i - 1 : line[j] \in Converted

Init == /\ line = <<>>
        /\ lost = {}
        /\ starts = 0

\* A new frame, in a buffer that nobody has.
Capture(f) == /\ f \notin InLine \cup lost
              /\ line' = Append(line, f)
              /\ UNCHANGED <<lost, starts>>

Convert(i, g) == /\ IsNext(i)
                 /\ g \notin InLine \cup lost
                 /\ line' = [line EXCEPT ![i] = g]
                 /\ UNCHANGED <<lost, starts>>

\* The oldest frame goes to its file, if it is converted.
Deliver == /\ line # <<>>
           /\ Head(line) \in Converted
           /\ line' = Tail(line)
           /\ UNCHANGED <<lost, starts>>

Start == starts' = starts + 1 /\ UNCHANGED <<line, lost>>

\* The frame whose conversion a stop has interrupted is forgotten with its
\* buffer; the first start has nothing to forget.
Lose(i) == /\ IsNext(i)
           /\ lost' = lost \cup {line[i]}
           /\ Cardinality(lost') < starts
           /\ line' = RemoveAt(line, i)
           /\ UNCHANGED starts

Next == \/ \E f \in Captured : Capture(f)
        \/ \E i \in DOMAIN line : Lose(i) \/ \E g \in Converted : Convert(i, g)
        \/ Deliver
        \/ Start

Spec == Init /\ [][Next]_lineVars
=============================================================================
