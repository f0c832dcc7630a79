------------------------------ MODULE FrameFifo ------------------------------
(***************************************************************************)
(* What a buffer queue promises its users, without the ring, the lock or   *)
(* the condition variable: a bounded first-in first-out channel that can   *)
(* be closed.  Closing does not drop frames: a consumer is told that the   *)
(* channel is closed only when nothing is left in it.                      *)
(***************************************************************************)
EXTENDS Naturals, Sequences

CONSTANTS Consumers, Frames, Capacity,
          NoFrame,     \* the NULL a consumer holds while it has no answer
          EndOfStream  \* the answer that the channel is closed and empty

VARIABLES contents,  \* the frames in the channel, oldest first
          closed,
          answer     \* per consumer: the answer to its last request

fifoVars == <<contents, closed, answer>>

Init == /\ contents = <<>>
        /\ closed = FALSE
        /\ answer = [c \in Consumers |-> NoFrame]

Put(f) == /\ Len(contents) < Capacity
          /\ contents' = Append(contents, f)
          /\ UNCHANGED <<closed, answer>>

Get(c) == /\ contents # <<>>
          /\ contents' = Tail(contents)
          /\ answer' = [answer EXCEPT ![c] = Head(contents)]
          /\ UNCHANGED closed

\* A request that finds the channel empty is answered later, or not at all.
Ask(c) == /\ contents = <<>>
          /\ answer' = [answer EXCEPT ![c] = NoFrame]
          /\ UNCHANGED <<contents, closed>>

Refuse(c) == /\ contents = <<>>
             /\ closed
             /\ answer' = [answer EXCEPT ![c] = EndOfStream]
             /\ UNCHANGED <<contents, closed>>

Close == closed' = TRUE /\ UNCHANGED <<contents, answer>>

Reopen == closed' = FALSE /\ UNCHANGED <<contents, answer>>

Next == \/ \E f \in Frames : Put(f)
        \/ \E c \in Consumers : Get(c) \/ Ask(c) \/ Refuse(c)
        \/ Close
        \/ Reopen

Spec == Init /\ [][Next]_fifoVars
=============================================================================
