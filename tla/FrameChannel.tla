---------------------------- MODULE FrameChannel ----------------------------
(***************************************************************************)
(* What the writer of an audio connection may expect of its downlink queue,*)
(* without clocks, locks or wake-ups: a bounded channel that may forget its*)
(* oldest frames, delivers the others in order and never twice, delivers   *)
(* nothing once it is closed, and never leaves a reader that asks waiting  *)
(* for a frame it holds or for the end it has reached.                     *)
(***************************************************************************)
EXTENDS Naturals, Sequences

CONSTANTS
  Capacity,   \* the most frames it holds
  Last        \* frames are numbered 1..Last

VARIABLES
  held,       \* the numbers of the frames it holds, oldest first
  newest,     \* the number of the frame offered last
  given,      \* the number of the frame delivered last
  closed,
  reader      \* "away", "asking" or "ended"

vars == <<held, newest, given, closed, reader>>

Suffix(k) == SubSeq(held, k + 1, Len(held))

Init ==
  /\ held = <<>>
  /\ newest = 0
  /\ given = 0
  /\ closed = FALSE
  /\ reader = "away"

Offer ==
  /\ newest < Last
  /\ newest' = newest + 1
  /\ \/ closed /\ UNCHANGED held
     \/ /\ ~closed
        /\ \E k \in 0..Len(held) : held' = Append(Suffix(k), newest + 1)
        /\ Len(held') <= Capacity
  /\ UNCHANGED <<given, closed, reader>>

Ask ==
  /\ reader = "away"
  /\ reader' = "asking"
  /\ UNCHANGED <<held, newest, given, closed>>

(* While somebody asks, frames that have grown old may be forgotten.       *)
Forget ==
  /\ reader = "asking"
  /\ held # <<>>
  /\ held' = <<>>
  /\ UNCHANGED <<newest, given, closed, reader>>

Deliver ==
  /\ reader = "asking"
  /\ \E k \in 0..(Len(held) - 1) :
       /\ given' = held[k + 1]
       /\ held' = Suffix(k + 1)
  /\ reader' = "away"
  /\ UNCHANGED <<newest, closed>>

Close ==
  /\ closed' = TRUE
  /\ held' = <<>>
  /\ UNCHANGED <<newest, given, reader>>

End ==
  /\ reader = "asking"
  /\ closed
  /\ reader' = "ended"
  /\ UNCHANGED <<held, newest, given, closed>>

Next == Offer \/ Ask \/ Forget \/ Deliver \/ Close \/ End

Spec == Init /\ [][Next]_vars

FairSpec == Spec /\ WF_vars(Deliver \/ End)
=============================================================================
