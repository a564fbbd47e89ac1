------------------------ MODULE DownlinkQueue_proofs ------------------------
(***************************************************************************)
(* Proofs about DownlinkQueue for every bound, age and number of frames:   *)
(* its types, that its memory stays bounded, that no wake-up is lost, and  *)
(* that its steps are those of FrameChannel.                               *)
(***************************************************************************)
EXTENDS DownlinkQueue, SequenceTheorems, WellFoundedInduction, TLAPS

(* What the operators of AgedQueue return.                                  *)
(* The prefix exists: there is a least position that the loop stops at, or   *)
(* it passes all.                                                           *)
LEMMA PrefixInProperties ==
  ASSUME NEW n \in Nat, NEW bad
  PROVE  /\ PrefixIn(bad, n) \in 0..n
         /\ \A i \in 1..PrefixIn(bad, n) : i \in bad
         /\ PrefixIn(bad, n) < n => PrefixIn(bad, n) + 1 \notin bad
<1> DEFINE T == {j \in 0..n : j < n => j + 1 \notin bad}
<1>1. n \in T /\ T \subseteq Nat
  OBVIOUS
<1>2. PICK k \in T : \A j \in T : ~(<<j, k>> \in OpToRel(<, Nat))
  BY <1>1, NatLessThanWellFounded, WFMin
<1>3. \A j \in T : ~(j < k)
  BY <1>1, <1>2 DEF OpToRel
<1>4. ASSUME NEW i \in 1..k PROVE i \in bad
  <2>1. i - 1 \in 0..n /\ i - 1 < k /\ i - 1 < n /\ (i - 1) + 1 = i
    OBVIOUS
  <2>2. i - 1 \notin T
    BY <1>3, <2>1
  <2> QED
    BY <2>1, <2>2
<1> QED
  BY <1>4 DEF PrefixIn

LEMMA DropFrontProperties ==
  ASSUME NEW S, NEW q \in Seq(S), NEW k \in 0..Len(q)
  PROVE  /\ DropFront(q, k) \in Seq(S)
         /\ Len(DropFront(q, k)) = Len(q) - k
         /\ \A i \in 1..(Len(q) - k) : DropFront(q, k)[i] = q[k + i]
<1>1. \A i \in (k + 1)..Len(q) : q[i] \in S
  BY ElementOfSeq
<1>2. /\ SubSeq(q, k + 1, Len(q)) \in Seq(S)
      /\ Len(SubSeq(q, k + 1, Len(q))) = IF k + 1 <= Len(q) THEN Len(q) - (k + 1) + 1 ELSE 0
      /\ \A i \in 1..(Len(q) - (k + 1) + 1) : SubSeq(q, k + 1, Len(q))[i] = q[(k + 1) + i - 1]
  BY <1>1, SubSeqProperties
<1> QED
  BY <1>2 DEF DropFront

(* Pruned is a suffix of the queue, and what it keeps starts fresh.         *)
LEMMA PrunedIsSuffix ==
  ASSUME NEW q \in Seq(QueuedDownlink), NEW t \in Nat
  PROVE  \E k \in 0..Len(q) :
           /\ Pruned(q, t) = DropFront(q, k)
           /\ k < Len(q) => ~TooOld(q[k + 1], t)
<1> DEFINE bad == {i \in 1..Len(q) : TooOld(q[i], t)}
<1>1. Len(q) \in Nat
  OBVIOUS
<1>2. /\ PrefixIn(bad, Len(q)) \in 0..Len(q)
      /\ PrefixIn(bad, Len(q)) < Len(q) => PrefixIn(bad, Len(q)) + 1 \notin bad
  BY <1>1, PrefixInProperties
<1> DEFINE k == PrefixIn(bad, Len(q))
<1>3. k < Len(q) => ~TooOld(q[k + 1], t)
  <2>1. k < Len(q) => k + 1 \in 1..Len(q)
    BY <1>1, <1>2
  <2> QED
    BY <1>2, <2>1
<1>4. Pruned(q, t) = DropFront(q, k)
  BY DEF Pruned
<1> QED
  BY <1>2, <1>3, <1>4

LEMMA PrunedType ==
  ASSUME NEW q \in Seq(QueuedDownlink), NEW t \in Nat
  PROVE  Pruned(q, t) \in Seq(QueuedDownlink) /\ Len(Pruned(q, t)) <= Len(q)
<1>1. PICK k \in 0..Len(q) : Pruned(q, t) = DropFront(q, k)
  BY PrunedIsSuffix
<1>2. DropFront(q, k) \in Seq(QueuedDownlink) /\ Len(DropFront(q, k)) = Len(q) - k
  BY DropFrontProperties
<1> QED
  BY <1>1, <1>2

LEMMA FittedIsSuffix ==
  ASSUME NEW q \in Seq(QueuedDownlink)
  PROVE  /\ \E k \in 0..Len(q) : Fitted(q) = DropFront(q, k)
         /\ Fitted(q) \in Seq(QueuedDownlink)
         /\ Len(Fitted(q)) < MaxFrames
<1>1. CASE Len(q) >= MaxFrames
  <2>1. Len(q) - MaxFrames + 1 \in 0..Len(q)
    BY <1>1, QueueAssumption
  <2> QED
    BY <1>1, <2>1, DropFrontProperties, QueueAssumption DEF Fitted
<1>2. CASE ~(Len(q) >= MaxFrames)
  <2>1. DropFront(q, 0) = q
    BY SubSeqFull DEF DropFront
  <2> QED
    BY <1>2, <2>1, QueueAssumption DEF Fitted
<1> QED
  BY <1>1, <1>2
-----------------------------------------------------------------------------
LEMMA TypeInit == Init => TypeOK
<1> SUFFICES ASSUME Init PROVE TypeOK
  OBVIOUS
<1>1. frames \in Seq(QueuedDownlink)
  BY EmptySeq DEF Init
<1>2. 0 \in 0..MaxTime /\ 0 \in 0..LastFrame
  BY QueueAssumption
<1> QED
  BY <1>1, <1>2 DEF Init, TypeOK

LEMMA PushType ==
  ASSUME TypeOK, Push
  PROVE  frames' \in Seq(QueuedDownlink) /\ (Len(frames) <= MaxFrames => Len(frames') <= MaxFrames)
<1>1. CASE closed
  BY <1>1 DEF TypeOK, Push
<1>2. CASE ~closed
  <2> DEFINE kept == Fitted(Pruned(frames, pushedAt))
             new == [frame |-> sent + 1, at |-> pushedAt]
  <2>1. kept \in Seq(QueuedDownlink) /\ Len(kept) < MaxFrames
    BY PrunedType, FittedIsSuffix, QueueAssumption DEF TypeOK
  <2>2. new \in QueuedDownlink
    BY QueueAssumption DEF TypeOK, QueuedDownlink, Push
  <2>3. frames' = Append(kept, new)
    BY <1>2 DEF Push
  <2> QED
    BY <2>1, <2>2, <2>3, AppendProperties, QueueAssumption
<1> QED
  BY <1>1, <1>2

LEMMA LookType ==
  ASSUME TypeOK, Look
  PROVE  /\ frames' \in Seq(QueuedDownlink)
         /\ Len(frames') <= Len(frames)
         /\ got' \in 0..LastFrame
<1> DEFINE kept == Pruned(frames, askedAt)
<1>1. kept \in Seq(QueuedDownlink) /\ Len(kept) <= Len(frames)
  BY PrunedType DEF TypeOK
<1>2. CASE kept # <<>>
  <2>1. frames' = Tail(kept) /\ got' = kept[1].frame
    BY <1>2 DEF Look
  <2>2. kept[1] \in QueuedDownlink
    BY <1>1, <1>2, ElementOfSeq, EmptySeq
  <2>3. Tail(kept) \in Seq(QueuedDownlink) /\ Len(Tail(kept)) = Len(kept) - 1
    BY <1>1, <1>2, HeadTailProperties
  <2> QED
    BY <1>1, <2>1, <2>2, <2>3 DEF QueuedDownlink, TypeOK
<1>3. CASE kept = <<>>
  <2>1. frames' = <<>> /\ got' = got
    BY <1>3 DEF Look
  <2> QED
    BY <2>1 DEF TypeOK
<1> QED
  BY <1>2, <1>3

LEMMA TypeStep == TypeOK /\ [Next]_vars => TypeOK'
<1> SUFFICES ASSUME TypeOK, [Next]_vars PROVE TypeOK'
  OBVIOUS
<1> USE QueueAssumption DEF TypeOK
<1>1. CASE Elapse
  BY <1>1 DEF Elapse, notifyVars
<1>2. CASE ReadPushClock
  BY <1>2 DEF ReadPushClock, notifyVars
<1>3. CASE Push
  BY <1>3, PushType DEF Push, notifyVars
<1>4. CASE NotifyOne
  BY <1>4 DEF NotifyOne
<1>5. CASE Close
  BY <1>5 DEF Close, notifyVars
<1>6. CASE NotifyWaiters
  BY <1>6 DEF NotifyWaiters
<1>7. CASE Ask
  BY <1>7 DEF Ask
<1>8. CASE Look
  BY <1>8, LookType DEF Look, notifyVars
<1>9. CASE Poll
  BY <1>9 DEF Poll, NextRound
<1>10. CASE Wake
  BY <1>10 DEF Wake, NextRound
<1>11. CASE UNCHANGED vars
  BY <1>11 DEF vars, notifyVars
<1> QED
  BY <1>1, <1>2, <1>3, <1>4, <1>5, <1>6, <1>7, <1>8, <1>9, <1>10, <1>11 DEF Next, Recv

(* Every behaviour of the queue keeps its types.                            *)
THEOREM TypeCorrect == Spec => []TypeOK
  BY TypeInit, TypeStep, PTL DEF Spec
-----------------------------------------------------------------------------
(* The bound on the queue, and what closing leaves in it.                   *)
CloserOrder ==
  /\ closed <=> closer # "idle"
  /\ broadcast <=> closer = "done"

LEMMA BoundedStep ==
  TypeOK /\ QueueBounded /\ CloserOrder /\ [Next]_vars => (QueueBounded /\ CloserOrder)'
<1> SUFFICES ASSUME TypeOK, QueueBounded, CloserOrder, [Next]_vars
             PROVE  (QueueBounded /\ CloserOrder)'
  OBVIOUS
<1>1. CASE Push
  BY <1>1, PushType DEF Push, notifyVars, QueueBounded, CloserOrder
<1>2. CASE Look
  <2>1. frames' \in Seq(QueuedDownlink) /\ Len(frames') <= Len(frames)
    BY <1>2, LookType
  <2>2. closed' = closed /\ closer' = closer /\ broadcast' = broadcast
    BY <1>2 DEF Look, notifyVars
  <2>3. Len(frames') <= MaxFrames
    BY <2>1, QueueAssumption DEF QueueBounded, TypeOK
  <2>4. closed => Len(frames') = 0
    BY <2>1 DEF QueueBounded, TypeOK
  <2> QED
    BY <2>1, <2>2, <2>3, <2>4, EmptySeq DEF QueueBounded, CloserOrder
<1>3. CASE Close
  BY <1>3, QueueAssumption DEF Close, notifyVars, QueueBounded, CloserOrder, TypeOK
<1>4. CASE NotifyWaiters
  BY <1>4 DEF NotifyWaiters, QueueBounded, CloserOrder, TypeOK
<1>5. CASE Elapse \/ ReadPushClock \/ NotifyOne \/ Ask \/ Poll \/ Wake \/ UNCHANGED vars
  BY <1>5 DEF Elapse, ReadPushClock, NotifyOne, Ask, Poll, Wake, NextRound, vars, notifyVars,
              QueueBounded, CloserOrder
<1> QED
  BY <1>1, <1>2, <1>3, <1>4, <1>5 DEF Next, Recv

(* A connection whose client does not read costs at most MaxFrames frames,  *)
(* and a closed queue stays empty.                                          *)
THEOREM QueueBoundedHolds == Spec => []QueueBounded
<1>1. Init => QueueBounded /\ CloserOrder
  BY QueueAssumption DEF Init, QueueBounded, CloserOrder
<1> QED
  BY <1>1, BoundedStep, TypeCorrect, PTL DEF Spec
-----------------------------------------------------------------------------
(* NoLostWakeup is not inductive: it has to be known of a receiver that has *)
(* looked and not yet registered, whose Notified must already cover every   *)
(* push and close since the look, and of who may be registered when.        *)
WakeupPending ==
  /\ receiver = "polling" =>
       /\ frames # <<>> => pusher = "notifying" \/ permit
       /\ closed => closer = "notifying" \/ broadcast # seen
  /\ seen => broadcast
  /\ waiter = "waiting" => receiver = "parked"
  /\ NoLostWakeup

LEMMA WakeupStep ==
  TypeOK /\ QueueBounded /\ CloserOrder /\ WakeupPending /\ [Next]_vars => WakeupPending'
<1> SUFFICES ASSUME TypeOK, QueueBounded, CloserOrder, WakeupPending, [Next]_vars
             PROVE  WakeupPending'
  OBVIOUS
<1> USE DEF TypeOK, QueueBounded, CloserOrder, WakeupPending, NoLostWakeup
<1>1. CASE Elapse \/ ReadPushClock \/ UNCHANGED vars
  BY <1>1 DEF Elapse, ReadPushClock, vars, notifyVars
<1>2. CASE Push
  BY <1>2 DEF Push, notifyVars
<1>3. CASE NotifyOne
  BY <1>3 DEF NotifyOne
<1>4. CASE Close
  BY <1>4 DEF Close, notifyVars
<1>5. CASE NotifyWaiters
  BY <1>5 DEF NotifyWaiters
<1>6. CASE Ask
  BY <1>6 DEF Ask
<1>7. CASE Look
  BY <1>7 DEF Look, notifyVars
<1>8. CASE Poll
  BY <1>8 DEF Poll, NextRound
<1>9. CASE Wake
  BY <1>9 DEF Wake, NextRound
<1> QED
  BY <1>1, <1>2, <1>3, <1>4, <1>5, <1>6, <1>7, <1>8, <1>9 DEF Next, Recv

(* No interleaving of pushes, the close and the receiver leaves it asleep   *)
(* with something to return and nobody about to wake it.                    *)
THEOREM NoLostWakeupHolds == Spec => []NoLostWakeup
<1>1. Init => QueueBounded /\ CloserOrder /\ WakeupPending
  BY QueueAssumption DEF Init, QueueBounded, CloserOrder, WakeupPending, NoLostWakeup
<1>2. WakeupPending => NoLostWakeup
  BY DEF WakeupPending
<1> QED
  BY <1>1, <1>2, BoundedStep, WakeupStep, TypeCorrect, PTL DEF Spec
-----------------------------------------------------------------------------
(* One pusher reads the clock before each push, so the queue is sorted by   *)
(* age: past the first fresh frame every frame is fresh.                    *)
Sorted(q) == \A i, j \in 1..Len(q) : i <= j => q[i].at <= q[j].at

ClockOrder ==
  /\ pushedAt <= now
  /\ Sorted(frames)
  /\ \A i \in 1..Len(frames) : frames[i].at <= pushedAt

LEMMA SuffixSorted ==
  ASSUME NEW q \in Seq(QueuedDownlink), NEW k \in 0..Len(q), NEW t, Sorted(q),
         \A i \in 1..Len(q) : q[i].at <= t
  PROVE  Sorted(DropFront(q, k)) /\ \A i \in 1..Len(DropFront(q, k)) : DropFront(q, k)[i].at <= t
<1>1. /\ Len(DropFront(q, k)) = Len(q) - k
      /\ \A i \in 1..(Len(q) - k) : DropFront(q, k)[i] = q[k + i]
  BY DropFrontProperties
<1> DEFINE rest == DropFront(q, k)
<1>2. ASSUME NEW i \in 1..Len(rest)
      PROVE  k + i \in 1..Len(q) /\ rest[i] = q[k + i] /\ rest[i].at <= t
  <2>1. k + i \in 1..Len(q) /\ i \in 1..(Len(q) - k)
    BY <1>1
  <2> QED
    BY <1>1, <2>1
<1>3. ASSUME NEW i \in 1..Len(rest), NEW j \in 1..Len(rest), i <= j
      PROVE  rest[i].at <= rest[j].at
  <2>1. k + i \in 1..Len(q) /\ k + j \in 1..Len(q) /\ k + i <= k + j
    BY <1>1, <1>3
  <2> QED
    BY <1>2, <2>1 DEF Sorted
<1> QED
  BY <1>2, <1>3 DEF Sorted

LEMMA TailIsDropFront ==
  ASSUME NEW q \in Seq(QueuedDownlink), NEW k \in 0..Len(q), DropFront(q, k) # <<>>
  PROVE  /\ k < Len(q)
         /\ DropFront(q, k)[1] = q[k + 1]
         /\ Tail(DropFront(q, k)) = DropFront(q, k + 1)
<1>1. k < Len(q)
  BY SubSeqEmpty DEF DropFront
<1>2. k + 1 \in 1..Len(q) /\ Len(q) \in (k + 1)..Len(q)
  BY <1>1
<1>3. Tail(DropFront(q, k)) = DropFront(q, k + 1)
  BY <1>2, HeadTailOfSubSeq DEF DropFront
<1> QED
  BY <1>1, <1>3, DropFrontProperties

(* What Look does: it delivers the frame after the outdated ones and keeps  *)
(* the rest, or finds all of them outdated.                                 *)
LEMMA LookCases ==
  ASSUME TypeOK, Look
  PROVE  \/ \E k \in 0..(Len(frames) - 1) :
              /\ ~TooOld(frames[k + 1], askedAt)
              /\ got' = frames[k + 1].frame
              /\ frames' = DropFront(frames, k + 1)
              /\ receiver' = "busy"
         \/ /\ frames' = <<>>
            /\ got' = got
            /\ receiver' = IF closed THEN "ended" ELSE "polling"
<1>1. PICK k \in 0..Len(frames) :
        /\ Pruned(frames, askedAt) = DropFront(frames, k)
        /\ k < Len(frames) => ~TooOld(frames[k + 1], askedAt)
  BY PrunedIsSuffix DEF TypeOK
<1>2. CASE DropFront(frames, k) # <<>>
  <2>1. /\ k < Len(frames)
        /\ DropFront(frames, k)[1] = frames[k + 1]
        /\ Tail(DropFront(frames, k)) = DropFront(frames, k + 1)
    BY <1>2, TailIsDropFront DEF TypeOK
  <2>2. /\ got' = DropFront(frames, k)[1].frame
        /\ frames' = Tail(DropFront(frames, k))
        /\ receiver' = "busy"
    BY <1>1, <1>2 DEF Look
  <2>3. k \in 0..(Len(frames) - 1)
    BY <2>1
  <2> QED
    BY <1>1, <2>1, <2>2, <2>3
<1>3. CASE DropFront(frames, k) = <<>>
  BY <1>1, <1>3 DEF Look
<1> QED
  BY <1>2, <1>3

(* What an open push does: it appends to a suffix.                          *)
LEMMA PushAppends ==
  ASSUME TypeOK, Push, ~closed
  PROVE  \E k \in 0..Len(frames) :
           frames' = Append(DropFront(frames, k), [frame |-> sent + 1, at |-> pushedAt])
<1> DEFINE pruned == Pruned(frames, pushedAt)
<1>1. PICK a \in 0..Len(frames) : pruned = DropFront(frames, a)
  BY PrunedIsSuffix DEF TypeOK
<1>2. pruned \in Seq(QueuedDownlink) /\ Len(pruned) = Len(frames) - a
  BY <1>1, DropFrontProperties DEF TypeOK
<1>3. PICK b \in 0..Len(pruned) : Fitted(pruned) = DropFront(pruned, b)
  BY <1>2, FittedIsSuffix
<1>4. a + b \in 0..Len(frames)
  BY <1>2 DEF TypeOK
<1>5. DropFront(pruned, b) = DropFront(frames, a + b)
  <2> HIDE DEF pruned
  <2> DEFINE n == Len(frames) - (a + b)
  <2>1. /\ DropFront(pruned, b) \in Seq(QueuedDownlink)
        /\ Len(DropFront(pruned, b)) = Len(pruned) - b
        /\ \A i \in 1..(Len(pruned) - b) : DropFront(pruned, b)[i] = pruned[b + i]
    BY <1>2, DropFrontProperties
  <2>2. \A i \in 1..(Len(frames) - a) : pruned[i] = frames[a + i]
    BY <1>1, DropFrontProperties DEF TypeOK
  <2>3. /\ DropFront(frames, a + b) \in Seq(QueuedDownlink)
        /\ Len(DropFront(frames, a + b)) = n
        /\ \A i \in 1..n : DropFront(frames, a + b)[i] = frames[(a + b) + i]
    BY <1>4, DropFrontProperties DEF TypeOK
  <2>4. Len(pruned) - b = n /\ Len(frames) \in Nat
    BY <1>2 DEF TypeOK
  <2>5. ASSUME NEW i \in 1..n
        PROVE  DropFront(pruned, b)[i] = DropFront(frames, a + b)[i]
    <3>1. b + i \in 1..(Len(frames) - a) /\ a + (b + i) = (a + b) + i
      BY <1>2, <2>4
    <3>2. pruned[b + i] = frames[(a + b) + i]
      BY <2>2, <3>1
    <3> QED
      BY <2>1, <2>3, <2>4, <3>2
  <2> QED
    BY <2>1, <2>3, <2>4, <2>5, SeqEqual
<1> QED
  BY <1>3, <1>4, <1>5 DEF Push

LEMMA FrameTypes ==
  ASSUME TypeOK
  PROVE  \A i \in 1..Len(frames) : frames[i].at \in Nat /\ frames[i].frame \in 1..LastFrame
<1> SUFFICES ASSUME NEW i \in 1..Len(frames)
             PROVE  frames[i].at \in Nat /\ frames[i].frame \in 1..LastFrame
  OBVIOUS
<1>1. frames \in Seq(QueuedDownlink)
  BY DEF TypeOK
<1>2. frames[i] \in QueuedDownlink
  BY <1>1, ElementOfSeq
<1> QED
  BY <1>2, QueueAssumption DEF QueuedDownlink

LEMMA ClockStep == TypeOK /\ ClockOrder /\ [Next]_vars => ClockOrder'
<1> SUFFICES ASSUME TypeOK, ClockOrder, [Next]_vars PROVE ClockOrder'
  OBVIOUS
<1>1. CASE Push
  <2>1. CASE closed
    BY <1>1, <2>1 DEF Push, ClockOrder
  <2>2. CASE ~closed
    <3> DEFINE new == [frame |-> sent + 1, at |-> pushedAt]
    <3>1. PICK k \in 0..Len(frames) : frames' = Append(DropFront(frames, k), new)
      BY <1>1, <2>2, PushAppends
    <3> DEFINE rest == DropFront(frames, k)
    <3>2. rest \in Seq(QueuedDownlink) /\ new \in QueuedDownlink
      <4>1. rest \in Seq(QueuedDownlink)
        BY DropFrontProperties DEF TypeOK
      <4>2. new \in QueuedDownlink
        BY <1>1, QueueAssumption DEF TypeOK, QueuedDownlink, Push
      <4> QED
        BY <4>1, <4>2
    <3>3. Sorted(rest) /\ \A i \in 1..Len(rest) : rest[i].at <= pushedAt
      BY SuffixSorted DEF TypeOK, ClockOrder
    <3>4. /\ Len(frames') = Len(rest) + 1
          /\ \A i \in 1..Len(rest) : frames'[i] = rest[i]
          /\ frames'[Len(rest) + 1].at = pushedAt
      BY <3>1, <3>2, AppendProperties
    <3> HIDE DEF rest
    <3>5. \A i \in 1..Len(frames') : frames'[i].at <= pushedAt
      BY <3>2, <3>3, <3>4 DEF TypeOK
    <3>6. ASSUME NEW i \in 1..Len(frames'), NEW j \in 1..Len(frames'), i <= j
          PROVE  frames'[i].at <= frames'[j].at
      <4>1. CASE j = Len(rest) + 1
        BY <3>4, <3>5, <4>1
      <4>2. CASE j # Len(rest) + 1
        <5>1. i \in 1..Len(rest) /\ j \in 1..Len(rest)
          BY <3>2, <3>4, <3>6, <4>2
        <5> QED
          BY <3>3, <3>4, <3>6, <5>1 DEF Sorted
      <4> QED
        BY <4>1, <4>2
    <3> QED
      BY <1>1, <3>5, <3>6 DEF Push, ClockOrder, Sorted
  <2> QED
    BY <2>1, <2>2
<1>2. CASE Look
  <2>1. now' = now /\ pushedAt' = pushedAt
    BY <1>2 DEF Look
  <2>2. Sorted(frames') /\ \A i \in 1..Len(frames') : frames'[i].at <= pushedAt
    <3>1. CASE frames' = <<>>
      BY <3>1 DEF Sorted
    <3>2. ASSUME NEW k \in 0..(Len(frames) - 1), frames' = DropFront(frames, k + 1)
          PROVE  Sorted(frames') /\ \A i \in 1..Len(frames') : frames'[i].at <= pushedAt
      <4>1. k + 1 \in 0..Len(frames) /\ frames \in Seq(QueuedDownlink)
        BY DEF TypeOK
      <4> QED
        BY <3>2, <4>1, SuffixSorted DEF ClockOrder
    <3> QED
      BY <1>2, <3>1, <3>2, LookCases
  <2> QED
    BY <2>1, <2>2 DEF ClockOrder
<1>3. CASE Close
  BY <1>3 DEF Close, ClockOrder, Sorted
<1>4. CASE Elapse
  BY <1>4 DEF Elapse, ClockOrder, TypeOK
<1>5. CASE ReadPushClock
  <2>1. frames' = frames /\ pushedAt' = now /\ now' = now
    BY <1>5 DEF ReadPushClock
  <2>2. \A i \in 1..Len(frames) : frames[i].at <= now
    BY FrameTypes, QueueAssumption DEF ClockOrder, TypeOK
  <2> QED
    BY <2>1, <2>2, QueueAssumption DEF ClockOrder, TypeOK
<1>6. CASE NotifyOne \/ NotifyWaiters \/ Ask \/ Poll \/ Wake \/ UNCHANGED vars
  BY <1>6 DEF NotifyOne, NotifyWaiters, Ask, Poll, Wake, vars, ClockOrder
<1> QED
  BY <1>1, <1>2, <1>3, <1>4, <1>5, <1>6 DEF Next, Recv

(* A frame that recv returns, and every frame it leaves behind it, had not  *)
(* outlived MaxAge when recv read the clock.                                *)
THEOREM DeliveredFreshHolds == Spec => DeliveredFresh
<1>1. Init => ClockOrder
  BY DEF Init, ClockOrder, Sorted
<1>2. TypeOK /\ ClockOrder /\ [Next]_vars =>
        [got' # got =>
           \E k \in 1..Len(frames) :
             /\ frames[k].frame = got'
             /\ \A i \in k..Len(frames) : askedAt <= frames[i].at + MaxAge]_vars
  <2> SUFFICES ASSUME TypeOK, ClockOrder, [Next]_vars, got' # got
               PROVE  \E k \in 1..Len(frames) :
                        /\ frames[k].frame = got'
                        /\ \A i \in k..Len(frames) : askedAt <= frames[i].at + MaxAge
    OBVIOUS
  <2>1. Look
    BY DEF Next, Recv, Elapse, ReadPushClock, Push, NotifyOne, Close, NotifyWaiters, Ask, Poll,
           Wake, vars
  <2>2. PICK k \in 0..(Len(frames) - 1) :
          ~TooOld(frames[k + 1], askedAt) /\ got' = frames[k + 1].frame
    BY <2>1, LookCases
  <2>3. \A i \in 1..Len(frames) : frames[i].at \in Nat
    BY FrameTypes
  <2>4. askedAt \in Nat /\ askedAt <= frames[k + 1].at + MaxAge
    BY <2>2, <2>3, QueueAssumption DEF TooOld, TypeOK
  <2>5. \A i \in (k + 1)..Len(frames) : frames[k + 1].at <= frames[i].at
    BY DEF ClockOrder, Sorted, TypeOK
  <2>6. ASSUME NEW i \in (k + 1)..Len(frames) PROVE askedAt <= frames[i].at + MaxAge
    <3>1. frames[i].at \in Nat /\ frames[k + 1].at \in Nat /\ frames[k + 1].at <= frames[i].at
      BY <2>3, <2>5
    <3> QED
      BY <2>4, <3>1, QueueAssumption
  <2>7. k + 1 \in 1..Len(frames)
    BY DEF TypeOK
  <2> QED
    BY <2>2, <2>6, <2>7
<1> QED
  BY <1>1, <1>2, ClockStep, TypeCorrect, PTL DEF Spec, DeliveredFresh
-----------------------------------------------------------------------------
(* The safety half of ChannelImplemented: what the channel holds is the      *)
(* sequence of the queued frames' numbers.                                   *)
Numbers(q) == [i \in 1..Len(q) |-> q[i].frame]

LEMMA NumbersType ==
  ASSUME NEW q \in Seq(QueuedDownlink)
  PROVE  /\ Numbers(q) \in Seq(1..LastFrame)
         /\ Len(Numbers(q)) = Len(q)
         /\ \A i \in 1..Len(q) : Numbers(q)[i] = q[i].frame
<1>1. ASSUME NEW i \in 1..Len(q) PROVE q[i].frame \in 1..LastFrame
  <2>1. q[i] \in QueuedDownlink
    BY ElementOfSeq
  <2> QED
    BY <2>1 DEF QueuedDownlink
<1>2. Len(q) \in Nat
  OBVIOUS
<1> QED
  BY <1>1, <1>2, IsASeq DEF Numbers

LEMMA NumbersDropFront ==
  ASSUME NEW q \in Seq(QueuedDownlink), NEW k \in 0..Len(q)
  PROVE  Numbers(DropFront(q, k)) = DropFront(Numbers(q), k)
<1> DEFINE a == Numbers(DropFront(q, k))
           b == DropFront(Numbers(q), k)
<1>1. /\ DropFront(q, k) \in Seq(QueuedDownlink)
      /\ Len(DropFront(q, k)) = Len(q) - k
      /\ \A i \in 1..(Len(q) - k) : DropFront(q, k)[i] = q[k + i]
  BY DropFrontProperties
<1>2. /\ a \in Seq(1..LastFrame)
      /\ Len(a) = Len(q) - k
      /\ \A i \in 1..(Len(q) - k) : a[i] = DropFront(q, k)[i].frame
  BY <1>1, NumbersType
<1>3. /\ Numbers(q) \in Seq(1..LastFrame)
      /\ Len(Numbers(q)) = Len(q)
      /\ \A i \in 1..Len(q) : Numbers(q)[i] = q[i].frame
  BY NumbersType
<1>4. /\ b \in Seq(1..LastFrame)
      /\ Len(b) = Len(q) - k
      /\ \A i \in 1..(Len(q) - k) : b[i] = Numbers(q)[k + i]
  BY <1>3, DropFrontProperties
<1>5. ASSUME NEW i \in 1..(Len(q) - k) PROVE a[i] = b[i]
  <2>1. k + i \in 1..Len(q)
    OBVIOUS
  <2> QED
    BY <1>1, <1>2, <1>3, <1>4, <2>1
<1> QED
  BY <1>2, <1>4, <1>5, SeqEqual

LEMMA NumbersAppend ==
  ASSUME NEW q \in Seq(QueuedDownlink), NEW x \in QueuedDownlink
  PROVE  Numbers(Append(q, x)) = Append(Numbers(q), x.frame)
<1> DEFINE a == Numbers(Append(q, x))
           b == Append(Numbers(q), x.frame)
<1>1. /\ Append(q, x) \in Seq(QueuedDownlink)
      /\ Len(Append(q, x)) = Len(q) + 1
      /\ \A i \in 1..Len(q) : Append(q, x)[i] = q[i]
      /\ Append(q, x)[Len(q) + 1] = x
  BY AppendProperties
<1>2. /\ a \in Seq(1..LastFrame)
      /\ Len(a) = Len(q) + 1
      /\ \A i \in 1..(Len(q) + 1) : a[i] = Append(q, x)[i].frame
  BY <1>1, NumbersType
<1>3. /\ Numbers(q) \in Seq(1..LastFrame)
      /\ Len(Numbers(q)) = Len(q)
      /\ \A i \in 1..Len(q) : Numbers(q)[i] = q[i].frame
  BY NumbersType
<1>4. x.frame \in 1..LastFrame
  BY DEF QueuedDownlink
<1>5. /\ b \in Seq(1..LastFrame)
      /\ Len(b) = Len(q) + 1
      /\ \A i \in 1..Len(q) : b[i] = Numbers(q)[i]
      /\ b[Len(q) + 1] = x.frame
  BY <1>3, <1>4, AppendProperties
<1>6. ASSUME NEW i \in 1..(Len(q) + 1) PROVE a[i] = b[i]
  <2>1. CASE i = Len(q) + 1
    BY <1>1, <1>2, <1>5, <2>1
  <2>2. CASE i # Len(q) + 1
    <3>1. i \in 1..Len(q)
      BY <2>2
    <3> QED
      BY <1>1, <1>2, <1>3, <1>5, <3>1
  <2> QED
    BY <2>1, <2>2
<1> QED
  BY <1>2, <1>5, <1>6, SeqEqual

LEMMA ChannelStep ==
  TypeOK /\ QueueBounded /\ QueueBounded' /\ [Next]_vars => [Channel!Next]_(Channel!vars)
<1> SUFFICES ASSUME TypeOK, QueueBounded, QueueBounded', [Next]_vars
             PROVE  Channel!Next \/ UNCHANGED Channel!vars
  OBVIOUS
<1> DEFINE held == Numbers(frames)
<1>0. frames \in Seq(QueuedDownlink) /\ Len(held) = Len(frames)
  BY NumbersType DEF TypeOK
<1>1. CASE Elapse \/ ReadPushClock \/ NotifyOne \/ NotifyWaiters \/ Poll \/ Wake \/ UNCHANGED vars
  <2>1. UNCHANGED <<frames, sent, got, closed>>
    BY <1>1 DEF Elapse, ReadPushClock, NotifyOne, NotifyWaiters, Poll, Wake, vars, notifyVars
  <2>2. UNCHANGED ReaderView
    BY <1>1 DEF Elapse, ReadPushClock, NotifyOne, NotifyWaiters, Poll, Wake, NextRound, vars, ReaderView
  <2> QED
    BY <2>1, <2>2 DEF Channel!vars, ReaderView
<1>2. CASE Push
  <2>1. sent < LastFrame /\ sent' = sent + 1 /\ UNCHANGED <<got, closed, ReaderView>>
    BY <1>2 DEF Push, TypeOK, ReaderView
  <2>2. CASE closed
    <3>1. frames' = frames
      BY <1>2, <2>2 DEF Push
    <3>2. Channel!Offer
      BY <2>1, <2>2, <3>1 DEF Channel!Offer, ReaderView
    <3> QED
      BY <3>2 DEF Channel!Next
  <2>3. CASE ~closed
    <3> DEFINE new == [frame |-> sent + 1, at |-> pushedAt]
    <3>1. PICK k \in 0..Len(frames) : frames' = Append(DropFront(frames, k), new)
      BY <1>2, <2>3, PushAppends
    <3>2. new \in QueuedDownlink
      BY <2>1, QueueAssumption DEF TypeOK, QueuedDownlink
    <3>3. DropFront(frames, k) \in Seq(QueuedDownlink)
      BY <1>0, DropFrontProperties
    <3>4. Numbers(frames') = Append(DropFront(held, k), sent + 1)
      <4>1. Numbers(frames') = Append(Numbers(DropFront(frames, k)), new.frame)
        BY <3>1, <3>2, <3>3, NumbersAppend
      <4> QED
        BY <1>0, <4>1, NumbersDropFront
    <3>5. Len(Numbers(frames')) <= MaxFrames
      <4>1. frames' \in Seq(QueuedDownlink)
        BY <1>2, PushType
      <4> QED
        BY <4>1, NumbersType DEF QueueBounded
    <3>6. k \in 0..Len(held)
      BY <1>0
    <3>7. Channel!Offer
      BY <2>1, <2>3, <3>4, <3>5, <3>6
         DEF Channel!Offer, Channel!Suffix, Numbers, DropFront, ReaderView
    <3> QED
      BY <3>7 DEF Channel!Next
  <2> QED
    BY <2>2, <2>3
<1>3. CASE Close
  <2>1. /\ closed' = TRUE
        /\ Numbers(frames') = <<>>
        /\ UNCHANGED <<sent, got, ReaderView>>
    BY <1>3 DEF Close, Numbers, ReaderView
  <2>2. Channel!Close
    BY <2>1 DEF Channel!Close, Numbers, ReaderView
  <2> QED
    BY <2>2 DEF Channel!Next
<1>4. CASE Ask
  <2>1. receiver = "busy" /\ receiver' = "created" /\ UNCHANGED <<frames, sent, got, closed>>
    BY <1>4 DEF Ask
  <2>2. Channel!Ask
    BY <2>1 DEF Channel!Ask, ReaderView
  <2> QED
    BY <2>2 DEF Channel!Next
<1>5. CASE Look
  <2>1. receiver = "created" /\ UNCHANGED <<sent, closed>>
    BY <1>5 DEF Look
  <2>2. ASSUME NEW k \in 0..(Len(frames) - 1),
               got' = frames[k + 1].frame, frames' = DropFront(frames, k + 1), receiver' = "busy"
        PROVE  Channel!Deliver
    <3>1. k + 1 \in 0..Len(frames) /\ k + 1 \in 1..Len(frames) /\ k \in 0..(Len(held) - 1)
      BY <1>0
    <3>2. held[k + 1] = frames[k + 1].frame
      BY <1>0, <3>1, NumbersType
    <3>3. Numbers(frames') = DropFront(held, k + 1)
      BY <1>0, <2>2, <3>1, NumbersDropFront
    <3> QED
      BY <2>1, <2>2, <3>1, <3>2, <3>3
         DEF Channel!Deliver, Channel!Suffix, Numbers, DropFront, ReaderView
  <2>3. ASSUME frames' = <<>>, got' = got, receiver' = IF closed THEN "ended" ELSE "polling"
        PROVE  Channel!Forget \/ Channel!End \/ UNCHANGED Channel!vars
    <3>1. Numbers(frames') = <<>>
      BY <2>3 DEF Numbers
    <3>2. CASE closed
      <4>1. Numbers(frames') = held
        BY <2>3, <3>2 DEF QueueBounded
      <4>2. Channel!End
        BY <2>1, <2>3, <3>2, <4>1 DEF Channel!End, Numbers, ReaderView
      <4> QED
        BY <4>2
    <3>3. CASE ~closed
      <4>1. receiver' = "polling"
        BY <2>3, <3>3
      <4>2. CASE held = <<>>
        BY <2>1, <2>3, <3>1, <4>1, <4>2 DEF Channel!vars, Numbers, ReaderView
      <4>3. CASE held # <<>>
        <5>1. Channel!Forget
          BY <2>1, <2>3, <3>1, <4>1, <4>3 DEF Channel!Forget, Numbers, ReaderView
        <5> QED
          BY <5>1
      <4> QED
        BY <4>2, <4>3
    <3> QED
      BY <3>2, <3>3
  <2> QED
    BY <1>5, <2>2, <2>3, LookCases DEF Channel!Next
<1> QED
  BY <1>1, <1>2, <1>3, <1>4, <1>5 DEF Next, Recv

(* The queue with its locks, clock readings and wake-ups does only what the  *)
(* bounded, ordered, forgetful channel does.                                *)
THEOREM QueueImplementsChannel == Spec => Channel!Spec
<1>1. Init => Channel!Init
  BY DEF Init, Channel!Init, ReaderView
<1>2. Init => QueueBounded /\ CloserOrder
  BY QueueAssumption DEF Init, QueueBounded, CloserOrder
<1> QED
  BY <1>1, <1>2, BoundedStep, ChannelStep, TypeCorrect, PTL DEF Spec, Channel!Spec
=============================================================================
