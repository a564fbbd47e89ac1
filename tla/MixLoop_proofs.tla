--------------------------- MODULE MixLoop_proofs ---------------------------
(***************************************************************************)
(* Proofs about MixLoop for every frame length, catch-up limit, prebuffer, *)
(* bound and age: its types, that the sequence numbers tell the time, that *)
(* the deadline is always a frame ahead, what the input queue keeps, and   *)
(* that what is mixed is mixed once, in order and fresh.                   *)
(***************************************************************************)
EXTENDS MixLoop, SequenceTheorems, WellFoundedInduction, TLAPS

(* What the operators of AgedQueue return.                                  *)
(* The prefix exists: there is a least position that the loop stops at, or   *)
(* it passes all.                                                           *)
LEMMA PrefixInProperties ==
  ASSUME NEW n \in Nat, NEW bad
  PROVE  /\ PrefixIn(bad, n) \in 0..n
         /\ \A i \in 1..PrefixIn(bad, n) : i \in bad
         /\ PrefixIn(bad, n) < n => PrefixIn(bad, n) + 1 \notin bad
<1> DEFINE T == {j \in 0..n : j < n => j + 1 \notin bad}
<1>1. n \in T /\ T \subseteq Nat
  OBVIOUS
<1>2. PICK k \in T : \A j \in T : ~(<<j, k>> \in OpToRel(<, Nat))
  BY <1>1, NatLessThanWellFounded, WFMin
<1>3. \A j \in T : ~(j < k)
  BY <1>1, <1>2 DEF OpToRel
<1>4. ASSUME NEW i \in 1..k PROVE i \in bad
  <2>1. i - 1 \in 0..n /\ i - 1 < k /\ i - 1 < n /\ (i - 1) + 1 = i
    OBVIOUS
  <2>2. i - 1 \notin T
    BY <1>3, <2>1
  <2> QED
    BY <2>1, <2>2
<1> QED
  BY <1>4 DEF PrefixIn

LEMMA DropFrontProperties ==
  ASSUME NEW S, NEW q \in Seq(S), NEW k \in 0..Len(q)
  PROVE  /\ DropFront(q, k) \in Seq(S)
         /\ Len(DropFront(q, k)) = Len(q) - k
         /\ \A i \in 1..(Len(q) - k) : DropFront(q, k)[i] = q[k + i]
<1>1. \A i \in (k + 1)..Len(q) : q[i] \in S
  BY ElementOfSeq
<1>2. /\ SubSeq(q, k + 1, Len(q)) \in Seq(S)
      /\ Len(SubSeq(q, k + 1, Len(q))) = IF k + 1 <= Len(q) THEN Len(q) - (k + 1) + 1 ELSE 0
      /\ \A i \in 1..(Len(q) - (k + 1) + 1) : SubSeq(q, k + 1, Len(q))[i] = q[(k + 1) + i - 1]
  BY <1>1, SubSeqProperties
<1> QED
  BY <1>2 DEF DropFront

LEMMA FreshType ==
  ASSUME TypeOK
  PROVE  /\ Fresh \in Seq(QueuedFrame)
         /\ Len(Fresh) <= Len(frames)
<1> DEFINE bad == {i \in 1..Len(frames) : TooOld(frames[i])}
           k == PrefixIn(bad, Len(frames))
<1>1. Len(frames) \in Nat /\ frames \in Seq(QueuedFrame)
  BY DEF TypeOK
<1>2. k \in 0..Len(frames)
  BY <1>1, PrefixInProperties
<1>3. DropFront(frames, k) \in Seq(QueuedFrame) /\ Len(DropFront(frames, k)) = Len(frames) - k
  BY <1>1, <1>2, DropFrontProperties
<1>4. Fresh = DropFront(frames, k)
  BY DEF Fresh
<1> QED
  BY <1>1, <1>2, <1>3, <1>4

LEMMA SeqHead ==
  ASSUME NEW q \in Seq(QueuedFrame), q # <<>>
  PROVE  /\ q[1] \in QueuedFrame
         /\ Tail(q) \in Seq(QueuedFrame)
         /\ Len(q) \in Nat \ {0}
         /\ Len(Tail(q)) = Len(q) - 1
<1>1. Len(q) \in Nat /\ Len(q) # 0
  BY EmptySeq
<1>2. 1 \in 1..Len(q)
  BY <1>1
<1> QED
  BY <1>1, <1>2, ElementOfSeq, HeadTailProperties

(* The two outcomes of a tick for a registered endpoint.                    *)
LEMMA TickCases ==
  ASSUME TypeOK, MixTick, registered
  PROVE  /\ dropped' = dropped + (Len(frames) - Len(Fresh))
         /\ \/ Fresh # <<>> /\ PlayFirst(Fresh)
            \/ (started => Fresh = <<>>) /\ Underrun(Fresh)
  BY DEF MixTick, Playable

(* What is true of a queue when the endpoint is there, of all its steps.    *)
LEMMA EnqueueCases ==
  ASSUME TypeOK, Enqueue, registered
  PROVE  \E kept \in Seq(QueuedFrame), lost \in {0, 1} :
           /\ frames' = Append(kept, [frame |-> sent + 1, at |-> now])
           /\ [frame |-> sent + 1, at |-> now] \in QueuedFrame
           /\ Len(kept) + lost = Len(frames)
           /\ dropped' = dropped + lost
           /\ Len(frames) <= MaxQueued => Len(kept) < MaxQueued
           /\ UNCHANGED discarded
<1>1. [frame |-> sent + 1, at |-> now] \in QueuedFrame
  <2>1. sent \in 0..LastFrame /\ sent < LastFrame /\ now \in 0..MaxTime /\ LastFrame \in Nat
    BY MixAssumption DEF Enqueue, TypeOK
  <2>2. sent + 1 \in 1..LastFrame
    BY <2>1
  <2> QED
    BY <2>1, <2>2 DEF QueuedFrame
<1>2. frames \in Seq(QueuedFrame) /\ Len(frames) \in Nat
  BY DEF TypeOK
<1>3. CASE Len(frames) = MaxQueued
  <2>1. frames # <<>>
    BY <1>3, MixAssumption
  <2>2. /\ frames' = Append(Tail(frames), [frame |-> sent + 1, at |-> now])
        /\ dropped' = dropped + 1
        /\ UNCHANGED discarded
    BY <1>3 DEF Enqueue, Overflow
  <2>3. Tail(frames) \in Seq(QueuedFrame) /\ Len(Tail(frames)) = Len(frames) - 1
    BY <1>2, <2>1, SeqHead
  <2>4. Len(Tail(frames)) + 1 = Len(frames)
    BY <1>2, <2>3
  <2>5. Len(Tail(frames)) < MaxQueued
    BY <1>2, <1>3, <2>3
  <2> QED
    BY <1>1, <2>2, <2>3, <2>4, <2>5
<1>4. CASE Len(frames) # MaxQueued
  <2>1. /\ frames' = Append(frames, [frame |-> sent + 1, at |-> now])
        /\ dropped' = dropped + 0
        /\ UNCHANGED discarded
    BY <1>4 DEF Enqueue
  <2>2. Len(frames) + 0 = Len(frames)
    BY <1>2
  <2>3. Len(frames) <= MaxQueued => Len(frames) < MaxQueued
    BY <1>2, <1>4, MixAssumption
  <2> QED
    BY <1>1, <1>2, <2>1, <2>2, <2>3
<1> QED
  BY <1>3, <1>4
-----------------------------------------------------------------------------
(* The catch-up arithmetic, for a frame of any length: the ticks that are    *)
(* due bring a deadline that has passed to within a frame after now.         *)
LEMMA DivBounds ==
  ASSUME NEW x \in Nat, NEW d \in Nat \ {0}
  PROVE  /\ x \div d \in Nat
         /\ d * (x \div d) <= x
         /\ x < d * (x \div d) + d
  OBVIOUS

LEMMA DueTicks ==
  ASSUME TypeOK, now >= deadline
  PROVE  /\ DueMixTicks \in Nat \ {0}
         /\ now < deadline + Frame * DueMixTicks
         /\ deadline + Frame * DueMixTicks <= now + Frame
<1> DEFINE x == now - deadline
<1>1. x \in Nat /\ now \in Nat /\ deadline \in Nat /\ Frame \in Nat \ {0}
  BY MixAssumption DEF TypeOK
<1>2. /\ x \div Frame \in Nat
      /\ Frame * (x \div Frame) <= x
      /\ x < Frame * (x \div Frame) + Frame
  BY <1>1, DivBounds
<1>3. DueMixTicks = 1 + (x \div Frame)
  BY DEF DueMixTicks
<1>4. ASSUME NEW d \in Nat, NEW n \in Nat
      PROVE  d * (1 + n) = d + d * n /\ d * n \in Nat
  BY <1>4
<1> DEFINE n == x \div Frame
<1>5. /\ Frame * DueMixTicks = Frame + Frame * n
      /\ Frame * n \in Nat
      /\ DueMixTicks \in Nat \ {0}
  BY <1>1, <1>2, <1>3, <1>4
<1> DEFINE p == Frame * n
           q == Frame * DueMixTicks
<1>6. /\ p \in Nat /\ q = Frame + p
      /\ p <= now - deadline /\ now - deadline < p + Frame
  BY <1>2, <1>5
<1> HIDE DEF p, q
<1>7. now < deadline + q /\ deadline + q <= now + Frame
  BY <1>1, <1>6
<1> QED
  BY <1>5, <1>7 DEF q

LEMMA TypeInit == Init => TypeOK
<1> SUFFICES ASSUME Init PROVE TypeOK
  OBVIOUS
<1>1. frames \in Seq(QueuedFrame)
  BY EmptySeq, Zenon DEF Init
<1>2. 0 \in 0..MaxTime /\ 0 \in 0..MaxCatchUp /\ 0 \in 0..LastFrame
  BY MixAssumption
<1> QED
  BY <1>1, <1>2 DEF Init, TypeOK

LEMMA TypeStep == TypeOK /\ [Next]_vars => TypeOK'
<1> SUFFICES ASSUME TypeOK, [Next]_vars PROVE TypeOK'
  OBVIOUS
<1>1. CASE Elapse
  BY <1>1, MixAssumption DEF Elapse, clock, input, TypeOK
<1>2. CASE Wake
  <2>1. DueMixTicks \in Nat \ {0} /\ deadline + Frame * DueMixTicks \in Nat
    <3>1. DueMixTicks \in Nat \ {0}
      BY <1>2, DueTicks DEF Wake
    <3>2. ASSUME NEW d \in Nat, NEW n \in Nat, NEW e \in Nat
          PROVE  e + d * n \in Nat
      BY <3>2
    <3> QED
      BY <3>1, <3>2, MixAssumption DEF TypeOK
  <2>2. now + Frame \in Nat /\ sequence + (DueMixTicks - 1) \in Nat
    BY <2>1, MixAssumption DEF TypeOK
  <2>3. deadline' \in Nat /\ sequence' \in Nat /\ owed' \in 0..MaxCatchUp /\ stalls' \in Nat
    <3> DEFINE due == DueMixTicks
               next == deadline + Frame * due
    <3>1. due \in Nat \ {0} /\ next \in Nat /\ sequence + (due - 1) \in Nat
      BY <2>1, <2>2
    <3>2. \/ due <= MaxCatchUp /\ owed' = due /\ deadline' = next /\ UNCHANGED <<sequence, stalls>>
          \/ /\ owed' = 1 /\ sequence' = sequence + (due - 1)
             /\ deadline' = now + Frame /\ stalls' = stalls + 1
      BY <1>2 DEF Wake, AfterStall
    <3> HIDE DEF due, next
    <3> QED
      BY <2>2, <3>1, <3>2, MixAssumption DEF TypeOK
  <2> QED
    BY <1>2, <2>3 DEF Wake, input, TypeOK
<1>3. CASE Register
  BY <1>3 DEF Register, clock, TypeOK
<1>4. CASE Remove
  <2>1. frames' \in Seq(QueuedFrame)
    BY <1>4, EmptySeq, Zenon DEF Remove
  <2>2. Len(frames) \in Nat /\ discarded' \in Nat /\ 0 \in 0..LastFrame
    BY <1>4, MixAssumption DEF Remove, TypeOK
  <2> QED
    BY <1>4, <2>1, <2>2 DEF Remove, clock, TypeOK
<1>5. CASE Enqueue
  <2>1. sent' \in 0..LastFrame
    BY <1>5, MixAssumption DEF Enqueue, TypeOK
  <2>2. CASE registered
    <3>1. PICK kept \in Seq(QueuedFrame), lost \in {0, 1} :
            /\ frames' = Append(kept, [frame |-> sent + 1, at |-> now])
            /\ [frame |-> sent + 1, at |-> now] \in QueuedFrame
            /\ dropped' = dropped + lost
            /\ discarded' = discarded
      BY <1>5, <2>2, EnqueueCases
    <3>2. frames' \in Seq(QueuedFrame) /\ dropped' \in Nat
      BY <3>1, AppendProperties DEF TypeOK
    <3> QED
      BY <1>5, <2>1, <3>1, <3>2 DEF Enqueue, clock, TypeOK
  <2>3. CASE ~registered
    BY <1>5, <2>1, <2>3 DEF Enqueue, clock, TypeOK
  <2> QED
    BY <2>2, <2>3
<1>6. CASE MixTick
  <2>1. owed' \in 0..MaxCatchUp /\ sequence' \in Nat
    BY <1>6, MixAssumption DEF MixTick, TypeOK
  <2>2. CASE ~registered
    BY <1>6, <2>1, <2>2 DEF MixTick, TypeOK
  <2>3. CASE registered
    <3>1. Fresh \in Seq(QueuedFrame) /\ Len(Fresh) \in Nat /\ Len(frames) \in Nat /\ Len(Fresh) <= Len(frames)
      BY FreshType DEF TypeOK
    <3>2. dropped' \in Nat
      BY <1>6, <2>3, <3>1, TickCases DEF TypeOK
    <3>3. CASE Fresh # <<>> /\ PlayFirst(Fresh)
      <4>1. Fresh[1].frame \in 1..LastFrame /\ Tail(Fresh) \in Seq(QueuedFrame)
        BY <3>1, <3>3, SeqHead DEF QueuedFrame
      <4>2. /\ frames' \in Seq(QueuedFrame) /\ started' \in BOOLEAN /\ mixed' \in Nat
            /\ slot' \in 0..LastFrame /\ played' \in 0..LastFrame
        BY <3>3, <4>1, MixAssumption DEF PlayFirst, TypeOK
      <4> QED
        BY <1>6, <2>1, <3>2, <4>2 DEF MixTick, TypeOK
    <3>4. CASE Underrun(Fresh)
      <4>1. /\ frames' \in Seq(QueuedFrame) /\ started' \in BOOLEAN /\ mixed' \in Nat
            /\ slot' \in 0..LastFrame /\ played' \in 0..LastFrame
        <5>1. frames' = Fresh /\ started' = FALSE /\ slot' = 0 /\ played' = played /\ mixed' = mixed
          BY <3>4 DEF Underrun
        <5>2. 0 \in 0..LastFrame /\ played \in 0..LastFrame /\ mixed \in Nat
          BY MixAssumption DEF TypeOK
        <5> QED
          BY <3>1, <5>1, <5>2, Zenon
      <4>2. /\ now' \in 0..MaxTime /\ deadline' \in Nat /\ stalls' \in Nat
            /\ registered' \in BOOLEAN /\ sent' \in 0..LastFrame /\ discarded' \in Nat
        BY <1>6 DEF MixTick, TypeOK
      <4> QED
        BY <2>1, <3>2, <4>1, <4>2 DEF TypeOK
    <3> QED
      BY <1>6, <2>3, <3>3, <3>4, TickCases
  <2> QED
    BY <2>2, <2>3
<1>7. CASE UNCHANGED vars
  BY <1>7 DEF vars, clock, input, TypeOK
<1> QED
  BY <1>1, <1>2, <1>3, <1>4, <1>5, <1>6, <1>7 DEF Next

(* Every behaviour of the loop keeps its types.                             *)
THEOREM TypeCorrect == Spec => []TypeOK
  BY TypeInit, TypeStep, PTL DEF Spec
-----------------------------------------------------------------------------
LEMMA SequenceStep == TypeOK /\ SequenceTellsTime /\ [Next]_vars => SequenceTellsTime'
<1> SUFFICES ASSUME TypeOK, SequenceTellsTime, [Next]_vars PROVE SequenceTellsTime'
  OBVIOUS
<1>1. CASE Wake
  <2> DEFINE due == DueMixTicks
  <2>1. /\ due \in Nat \ {0}
        /\ now < deadline + Frame * due
        /\ deadline + Frame * due <= now + Frame
    BY <1>1, DueTicks DEF Wake
  <2> HIDE DEF due
  <2>2. owed = 0 /\ sequence \in Nat /\ stalls \in Nat /\ deadline \in Nat /\ now \in Nat
        /\ Frame \in Nat \ {0}
    BY <1>1, MixAssumption DEF Wake, TypeOK
  <2>3. /\ Frame * sequence <= deadline
        /\ deadline <= Frame * sequence + (Frame - 1) * stalls
    BY <2>2 DEF SequenceTellsTime
  <2>4. Frame * (sequence + due) = Frame * sequence + Frame * due
    BY <2>1, <2>2
  <2>5. Frame * sequence \in Int /\ Frame * due \in Int /\ (Frame - 1) * stalls \in Int
    BY <2>1, <2>2
  <2>6. CASE owed' = due /\ deadline' = deadline + Frame * due /\ UNCHANGED <<sequence, stalls>>
    BY <2>2, <2>3, <2>4, <2>5, <2>6 DEF SequenceTellsTime
  <2>7. CASE owed' = 1 /\ sequence' = sequence + (due - 1) /\ deadline' = now + Frame /\ stalls' = stalls + 1
    <3>1. sequence' + owed' = sequence + due
      BY <2>1, <2>2, <2>7
    <3>2. (Frame - 1) * stalls' = (Frame - 1) * stalls + (Frame - 1)
      BY <2>2, <2>7
    <3> QED
      BY <2>1, <2>2, <2>3, <2>4, <2>5, <2>7, <3>1, <3>2 DEF SequenceTellsTime
  <2> QED
    BY <1>1, <2>6, <2>7 DEF Wake, AfterStall, due
<1>2. CASE MixTick
  <2>1. sequence' + owed' = sequence + owed /\ UNCHANGED <<deadline, stalls>>
    BY <1>2 DEF MixTick, TypeOK
  <2> QED
    BY <2>1 DEF SequenceTellsTime
<1>3. CASE Elapse \/ Register \/ Remove \/ Enqueue \/ UNCHANGED vars
  BY <1>3 DEF Elapse, Register, Remove, Enqueue, vars, clock, SequenceTellsTime
<1> QED
  BY <1>1, <1>2, <1>3 DEF Next

(* The sequence numbers tell the time, to within a frame for each stall.     *)
THEOREM SequenceTellsTimeHolds == Spec => []SequenceTellsTime
<1>1. Init => SequenceTellsTime
  BY MixAssumption DEF Init, SequenceTellsTime
<1> QED
  BY <1>1, SequenceStep, TypeCorrect, PTL DEF Spec

(* After a wake-up that was due the deadline is ahead, by at most a frame.   *)
THEOREM DeadlineAheadHolds == Spec => DeadlineAhead
<1>1. TypeOK /\ [Next]_vars =>
        [deadline' # deadline => now < deadline' /\ deadline' <= now + Frame]_vars
  <2> SUFFICES ASSUME TypeOK, Next, deadline' # deadline
               PROVE  now < deadline' /\ deadline' <= now + Frame
    OBVIOUS
  <2>1. Wake
    BY DEF Next, Elapse, Register, Remove, Enqueue, MixTick, clock
  <2>2. /\ now < deadline + Frame * DueMixTicks
        /\ deadline + Frame * DueMixTicks <= now + Frame
    BY <2>1, DueTicks DEF Wake
  <2>3. now < now + Frame /\ now + Frame <= now + Frame
    BY MixAssumption DEF TypeOK
  <2> QED
    BY <2>1, <2>2, <2>3 DEF Wake, AfterStall
<1> QED
  BY <1>1, TypeCorrect, PTL DEF Spec, DeadlineAhead
-----------------------------------------------------------------------------
QueueInv == InputBounded /\ EveryFrameAccounted

LEMMA QueueStep == TypeOK /\ QueueInv /\ [Next]_vars => QueueInv'
<1> SUFFICES ASSUME TypeOK, QueueInv, [Next]_vars PROVE QueueInv'
  OBVIOUS
<1> USE DEF QueueInv, InputBounded, EveryFrameAccounted
<1>0. Len(frames) \in Nat /\ sent \in Nat /\ mixed \in Nat /\ dropped \in Nat /\ discarded \in Nat
  BY MixAssumption DEF TypeOK
<1>1. CASE Elapse \/ Wake \/ Register \/ UNCHANGED vars
  BY <1>1 DEF Elapse, Wake, Register, vars, input, clock
<1>2. CASE Remove
  BY <1>0, <1>2, MixAssumption DEF Remove
<1>3. CASE Enqueue
  <2>1. sent' = sent + 1 /\ UNCHANGED <<registered, slot, mixed>>
    BY <1>3 DEF Enqueue
  <2>2. CASE registered
    <3>1. PICK kept \in Seq(QueuedFrame), lost \in {0, 1} :
            /\ frames' = Append(kept, [frame |-> sent + 1, at |-> now])
            /\ [frame |-> sent + 1, at |-> now] \in QueuedFrame
            /\ Len(kept) + lost = Len(frames)
            /\ dropped' = dropped + lost
            /\ Len(kept) < MaxQueued
            /\ UNCHANGED discarded
      BY <1>3, <2>2, EnqueueCases
    <3>2. Len(frames') = Len(kept) + 1 /\ Len(kept) \in Nat
      BY <3>1, AppendProperties
    <3>3. InputBounded'
      BY <2>1, <2>2, <3>1, <3>2, MixAssumption
    <3>4. EveryFrameAccounted'
      <4>1. sent = mixed + dropped + discarded + Len(frames)
        BY Zenon
      <4>2. sent + 1 = mixed + (dropped + lost) + discarded + (Len(kept) + 1)
        BY <1>0, <3>1, <3>2, <4>1
      <4>3. /\ sent' = sent + 1 /\ mixed' = mixed /\ discarded' = discarded
            /\ dropped' = dropped + lost /\ Len(frames') = Len(kept) + 1
        BY <2>1, <3>1, <3>2, Zenon
      <4> QED
        BY <4>2, <4>3, Zenon
    <3> QED
      BY <3>3, <3>4
  <2>3. CASE ~registered
    BY <1>0, <1>3, <2>1, <2>3 DEF Enqueue
  <2> QED
    BY <2>2, <2>3
<1>4. CASE MixTick
  <2>1. UNCHANGED <<registered, sent, discarded>>
    BY <1>4 DEF MixTick
  <2>2. CASE ~registered
    BY <1>4, <2>1, <2>2 DEF MixTick
  <2>3. CASE registered
    <3>1. /\ Fresh \in Seq(QueuedFrame)
          /\ Len(Fresh) \in Nat
          /\ Len(Fresh) <= Len(frames)
      BY FreshType
    <3>2. dropped' = dropped + (Len(frames) - Len(Fresh))
      BY <1>4, <2>3, TickCases
    <3>3. CASE Fresh # <<>> /\ PlayFirst(Fresh)
      <4>1. Len(frames') = Len(Fresh) - 1 /\ Len(Fresh) # 0 /\ mixed' = mixed + 1
        BY <3>1, <3>3, SeqHead DEF PlayFirst
      <4> QED
        BY <1>0, <2>1, <2>3, <3>1, <3>2, <4>1, MixAssumption
    <3>4. CASE Underrun(Fresh)
      <4>1. Len(frames') = Len(Fresh) /\ mixed' = mixed
        BY <3>4 DEF Underrun
      <4> QED
        BY <1>0, <2>1, <2>3, <3>1, <3>2, <4>1, MixAssumption
    <3> QED
      BY <1>4, <2>3, <3>3, <3>4, TickCases
  <2> QED
    BY <2>2, <2>3
<1> QED
  BY <1>1, <1>2, <1>3, <1>4 DEF Next

LEMMA QueueInit == Init => QueueInv
  BY MixAssumption DEF Init, QueueInv, InputBounded, EveryFrameAccounted

(* A source that outruns the clock costs at most MaxQueued frames, and an    *)
(* endpoint that was removed leaves no audio behind.                        *)
THEOREM InputBoundedHolds == Spec => []InputBounded
<1>1. QueueInv => InputBounded
  BY DEF QueueInv
<1> QED
  BY <1>1, QueueInit, QueueStep, TypeCorrect, PTL DEF Spec

(* No frame is lost without being counted as dropped or discarded with its   *)
(* endpoint.                                                                *)
THEOREM EveryFrameAccountedHolds == Spec => []EveryFrameAccounted
<1>1. QueueInv => EveryFrameAccounted
  BY DEF QueueInv
<1> QED
  BY <1>1, QueueInit, QueueStep, TypeCorrect, PTL DEF Spec
-----------------------------------------------------------------------------
(* Order.  The waiting frames are numbered in the order they were sent, all *)
(* of them after the last one that was mixed.                               *)
InOrder(q) == \A i, j \in 1..Len(q) : i < j => q[i].frame < q[j].frame

Between(q, low, high) == \A i \in 1..Len(q) : low < q[i].frame /\ q[i].frame <= high

OrderInv == played <= sent /\ InOrder(frames) /\ Between(frames, played, sent)

(* Losing the front of a queue keeps its order; adding the next frame does. *)
LEMMA OrderedSuffix ==
  ASSUME NEW q \in Seq(QueuedFrame), NEW r \in Seq(QueuedFrame), NEW k \in Nat,
         Len(r) = Len(q) - k, \A i \in 1..Len(r) : r[i] = q[k + i],
         NEW low, NEW high, InOrder(q), Between(q, low, high)
  PROVE  InOrder(r) /\ Between(r, low, high)
<1>1. Len(q) \in Nat /\ Len(r) \in Nat
  OBVIOUS
<1>2. \A i \in 1..Len(r) : k + i \in 1..Len(q)
  BY <1>1
<1>3. Between(r, low, high)
  BY <1>2 DEF Between
<1>4. InOrder(r)
  <2> SUFFICES ASSUME NEW i \in 1..Len(r), NEW j \in 1..Len(r), i < j
               PROVE  r[i].frame < r[j].frame
    BY DEF InOrder
  <2>1. k + i \in 1..Len(q) /\ k + j \in 1..Len(q) /\ k + i < k + j
    BY <1>1, <1>2
  <2>2. q[k + i].frame < q[k + j].frame
    BY <2>1 DEF InOrder
  <2> QED
    BY <2>2
<1> QED
  BY <1>3, <1>4

LEMMA OrderedTail ==
  ASSUME NEW q \in Seq(QueuedFrame), q # <<>>, NEW low, NEW high,
         InOrder(q), Between(q, low, high)
  PROVE  /\ InOrder(Tail(q)) /\ Between(Tail(q), q[1].frame, high)
         /\ low < q[1].frame /\ q[1].frame <= high
<1>1. /\ Tail(q) \in Seq(QueuedFrame) /\ Len(q) \in Nat \ {0}
      /\ Len(Tail(q)) = Len(q) - 1
  BY SeqHead
<1>2. \A i \in 1..Len(Tail(q)) : Tail(q)[i] = q[1 + i]
  BY <1>1, HeadTailProperties
<1>3. InOrder(Tail(q)) /\ Between(Tail(q), low, high)
  BY <1>1, <1>2, OrderedSuffix
<1>4. low < q[1].frame /\ q[1].frame <= high
  BY <1>1 DEF Between
<1>5. ASSUME NEW i \in 1..Len(Tail(q)) PROVE q[1].frame < Tail(q)[i].frame
  <2>1. 1 \in 1..Len(q) /\ 1 + i \in 1..Len(q) /\ 1 < 1 + i
    BY <1>1
  <2>2. q[1].frame < q[1 + i].frame
    BY <2>1 DEF InOrder
  <2> QED
    BY <1>2, <2>2
<1>6. Between(Tail(q), q[1].frame, high)
  BY <1>3, <1>5 DEF Between
<1> QED
  BY <1>3, <1>4, <1>6

LEMMA OrderedAppend ==
  ASSUME NEW q \in Seq(QueuedFrame), NEW m \in QueuedFrame, NEW low \in Nat, NEW high \in Nat,
         InOrder(q), Between(q, low, high), m.frame = high + 1, low <= high
  PROVE  InOrder(Append(q, m)) /\ Between(Append(q, m), low, high + 1)
<1> DEFINE r == Append(q, m)
<1>1. Len(q) \in Nat /\ Len(r) = Len(q) + 1
  BY AppendProperties
<1>2. /\ \A i \in 1..Len(q) : r[i] = q[i]
      /\ r[Len(q) + 1] = m
  BY AppendProperties
<1>3. \A i \in 1..Len(r) : i \in 1..Len(q) \/ i = Len(q) + 1
  BY <1>1
<1>4. \A i \in 1..Len(q) : q[i].frame \in Nat
  <2>1. \A i \in 1..Len(q) : q[i] \in QueuedFrame
    BY ElementOfSeq
  <2> QED
    BY <2>1, MixAssumption DEF QueuedFrame
<1> HIDE DEF r
<1>5. Between(r, low, high + 1)
  BY <1>1, <1>2, <1>3, <1>4 DEF Between
<1>6. InOrder(r)
  <2> SUFFICES ASSUME NEW i \in 1..Len(r), NEW j \in 1..Len(r), i < j
               PROVE  r[i].frame < r[j].frame
    BY DEF InOrder
  <2>1. i \in 1..Len(q)
    BY <1>1
  <2>2. CASE j \in 1..Len(q)
    BY <1>2, <2>1, <2>2 DEF InOrder
  <2>3. CASE j = Len(q) + 1
    <3>1. q[i].frame <= high /\ q[i].frame \in Nat
      BY <1>4, <2>1 DEF Between
    <3> QED
      BY <1>2, <2>1, <2>3, <3>1
  <2> QED
    BY <1>3, <2>2, <2>3
<1> QED
  BY <1>5, <1>6 DEF r

(* What the loop leaves of the queue is a suffix, whose first frame is not  *)
(* outdated.                                                                *)
LEMMA FreshSuffix ==
  ASSUME TypeOK
  PROVE  \E k \in 0..Len(frames) :
           /\ Len(Fresh) = Len(frames) - k
           /\ \A i \in 1..Len(Fresh) : Fresh[i] = frames[k + i]
           /\ k < Len(frames) => ~TooOld(frames[k + 1])
<1> DEFINE n == Len(frames)
           bad == {i \in 1..n : TooOld(frames[i])}
           k == PrefixIn(bad, n)
<1>1. n \in Nat /\ frames \in Seq(QueuedFrame)
  BY DEF TypeOK
<1>2. k \in 0..n /\ (k < n => k + 1 \notin bad)
  BY <1>1, PrefixInProperties
<1>3. /\ Len(DropFront(frames, k)) = n - k
      /\ \A i \in 1..(n - k) : DropFront(frames, k)[i] = frames[k + i]
  BY <1>1, <1>2, DropFrontProperties
<1>4. Fresh = DropFront(frames, k)
  BY DEF Fresh
<1> HIDE DEF k
<1>5. k < n => ~TooOld(frames[k + 1])
  BY <1>1, <1>2
<1> QED
  BY <1>2, <1>3, <1>4, <1>5

LEMMA OrderedFresh ==
  ASSUME TypeOK, OrderInv
  PROVE  InOrder(Fresh) /\ Between(Fresh, played, sent)
<1>1. PICK k \in 0..Len(frames) :
        Len(Fresh) = Len(frames) - k /\ \A i \in 1..Len(Fresh) : Fresh[i] = frames[k + i]
  BY FreshSuffix
<1>2. frames \in Seq(QueuedFrame) /\ Fresh \in Seq(QueuedFrame) /\ k \in Nat
  BY FreshType DEF TypeOK
<1> QED
  BY <1>1, <1>2, OrderedSuffix DEF OrderInv

LEMMA OrderEnqueue ==
  ASSUME TypeOK, OrderInv, Enqueue
  PROVE  OrderInv'
<1>0. sent' = sent + 1 /\ played' = played /\ sent \in Nat /\ played \in Nat
  BY MixAssumption DEF Enqueue, TypeOK
<1>1. frames \in Seq(QueuedFrame) /\ Len(frames) \in Nat
  BY DEF TypeOK
<1>2. CASE ~registered
  <2>1. frames' = frames
    BY <1>2 DEF Enqueue
  <2>2. Between(frames, played, sent + 1)
    <3>1. \A i \in 1..Len(frames) : frames[i].frame \in Nat
      <4>1. \A i \in 1..Len(frames) : frames[i] \in QueuedFrame
        BY <1>1, ElementOfSeq
      <4> QED
        BY <4>1, MixAssumption DEF QueuedFrame
    <3> QED
      BY <1>0, <3>1 DEF OrderInv, Between
  <2> QED
    BY <1>0, <2>1, <2>2 DEF OrderInv
<1>3. CASE registered
  <2> DEFINE m == [frame |-> sent + 1, at |-> now]
             kept == IF Len(frames) = MaxQueued THEN Tail(frames) ELSE frames
  <2>1. m \in QueuedFrame
    BY <1>3, EnqueueCases
  <2>2. frames' = Append(kept, m)
    BY <1>3 DEF Enqueue, Overflow
  <2>3. kept \in Seq(QueuedFrame) /\ InOrder(kept) /\ Between(kept, played, sent)
    <3>1. CASE Len(frames) = MaxQueued
      <4>1. frames # <<>>
        BY <3>1, MixAssumption
      <4>2. /\ Tail(frames) \in Seq(QueuedFrame)
            /\ Len(Tail(frames)) = Len(frames) - 1
            /\ \A i \in 1..Len(Tail(frames)) : Tail(frames)[i] = frames[1 + i]
        BY <1>1, <4>1, SeqHead, HeadTailProperties
      <4>3. InOrder(Tail(frames)) /\ Between(Tail(frames), played, sent)
        BY <1>1, <4>2, OrderedSuffix DEF OrderInv
      <4> QED
        BY <3>1, <4>2, <4>3
    <3>2. CASE Len(frames) # MaxQueued
      BY <1>1, <3>2 DEF OrderInv
    <3> QED
      BY <3>1, <3>2
  <2>4. m.frame = sent + 1 /\ played <= sent
    BY DEF OrderInv
  <2> HIDE DEF m, kept
  <2>5. InOrder(Append(kept, m)) /\ Between(Append(kept, m), played, sent + 1)
    BY <1>0, <2>1, <2>3, <2>4, OrderedAppend
  <2>6. played <= sent + 1
    BY <1>0, <2>4
  <2> QED
    BY <1>0, <2>2, <2>5, <2>6 DEF OrderInv
<1> QED
  BY <1>2, <1>3

LEMMA OrderTick ==
  ASSUME TypeOK, OrderInv, MixTick
  PROVE  OrderInv'
<1>1. sent' = sent /\ sent \in Nat /\ played \in Nat
  BY MixAssumption DEF MixTick, TypeOK
<1>2. CASE ~registered
  BY <1>1, <1>2 DEF MixTick, OrderInv
<1>3. CASE registered /\ Fresh # <<>> /\ PlayFirst(Fresh)
  <2>1. /\ InOrder(Tail(Fresh)) /\ Between(Tail(Fresh), Fresh[1].frame, sent)
        /\ Fresh[1].frame <= sent
    BY <1>3, FreshType, OrderedFresh, OrderedTail
  <2> QED
    BY <1>1, <1>3, <2>1 DEF PlayFirst, OrderInv
<1>4. CASE registered /\ Underrun(Fresh)
  BY <1>1, <1>4, OrderedFresh DEF Underrun, OrderInv
<1> QED
  BY <1>2, <1>3, <1>4, TickCases

LEMMA OrderInit == Init => OrderInv
  BY DEF Init, OrderInv, InOrder, Between

LEMMA OrderStep == TypeOK /\ OrderInv /\ [Next]_vars => OrderInv'
<1> SUFFICES ASSUME TypeOK, OrderInv, [Next]_vars PROVE OrderInv'
  OBVIOUS
<1>1. CASE Elapse \/ Wake \/ Register \/ UNCHANGED vars
  BY <1>1 DEF Elapse, Wake, Register, vars, input, clock, OrderInv
<1>2. CASE Remove
  BY <1>2 DEF Remove, OrderInv, InOrder, Between
<1> QED
  BY <1>1, <1>2, OrderEnqueue, OrderTick DEF Next

(* A frame is mixed at most once and never after a later one, whatever was  *)
(* dropped between them and however often the endpoint left and came back.  *)
THEOREM PlayedOnceInOrderHolds == Spec => PlayedOnceInOrder
<1>1. TypeOK /\ QueueInv /\ OrderInv /\ [Next]_vars =>
        [sequence' = sequence + 1 /\ owed' < owed /\ slot' # 0 => slot' > played]_vars
  <2> SUFFICES ASSUME TypeOK, QueueInv, OrderInv, Next, owed' < owed, slot' # 0
               PROVE  slot' > played
    OBVIOUS
  <2>1. MixTick
    <3>1. ASSUME Wake PROVE FALSE
      <4>1. owed = 0 /\ (owed' = DueMixTicks \/ owed' = 1) /\ now >= deadline
        BY <3>1 DEF Wake
      <4>2. DueMixTicks \in Nat \ {0}
        BY <4>1, DueTicks
      <4> QED
        BY <4>1, <4>2
    <3> QED
      BY <3>1 DEF Next, Elapse, Register, Remove, Enqueue, clock, TypeOK
  <2>2. registered
    BY <2>1 DEF MixTick, QueueInv, InputBounded
  <2>3. Fresh # <<>> /\ PlayFirst(Fresh)
    BY <2>1, <2>2, TickCases DEF Underrun
  <2>4. played < Fresh[1].frame
    BY <2>3, FreshType, OrderedFresh, OrderedTail
  <2>5. Fresh[1].frame \in Nat /\ played \in Nat
    <3>1. Fresh[1] \in QueuedFrame
      BY <2>3, FreshType, SeqHead
    <3>2. Fresh[1].frame \in 1..LastFrame
      BY <3>1 DEF QueuedFrame
    <3> QED
      BY <3>2, MixAssumption DEF TypeOK
  <2> QED
    BY <2>3, <2>4, <2>5 DEF PlayFirst
<1> QED
  BY <1>1, QueueInit, QueueStep, OrderInit, OrderStep, TypeCorrect, PTL
     DEF Spec, PlayedOnceInOrder

(* A frame that is mixed is one that waits in the queue of its endpoint, and*)
(* is no older than MaxAge, also when playing had started before it came.   *)
THEOREM PlayedFreshHolds == Spec => PlayedFresh
<1>1. TypeOK /\ [Next]_vars =>
        [mixed' # mixed =>
           \E k \in 1..Len(frames) : frames[k].frame = slot' /\ now <= frames[k].at + MaxAge]_vars
  <2> SUFFICES ASSUME TypeOK, Next, mixed' # mixed
               PROVE  \E k \in 1..Len(frames) :
                        frames[k].frame = slot' /\ now <= frames[k].at + MaxAge
    OBVIOUS
  <2>1. MixTick /\ registered
    BY DEF Next, Elapse, Wake, Register, Remove, Enqueue, MixTick, input
  <2>2. Fresh # <<>> /\ PlayFirst(Fresh)
    BY <2>1, TickCases DEF Underrun
  <2>3. PICK k \in 0..Len(frames) :
          /\ Len(Fresh) = Len(frames) - k
          /\ \A i \in 1..Len(Fresh) : Fresh[i] = frames[k + i]
          /\ k < Len(frames) => ~TooOld(frames[k + 1])
    BY FreshSuffix
  <2>4. Len(Fresh) \in Nat \ {0} /\ Len(frames) \in Nat
    BY <2>2, FreshType, SeqHead DEF TypeOK
  <2>5. k + 1 \in 1..Len(frames) /\ k < Len(frames) /\ Fresh[1] = frames[k + 1]
    BY <2>3, <2>4
  <2>6. frames[k + 1].at \in Nat /\ now \in Nat
    <3>1. frames[k + 1] \in QueuedFrame
      BY <2>5, ElementOfSeq DEF TypeOK
    <3>2. frames[k + 1].at \in 0..MaxTime
      BY <3>1 DEF QueuedFrame
    <3> QED
      BY <3>2, MixAssumption DEF TypeOK
  <2>7. now <= frames[k + 1].at + MaxAge
    BY <2>3, <2>5, <2>6, MixAssumption DEF TooOld
  <2> QED
    BY <2>2, <2>5, <2>7 DEF PlayFirst
<1> QED
  BY <1>1, TypeCorrect, PTL DEF Spec, PlayedFresh
=============================================================================
