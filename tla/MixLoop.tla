------------------------------- MODULE MixLoop -------------------------------
(***************************************************************************)
(* The Hub's mixing clock (serve_listener and due_mix_ticks in service.rs) *)
(* and what each of its ticks does to the input queue of one mixer endpoint*)
(* (ClockedMixer).  Endpoints share nothing but the clock, so one of them  *)
(* stands for all; HubSessions has the endpoints' registration.  The ticks *)
(* of one wake-up take the mixer's lock one after the other: frames may    *)
(* arrive, and the endpoint come and go, between them.                     *)
(***************************************************************************)
EXTENDS Integers, AgedQueue

CONSTANTS
  Frame,         \* MIX_FRAME_DURATION, 10 ms, in units of the model's clock
  MaxCatchUp,    \* MAX_MIX_CATCH_UP_TICKS, 3
  Prebuffer,     \* PREBUFFER_FRAMES, 6
  MaxQueued,     \* MAX_QUEUED_FRAMES, 50
  MaxAge,        \* MAX_INPUT_AGE, 250 ms
  MaxTime,       \* bound: the clock stops there
  LastFrame      \* bound: frames are numbered 1..LastFrame

ASSUME MixAssumption ==
  /\ Frame \in Nat \ {0}
  /\ MaxCatchUp \in Nat \ {0}
  /\ Prebuffer \in Nat \ {0}
  /\ MaxQueued \in Nat \ {0}
  /\ MaxAge \in Nat
  /\ MaxTime \in Nat
  /\ LastFrame \in Nat

VARIABLES
  now,          \* the monotonic clock, 0 when the loop starts
  deadline,     \* next_mix_deadline
  sequence,     \* the number of the next tick
  owed,         \* the ticks that the current wake-up still has to run
  stalls,       \* how often the loop was too late to catch up
  registered,   \* whether the endpoint is in the mixer
  frames,       \* its InputQueue.frames, oldest first
  started,      \* InputQueue.started
  slot,         \* latest_input: a frame's number, or 0 for silence and fades
  sent,         \* the number of the last frame offered to enqueue
  played,       \* the number of the last frame mixed
  mixed,        \* how many frames were mixed,
  dropped,      \* how many dropped_frames counts,
  discarded     \* and how many went with a removal or had no queue

clock == <<deadline, sequence, owed, stalls>>
input == <<registered, frames, started, slot, sent, played, mixed, dropped, discarded>>
vars == <<now, clock, input>>

QueuedFrame == [frame : 1..LastFrame, at : 0..MaxTime]

Init ==
  /\ now = 0
  /\ deadline = 0
  /\ sequence = 0
  /\ owed = 0
  /\ stalls = 0
  /\ registered = FALSE
  /\ frames = <<>>
  /\ started = FALSE
  /\ slot = 0
  /\ sent = 0
  /\ played = 0
  /\ mixed = 0
  /\ dropped = 0
  /\ discarded = 0

Elapse ==
  /\ now < MaxTime
  /\ now' = now + 1
  /\ UNCHANGED <<clock, input>>

-----------------------------------------------------------------------------
(* The clock.                                                              *)

(* Mutant: the tick of the deadline itself is not counted.                  *)
DueMixTicksLate == (now - deadline) \div Frame

DueMixTicks == 1 + ((now - deadline) \div Frame)

(* Mutant: the deadline moves on from itself after a stall.                 *)
AfterStallFromDeadline == deadline + Frame

AfterStall == now + Frame

(* A wake-up before the deadline does nothing.                              *)
Wake ==
  /\ owed = 0
  /\ now >= deadline
  /\ \/ /\ DueMixTicks <= MaxCatchUp
        /\ owed' = DueMixTicks
        /\ deadline' = deadline + Frame * DueMixTicks
        /\ UNCHANGED <<sequence, stalls>>
     \/ /\ DueMixTicks > MaxCatchUp
        /\ owed' = 1
        /\ sequence' = sequence + (DueMixTicks - 1)
        /\ deadline' = AfterStall
        /\ stalls' = stalls + 1
  /\ UNCHANGED <<now, input>>

-----------------------------------------------------------------------------
(* The endpoint's input.                                                   *)

Register ==
  /\ ~registered
  /\ registered' = TRUE
  /\ UNCHANGED <<now, clock, frames, started, slot, sent, played, mixed, dropped, discarded>>

Remove ==
  /\ registered
  /\ registered' = FALSE
  /\ frames' = <<>>
  /\ started' = FALSE
  /\ slot' = 0
  /\ discarded' = discarded + Len(frames)
  /\ UNCHANGED <<now, clock, sent, played, mixed, dropped>>

(* Mutant: a full queue drops its oldest frame and does not say so.         *)
OverflowSilently == [kept |-> Tail(frames), lost |-> 0]

Overflow == [kept |-> Tail(frames), lost |-> 1]

Enqueue ==
  /\ sent < LastFrame
  /\ sent' = sent + 1
  /\ IF ~registered
     THEN discarded' = discarded + 1 /\ UNCHANGED <<frames, dropped>>
     ELSE LET room == IF Len(frames) = MaxQueued THEN Overflow ELSE [kept |-> frames, lost |-> 0]
          IN  /\ frames' = Append(room.kept, [frame |-> sent + 1, at |-> now])
              /\ dropped' = dropped + room.lost
              /\ UNCHANGED discarded
  /\ UNCHANGED <<now, clock, registered, started, slot, played, mixed>>

TooOld(queued) == now > queued.at + MaxAge

(* The queue without the outdated frames at its front.                      *)
Fresh == DropFront(frames, PrefixIn({i \in 1..Len(frames) : TooOld(frames[i])}, Len(frames)))

(* Mutant: an underrun leaves the last frame in the matrix.                 *)
UnderrunRepeats(kept) ==
  /\ frames' = kept
  /\ started' = FALSE
  /\ UNCHANGED <<slot, played, mixed>>

(* Nothing to play yet, or no more: silence, or a fade to it.               *)
Underrun(kept) ==
  /\ frames' = kept
  /\ started' = FALSE
  /\ slot' = 0
  /\ UNCHANGED <<played, mixed>>

PlayFirst(kept) ==
  /\ frames' = Tail(kept)
  /\ started' = TRUE
  /\ slot' = kept[1].frame
  /\ played' = kept[1].frame
  /\ mixed' = mixed + 1

(* Mutant: outdated frames are looked for only before playing starts.       *)
FreshUnlessStarted == IF started THEN frames ELSE Fresh

Playable == Fresh

(* advance, in one tick of mix_tick; an endpoint that is not registered has *)
(* no queue.                                                                *)
MixTick ==
  /\ owed > 0
  /\ owed' = owed - 1
  /\ sequence' = sequence + 1
  /\ IF ~registered
     THEN UNCHANGED <<frames, started, slot, played, mixed, dropped>>
     ELSE LET kept == Playable IN
          /\ dropped' = dropped + (Len(frames) - Len(kept))
          /\ \/ /\ started \/ Len(kept) >= Prebuffer
                /\ kept # <<>>
                /\ PlayFirst(kept)
             \/ /\ ~started => Len(kept) < Prebuffer
                /\ started => kept = <<>>
                /\ Underrun(kept)
  /\ UNCHANGED <<now, deadline, stalls, registered, sent, discarded>>

Next == Elapse \/ Wake \/ Register \/ Remove \/ Enqueue \/ MixTick

Spec == Init /\ [][Next]_vars

-----------------------------------------------------------------------------
TypeOK ==
  /\ now \in 0..MaxTime
  /\ deadline \in Nat
  /\ sequence \in Nat
  /\ owed \in 0..MaxCatchUp
  /\ stalls \in Nat
  /\ registered \in BOOLEAN
  /\ frames \in Seq(QueuedFrame)
  /\ started \in BOOLEAN
  /\ slot \in 0..LastFrame
  /\ sent \in 0..LastFrame
  /\ played \in 0..LastFrame
  /\ mixed \in Nat
  /\ dropped \in Nat
  /\ discarded \in Nat

(* The sequence numbers that clients see tell the time: they are never ahead*)
(* of it, and behind it by less than one frame for each stall.              *)
SequenceTellsTime ==
  /\ Frame * (sequence + owed) <= deadline
  /\ deadline <= Frame * (sequence + owed) + (Frame - 1) * stalls

(* Whatever the delay of a wake-up, the next deadline is ahead, by no more  *)
(* than a frame: the loop neither runs in bursts ever after nor falls asleep*)
DeadlineAhead ==
  [][deadline' # deadline => now < deadline' /\ deadline' <= now + Frame]_vars

(* Each frame is mixed at most once, in order, however often an endpoint is *)
(* removed and registered again; a tick without a frame is silent.          *)
PlayedOnceInOrder == [][sequence' = sequence + 1 /\ owed' < owed /\ slot' # 0 => slot' > played]_vars

(* A frame that is mixed was enqueued since its endpoint was last registered*)
(* and no more than MaxAge ago.                                             *)
PlayedFresh ==
  [][mixed' # mixed =>
       \E k \in 1..Len(frames) : frames[k].frame = slot' /\ now <= frames[k].at + MaxAge]_vars

(* The queue of a source that is faster than the clock stays bounded, and an*)
(* endpoint that is gone holds no audio.                                    *)
InputBounded == Len(frames) <= MaxQueued /\ (~registered => frames = <<>> /\ slot = 0)

(* Every frame is played, counted as dropped, discarded with its endpoint,  *)
(* or still waiting: the counter on the status page misses none.            *)
EveryFrameAccounted == sent = mixed + dropped + discarded + Len(frames)
=============================================================================
