--------------------------- MODULE DownlinkQueue ----------------------------
(***************************************************************************)
(* The downlink queue of one audio connection (DownlinkQueue in            *)
(* crates/hub-core/src/service.rs) between the mix tick that pushes, the   *)
(* connection's writer that awaits recv, and the revocation that closes it.*)
(* A critical section of the queue's mutex is one action, and so is each   *)
(* reading of the clock before it and each call on the Notify after it:    *)
(* the model does not rely on the locks that push's and close's callers    *)
(* hold.  The writer uses a frame (session check, socket send) for as long *)
(* as it likes before it asks again.                                       *)
(***************************************************************************)
EXTENDS AgedQueue

CONSTANTS
  MaxFrames,   \* MAX_DOWNLINK_FRAMES, 32
  MaxAge,      \* MAX_DOWNLINK_AGE, 250 ms, in ticks of the model's clock
  MaxTime,     \* bound: the clock stops there
  LastFrame    \* bound: frames are numbered 1..LastFrame

ASSUME QueueAssumption ==
  /\ MaxFrames \in Nat \ {0}
  /\ MaxAge \in Nat
  /\ MaxTime \in Nat
  /\ LastFrame \in Nat

VARIABLES
  frames,      \* state.frames, oldest first
  closed,      \* state.closed
  now,         \* the monotonic clock
  sent,        \* the number of the last frame pushed
  got,         \* the number of the last frame recv returned
  pusher,      \* "idle", "clocked", "notifying"
  pushedAt,    \* the clock as push read it before taking the lock
  closer,      \* "idle", "notifying", "done"
  receiver,    \* "busy", "created", "polling", "parked", "ended"
  askedAt,     \* the clock as recv read it before taking the lock
  permit,      \* the permit that notify_one stores
  broadcast,   \* notify_waiters has been called (close runs once)
  seen,        \* broadcast, as it was when the Notified was created
  waiter       \* the Notified's registration: "none", "waiting", "notified"

notifyVars == <<permit, broadcast, seen, waiter>>
vars == <<frames, closed, now, sent, got, pusher, pushedAt, closer,
          receiver, askedAt, notifyVars>>

QueuedDownlink == [frame : 1..LastFrame, at : 0..MaxTime]

Init ==
  /\ frames = <<>>
  /\ closed = FALSE
  /\ now = 0
  /\ sent = 0
  /\ got = 0
  /\ pusher = "idle"
  /\ pushedAt = 0
  /\ closer = "idle"
  /\ receiver = "busy"
  /\ askedAt = 0
  /\ permit = FALSE
  /\ broadcast = FALSE
  /\ seen = FALSE
  /\ waiter = "none"

Elapse ==
  /\ now < MaxTime
  /\ now' = now + 1
  /\ UNCHANGED <<frames, closed, sent, got, pusher, pushedAt, closer, receiver,
                 askedAt, notifyVars>>

-----------------------------------------------------------------------------
(* A difference of instants saturates at zero.  Pruned drops the frames at *)
(* the front that were too old at t, and stops at the first that was not;  *)
(* Fitted drops from the front until there is room for one more.           *)

TooOld(queued, t) == t > queued.at + MaxAge

(* Mutant: an if where the code has a while.                                *)
PrunedOnce(q, t) == IF q # <<>> /\ TooOld(q[1], t) THEN Tail(q) ELSE q

Pruned(q, t) == DropFront(q, PrefixIn({i \in 1..Len(q) : TooOld(q[i], t)}, Len(q)))

Fitted(q) == IF Len(q) >= MaxFrames THEN DropFront(q, Len(q) - MaxFrames + 1) ELSE q

-----------------------------------------------------------------------------
(* push, called by the mix tick.                                           *)

ReadPushClock ==
  /\ pusher = "idle"
  /\ sent < LastFrame
  /\ pushedAt' = now
  /\ pusher' = "clocked"
  /\ UNCHANGED <<frames, closed, now, sent, got, closer, receiver, askedAt, notifyVars>>

(* Mutant: the newest frames are dropped when the queue is full.            *)
PushDroppingNewest ==
  /\ pusher = "clocked"
  /\ sent' = sent + 1
  /\ IF closed
     THEN pusher' = "idle" /\ UNCHANGED frames
     ELSE /\ frames' = LET kept == Pruned(frames, pushedAt)
                       IN  Append(IF Len(kept) >= MaxFrames
                                  THEN SubSeq(kept, 1, MaxFrames - 1) ELSE kept,
                                  [frame |-> sent + 1, at |-> pushedAt])
          /\ pusher' = "notifying"
  /\ UNCHANGED <<closed, now, got, pushedAt, closer, receiver, askedAt, notifyVars>>

Push ==
  /\ pusher = "clocked"
  /\ sent' = sent + 1
  /\ IF closed
     THEN pusher' = "idle" /\ UNCHANGED frames
     ELSE /\ frames' = Append(Fitted(Pruned(frames, pushedAt)),
                              [frame |-> sent + 1, at |-> pushedAt])
          /\ pusher' = "notifying"
  /\ UNCHANGED <<closed, now, got, pushedAt, closer, receiver, askedAt, notifyVars>>

(* Notify::notify_one wakes the waiter, or leaves one permit.              *)
NotifyOne ==
  /\ pusher = "notifying"
  /\ pusher' = "idle"
  /\ IF waiter = "waiting"
     THEN waiter' = "notified" /\ UNCHANGED permit
     ELSE permit' = TRUE /\ UNCHANGED waiter
  /\ UNCHANGED <<frames, closed, now, sent, got, pushedAt, closer, receiver,
                 askedAt, broadcast, seen>>

-----------------------------------------------------------------------------
(* close, called once, when the session is removed.                        *)

Close ==
  /\ closer = "idle"
  /\ closed' = TRUE
  /\ frames' = <<>>
  /\ closer' = "notifying"
  /\ UNCHANGED <<now, sent, got, pusher, pushedAt, receiver, askedAt, notifyVars>>

(* Notify::notify_waiters wakes the waiter and every Notified created       *)
(* before it, and leaves no permit.                                         *)
NotifyWaiters ==
  /\ closer = "notifying"
  /\ closer' = "done"
  /\ broadcast' = TRUE
  /\ waiter' = IF waiter = "waiting" THEN "notified" ELSE waiter
  /\ UNCHANGED <<frames, closed, now, sent, got, pusher, pushedAt, receiver,
                 askedAt, permit, seen>>

-----------------------------------------------------------------------------
(* recv.  Each round creates a Notified, reads the clock, looks under the  *)
(* lock, and awaits the Notified only if there was nothing to return.      *)

Ask ==
  /\ receiver = "busy"
  /\ receiver' = "created"
  /\ seen' = broadcast
  /\ askedAt' = now
  /\ UNCHANGED <<frames, closed, now, sent, got, pusher, pushedAt, closer,
                 permit, broadcast, waiter>>

Look ==
  /\ receiver = "created"
  /\ LET kept == Pruned(frames, askedAt) IN
       IF kept # <<>>
       THEN /\ got' = kept[1].frame
            /\ frames' = Tail(kept)
            /\ receiver' = "busy"
       ELSE /\ frames' = <<>>
            /\ receiver' = IF closed THEN "ended" ELSE "polling"
            /\ UNCHANGED got
  /\ UNCHANGED <<closed, now, sent, pusher, pushedAt, closer, askedAt, notifyVars>>

(* A ready Notified starts the next round, which creates its own at once.  *)
NextRound ==
  /\ receiver' = "created"
  /\ seen' = broadcast
  /\ askedAt' = now

(* Mutant: the Notified is created when it is awaited, not before the look. *)
PollNewNotified ==
  /\ receiver = "polling"
  /\ \/ permit /\ NextRound /\ permit' = FALSE /\ UNCHANGED waiter
     \/ /\ ~permit
        /\ waiter' = "waiting"
        /\ receiver' = "parked"
        /\ UNCHANGED <<permit, seen, askedAt>>
  /\ UNCHANGED <<frames, closed, now, sent, got, pusher, pushedAt, closer, broadcast>>

(* The first poll of the Notified: it is ready if notify_waiters was called*)
(* since it was created, or if there is a permit, which it then takes;     *)
(* otherwise it registers.                                                 *)
Poll ==
  /\ receiver = "polling"
  /\ \/ broadcast # seen /\ NextRound /\ UNCHANGED <<permit, waiter>>
     \/ broadcast = seen /\ permit /\ NextRound /\ permit' = FALSE /\ UNCHANGED waiter
     \/ /\ broadcast = seen
        /\ ~permit
        /\ waiter' = "waiting"
        /\ receiver' = "parked"
        /\ UNCHANGED <<permit, seen, askedAt>>
  /\ UNCHANGED <<frames, closed, now, sent, got, pusher, pushedAt, closer, broadcast>>

Wake ==
  /\ receiver = "parked"
  /\ waiter = "notified"
  /\ waiter' = "none"
  /\ NextRound
  /\ UNCHANGED <<frames, closed, now, sent, got, pusher, pushedAt, closer,
                 permit, broadcast>>

-----------------------------------------------------------------------------
Recv == Look \/ Poll \/ Wake

Next ==
  \/ Elapse
  \/ ReadPushClock \/ Push \/ NotifyOne
  \/ Close \/ NotifyWaiters
  \/ Ask \/ Recv

Spec == Init /\ [][Next]_vars

(* A recv that can go on does, and so do a push and a close that have begun*)
(* (straight-line code).  Nobody is obliged to push, to close or to ask.   *)
FairSpec ==
  /\ Spec
  /\ WF_vars(Recv)
  /\ WF_vars(Push \/ NotifyOne)
  /\ WF_vars(NotifyWaiters)
-----------------------------------------------------------------------------
TypeOK ==
  /\ frames \in Seq(QueuedDownlink)
  /\ closed \in BOOLEAN
  /\ now \in 0..MaxTime
  /\ sent \in 0..LastFrame
  /\ got \in 0..LastFrame
  /\ pusher \in {"idle", "clocked", "notifying"}
  /\ pusher = "clocked" => sent < LastFrame
  /\ pushedAt \in 0..MaxTime
  /\ closer \in {"idle", "notifying", "done"}
  /\ receiver \in {"busy", "created", "polling", "parked", "ended"}
  /\ askedAt \in 0..MaxTime
  /\ permit \in BOOLEAN
  /\ broadcast \in BOOLEAN
  /\ seen \in BOOLEAN
  /\ waiter \in {"none", "waiting", "notified"}

(* The memory and the latency of a connection whose client does not read   *)
(* stay bounded, and a closed queue holds nothing.                         *)
QueueBounded == Len(frames) <= MaxFrames /\ (closed => frames = <<>>)

(* No wake-up is lost: a receiver that sleeps with a frame in the queue, or*)
(* on a closed queue, is about to be notified by the push or the close that*)
(* has just left its critical section.                                     *)
NoLostWakeup ==
  receiver = "parked" /\ waiter = "waiting" =>
    /\ frames # <<>> => pusher = "notifying"
    /\ closed => closer = "notifying"

(* A frame that recv returns had not outlived MaxAge when recv was asked,  *)
(* and neither had any frame it leaves in the queue.                       *)
DeliveredFresh ==
  [][got' # got =>
       \E k \in 1..Len(frames) :
         /\ frames[k].frame = got'
         /\ \A i \in k..Len(frames) : askedAt <= frames[i].at + MaxAge]_vars

ReaderView ==
  IF receiver = "busy" THEN "away" ELSE IF receiver = "ended" THEN "ended" ELSE "asking"

Channel == INSTANCE FrameChannel WITH
  Capacity <- MaxFrames,
  Last <- LastFrame,
  held <- [i \in 1..Len(frames) |-> frames[i].frame],
  newest <- sent,
  given <- got,
  reader <- ReaderView

(* The queue is the channel its writer expects: frames arrive in order and *)
(* at most once, only the oldest are ever given up, nothing is delivered   *)
(* after the close, and whoever asks gets what there is, or the end.       *)
ChannelImplemented == Channel!FairSpec
=============================================================================
