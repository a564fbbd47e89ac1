------------------------------ MODULE AgedQueue ------------------------------
(***************************************************************************)
(* Giving up the front of a queue, which the downlink queues (service.rs)  *)
(* and the mixer's input queues (clocked_mixer.rs) do in the same way: a   *)
(* loop pops the front while it is outdated.                               *)
(***************************************************************************)
EXTENDS Naturals, Sequences

DropFront(q, k) == SubSeq(q, k + 1, Len(q))

(* How many positions of 1..n the loop passes if it stops at the first that *)
(* is not in bad.                                                           *)
PrefixIn(bad, n) ==
  CHOOSE k \in 0..n : (\A i \in 1..k : i \in bad) /\ (k < n => k + 1 \notin bad)
=============================================================================
