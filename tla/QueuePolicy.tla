---------------------------- MODULE QueuePolicy ----------------------------
(***************************************************************************)
(* The pure part of the posting queue (queue/__init__.py): how many posts  *)
(* a board may publish in one day, and in which order queued submissions   *)
(* are taken.  The state that these rules are applied to is in Publishing. *)
(***************************************************************************)
EXTENDS Integers

CONSTANTS QueueMin,    \* settings.queue_min_daily
          QueueMax,    \* settings.queue_max_daily
          TargetDays   \* settings.queue_target_days

ASSUME PolicyAssumption == /\ QueueMin \in Nat
                           /\ QueueMax \in Nat
                           /\ TargetDays \in Nat \ {0}

----------------------------------------------------------------------------
(* Python's round(n / d): to the nearest integer, a half to the even one. *)
RoundedShare(n, d) ==
    LET q == n \div d
        r == n % d
    IN  IF \/ 2 * r < d
           \/ 2 * r = d /\ q % 2 = 0
        THEN q
        ELSE q + 1

Larger(a, b)  == IF a >= b THEN a ELSE b
Smaller(a, b) == IF a <= b THEN a ELSE b

(* The number of posts a board with size queued submissions may publish in
   one local day: drain the queue in about TargetDays days, clamped. *)
DailyCap(size) ==
    Larger(QueueMin, Smaller(QueueMax, RoundedShare(size, TargetDays)))

----------------------------------------------------------------------------
(* A date at or after the cutoff is fresh; fresh submissions are taken first
   and within a tier the oldest is. *)
Tier(date, cutoff) == IF date >= cutoff THEN 0 ELSE 1

TakenBefore(d1, d2, cutoff) ==
    \/ Tier(d1, cutoff) < Tier(d2, cutoff)
    \/ Tier(d1, cutoff) = Tier(d2, cutoff) /\ d1 <= d2
============================================================================
