---------------------------- MODULE MCScheduler ----------------------------
(***************************************************************************)
(* Instances of Scheduler for TLC.  Rules, selections and bounds are       *)
(* definitions a configuration substitutes for the constants.              *)
(***************************************************************************)
EXTENDS Scheduler, TLC

CONSTANTS d1, d2

\* Lists of targets.
Single == {<<d1>>}
Pair == {<<d1, d2>>}

\* Days of two units.  One clock is put back at 2, so that it shows 1 twice, and forward at 5, so that it
\* does not show 4.
Covered == 0..9
Clocks == [plain  |-> [t \in Covered |-> 0],
           summer |-> [t \in Covered |-> IF t \in 2..4 THEN -1 ELSE 0]]
ClockNames == DOMAIN Clocks

\* Once, at every time, and daily and weekly at times that are repeated and skipped.
Once(t) == [frequency |-> "once", timezone |-> "plain", start |-> t]
OnceOnly == {Once(1)}
Steady == {[frequency |-> "interval", timezone |-> "plain", start |-> 0, interval |-> 1]}
Late == {Once(MaxTime + 1)}
Daily == {[frequency |-> "daily", timezone |-> "summer", start |-> 1]}
Weekly == {[frequency |-> "weekly", timezone |-> "summer", start |-> 0, weekdays |-> {0}]}
AnyRule == OnceOnly \union Steady \union Daily \union Weekly

Bound(requests, changes, faults, crashes, jumps, foreign) ==
    [c \in Counted |->
        CASE c = "requests" -> requests
          [] c = "changes" -> changes
          [] c = "faults" -> faults
          [] c = "crashes" -> crashes
          [] c = "jumps" -> jumps
          [] c = "others" -> foreign]

Symmetry == Permutations(Reviews) \union Permutations(Users)

TimesBounds == Bound(2, 0, 0, 0, 1, 0)
AccessBounds == Bound(2, 1, 0, 0, 0, 0)
QuarantineBounds == Bound(0, 0, 1, 1, 0, 1)
ResumeBounds == Bound(2, 2, 0, 0, 0, 0)

=============================================================================
