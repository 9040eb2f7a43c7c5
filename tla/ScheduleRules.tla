--------------------------- MODULE ScheduleRules ---------------------------
(***************************************************************************)
(* The calendar of scheduled tasks (app/services/scheduling.py): which     *)
(* times a rule stands for in a zone whose clock is changed, and the       *)
(* search of next_time that is to find the least of them after a moment.   *)
(*                                                                         *)
(* Abstractions.                                                           *)
(*   - An instant is a number, so is a local time: days are DayLength      *)
(*     units long, weeks Week days.                                        *)
(*   - A zone is the offset of its clock at each instant.                  *)
(*   - Rules are those that rule_data accepts: their start exists.         *)
(***************************************************************************)
EXTENDS Integers

CONSTANTS
    Instants,   \* the instants that are spoken of
    Zones,      \* names of zones
    Offset,     \* of the clock of a zone at an instant
    Rules,      \* what users ask for
    DayLength,
    Week,       \* days of a week (7)
    LookAhead   \* days that are searched (370)

NoDue == -1

Local(z, t) == t + Offset[z][t]

\* Mutant of WallTime: repeated local times use their last occurrence.
WallTimeLast(z, local) ==
    LET shown == {t \in Instants : Local(z, t) = local} IN
    IF shown = {} THEN NoDue ELSE CHOOSE t \in shown : \A u \in shown : u <= t

\* Repeated local times use their first occurrence; nonexistent times are skipped.
WallTime(z, local) ==
    LET shown == {t \in Instants : Local(z, t) = local} IN
    IF shown = {} THEN NoDue ELSE CHOOSE t \in shown : \A u \in shown : t <= u

Date(local) == local \div DayLength

TimeOfDay(local) == local % DayLength

Anchor(r) == WallTime(r.timezone, r.start)

Larger(a, b) == IF a < b THEN b ELSE a

\* The first day that is searched, and those after it.
FirstDay(r, after) == Larger(Date(r.start), Date(Local(r.timezone, after)))

Days == 0..(LookAhead - 1)

Candidate(r, day) == WallTime(r.timezone, day * DayLength + TimeOfDay(r.start))

Allowed(r, day) == r.frequency = "weekly" => day % Week \in r.weekdays

\* The days at which the search would end.
Hits(r, after) ==
    {n \in Days :
        LET day == FirstDay(r, after) + n
            t   == Candidate(r, day)
        IN Allowed(r, day) /\ t # NoDue /\ t >= Anchor(r) /\ t > after}

Search(r, after) ==
    LET n == CHOOSE n \in Hits(r, after) : \A m \in Hits(r, after) : n <= m
    IN Candidate(r, FirstDay(r, after) + n)

NextTime(r, after) ==
    CASE r.frequency = "once"     -> IF Anchor(r) > after THEN Anchor(r) ELSE NoDue
      [] r.frequency = "interval" ->
            Anchor(r) + Larger(0, (after - Anchor(r)) \div r.interval + 1) * r.interval
      [] OTHER                    -> Search(r, after)

ASSUME CalendarAssumption ==
    /\ Instants \subseteq Nat /\ DayLength \in Nat \ {0} /\ Week \in Nat \ {0} /\ LookAhead \in Nat
    /\ Offset \in [Zones -> [Instants -> Int]]

\* A clock that is put back shows what it has shown before: its changes are farther apart than their size.
ASSUME ClockAssumption ==
    \A z \in Zones : \A s, t \in Instants :
        s < t /\ Local(z, t) < Local(z, s) => \E u \in Instants : u < t /\ Local(z, u) = Local(z, t)

\* What rule_data accepts.
ASSUME RulesAssumption ==
    \A r \in Rules :
        /\ r.frequency \in {"once", "interval", "daily", "weekly"}
        /\ r.timezone \in Zones /\ r.start \in Int /\ Anchor(r) # NoDue
        /\ r.frequency = "interval" => r.interval \in Nat \ {0}

-----------------------------------------------------------------------------
(* What a rule stands for, without a search.                               *)

\* Of the instants at which the clock shows the same only the first one counts.
FirstShown(z, t) == \A u \in Instants : u < t => Local(z, u) # Local(z, t)

IsTime(r, t) ==
    /\ t >= Anchor(r)
    /\ CASE r.frequency = "once"     -> t = Anchor(r)
         [] r.frequency = "interval" -> (t - Anchor(r)) % r.interval = 0
         [] OTHER ->
            /\ FirstShown(r.timezone, t)
            /\ TimeOfDay(Local(r.timezone, t)) = TimeOfDay(r.start)
            /\ r.frequency = "weekly" => Date(Local(r.timezone, t)) % Week \in r.weekdays
=============================================================================
