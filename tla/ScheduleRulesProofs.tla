------------------------ MODULE ScheduleRulesProofs ------------------------
(***************************************************************************)
(* The search of next_time finds the least time of a rule, for every zone  *)
(* whose clock shows again what it is put back over, every rule, and every *)
(* length of days, weeks and search.                                       *)
(***************************************************************************)
EXTENDS ScheduleRules, NaturalsInduction, WellFoundedInduction, TLAPS

LEMMA LeastNat ==
  ASSUME NEW S, S \subseteq Nat, S # {}
  PROVE  \E m \in S : \A n \in S : m <= n
<1> DEFINE R == OpToRel(<, Nat)
<1>1. IsWellFoundedOn(R, Nat)
  BY NatLessThanWellFounded
<1>2. \A x, y \in Nat : x < y => <<x, y>> \in R
  BY DEF OpToRel
<1> HIDE DEF R
<1>3. PICK m \in S : \A n \in S : ~ (<<n, m>> \in R)
  BY <1>1, WFMin
<1>4. ASSUME NEW n \in S PROVE m <= n
  <2>1. m \in Nat /\ n \in Nat
    OBVIOUS
  <2>2. n < m => <<n, m>> \in R
    BY <1>2, <2>1
  <2> QED
    BY <1>3, <2>1, <2>2
<1> QED
  BY <1>4

LEMMA LeastChosen ==
  ASSUME NEW S, S \subseteq Nat, S # {}
  PROVE  LET m == CHOOSE m \in S : \A n \in S : m <= n
         IN  m \in S /\ \A n \in S : m <= n
<1>1. \E m \in S : \A n \in S : m <= n
  BY LeastNat
<1> QED
  BY <1>1

-----------------------------------------------------------------------------
(* Clocks.                                                                 *)

LEMMA LocalIsInt ==
  ASSUME NEW z \in Zones, NEW t \in Instants
  PROVE  t \in Nat /\ Local(z, t) \in Int
<1>1. Offset[z] \in [Instants -> Int] /\ Instants \subseteq Nat
  BY CalendarAssumption
<1> QED
  BY <1>1 DEF Local

\* A reading that is shown for the first time is later than every reading before it.
LEMMA FirstShownIsLater ==
  ASSUME NEW z \in Zones, NEW t \in Instants, FirstShown(z, t), NEW s \in Instants, s < t
  PROVE  Local(z, s) < Local(z, t)
<1>1. Local(z, s) \in Int /\ Local(z, t) \in Int
  BY LocalIsInt
<1>2. Local(z, s) # Local(z, t)
  BY DEF FirstShown
<1>3. ~(Local(z, t) < Local(z, s))
  BY ClockAssumption DEF FirstShown
<1> QED
  BY <1>1, <1>2, <1>3

LEMMA WallTimeShown ==
  ASSUME NEW z \in Zones, NEW local, WallTime(z, local) # NoDue
  PROVE  /\ WallTime(z, local) \in Instants /\ Local(z, WallTime(z, local)) = local
         /\ FirstShown(z, WallTime(z, local))
<1> DEFINE shown == {t \in Instants : Local(z, t) = local}
           w == CHOOSE t \in shown : \A u \in shown : t <= u
<1>1. shown # {} /\ WallTime(z, local) = w
  BY DEF WallTime
<1>2. shown \subseteq Nat
  BY CalendarAssumption
<1>3. w \in shown /\ \A u \in shown : w <= u
  BY <1>1, <1>2, LeastChosen, Zenon
<1>4. ASSUME NEW u \in Instants, u < w PROVE Local(z, u) # local
  <2>1. u \in Nat /\ w \in Nat
    BY <1>2, <1>3, CalendarAssumption
  <2> HIDE DEF w
  <2>2. Local(z, u) = local => w <= u
    BY <1>3
  <2> QED
    BY <1>4, <2>1, <2>2
<1> HIDE DEF w
<1> QED
  BY <1>1, <1>3, <1>4 DEF FirstShown

LEMMA WallTimeOfFirst ==
  ASSUME NEW z \in Zones, NEW t \in Instants, FirstShown(z, t)
  PROVE  WallTime(z, Local(z, t)) = t
<1> DEFINE w == WallTime(z, Local(z, t))
<1> DEFINE shown == {u \in Instants : Local(z, u) = Local(z, t)}
<1>1. w # NoDue
  <2>1. shown \subseteq Nat /\ shown # {}
    BY CalendarAssumption
  <2>2. (CHOOSE u \in shown : \A v \in shown : u <= v) \in shown
    BY <2>1, LeastChosen, Zenon
  <2>3. w \in shown
    BY <2>1, <2>2 DEF WallTime
  <2> QED
    BY <2>1, <2>3 DEF NoDue
<1> HIDE DEF shown
<1>2. w \in Instants /\ Local(z, w) = Local(z, t) /\ FirstShown(z, w)
  BY <1>1, WallTimeShown
<1>3. w \in Nat /\ t \in Nat
  BY <1>2, LocalIsInt
<1> HIDE DEF w
<1>4. ~(w < t) /\ ~(t < w)
  BY <1>2 DEF FirstShown
<1> QED
  BY <1>3, <1>4 DEF w

LEMMA DateAndClock ==
  ASSUME NEW l \in Int
  PROVE  /\ Date(l) \in Int /\ TimeOfDay(l) \in 0..(DayLength - 1)
         /\ l = Date(l) * DayLength + TimeOfDay(l)
  BY CalendarAssumption DEF Date, TimeOfDay

LEMMA DateGrows ==
  ASSUME NEW k \in Int, NEW l \in Int, k < l
  PROVE  /\ Date(k) <= Date(l)
         /\ TimeOfDay(k) = TimeOfDay(l) => Date(k) < Date(l)
<1>1. DayLength \in Nat \ {0}
  BY CalendarAssumption
<1> DEFINE d == DayLength
           a == Date(k)
           b == Date(l)
           x == TimeOfDay(k)
           y == TimeOfDay(l)
<1>2. /\ a \in Int /\ b \in Int /\ x \in 0..(d - 1) /\ y \in 0..(d - 1)
      /\ k = a * d + x /\ l = b * d + y
  BY DateAndClock
<1> HIDE DEF a, b, x, y
<1>3. ASSUME b < a PROVE FALSE
  <2>1. (b + 1) * d <= a * d
    BY <1>1, <1>2, <1>3
  <2>2. (b + 1) * d = b * d + d
    BY <1>1, <1>2
  <2>3. a * d \in Int /\ b * d \in Int
    BY <1>1, <1>2
  <2> QED
    BY <1>1, <1>2, <2>1, <2>2, <2>3
<1>4. ASSUME x = y, a = b PROVE FALSE
  BY <1>2, <1>4
<1> QED
  BY <1>2, <1>3, <1>4 DEF a, b, x, y

LEMMA ClockOfSum ==
  ASSUME NEW n \in Int, NEW c \in 0..(DayLength - 1)
  PROVE  n * DayLength + c \in Int /\ Date(n * DayLength + c) = n /\ TimeOfDay(n * DayLength + c) = c
  BY CalendarAssumption DEF Date, TimeOfDay

-----------------------------------------------------------------------------
(* The search.                                                             *)

LEMMA RuleShown ==
  ASSUME NEW r \in Rules
  PROVE  /\ r.timezone \in Zones /\ r.start \in Int
         /\ Anchor(r) \in Instants /\ Anchor(r) \in Nat
         /\ Local(r.timezone, Anchor(r)) = r.start /\ FirstShown(r.timezone, Anchor(r))
<1>1. r.timezone \in Zones /\ r.start \in Int /\ WallTime(r.timezone, r.start) # NoDue
  BY RulesAssumption DEF Anchor
<1>2. /\ Anchor(r) \in Instants /\ Local(r.timezone, Anchor(r)) = r.start
      /\ FirstShown(r.timezone, Anchor(r))
  BY <1>1, WallTimeShown DEF Anchor
<1> QED
  BY <1>1, <1>2, LocalIsInt

\* An interval is counted from the start in elapsed time, whatever the clock of the zone does.
LEMMA IntervalLeast ==
  ASSUME NEW a \in Nat, NEW after \in Nat, NEW s \in Nat \ {0}
  PROVE  LET n == a + Larger(0, (after - a) \div s + 1) * s
         IN  /\ n \in Nat /\ n > after /\ n >= a /\ (n - a) % s = 0
             /\ \A t \in Nat : after < t /\ t < n => ~(t >= a /\ (t - a) % s = 0)
<1> DEFINE q == (after - a) \div s
           m == (after - a) % s
           k == Larger(0, q + 1)
           n == a + k * s
<1>1. q \in Int /\ m \in 0..(s - 1) /\ after - a = q * s + m
  OBVIOUS
<1> HIDE DEF q, m
<1>2. k \in Nat /\ k >= q + 1 /\ (k = 0 \/ k = q + 1)
  BY <1>1 DEF Larger
<1> HIDE DEF k
<1>3. k * s \in Nat
  BY <1>2
<1>4. n \in Nat /\ n >= a /\ n - a = k * s
  BY <1>3
<1>5. n > after
  <2>1. (q + 1) * s <= k * s
    BY <1>1, <1>2
  <2>2. (q + 1) * s = q * s + s /\ q * s \in Int
    BY <1>1
  <2> QED
    BY <1>1, <1>4, <2>1, <2>2
<1>6. (k * s) % s = 0
  BY <1>2
<1>7. ASSUME NEW t \in Nat, after < t, t < n, t >= a, (t - a) % s = 0 PROVE FALSE
  <2> DEFINE j == (t - a) \div s
  <2>1. j \in Int /\ t - a = j * s
    BY <1>7
  <2> HIDE DEF j
  <2>2. j * s < k * s
    BY <1>4, <1>7, <2>1
  <2>3. j < k
    BY <1>2, <2>1, <2>2
  <2>4. CASE k = 0
    <3>1. j * s < 0
      BY <2>2, <2>4
    <3> QED
      BY <1>7, <2>1, <3>1
  <2>5. CASE k = q + 1
    <3>1. j <= q
      BY <1>1, <2>1, <2>3, <2>5
    <3>2. j * s <= q * s
      BY <1>1, <2>1, <3>1
    <3> QED
      BY <1>1, <1>7, <2>1, <3>2
  <2> QED
    BY <1>2, <2>4, <2>5
<1> QED
  BY <1>4, <1>5, <1>6, <1>7 DEF n, k, q


\* A hit of the search is a time of the rule after the moment.
LEMMA HitIsTime ==
  ASSUME NEW r \in Rules, r.frequency \in {"daily", "weekly"}, NEW after \in Instants,
         NEW n \in Hits(r, after)
  PROVE  LET day == FirstDay(r, after) + n
             t   == Candidate(r, day)
         IN  /\ t \in Instants /\ t > after /\ IsTime(r, t)
             /\ day \in Int /\ Date(Local(r.timezone, t)) = day
<1> DEFINE day == FirstDay(r, after) + n
           t == Candidate(r, day)
           local == day * DayLength + TimeOfDay(r.start)
<1>1. n \in Days /\ Allowed(r, day) /\ t # NoDue /\ t >= Anchor(r) /\ t > after
  BY DEF Hits
<1>2. FirstDay(r, after) \in Int /\ TimeOfDay(r.start) \in 0..(DayLength - 1)
  <2>1. r.start \in Int /\ Local(r.timezone, after) \in Int
    BY LocalIsInt, RuleShown, RulesAssumption
  <2> QED
    BY <2>1, DateAndClock DEF FirstDay, Larger
<1>3. day \in Int
  BY <1>1, <1>2, CalendarAssumption DEF Days
<1> HIDE DEF day
<1>4. Date(local) = day /\ TimeOfDay(local) = TimeOfDay(r.start)
  BY <1>2, <1>3, ClockOfSum
<1>5. t \in Instants /\ Local(r.timezone, t) = local /\ FirstShown(r.timezone, t)
  BY <1>1, WallTimeShown, RuleShown DEF Candidate
<1> HIDE DEF t, local
<1>6. IsTime(r, t)
  BY <1>1, <1>4, <1>5 DEF IsTime, Allowed
<1> QED
  BY <1>1, <1>3, <1>4, <1>5, <1>6 DEF t, day

\* A time of the rule after the moment is on none of the days before the first one, and is the candidate of its day.
LEMMA TimeIsCandidate ==
  ASSUME NEW r \in Rules, r.frequency \in {"daily", "weekly"}, NEW after \in Instants,
         NEW t \in Instants, t > after, IsTime(r, t)
  PROVE  LET day == Date(Local(r.timezone, t))
         IN  /\ day \in Int /\ FirstDay(r, after) <= day
             /\ Candidate(r, day) = t /\ Allowed(r, day) /\ t >= Anchor(r)
<1> DEFINE day == Date(Local(r.timezone, t))
<1>1. t >= Anchor(r) /\ FirstShown(r.timezone, t) /\ TimeOfDay(Local(r.timezone, t)) = TimeOfDay(r.start) /\ Allowed(r, day)
  BY DEF IsTime, Allowed
<1>2. /\ Anchor(r) \in Instants /\ Local(r.timezone, Anchor(r)) = r.start
      /\ t \in Nat /\ after \in Nat /\ Anchor(r) \in Nat
      /\ Local(r.timezone, t) \in Int /\ Local(r.timezone, after) \in Int /\ r.start \in Int
  BY RuleShown, LocalIsInt, RulesAssumption
<1>3. /\ day \in Int /\ Date(Local(r.timezone, after)) \in Int /\ Date(r.start) \in Int
      /\ Local(r.timezone, t) = day * DayLength + TimeOfDay(Local(r.timezone, t))
  BY <1>2, DateAndClock
<1>4. Date(Local(r.timezone, after)) <= day
  BY <1>1, <1>2, FirstShownIsLater, RuleShown, DateGrows
<1>5. Date(r.start) <= day
  <2>1. CASE t = Anchor(r)
    BY <1>2, <1>3, <2>1
  <2>2. CASE Anchor(r) < t
    <3>1. r.start < Local(r.timezone, t)
      BY <1>1, <1>2, <2>2, FirstShownIsLater, RuleShown
    <3> QED
      BY <1>2, <3>1, DateGrows
  <2> QED
    BY <1>1, <1>2, <2>1, <2>2
<1>6. Candidate(r, day) = t
  <2>1. Candidate(r, day) = WallTime(r.timezone, Local(r.timezone, t))
    BY <1>1, <1>3 DEF Candidate
  <2> QED
    BY <1>1, <2>1, WallTimeOfFirst, RuleShown
<1> QED
  BY <1>1, <1>3, <1>4, <1>5, <1>6 DEF FirstDay, Larger

LEMMA SearchLeast ==
  ASSUME NEW r \in Rules, r.frequency \in {"daily", "weekly"}, NEW after \in Instants,
         Hits(r, after) # {}
  PROVE  LET n == NextTime(r, after)
         IN  /\ n \in Nat /\ n > after /\ IsTime(r, n)
             /\ \A t \in Instants : after < t /\ t < n => ~IsTime(r, t)
<1> DEFINE hits == Hits(r, after)
           k == CHOOSE m \in hits : \A o \in hits : m <= o
           first == FirstDay(r, after)
           n == Candidate(r, first + k)
<1>1. NextTime(r, after) = n
  BY DEF NextTime, Search
<1>2. hits \subseteq Nat /\ hits \subseteq Days
  BY CalendarAssumption DEF Hits, Days
<1>3. k \in hits /\ \A o \in hits : k <= o
  <2> HIDE DEF hits
  <2> QED
    BY <1>2, LeastChosen DEF hits
<1> HIDE DEF k, hits
<1>4. n \in Instants /\ n > after /\ IsTime(r, n) /\ first + k \in Int /\ Date(Local(r.timezone, n)) = first + k
  BY <1>3, HitIsTime DEF hits
<1>5. k \in Nat /\ k \in Days /\ n \in Nat
  BY <1>2, <1>3, <1>4, LocalIsInt, RuleShown
<1>6. first \in Int
  <2>1. Date(r.start) \in Int /\ Date(Local(r.timezone, after)) \in Int
    BY LocalIsInt, RuleShown, DateAndClock, RulesAssumption
  <2> QED
    BY <2>1 DEF FirstDay, Larger
<1> HIDE DEF n, first
<1>7. ASSUME NEW t \in Instants, after < t, t < n, IsTime(r, t) PROVE FALSE
  <2> DEFINE day == Date(Local(r.timezone, t))
  <2>1. /\ day \in Int /\ first <= day
        /\ Candidate(r, day) = t /\ Allowed(r, day) /\ t >= Anchor(r)
    <3>1. t > after
      BY <1>7, LocalIsInt, RuleShown
    <3> QED
      BY <1>7, <3>1, TimeIsCandidate DEF first
  <2>2. Local(r.timezone, t) < Local(r.timezone, n) /\ TimeOfDay(Local(r.timezone, t)) = TimeOfDay(Local(r.timezone, n))
    BY <1>4, <1>7, FirstShownIsLater, RuleShown DEF IsTime
  <2>3. Local(r.timezone, t) \in Int /\ Local(r.timezone, n) \in Int /\ t \in Nat
    BY <1>4, LocalIsInt, RuleShown
  <2>4. day < first + k
    BY <1>4, <2>2, <2>3, DateGrows
  <2> HIDE DEF day
  <2>5. day - first \in Days /\ first + (day - first) = day
    BY <1>5, <1>6, <2>1, <2>4, CalendarAssumption DEF Days
  <2>6. t # NoDue /\ t > after
    BY <1>7, <2>3, LocalIsInt, RuleShown DEF NoDue
  <2>7. day - first \in hits
    BY <2>1, <2>5, <2>6 DEF hits, Hits, first
  <2> QED
    BY <1>3, <1>5, <1>6, <2>1, <2>4, <2>7
<1> QED
  BY <1>1, <1>4, <1>5, <1>7

\* next_time: it finds the least time of the rule after the moment, if it finds one; a one-time rule for which it
\* finds none has no time left. For daily and weekly rules this is so although the search goes by dates of a clock
\* that is changed: no time is on a date before that of the moment, and later dates have later times.
THEOREM NextTimeIsLeast ==
  ASSUME NEW r \in Rules, NEW after \in Instants,
         r.frequency \in {"daily", "weekly"} => Hits(r, after) # {}
  PROVE  LET n == NextTime(r, after)
         IN  /\ n \in Nat \union {NoDue}
             /\ n # NoDue =>
                /\ n > after /\ IsTime(r, n)
                /\ \A t \in Instants : after < t /\ t < n => ~IsTime(r, t)
             /\ n = NoDue => \A t \in Instants : after < t => ~IsTime(r, t)
<1>1. /\ r.frequency \in {"once", "interval", "daily", "weekly"} /\ Instants \subseteq Nat
      /\ r.frequency = "interval" => r.interval \in Nat \ {0}
  BY RulesAssumption, CalendarAssumption
<1>2. Anchor(r) \in Instants /\ Anchor(r) \in Nat
  BY RuleShown
<1>3. CASE r.frequency = "once"
  <2>1. NextTime(r, after) = IF Anchor(r) > after THEN Anchor(r) ELSE NoDue
    BY <1>3 DEF NextTime
  <2>2. \A t : IsTime(r, t) <=> t >= Anchor(r) /\ t = Anchor(r)
    BY <1>3 DEF IsTime
  <2>3. after \in Nat /\ NoDue \notin Nat
    BY <1>1 DEF NoDue
  <2> QED
    BY <1>1, <1>2, <2>1, <2>2, <2>3
<1>4. CASE r.frequency = "interval"
  <2> DEFINE n == Anchor(r) + Larger(0, (after - Anchor(r)) \div r.interval + 1) * r.interval
  <2>1. NextTime(r, after) = n
    BY <1>4 DEF NextTime
  <2>2. /\ n \in Nat /\ n > after /\ n >= Anchor(r) /\ (n - Anchor(r)) % r.interval = 0
        /\ \A t \in Nat : after < t /\ t < n => ~(t >= Anchor(r) /\ (t - Anchor(r)) % r.interval = 0)
    <3>1. after \in Nat /\ r.interval \in Nat \ {0}
      BY <1>1, <1>4
    <3> QED
      BY <1>2, <3>1, IntervalLeast, Zenon
  <2> HIDE DEF n
  <2>3. n # NoDue
    BY <2>2 DEF NoDue
  <2> QED
    BY <1>1, <1>4, <2>1, <2>2, <2>3 DEF IsTime
<1>5. CASE r.frequency \in {"daily", "weekly"}
  <2> DEFINE n == NextTime(r, after)
  <2>1. /\ n \in Nat /\ n > after /\ IsTime(r, n)
        /\ \A t \in Instants : after < t /\ t < n => ~IsTime(r, t)
    BY <1>5, SearchLeast
  <2> QED
    BY <2>1 DEF NoDue
<1> QED
  BY <1>1, <1>3, <1>4, <1>5
=============================================================================
