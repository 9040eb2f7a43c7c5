-------------------------- MODULE SchedulerProofs --------------------------
(***************************************************************************)
(* Proofs about Scheduler: type correctness, the safety invariants and two *)
(* action properties, for every set of tasks, users, devices, rules and    *)
(* reviews and every bound.                                                *)
(***************************************************************************)
EXTENDS Scheduler, ScheduleRulesProofs, FiniteSetTheorems, SequenceTheorems

-----------------------------------------------------------------------------
(* The inductive invariant *)

\* The devices of a selection are distinct.
Distinct(saved) ==
    \A i, j \in DOMAIN saved.targets :
        saved.targets[i].device = saved.targets[j].device => i = j

\* Rows of scheduled_task, as they are or as a rollback would leave them.
TasksOK(tk) ==
    /\ tk \in [Tasks -> TaskRows]
    /\ \A t \in Tasks : Distinct(tk[t].saved)
    /\ \A t \in Tasks : tk[t].revision > 0 => tk[t].owner \in Users /\ tk[t].rule \in Rules
    /\ \A t \in Tasks : tk[t].revision > 0 /\ tk[t].enabled => tk[t].due # NoDue

\* A receipt or a request names a revision that exists.
InputsOK ==
    /\ \A k \in Reviews : /\ Distinct(receipt[k].saved)
                          /\ receipt[k].task # 0 => receipt[k].revision > 0
                          /\ receipt[k].actor \in Users => receipt[k].rule \in Rules
    /\ \A u \in Users :
        /\ request[u].op = "save" =>
            request[u].key \in Reviews /\ receipt[request[u].key].rule \in Rules
        /\ request[u].op = "run" => request[u].key \in Keys
        /\ request[u].op \in {"state", "run"} =>
            request[u].task \in Tasks /\ request[u].revision > 0
        /\ request[u].session <= session[u]

\* A row w of task t belongs to a revision and a session that were current.
RowOK(w, t, current) ==
    /\ w.revision <= t.revision
    /\ w.session <= current[t.owner]
    /\ w.status = "PENDING" => w.phase = "none"
    /\ w.phase \in {"loaded", "checked", "cleared"} => w.status = "RUNNING"

RowsOK == \A r \in RunIds : RowOK(run[r], task[run[r].task], session)

\* A row of an occurrence.
Of(w, o) == w.task = o.task /\ w.source = o.source /\ w.key = o.key

\* The first n rows have a receipt.
Booked(rows, n, receipts) == \A r \in 1..n : \E o \in receipts : Of(rows[r], o)

DevicesOf(o, rows, n) == {rows[r].device : r \in {q \in 1..n : Of(rows[q], o)}}

\* Every receipt has exactly its rows among the first n.
Complete(rows, n, receipts) ==
    \A o \in receipts :
        DevicesOf(o, rows, n) = IF o.status = "QUEUED" THEN o.devices ELSE {}

\* No two of the first n rows are one occurrence's for one device.
Single(rows, n) ==
    \A q, r \in 1..n : Of(rows[q], rows[r]) /\ rows[q].device = rows[r].device => q = r

OpenIn(rows, n) == {r \in 1..n : rows[r].status \in {"PENDING", "RUNNING"}}

\* Open rows of one task are one occurrence's.
Apart(rows, n) ==
    \A q, r \in OpenIn(rows, n) : rows[q].task = rows[r].task => Of(rows[q], rows[r])

Fits(rows, n, rest) == Cardinality(OpenIn(rows, n)) + rest <= Capacity

\* Every occurrence was recorded after it was due, and before the next one is.
Spaced(tk, receipts, now) ==
    \A o \in receipts : o.source = "scheduled" =>
        /\ o.due <= o.at
        /\ o.at <= now
        /\ tk[o.task].due # NoDue => o.at < tk[o.task].due

SpacedOK ==
    used["jumps"] = 0 =>
        /\ moment <= clock
        /\ Spaced(task, ledger, clock)
        /\ pc = "work" => Spaced(undo.task, undo.ledger, clock)

\* What tick still has to handle is enabled and due.
BatchOK ==
    pc = "work" =>
        \A t \in batch : task[t].revision > 0 /\ task[t].enabled /\ task[t].due \in 0..moment

\* A rollback loses only what tick has added.
UndoOK ==
    pc = "work" =>
        /\ TasksOK(undo.task)
        /\ \A t \in Tasks : /\ undo.task[t].revision = task[t].revision
                            /\ undo.task[t].owner = task[t].owner
        /\ undo.ledger \subseteq ledger
        /\ undo.rows \in 0..Len(run)
        /\ Booked(run, undo.rows, undo.ledger)
        /\ Complete(run, undo.rows, undo.ledger)

\* The rows a rollback would leave.
Kept == IF pc = "work" THEN undo.rows ELSE Len(run)

\* A barred row has not passed the check that will refuse it.
Refusable(w, t, current) ==
    /\ w.phase \notin {"cleared", "sent"}
    /\ \/ w.revision < t.revision
       \/ w.session < current[t.owner] /\ w.phase # "checked"

BarredOK ==
    /\ barred \subseteq 1..Kept
    /\ \A r \in barred : Refusable(run[r], task[run[r].task], session)

IInv ==
    /\ TypeOK
    /\ TasksOK(task)
    /\ InputsOK
    /\ RowsOK
    /\ Booked(run, Len(run), ledger)
    /\ Complete(run, Len(run), ledger)
    /\ Single(run, Len(run))
    /\ Apart(run, Len(run))
    /\ Fits(run, Len(run), others)
    /\ SpacedOK
    /\ NoBurst
    /\ BatchOK
    /\ UndoOK
    /\ BarredOK

-----------------------------------------------------------------------------
(* Choices *)

\* Tasks are numbered.
LEMMA TasksAreNumbers == Tasks \subseteq Nat
BY NumbersAssumption DEF Tasks

\* Times begin with 0.
LEMMA ZeroIsTime == 0 \in 0..MaxTime
BY NumbersAssumption

\* next_time returns a time of the future that the rule stands for and none of which comes
\* before, or none.
LEMMA NextTimeLater ==
    ASSUME NEW rule \in Rules, NEW after \in 0..MaxTime
    PROVE  /\ NextTime(rule, after) \in Times
           /\ NextTime(rule, after) # NoDue =>
                /\ NextTime(rule, after) > after /\ IsTime(rule, NextTime(rule, after))
                /\ \A m \in Instants :
                    after < m /\ m < NextTime(rule, after) => ~IsTime(rule, m)
<1>1. after \in Instants
  BY ChoicesAssumption
<1>2. rule.frequency \in {"daily", "weekly"} => Hits(rule, after) # {}
  BY SearchAssumption
<1> QED
  BY <1>1, <1>2, NextTimeIsLeast DEF Times

\* tick takes the tasks of its batch from the batch.
LEMMA ForemostInBatch ==
    ASSUME batch # {}, batch \subseteq Tasks, \A t \in batch : task[t].due \in Nat
    PROVE  Foremost \in batch
<1> DEFINE times == {task[t].due : t \in batch}
<1>1. PICK first \in times : \A n \in times : first <= n
  <2>1. times \subseteq Nat /\ times # {}
    OBVIOUS
  <2> HIDE DEF times
  <2> QED
    BY <2>1, LeastNat
<1> DEFINE heads == {t \in batch : task[t].due = first}
<1>2. PICK t \in heads : \A s \in heads : t <= s
  <2>1. heads \subseteq Nat
    BY TasksAreNumbers
  <2>2. heads # {}
    OBVIOUS
  <2> HIDE DEF heads
  <2> QED
    BY <2>1, <2>2, LeastNat
<1>3. ASSUME NEW s \in batch \ {t}
      PROVE  Before(t, s)
  <2>1. task[t].due = first /\ first \in Nat /\ task[s].due \in Nat
    OBVIOUS
  <2>2. first <= task[s].due
    BY <1>1
  <2>3. s \in heads => t <= s
    BY <1>2
  <2>4. t \in Int /\ s \in Int /\ s # t
    <3>1. t \in Tasks /\ s \in Tasks /\ s # t
      OBVIOUS
    <3> HIDE DEF heads
    <3> QED
      BY <3>1, TasksAreNumbers
  <2>5. task[s].due = first => t <= s
    BY <2>3
  <2> QED
    BY <2>1, <2>2, <2>4, <2>5 DEF Before
<1>4. t \in batch
  OBVIOUS
<1> QED
  BY <1>3, <1>4 DEF Foremost

\* A review of a new task gets a place that is free.
LEMMA TaskOfFree ==
    ASSUME NEW rc, rc.task \in Tasks \union {0}, rc.task = 0 => Existing # Tasks
    PROVE  /\ TaskOf(rc) \in Tasks
           /\ rc.task = 0 => TaskOf(rc) \notin Existing
           /\ rc.task # 0 => TaskOf(rc) = rc.task
<1>1. CASE rc.task # 0
  BY <1>1 DEF TaskOf
<1>2. CASE rc.task = 0
  <2> DEFINE free == Tasks \ Existing
             P(t) == t \notin Existing /\ \A s \in Tasks \ Existing : t <= s
  <2>1. free \subseteq Nat
    BY TasksAreNumbers
  <2>2. free # {}
    BY <1>2 DEF Existing
  <2>3. PICK t \in free : \A s \in free : t <= s
    <3> HIDE DEF free
    <3> QED
      BY <2>1, <2>2, LeastNat
  <2>4. t \in Tasks /\ P(t)
    BY <2>3
  <2>5. (CHOOSE s \in Tasks : P(s)) \in Tasks /\ P(CHOOSE s \in Tasks : P(s))
    <3> HIDE DEF P
    <3> QED
      BY <2>4
  <2> QED
    BY <1>2, <2>5 DEF TaskOf
<1> QED
  BY <1>1, <1>2

-----------------------------------------------------------------------------
(* Rows *)

LEMMA TaskRowFields ==
    ASSUME NEW w \in TaskRows
    PROVE  /\ w.revision \in Nat
           /\ w.owner \in Users \union {NoUser}
           /\ w.rule \in Rules \union {NoRule}
           /\ w.saved \in Definitions
           /\ w.due \in Times
           /\ w.enabled \in BOOLEAN
           /\ w.attention \in BOOLEAN
           /\ w.creation \in Reviews \union {NoKey}
           /\ w.review \in Reviews \union {NoKey}
BY DEF TaskRows

\* A row of scheduled_task after save, state, dispatch, tick and quarantine.
LEMMA TaskRowSaved ==
    ASSUME NEW w \in TaskRows, NEW n \in Nat, NEW rule \in Rules \union {NoRule},
           NEW e \in BOOLEAN, NEW saved \in Definitions, NEW due \in Times,
           NEW k \in Reviews
    PROVE  [w EXCEPT !.revision = n, !.rule = rule, !.enabled = e, !.saved = saved,
                     !.due = due, !.attention = FALSE, !.review = k] \in TaskRows
BY DEF TaskRows

LEMMA TaskRowTimed ==
    ASSUME NEW w \in TaskRows, NEW e \in BOOLEAN, NEW due \in Times
    PROVE  [w EXCEPT !.enabled = e, !.due = due] \in TaskRows
BY DEF TaskRows

LEMMA TaskRowBlocked ==
    ASSUME NEW w \in TaskRows, NEW v
    PROVE  Blocked(w, v) \in TaskRows
BY DEF TaskRows, Blocked

LEMMA TaskRowDisabled ==
    ASSUME NEW w \in TaskRows
    PROVE  Disabled(w) \in TaskRows
BY DEF TaskRows, Disabled

\* Rows that keep their occurrence and device keep their receipts.
LEMMA RowsRelabelled ==
    ASSUME NEW rows, NEW rows2, NEW n \in Nat, NEW receipts,
           \A r \in 1..n : Of(rows2[r], rows[r]) /\ rows2[r].device = rows[r].device
    PROVE  /\ Booked(rows, n, receipts) => Booked(rows2, n, receipts)
           /\ Complete(rows, n, receipts) => Complete(rows2, n, receipts)
           /\ Single(rows, n) => Single(rows2, n)
<1>1. \A o : \A r \in 1..n : Of(rows[r], o) <=> Of(rows2[r], o)
  BY DEF Of
<1>2. Booked(rows, n, receipts) => Booked(rows2, n, receipts)
  BY <1>1 DEF Booked
<1>3. ASSUME NEW o
      PROVE  DevicesOf(o, rows, n) = DevicesOf(o, rows2, n)
  <2>1. {q \in 1..n : Of(rows[q], o)} = {q \in 1..n : Of(rows2[q], o)}
    BY <1>1
  <2> QED
    BY <2>1 DEF DevicesOf
<1>4. Complete(rows, n, receipts) => Complete(rows2, n, receipts)
  BY <1>3 DEF Complete
<1>5. Single(rows, n) => Single(rows2, n)
  BY DEF Single, Of
<1> QED
  BY <1>2, <1>4, <1>5

\* Rows of which none was opened, of a part of the queue, are no more open.
LEMMA RowsNotOpened ==
    ASSUME NEW rows, NEW rows2, NEW n \in Nat, NEW m \in 0..n, NEW rest \in Nat,
           \A r \in 1..m : Of(rows2[r], rows[r]),
           \A r \in 1..m : rows2[r].status \in {"PENDING", "RUNNING"} =>
                            rows[r].status \in {"PENDING", "RUNNING"}
    PROVE  /\ Apart(rows, n) => Apart(rows2, m)
           /\ Fits(rows, n, rest) => Fits(rows2, m, rest)
<1>1. OpenIn(rows2, m) \subseteq OpenIn(rows, n) /\ OpenIn(rows2, m) \subseteq 1..m
  BY DEF OpenIn
<1>2. Apart(rows, n) => Apart(rows2, m)
  BY <1>1 DEF Apart, Of
<1>3. IsFiniteSet(OpenIn(rows, n))
  <2>1. IsFiniteSet(1..n)
    BY FS_Interval
  <2> QED
    BY <2>1, FS_Subset DEF OpenIn
<1>4. IsFiniteSet(OpenIn(rows2, m))
      /\ Cardinality(OpenIn(rows2, m)) <= Cardinality(OpenIn(rows, n))
  BY <1>1, <1>3, FS_Subset
<1>5. Cardinality(OpenIn(rows2, m)) \in Nat /\ Cardinality(OpenIn(rows, n)) \in Nat
  BY <1>3, <1>4, FS_CardinalityType
<1>6. Fits(rows, n, rest) => Fits(rows2, m, rest)
  BY <1>4, <1>5, NumbersAssumption DEF Fits
<1> QED
  BY <1>2, <1>6

\* The rows of a new occurrence join the queue with its receipt.
LEMMA RowsOfNewReceipt ==
    ASSUME NEW rows, NEW rows2, NEW n \in Nat, NEW m \in Nat, NEW receipts, NEW o,
           \A r \in 1..n : rows2[r] = rows[r],
           \A r \in (n + 1)..(n + m) : Of(rows2[r], o),
           \A p \in receipts : ~Of(p, o),
           o.status = "QUEUED" => o.devices = {rows2[r].device : r \in (n + 1)..(n + m)},
           o.status # "QUEUED" => m = 0,
           Booked(rows, n, receipts)
    PROVE  /\ Booked(rows2, n + m, receipts \union {o})
           /\ Complete(rows, n, receipts) => Complete(rows2, n + m, receipts \union {o})
<1>1. 1..(n + m) = (1..n) \union ((n + 1)..(n + m))
  OBVIOUS
<1>2. Booked(rows2, n + m, receipts \union {o})
  BY <1>1 DEF Booked
<1>3. \A r \in 1..n : ~Of(rows2[r], o)
  BY DEF Booked, Of
<1>4. \A p \in receipts : \A r \in (n + 1)..(n + m) : ~Of(rows2[r], p)
  BY DEF Of
<1>5. ASSUME NEW p \in receipts
      PROVE  DevicesOf(p, rows2, n + m) = DevicesOf(p, rows, n)
  <2>1. {q \in 1..(n + m) : Of(rows2[q], p)} = {q \in 1..n : Of(rows[q], p)}
    BY <1>1, <1>4
  <2>2. {q \in 1..n : Of(rows[q], p)} \subseteq 1..n
    OBVIOUS
  <2> QED
    BY <2>1, <2>2 DEF DevicesOf
<1>6. DevicesOf(o, rows2, n + m) = IF o.status = "QUEUED" THEN o.devices ELSE {}
  <2>1. {q \in 1..(n + m) : Of(rows2[q], o)} = (n + 1)..(n + m)
    BY <1>1, <1>3
  <2>2. m = 0 => (n + 1)..(n + m) = {}
    OBVIOUS
  <2> QED
    BY <2>1, <2>2 DEF DevicesOf
<1>7. Complete(rows, n, receipts) => Complete(rows2, n + m, receipts \union {o})
  BY <1>5, <1>6 DEF Complete
<1> QED
  BY <1>2, <1>7

\* So no occurrence has two rows for a device.
LEMMA RowsOfDistinctDevices ==
    ASSUME NEW rows, NEW rows2, NEW n \in Nat, NEW m \in Nat, NEW receipts, NEW o,
           \A r \in 1..n : rows2[r] = rows[r],
           \A r \in (n + 1)..(n + m) : Of(rows2[r], o),
           \A q, r \in (n + 1)..(n + m) : rows2[q].device = rows2[r].device => q = r,
           \A p \in receipts : ~Of(p, o),
           Booked(rows, n, receipts),
           Single(rows, n)
    PROVE  Single(rows2, n + m)
<1>1. \A r \in 1..(n + m) : r \in 1..n \/ r \in (n + 1)..(n + m)
  OBVIOUS
<1>2. \A r \in 1..n : ~Of(rows2[r], o)
  BY DEF Booked, Of
<1>3. \A q \in 1..n : \A r \in (n + 1)..(n + m) :
        ~Of(rows2[q], rows2[r]) /\ ~Of(rows2[r], rows2[q])
  BY <1>2 DEF Of
<1>4. ASSUME NEW q \in 1..(n + m), NEW r \in 1..(n + m),
             Of(rows2[q], rows2[r]), rows2[q].device = rows2[r].device
      PROVE  q = r
  <2>1. CASE q \in 1..n /\ r \in 1..n
    BY <1>4, <2>1 DEF Single
  <2>2. CASE q \in (n + 1)..(n + m) /\ r \in (n + 1)..(n + m)
    BY <1>4, <2>2
  <2> QED
    BY <1>1, <1>3, <1>4, <2>1, <2>2
<1> QED
  BY <1>4 DEF Single

\* They fit when the queue has room for them, and overlap with nothing when no row of
\* the task is open.
LEMMA RowsJoin ==
    ASSUME NEW rows, NEW rows2, NEW n \in Nat, NEW m \in Nat, NEW o, NEW rest \in Nat,
           \A r \in 1..n : rows2[r] = rows[r],
           \A r \in (n + 1)..(n + m) : Of(rows2[r], o)
    PROVE  /\ Apart(rows, n) /\ (\A r \in OpenIn(rows, n) : rows[r].task # o.task)
                => Apart(rows2, n + m)
           /\ Fits(rows, n, rest + m) => Fits(rows2, n + m, rest)
<1>1. \A r \in 1..(n + m) : r \in 1..n \/ r \in (n + 1)..(n + m)
  OBVIOUS
<1>2. OpenIn(rows2, n + m) \subseteq OpenIn(rows, n) \union ((n + 1)..(n + m))
  BY <1>1 DEF OpenIn
<1>3. ASSUME Apart(rows, n), \A r \in OpenIn(rows, n) : rows[r].task # o.task
      PROVE  Apart(rows2, n + m)
  <2>1. \A r \in OpenIn(rows, n) : rows2[r] = rows[r]
    BY DEF OpenIn
  <2>2. ASSUME NEW q \in OpenIn(rows2, n + m), NEW r \in OpenIn(rows2, n + m),
               rows2[q].task = rows2[r].task
        PROVE  Of(rows2[q], rows2[r])
    <3>1. CASE q \in OpenIn(rows, n) /\ r \in OpenIn(rows, n)
      BY <1>3, <2>1, <2>2, <3>1 DEF Apart
    <3>2. CASE q \in (n + 1)..(n + m) /\ r \in (n + 1)..(n + m)
      BY <3>2 DEF Of
    <3>3. CASE q \in OpenIn(rows, n) /\ r \in (n + 1)..(n + m)
      BY <1>3, <2>1, <2>2, <3>3 DEF Of
    <3>4. CASE q \in (n + 1)..(n + m) /\ r \in OpenIn(rows, n)
      BY <1>3, <2>1, <2>2, <3>4 DEF Of
    <3> QED
      BY <1>2, <3>1, <3>2, <3>3, <3>4
  <2> QED
    BY <2>2 DEF Apart
<1>4. IsFiniteSet(OpenIn(rows, n)) /\ IsFiniteSet((n + 1)..(n + m))
      /\ Cardinality((n + 1)..(n + m)) = m
  <2>1. IsFiniteSet(1..n)
    BY FS_Interval
  <2>2. IsFiniteSet(OpenIn(rows, n))
    BY <2>1, FS_Subset DEF OpenIn
  <2>3. n + 1 \in Int /\ n + m \in Int
    OBVIOUS
  <2>4. IsFiniteSet((n + 1)..(n + m))
        /\ Cardinality((n + 1)..(n + m)) = IF n + 1 > n + m THEN 0 ELSE (n + m) - (n + 1) + 1
    BY <2>3, FS_Interval
  <2> QED
    BY <2>2, <2>4
<1>5. /\ IsFiniteSet(OpenIn(rows, n) \union ((n + 1)..(n + m)))
      /\ Cardinality(OpenIn(rows, n) \union ((n + 1)..(n + m)))
            <= Cardinality(OpenIn(rows, n)) + m
  <2> DEFINE A == OpenIn(rows, n)
             B == (n + 1)..(n + m)
  <2>1. A \intersect B \subseteq A
    OBVIOUS
  <2>2. IsFiniteSet(A \intersect B)
    BY <1>4, <2>1, FS_Subset
  <2>3. Cardinality(A \intersect B) \in Nat /\ Cardinality(A) \in Nat
    BY <1>4, <2>2, FS_CardinalityType
  <2>4. IsFiniteSet(A \union B)
        /\ Cardinality(A \union B) = Cardinality(A) + Cardinality(B) - Cardinality(A \intersect B)
    BY <1>4, FS_Union
  <2> QED
    BY <1>4, <2>3, <2>4
<1>6. IsFiniteSet(OpenIn(rows2, n + m))
      /\ Cardinality(OpenIn(rows2, n + m)) <= Cardinality(OpenIn(rows, n) \union ((n + 1)..(n + m)))
  BY <1>2, <1>5, FS_Subset
<1>7. /\ Cardinality(OpenIn(rows2, n + m)) \in Nat
      /\ Cardinality(OpenIn(rows, n)) \in Nat
      /\ Cardinality(OpenIn(rows, n) \union ((n + 1)..(n + m))) \in Nat
  BY <1>4, <1>5, <1>6, FS_CardinalityType
<1>8. Fits(rows, n, rest + m) => Fits(rows2, n + m, rest)
  BY <1>5, <1>6, <1>7, NumbersAssumption DEF Fits
<1> QED
  BY <1>3, <1>8

\* What a review of a selection saves.
LEMMA DefinitionType ==
    ASSUME NEW s \in Selections, NEW b \in {NoBook, book},
           ident \in [Devices -> Idents \union {NoIdent}], book \in Books \union {NoBook},
           NoIdent \notin {ident[s[i]] : i \in DOMAIN s}
    PROVE  Definition(s, b) \in Definitions /\ Distinct(Definition(s, b))
<1>1. s \in Seq(Devices) /\ \A i, j \in DOMAIN s : s[i] = s[j] => i = j
  BY ChoicesAssumption
<1>2. DOMAIN s = 1..Len(s) /\ Len(s) \in Nat /\ \A i \in DOMAIN s : s[i] \in Devices
  BY <1>1
<1> DEFINE targets == [i \in DOMAIN s |-> [device |-> s[i], ident |-> ident[s[i]]]]
<1>3. \A i \in DOMAIN s : ident[s[i]] \in Idents
  BY <1>2
<1>4. \A i \in DOMAIN s : targets[i] \in [device : Devices, ident : Idents]
  BY <1>2, <1>3
<1>5. targets \in [1..Len(s) -> [device : Devices, ident : Idents]]
  BY <1>2, <1>4
<1>6. targets \in Seq([device : Devices, ident : Idents])
  BY <1>2, <1>5, SeqDef
<1>7. Definition(s, b) = [targets |-> targets, book |-> b]
  BY DEF Definition
<1>8. Definition(s, b) \in Definitions
  <2> HIDE DEF targets
  <2> QED
    BY <1>6, <1>7 DEF Definitions
<1>9. DOMAIN targets = DOMAIN s /\ \A i \in DOMAIN s : targets[i].device = s[i]
  OBVIOUS
<1>10. Definition(s, b).targets = targets
  BY <1>7
<1>11. Distinct(Definition(s, b))
  <2> HIDE DEF targets
  <2> QED
    BY <1>1, <1>9, <1>10 DEF Distinct
<1> QED
  BY <1>8, <1>11

\* A receipt that was not made, a task that is none.
LEMMA NoDefinitionType == NoDefinition \in Definitions /\ Distinct(NoDefinition)
<1>1. <<>> \in Seq([device : Devices, ident : Idents])
  OBVIOUS
<1>2. NoDefinition \in Definitions
  BY <1>1 DEF NoDefinition, Definitions
<1>3. Distinct(NoDefinition)
  BY DEF NoDefinition, Distinct
<1> QED
  BY <1>2, <1>3

-----------------------------------------------------------------------------
(* The first state *)

LEMMA EmptyTyped ==
    /\ NoTask \in TaskRows
    /\ NoReceipt \in Receipts
    /\ NoRequest \in Requests
<1>1. NoDefinition \in Definitions
  BY NoDefinitionType
<1>2. NoTask \in TaskRows
  <2> HIDE DEF NoDefinition
  <2> QED
    BY <1>1 DEF NoTask, TaskRows, Times, NoDue
<1>3. NoReceipt \in Receipts
  BY <1>1 DEF NoReceipt, Receipts
<1>4. NoRequest \in Requests
  BY DEF NoRequest, Requests, Roles
<1> QED
  BY <1>2, <1>3, <1>4

\* A task of the beginning.
LEMMA StoredRowOK ==
    ASSUME NEW u \in Users, NEW rule \in Rules, NEW s \in Selections, NEW b \in {NoBook, book},
           ident \in [Devices -> Idents], book \in Books \union {NoBook}
    PROVE  /\ StoredRow(u, rule, s, b) \in TaskRows
           /\ Distinct(StoredRow(u, rule, s, b).saved)
           /\ StoredRow(u, rule, s, b).owner = u
           /\ StoredRow(u, rule, s, b).rule = rule
<1>1. NoIdent \notin {ident[s[i]] : i \in DOMAIN s}
  <2>1. \A i \in DOMAIN s : ident[s[i]] \in Idents
    BY ChoicesAssumption
  <2> QED
    BY <2>1, NamesAssumption
<1>2. Definition(s, b) \in Definitions /\ Distinct(Definition(s, b))
  <2>1. ident \in [Devices -> Idents \union {NoIdent}]
    OBVIOUS
  <2> QED
    BY <1>1, <2>1, DefinitionType
<1>3. NextTime(rule, 0) \in Times
  BY ZeroIsTime, NextTimeLater
<1> DEFINE saved == Definition(s, b)
           due == NextTime(rule, 0)
           row == [NoTask EXCEPT !.revision = 1, !.owner = u, !.enabled = TRUE,
                                 !.rule = rule, !.saved = saved, !.due = due]
<1> HIDE DEF saved, due
<1>4. saved \in Definitions /\ due \in Times
  BY <1>2, <1>3 DEF saved, due
<1>5. row \in TaskRows /\ row.saved = saved /\ row.owner = u /\ row.rule = rule
  BY <1>4, EmptyTyped DEF TaskRows, NoTask
<1>6. StoredRow(u, rule, s, b) = row
  BY DEF StoredRow, saved, due
<1> QED
  BY <1>2, <1>5, <1>6 DEF saved

\* The invariant holds at the beginning, with tasks in the database or without.
LEMMA InitIInv == Init => IInv
<1> SUFFICES ASSUME Init
             PROVE  IInv
  OBVIOUS
<1>1. ident \in [Devices -> Idents] /\ book \in Books \union {NoBook}
  BY DEF Init
<1>2. ASSUME NEW t \in Tasks
      PROVE  /\ task[t] \in TaskRows
             /\ Distinct(task[t].saved)
             /\ task[t].revision > 0 => task[t].owner \in Users /\ task[t].rule \in Rules
             /\ task[t].revision > 0 /\ task[t].enabled => task[t].due # NoDue
  <2>1. CASE task[t] = NoTask
    <3>1. task[t].revision = 0 /\ task[t].saved = NoDefinition
      BY <2>1 DEF NoTask
    <3> QED
      BY <2>1, <3>1, EmptyTyped, NoDefinitionType
  <2>2. CASE task[t] # NoTask
    <3>1. PICK u \in Users, rule \in Rules, s \in Selections, b \in {NoBook, book} :
            task[t] = StoredRow(u, rule, s, b)
      BY <2>2 DEF Init
    <3>2. task[t].due # NoDue
      BY <2>2 DEF Init
    <3> QED
      BY <1>1, <3>1, <3>2, StoredRowOK
  <2> QED
    BY <2>1, <2>2
<1>3. TasksOK(task)
  <2>1. task \in [Tasks -> TaskRows]
    <3>1. task = [t \in Tasks |-> task[t]]
      BY DEF Init
    <3> QED
      BY <1>2, <3>1
  <2> QED
    BY <1>2, <2>1 DEF TasksOK
<1>4. TypeOK
  <2>1. clock \in 0..MaxTime
    BY NumbersAssumption DEF Init
  <2>2. /\ run \in Seq(Rows)
        /\ ledger \subseteq Occurrences
        /\ barred \subseteq Nat
        /\ batch \subseteq Tasks
        /\ broken \subseteq Tasks
        /\ others \in Nat
        /\ moment \in 0..MaxTime
        /\ pc \in {"idle", "asked", "work", "quarantine"}
    BY ZeroIsTime DEF Init
  <2>3. role \in [Users -> Roles] /\ session \in [Users -> Nat]
    BY DEF Init, Operators, Roles
  <2>4. ident \in [Devices -> Idents \union {NoIdent}]
    BY <1>1
  <2>5. receipt \in [Reviews -> Receipts] /\ request \in [Users -> Requests]
    BY EmptyTyped DEF Init
  <2>6. fails \in [Tasks -> 0..(MaxTickFailures - 1)]
    <3>1. 0 \in 0..(MaxTickFailures - 1)
      BY NumbersAssumption
    <3> QED
      BY <3>1 DEF Init
  <2>7. used \in [Counted -> Nat]
    BY DEF Init
  <2> QED
    BY <1>1, <1>3, <2>1, <2>2, <2>3, <2>4, <2>5, <2>6, <2>7 DEF TypeOK, TasksOK
<1>5. InputsOK
  <2>1. \A k \in Reviews : receipt[k] = NoReceipt
    BY DEF Init
  <2>2. \A u \in Users : request[u] = NoRequest /\ session[u] = 0
    BY DEF Init
  <2>3. NoReceipt.task = 0 /\ NoReceipt.saved = NoDefinition /\ NoReceipt.actor = NoUser
    BY DEF NoReceipt
  <2>4. NoRequest.op = "none" /\ NoRequest.session = 0
    BY DEF NoRequest
  <2>5. ASSUME NEW k \in Reviews
        PROVE  /\ Distinct(receipt[k].saved) /\ (receipt[k].task # 0 => receipt[k].revision > 0)
               /\ receipt[k].actor \notin Users
    BY <2>1, <2>3, NamesAssumption, NoDefinitionType
  <2>6. ASSUME NEW u \in Users
        PROVE  request[u].op = "none" /\ request[u].session <= session[u]
    BY <2>2, <2>4
  <2> QED
    BY <2>5, <2>6 DEF InputsOK
<1>6. run = <<>> /\ Len(run) = 0 /\ DOMAIN run = {} /\ ledger = {} /\ others = 0
      /\ pc = "idle" /\ barred = {} /\ moment = 0 /\ clock = 0
  BY DEF Init
<1>7. RowsOK /\ Booked(run, Len(run), ledger) /\ Complete(run, Len(run), ledger)
      /\ Single(run, Len(run)) /\ Apart(run, Len(run))
  BY <1>6 DEF RowsOK, Booked, Complete, Single, Apart, OpenIn, RunIds
<1>8. Fits(run, Len(run), others)
  <2>1. OpenIn(run, Len(run)) = {}
    BY <1>6 DEF OpenIn
  <2> QED
    BY <1>6, <2>1, FS_EmptySet, NumbersAssumption DEF Fits
<1>9. SpacedOK /\ NoBurst
  BY <1>6 DEF SpacedOK, NoBurst, Spaced
<1>10. BatchOK /\ UndoOK /\ BarredOK
  BY <1>6 DEF BatchOK, UndoOK, BarredOK
<1> QED
  BY <1>3, <1>4, <1>5, <1>7, <1>8, <1>9, <1>10 DEF IInv

-----------------------------------------------------------------------------
(* Steps that change neither tasks, receipts nor rows *)

LEMMA MayCounts ==
    ASSUME used \in [Counted -> Nat], NEW c \in Counted, May(c)
    PROVE  /\ used' \in [Counted -> Nat]
           /\ used'["jumps"] = 0 => used["jumps"] = 0 /\ c # "jumps"
<1>1. "jumps" \in Counted
  BY DEF Counted
<1> QED
  BY <1>1 DEF May

\* Times are numbers.
LEMMA ClockTyped == TypeOK => clock \in Int /\ clock \in Nat
BY NumbersAssumption DEF TypeOK

\* Such a step keeps the invariant unless it begins tick's transaction or sets the
\* clock back unnoticed.
LEMMA QuietStep ==
    ASSUME IInv, TypeOK', InputsOK', Fits(run, Len(run), others)',
           UNCHANGED <<task, ledger, run, session, barred>>,
           pc' = "work" => pc = "work" /\ UNCHANGED <<batch, moment, undo>>,
           used'["jumps"] = 0 =>
                used["jumps"] = 0 /\ clock <= clock' /\ moment' <= clock'
    PROVE  IInv'
<1>1. TasksOK(task)'
  BY DEF IInv, TasksOK
<1>2. RowsOK' /\ Booked(run, Len(run), ledger)' /\ Complete(run, Len(run), ledger)'
      /\ Single(run, Len(run))' /\ Apart(run, Len(run))'
  <2>1. RowsOK'
    BY DEF IInv, RowsOK, RunIds
  <2>2. Booked(run, Len(run), ledger)' /\ Complete(run, Len(run), ledger)'
        /\ Single(run, Len(run))' /\ Apart(run, Len(run))'
    BY DEF IInv
  <2> QED
    BY <2>1, <2>2
<1>3. clock \in Int /\ clock' \in Int
  BY ClockTyped, NumbersAssumption DEF IInv, TypeOK
<1>4. ASSUME NEW tk, NEW receipts, receipts \subseteq Occurrences, clock <= clock',
             Spaced(tk, receipts, clock)
      PROVE  Spaced(tk, receipts, clock')
  <2>1. \A o \in receipts : o.at \in Nat
    BY <1>4 DEF Occurrences
  <2> QED
    BY <1>3, <1>4, <2>1 DEF Spaced
<1>5. SpacedOK'
  <2> SUFFICES ASSUME used'["jumps"] = 0
               PROVE  /\ moment' <= clock'
                      /\ Spaced(task', ledger', clock')
                      /\ pc' = "work" => Spaced(undo'.task, undo'.ledger, clock')
    BY DEF SpacedOK
  <2>1. clock <= clock' /\ moment' <= clock' /\ used["jumps"] = 0
    OBVIOUS
  <2>2. Spaced(task, ledger, clock)
    BY <2>1 DEF IInv, SpacedOK
  <2>3. Spaced(task', ledger', clock')
    <3>1. ledger \subseteq Occurrences
      BY DEF IInv, TypeOK
    <3> QED
      BY <1>4, <2>1, <2>2, <3>1
  <2>4. ASSUME pc' = "work"
        PROVE  Spaced(undo'.task, undo'.ledger, clock')
    <3>1. Spaced(undo.task, undo.ledger, clock)
      BY <2>1, <2>4 DEF IInv, SpacedOK
    <3>2. undo.ledger \subseteq Occurrences
      BY <2>4 DEF IInv, UndoOK, TypeOK
    <3>3. Spaced(undo.task, undo.ledger, clock')
      BY <1>4, <2>1, <3>1, <3>2
    <3> QED
      BY <2>4, <3>3
  <2> QED
    BY <2>1, <2>3, <2>4
<1>6. NoBurst'
  BY DEF IInv, NoBurst
<1>7. BatchOK'
  BY DEF IInv, BatchOK
<1>8. UndoOK'
  <2> SUFFICES ASSUME pc' = "work"
               PROVE  UndoOK'
    BY DEF UndoOK
  <2>1. UndoOK /\ pc = "work" /\ UNCHANGED undo
    BY DEF IInv
  <2> QED
    BY <2>1 DEF UndoOK
<1>9. BarredOK'
  <2>1. barred \subseteq 1..Kept' 
    <3>1. CASE pc' = "work"
      <4>1. Kept' = Kept
        BY <3>1 DEF Kept
      <4> QED
        BY <4>1 DEF IInv, BarredOK
    <3>2. CASE pc' # "work"
      <4>1. Kept' = Len(run)
        BY <3>2 DEF Kept
      <4>2. run \in Seq(Rows)
        BY DEF IInv, TypeOK
      <4>3. pc = "work" => undo.rows \in 0..Len(run)
        BY DEF IInv, UndoOK
      <4>4. 1..Kept \subseteq 1..Len(run)
        BY <4>2, <4>3 DEF Kept
      <4> QED
        BY <4>1, <4>4 DEF IInv, BarredOK
    <3> QED
      BY <3>1, <3>2
  <2> QED
    BY <2>1 DEF IInv, BarredOK
<1> QED
  BY <1>1, <1>2, <1>5, <1>6, <1>7, <1>8, <1>9 DEF IInv

\* Previewing seals what it validated.
LEMMA PreviewStep ==
    ASSUME IInv, NEW u \in Users, NEW k \in Reviews, Preview(u, k)
    PROVE  IInv'
<1>1. PICK t \in {0} \union Existing, s \in Selections, b \in {NoBook, book},
           rule \in Rules, enabled \in BOOLEAN :
        /\ t # 0 => Manages(u, t, role[u])
        /\ NoIdent \notin {ident[s[i]] : i \in DOMAIN s}
        /\ NextTime(rule, clock) # NoDue
        /\ receipt' = [receipt EXCEPT ![k] =
                        [actor |-> u, session |-> session[u],
                         expires |-> clock + ReviewLife, task |-> t,
                         revision |-> IF t = 0 THEN 0 ELSE task[t].revision,
                         rule |-> rule, enabled |-> enabled,
                         saved |-> Definition(s, b)]]
  BY Zenon DEF Preview
<1>2. UNCHANGED <<clock, task, ledger, run, request, pc, moment, batch, undo, fails,
                  role, session, ident, book, broken, others, barred, used>>
  BY DEF Preview, world, accounts, ticker
<1> DEFINE saved == Definition(s, b)
           revision == IF t = 0 THEN 0 ELSE task[t].revision
           expires == clock + ReviewLife
           rc == [actor |-> u, session |-> session[u], expires |-> expires,
                  task |-> t, revision |-> revision, rule |-> rule, enabled |-> enabled,
                  saved |-> saved]
<1>3. saved \in Definitions /\ Distinct(saved)
  BY <1>1, DefinitionType DEF IInv, TypeOK
<1>4. revision \in Nat /\ (t # 0 => revision > 0) /\ t \in Tasks \union {0}
  BY TaskRowFields DEF IInv, TypeOK, Existing
<1>5. expires \in Nat
  BY ClockTyped, NumbersAssumption DEF IInv
<1>6. receipt' = [receipt EXCEPT ![k] = rc]
  BY <1>1
<1> HIDE DEF saved, revision, expires
<1>7. session[u] \in Nat
  BY DEF IInv, TypeOK
<1>8. rc \in Receipts
  BY <1>3, <1>4, <1>5, <1>7 DEF Receipts
<1>9. rc.saved = saved /\ rc.task = t /\ rc.revision = revision /\ rc.rule = rule
  OBVIOUS
<1> HIDE DEF rc
<1>10. receipt \in [Reviews -> Receipts]
  BY DEF IInv, TypeOK
<1>11. TypeOK'
  BY <1>2, <1>6, <1>8, <1>10 DEF IInv, TypeOK
<1>12. InputsOK'
  BY <1>2, <1>3, <1>4, <1>6, <1>9, <1>10 DEF IInv, InputsOK
<1>13. Fits(run, Len(run), others)'
  BY <1>2 DEF IInv
<1>14. SpacedOK
  BY DEF IInv
<1>15. used'["jumps"] = 0 => used["jumps"] = 0 /\ clock <= clock' /\ moment' <= clock'
  BY <1>2, <1>14, ClockTyped DEF IInv, SpacedOK
<1> QED
  BY <1>2, <1>11, <1>12, <1>13, <1>15, QuietStep

\* A request that waits holds the account as it authenticated.
LEMMA WaitStep ==
    ASSUME IInv, NEW u \in Users, NEW q \in Requests, Wait(u, q),
           q.op = "save" => q.key \in Reviews /\ receipt[q.key].rule \in Rules,
           q.op = "run" => q.key \in Keys,
           q.op \in {"state", "run"} => q.task \in Tasks /\ q.revision > 0
    PROVE  IInv'
<1> DEFINE w == [q EXCEPT !.role = role[u], !.session = session[u]]
<1>1. UNCHANGED <<clock, task, ledger, run, receipt, pc, moment, batch, undo, fails,
                  role, session, ident, book, broken, others, barred>>
  BY DEF Wait, world, accounts, ticker
<1>2. request' = [request EXCEPT ![u] = w]
  BY DEF Wait
<1>3. role[u] \in Roles /\ session[u] \in Nat
  BY DEF IInv, TypeOK
<1>4. /\ w \in Requests
      /\ w.op = q.op /\ w.key = q.key /\ w.task = q.task /\ w.revision = q.revision
      /\ w.session = session[u]
  BY <1>3 DEF Requests
<1> HIDE DEF w
<1>5. /\ used' \in [Counted -> Nat]
      /\ used'["jumps"] = 0 => used["jumps"] = 0
  BY MayCounts DEF Wait, Counted, IInv, TypeOK
<1>6. request \in [Users -> Requests]
  BY DEF IInv, TypeOK
<1>7. TypeOK'
  BY <1>1, <1>2, <1>4, <1>5, <1>6 DEF IInv, TypeOK
<1>8. InputsOK'
  <2>1. \A v \in Users : request'[v] = IF v = u THEN w ELSE request[v]
    BY <1>2, <1>6
  <2> QED
    BY <1>1, <1>3, <1>4, <2>1 DEF IInv, InputsOK
<1>9. Fits(run, Len(run), others)'
  BY <1>1 DEF IInv
<1>10. used'["jumps"] = 0 => used["jumps"] = 0 /\ clock <= clock' /\ moment' <= clock'
  BY <1>1, <1>5, ClockTyped DEF IInv, SpacedOK
<1> QED
  BY <1>1, <1>7, <1>8, <1>9, <1>10, QuietStep

\* A request waits for LOCK with a revision and a session that are current.
LEMMA SendStep ==
    ASSUME IInv, NEW u \in Users,
           \/ \E k \in Reviews : SendSave(u, k)
           \/ \E t \in Existing : SendState(u, t)
           \/ \E t \in Existing, k \in Keys : SendRun(u, t, k)
    PROVE  IInv'
<1>1. ASSUME NEW k \in Reviews, SendSave(u, k)
      PROVE  IInv'
  <2> DEFINE q == [NoRequest EXCEPT !.op = "save", !.key = k]
  <2>1. q \in Requests /\ q.op = "save" /\ q.key = k
    BY EmptyTyped DEF NoRequest, Requests
  <2>2. Wait(u, q)
    BY <1>1 DEF SendSave
  <2>3. receipt[k].rule \in Rules
    BY <1>1 DEF SendSave, IInv, InputsOK
  <2> HIDE DEF q
  <2> QED
    BY <2>1, <2>2, <2>3, WaitStep
<1>2. ASSUME NEW t \in Existing, SendState(u, t)
      PROVE  IInv'
  <2>1. PICK enabled \in BOOLEAN :
            Wait(u, [NoRequest EXCEPT !.op = "state", !.task = t, !.enabled = enabled,
                                      !.revision = task[t].revision])
    BY <1>2 DEF SendState
  <2>2. t \in Tasks /\ task[t].revision \in Nat /\ task[t].revision > 0
    BY TaskRowFields DEF IInv, TypeOK, Existing
  <2> DEFINE n == task[t].revision
             q == [NoRequest EXCEPT !.op = "state", !.task = t, !.enabled = enabled,
                                    !.revision = n]
  <2> HIDE DEF n
  <2>3. q \in Requests /\ q.op = "state" /\ q.task = t /\ q.revision = n
    BY <2>2, EmptyTyped DEF n, NoRequest, Requests
  <2>4. Wait(u, q)
    BY <2>1 DEF n
  <2>5. n > 0
    BY <2>2 DEF n
  <2> HIDE DEF q
  <2> QED
    BY <2>2, <2>3, <2>4, <2>5, WaitStep
<1>3. ASSUME NEW t \in Existing, NEW k \in Keys, SendRun(u, t, k)
      PROVE  IInv'
  <2>2. t \in Tasks /\ task[t].revision \in Nat /\ task[t].revision > 0
    BY TaskRowFields DEF IInv, TypeOK, Existing
  <2> DEFINE n == task[t].revision
             q == [NoRequest EXCEPT !.op = "run", !.task = t, !.key = k, !.revision = n]
  <2> HIDE DEF n
  <2>3. q \in Requests /\ q.op = "run" /\ q.task = t /\ q.revision = n /\ q.key = k
    BY <2>2, EmptyTyped DEF n, NoRequest, Requests
  <2>4. Wait(u, q)
    BY <1>3 DEF n, SendRun
  <2>5. n > 0
    BY <2>2 DEF n
  <2> HIDE DEF q
  <2> QED
    BY <2>2, <2>3, <2>4, <2>5, WaitStep
<1> QED
  BY <1>1, <1>2, <1>3

\* A request that has been answered is gone.
LEMMA DoneInputs ==
    ASSUME IInv, NEW u \in Users, Done(u), UNCHANGED <<receipt, session>>
    PROVE  request' \in [Users -> Requests] /\ InputsOK'
<1>1. request \in [Users -> Requests] /\ session \in [Users -> Nat]
  BY DEF IInv, TypeOK
<1>2. request' = [request EXCEPT ![u] = NoRequest]
  BY DEF Done
<1>3. NoRequest.op = "none" /\ NoRequest.session = 0
  BY DEF NoRequest
<1>4. \A v \in Users : request'[v] = IF v = u THEN NoRequest ELSE request[v]
  BY <1>1, <1>2
<1> QED
  BY <1>1, <1>2, <1>3, <1>4, EmptyTyped DEF IInv, InputsOK

\* A refusal or a repetition changes nothing else.
LEMMA AnswerStep ==
    ASSUME IInv, NEW u \in Users, Answer(u)
    PROVE  IInv'
<1>1. UNCHANGED <<clock, task, ledger, run, receipt, pc, moment, batch, undo, fails,
                  role, session, ident, book, broken, others, barred, used>>
  BY DEF Answer, world, accounts, ticker
<1>2. request' \in [Users -> Requests] /\ InputsOK'
  BY <1>1, DoneInputs DEF Answer
<1>3. TypeOK'
  BY <1>1, <1>2 DEF IInv, TypeOK
<1>4. Fits(run, Len(run), others)'
  BY <1>1 DEF IInv
<1>5. used'["jumps"] = 0 => used["jumps"] = 0 /\ clock <= clock' /\ moment' <= clock'
  BY <1>1, ClockTyped DEF IInv, SpacedOK
<1> QED
  BY <1>1, <1>2, <1>3, <1>4, <1>5, QuietStep

\* The open rows the capacity is about, counted.
LEMMA OpenRowsCount ==
    ASSUME TypeOK
    PROVE  /\ RunIds = 1..Len(run) /\ Len(run) \in Nat
           /\ {r \in RunIds : Open(r)} = OpenIn(run, Len(run))
           /\ Cardinality(OpenIn(run, Len(run))) \in Nat
           /\ OpenRows = Cardinality(OpenIn(run, Len(run))) + others
<1>1. run \in Seq(Rows)
  BY DEF TypeOK
<1>2. RunIds = 1..Len(run) /\ Len(run) \in Nat
  BY <1>1 DEF RunIds
<1>3. {r \in RunIds : Open(r)} = OpenIn(run, Len(run))
  BY <1>2 DEF Open, OpenIn
<1>4. IsFiniteSet(OpenIn(run, Len(run)))
  <2>1. IsFiniteSet(1..Len(run))
    BY <1>2, FS_Interval
  <2> QED
    BY <2>1, FS_Subset DEF OpenIn
<1>5. Cardinality(OpenIn(run, Len(run))) \in Nat
  BY <1>4, FS_CardinalityType
<1> QED
  BY <1>2, <1>3, <1>5 DEF OpenRows

\* Devices, playbook and validation change: nothing the rows recorded.
LEMMA WorldStep ==
    ASSUME IInv,
           \/ \E d \in Devices : ChangeDevice(d)
           \/ ReplaceBook
           \/ \E t \in Tasks : BreakOrMend(t)
           \/ OtherQueued
           \/ OtherEnds
           \/ Advance
           \/ JumpBack
    PROVE  IInv'
<1>0. /\ used \in [Counted -> Nat] /\ others \in Nat /\ clock \in 0..MaxTime /\ MaxTime \in Nat
      /\ moment \in Nat
      /\ ident \in [Devices -> Idents \union {NoIdent}] /\ broken \subseteq Tasks
      /\ used["jumps"] = 0 => moment <= clock
  BY NumbersAssumption DEF IInv, TypeOK, SpacedOK
<1>1. ASSUME UNCHANGED <<clock, others, moment>>
      PROVE  /\ Fits(run, Len(run), others) /\ UNCHANGED run => Fits(run, Len(run), others)'
             /\ (used'["jumps"] = 0 => used["jumps"] = 0) =>
                    (used'["jumps"] = 0 =>
                        used["jumps"] = 0 /\ clock <= clock' /\ moment' <= clock')
  BY <1>0, <1>1
<1>2. Fits(run, Len(run), others)
  BY DEF IInv
<1>3. ASSUME NEW d \in Devices, ChangeDevice(d)
      PROVE  IInv'
  <2>1. UNCHANGED <<clock, task, ledger, run, receipt, request, pc, moment, batch, undo,
                    fails, role, session, book, broken, others, barred>>
    BY <1>3 DEF ChangeDevice, accounts, ticker
  <2>2. used' \in [Counted -> Nat] /\ (used'["jumps"] = 0 => used["jumps"] = 0)
    BY <1>0, <1>3, MayCounts DEF ChangeDevice, Counted
  <2>3. ident' \in [Devices -> Idents \union {NoIdent}]
    BY <1>0, <1>3 DEF ChangeDevice
  <2>4. TypeOK' /\ InputsOK'
    BY <2>1, <2>2, <2>3 DEF IInv, TypeOK, InputsOK
  <2> QED
    BY <1>1, <1>2, <2>1, <2>2, <2>4, QuietStep
<1>4. ASSUME ReplaceBook
      PROVE  IInv'
  <2>1. UNCHANGED <<clock, task, ledger, run, receipt, request, pc, moment, batch, undo,
                    fails, role, session, ident, broken, others, barred>>
    BY <1>4 DEF ReplaceBook, accounts, ticker
  <2>2. used' \in [Counted -> Nat] /\ (used'["jumps"] = 0 => used["jumps"] = 0)
    BY <1>0, <1>4, MayCounts DEF ReplaceBook, Counted
  <2>3. book' \in Books \union {NoBook}
    BY <1>4 DEF ReplaceBook
  <2>4. TypeOK' /\ InputsOK'
    BY <2>1, <2>2, <2>3 DEF IInv, TypeOK, InputsOK
  <2> QED
    BY <1>1, <1>2, <2>1, <2>2, <2>4, QuietStep
<1>5. ASSUME NEW t \in Tasks, BreakOrMend(t)
      PROVE  IInv'
  <2>1. UNCHANGED <<clock, task, ledger, run, receipt, request, pc, moment, batch, undo,
                    fails, role, session, ident, book, others, barred>>
    BY <1>5 DEF BreakOrMend, accounts, ticker
  <2>2. used' \in [Counted -> Nat] /\ (used'["jumps"] = 0 => used["jumps"] = 0)
    BY <1>0, <1>5, MayCounts DEF BreakOrMend, Counted
  <2>3. broken' \subseteq Tasks
    BY <1>0, <1>5 DEF BreakOrMend
  <2>4. TypeOK' /\ InputsOK'
    BY <2>1, <2>2, <2>3 DEF IInv, TypeOK, InputsOK
  <2> QED
    BY <1>1, <1>2, <2>1, <2>2, <2>4, QuietStep
<1>6. ASSUME OtherQueued
      PROVE  IInv'
  <2>1. UNCHANGED <<clock, task, ledger, run, receipt, request, pc, moment, batch, undo,
                    fails, role, session, ident, book, broken, barred>>
    BY <1>6 DEF OtherQueued, accounts, ticker
  <2>2. used' \in [Counted -> Nat] /\ (used'["jumps"] = 0 => used["jumps"] = 0)
    BY <1>0, <1>6, MayCounts DEF OtherQueued, Counted
  <2>3. others' = others + 1 /\ OpenRows < Capacity
    BY <1>6 DEF OtherQueued
  <2>4. TypeOK' /\ InputsOK'
    BY <1>0, <2>1, <2>2, <2>3 DEF IInv, TypeOK, InputsOK
  <2>5. Fits(run, Len(run), others)'
    <3>1. OpenRows = Cardinality(OpenIn(run, Len(run))) + others
          /\ Cardinality(OpenIn(run, Len(run))) \in Nat
      BY OpenRowsCount DEF IInv
    <3>2. Cardinality(OpenIn(run, Len(run))) + (others + 1) <= Capacity
      BY <1>0, <2>3, <3>1, NumbersAssumption
    <3> QED
      BY <2>1, <2>3, <3>2 DEF Fits
  <2> QED
    BY <1>0, <2>1, <2>2, <2>4, <2>5, QuietStep
<1>7. ASSUME OtherEnds
      PROVE  IInv'
  <2>1. UNCHANGED <<clock, task, ledger, run, receipt, request, pc, moment, batch, undo,
                    fails, role, session, ident, book, broken, barred, used>>
    BY <1>7 DEF OtherEnds, accounts, ticker
  <2>2. others' = others - 1 /\ others > 0
    BY <1>7 DEF OtherEnds
  <2>3. TypeOK' /\ InputsOK'
    BY <1>0, <2>1, <2>2 DEF IInv, TypeOK, InputsOK
  <2>4. Fits(run, Len(run), others)'
    <3>1. Cardinality(OpenIn(run, Len(run))) \in Nat
      BY OpenRowsCount DEF IInv
    <3>2. Cardinality(OpenIn(run, Len(run))) + (others - 1) <= Capacity
      BY <1>0, <1>2, <2>2, <3>1, NumbersAssumption DEF Fits
    <3> QED
      BY <2>1, <2>2, <3>2 DEF Fits
  <2> QED
    BY <1>0, <2>1, <2>3, <2>4, QuietStep
<1>8. ASSUME Advance
      PROVE  IInv'
  <2>1. UNCHANGED <<task, ledger, run, receipt, request, pc, moment, batch, undo, fails,
                    role, session, ident, book, broken, others, barred, used>>
    BY <1>8 DEF Advance, world, accounts, ticker
  <2>2. clock' = clock + 1 /\ clock < MaxTime
    BY <1>8 DEF Advance
  <2>3. clock' \in 0..MaxTime /\ clock <= clock'
    BY <1>0, <2>2
  <2>4. TypeOK' /\ InputsOK'
    BY <2>1, <2>3 DEF IInv, TypeOK, InputsOK
  <2>5. used'["jumps"] = 0 => used["jumps"] = 0 /\ clock <= clock' /\ moment' <= clock'
    BY <1>0, <2>1, <2>2
  <2>6. Fits(run, Len(run), others)'
    BY <1>2, <2>1
  <2> QED
    BY <2>1, <2>4, <2>5, <2>6, QuietStep
<1>9. ASSUME JumpBack
      PROVE  IInv'
  <2>1. UNCHANGED <<task, ledger, run, receipt, request, pc, moment, batch, undo, fails,
                    role, session, ident, book, broken, others, barred>>
    BY <1>9 DEF JumpBack, world, accounts, ticker
  <2>2. used' \in [Counted -> Nat] /\ used'["jumps"] # 0
    BY <1>0, <1>9, MayCounts DEF JumpBack, Counted
  <2>3. clock' \in 0..MaxTime
    BY <1>0, <1>9 DEF JumpBack
  <2>4. TypeOK' /\ InputsOK'
    BY <2>1, <2>2, <2>3 DEF IInv, TypeOK, InputsOK
  <2>5. Fits(run, Len(run), others)'
    BY <1>2, <2>1
  <2> QED
    BY <2>1, <2>2, <2>4, <2>5, QuietStep
<1> QED
  BY <1>3, <1>4, <1>5, <1>6, <1>7, <1>8, <1>9

\* The steps of tick that leave the tables alone.
LEMMA TickQuietStep ==
    ASSUME IInv, ReadClock \/ CommitTick \/ TickAborts
    PROVE  IInv'
<1>1. UNCHANGED <<clock, task, ledger, run, receipt, request, role, session, ident, book,
                  broken, others, barred>>
  BY DEF ReadClock, CommitTick, TickAborts, world, accounts
<1>2. /\ pc' \in {"idle", "asked"}
      /\ moment' \in {0, clock}
      /\ batch' \subseteq Tasks
      /\ fails' \in [Tasks -> 0..(MaxTickFailures - 1)]
  <2>1. 0 \in 0..(MaxTickFailures - 1)
    BY NumbersAssumption
  <2> QED
    BY <2>1 DEF ReadClock, CommitTick, TickAborts, Idle, IInv, TypeOK
<1>3. used' \in [Counted -> Nat] /\ (used'["jumps"] = 0 => used["jumps"] = 0)
  <2>1. CASE ReadClock \/ CommitTick
    BY <2>1 DEF ReadClock, CommitTick, IInv, TypeOK
  <2>2. CASE TickAborts
    BY <2>2, MayCounts DEF TickAborts, Counted, IInv, TypeOK
  <2> QED
    BY <2>1, <2>2
<1>4. clock \in Nat
  BY ClockTyped DEF IInv
<1>5. TypeOK' /\ InputsOK'
  BY <1>1, <1>2, <1>3, ZeroIsTime DEF IInv, TypeOK, InputsOK
<1>6. Fits(run, Len(run), others)'
  BY <1>1 DEF IInv
<1>7. used'["jumps"] = 0 => used["jumps"] = 0 /\ clock <= clock' /\ moment' <= clock'
  BY <1>1, <1>2, <1>3, <1>4
<1>8. pc' # "work"
  BY <1>2
<1> QED
  BY <1>1, <1>5, <1>6, <1>7, <1>8, QuietStep

\* BEGIN IMMEDIATE: what a rollback would leave is what there is.
LEMMA BeginTickStep ==
    ASSUME IInv, BeginTick
    PROVE  IInv'
<1>1. UNCHANGED <<clock, task, ledger, run, receipt, request, fails, role, session, ident,
                  book, broken, others, barred, used>>
  BY DEF BeginTick, world, accounts
<1>2. InputsOK' /\ Fits(run, Len(run), others)'
  BY <1>1 DEF IInv, InputsOK
<1>3. clock \in Nat
  BY ClockTyped DEF IInv
<1>4. CASE Due = {}
  <2>1. pc' = "idle" /\ moment' = 0 /\ UNCHANGED <<batch, undo>>
    BY <1>4 DEF BeginTick, Idle
  <2>2. TypeOK'
    BY <1>1, <2>1, ZeroIsTime DEF IInv, TypeOK
  <2>3. used'["jumps"] = 0 => used["jumps"] = 0 /\ clock <= clock' /\ moment' <= clock'
    BY <1>1, <1>3, <2>1
  <2> QED
    BY <1>1, <1>2, <2>1, <2>2, <2>3, QuietStep
<1>5. CASE Due # {}
  <2>1. /\ pc' = "work" /\ batch' = FirstDue /\ moment' = moment
        /\ undo' = [task |-> task, ledger |-> ledger, rows |-> Len(run)]
    BY <1>5 DEF BeginTick
  <2>2. FirstDue \subseteq Due /\ Due \subseteq Tasks
    BY DEF FirstDue, Due, Existing
  <2>3. TypeOK'
    BY <1>1, <2>1, <2>2 DEF IInv, TypeOK
  <2>4. undo'.task = task /\ undo'.ledger = ledger /\ undo'.rows = Len(run)
    BY <2>1
  <2>5. run \in Seq(Rows) /\ Len(run) \in Nat
    BY DEF IInv, TypeOK
  <2>6. UndoOK'
    <3>1. TasksOK(task) /\ Booked(run, Len(run), ledger) /\ Complete(run, Len(run), ledger)
      BY DEF IInv
    <3>2. TasksOK(undo.task)'
      BY <2>4, <3>1 DEF TasksOK
    <3>3. Booked(run, undo.rows, undo.ledger)' /\ Complete(run, undo.rows, undo.ledger)'
      BY <1>1, <2>4, <3>1
    <3>4. undo'.rows \in 0..Len(run')
      BY <1>1, <2>4, <2>5
    <3>5. undo'.ledger \subseteq ledger'
          /\ \A t \in Tasks : undo'.task[t].revision = task'[t].revision
                              /\ undo'.task[t].owner = task'[t].owner
      BY <1>1, <2>4
    <3> QED
      BY <3>2, <3>3, <3>4, <3>5 DEF UndoOK
  <2>7. BatchOK'
    BY <1>1, <2>1, <2>2 DEF BatchOK, Due, Existing
  <2>8. SpacedOK'
    BY <1>1, <2>1, <2>4 DEF IInv, SpacedOK
  <2>9. BarredOK'
    <3>1. pc = "asked"
      BY DEF BeginTick
    <3>2. Kept' = Len(run) /\ Kept = Len(run)
      BY <2>1, <2>4, <3>1 DEF Kept
    <3> QED
      BY <1>1, <3>2 DEF IInv, BarredOK
  <2>10. TasksOK(task)' /\ RowsOK' /\ NoBurst'
    BY <1>1 DEF IInv, TasksOK, RowsOK, RunIds, NoBurst
  <2>11. Booked(run, Len(run), ledger)' /\ Complete(run, Len(run), ledger)'
         /\ Single(run, Len(run))' /\ Apart(run, Len(run))'
    BY <1>1 DEF IInv
  <2> QED
    BY <1>2, <2>3, <2>6, <2>7, <2>8, <2>9, <2>10, <2>11 DEF IInv
<1> QED
  BY <1>4, <1>5

-----------------------------------------------------------------------------
(* Executions *)

\* A change of a row's status and phase keeps the invariant unless it opens the row
\* again or lets a barred row pass the check that is to refuse it.
LEMMA ChangeStep ==
    ASSUME IInv, NEW r \in RunIds, NEW status \in {"PENDING", "RUNNING", "ENDED"},
           NEW phase \in {"none", "loaded", "checked", "cleared", "sent"},
           Change(r, status, phase), UNCHANGED Elsewhere,
           status # "ENDED" => Open(r),
           status = "PENDING" => phase = "none",
           phase \in {"loaded", "checked", "cleared"} => status = "RUNNING",
           r \in barred =>
            /\ phase \notin {"cleared", "sent"}
            /\ \/ run[r].revision < task[run[r].task].revision
               \/ /\ run[r].session < session[task[run[r].task].owner]
                  /\ phase # "checked"
    PROVE  IInv'
<1>1. UNCHANGED <<clock, task, ledger, receipt, request, pc, moment, batch, undo, fails,
                  role, session, ident, book, broken, others, barred, used>>
  BY DEF Elsewhere, world, accounts, ticker
<1>2. run \in Seq(Rows) /\ Len(run) \in Nat /\ RunIds = 1..Len(run)
  BY OpenRowsCount DEF IInv, TypeOK
<1> DEFINE w == [run[r] EXCEPT !.status = status, !.phase = phase]
<1>3. run' = [run EXCEPT ![r] = w]
  BY DEF Change
<1>4. run[r] \in Rows
  BY <1>2
<1>5. /\ w \in Rows /\ w.status = status /\ w.phase = phase /\ w.task = run[r].task
      /\ w.source = run[r].source /\ w.key = run[r].key /\ w.device = run[r].device
      /\ w.revision = run[r].revision /\ w.session = run[r].session
  BY <1>4 DEF Rows
<1> HIDE DEF w
<1>6. run' \in Seq(Rows) /\ Len(run') = Len(run)
      /\ \A q \in 1..Len(run) : run'[q] = IF q = r THEN w ELSE run[q]
  BY <1>2, <1>3, <1>5, ExceptSeq
<1>7. RunIds' = 1..Len(run)
  BY <1>2, <1>6 DEF RunIds
<1>8. \A q \in 1..Len(run) : Of(run'[q], run[q]) /\ run'[q].device = run[q].device
  BY <1>5, <1>6 DEF Of
<1>9. \A q \in 1..Len(run) : run'[q].status \in {"PENDING", "RUNNING"} =>
                                run[q].status \in {"PENDING", "RUNNING"}
  BY <1>5, <1>6 DEF Open
<1>10. TypeOK' /\ TasksOK(task)' /\ InputsOK'
  <2>1. TypeOK'
    BY <1>1, <1>6 DEF IInv, TypeOK
  <2>2. TasksOK(task)' /\ InputsOK'
    BY <1>1 DEF IInv, TasksOK, InputsOK
  <2> QED
    BY <2>1, <2>2
<1>11. RowsOK'
  <2> SUFFICES ASSUME NEW q \in 1..Len(run)
               PROVE  RowOK(run'[q], task[run'[q].task], session)
    BY <1>1, <1>7 DEF RowsOK
  <2>1. RowOK(run[q], task[run[q].task], session)
    BY <1>2 DEF IInv, RowsOK
  <2> QED
    BY <1>5, <1>6, <2>1 DEF RowOK
<1>12. Booked(run, Len(run), ledger)' /\ Complete(run, Len(run), ledger)'
       /\ Single(run, Len(run))'
  <2>1. Booked(run', Len(run), ledger) /\ Complete(run', Len(run), ledger)
        /\ Single(run', Len(run))
    BY <1>2, <1>8, RowsRelabelled DEF IInv
  <2> QED
    BY <1>1, <1>6, <2>1
<1>13. Apart(run, Len(run))' /\ Fits(run, Len(run), others)'
  <2>1. others \in Nat /\ Len(run) \in 0..Len(run)
    BY <1>2 DEF IInv, TypeOK
  <2>2. Apart(run', Len(run)) /\ Fits(run', Len(run), others)
    BY <1>2, <1>8, <1>9, <2>1, RowsNotOpened DEF IInv
  <2> QED
    BY <1>1, <1>6, <2>2
<1>14. SpacedOK' /\ NoBurst' /\ BatchOK'
  BY <1>1 DEF IInv, SpacedOK, NoBurst, BatchOK
<1>15. UndoOK'
  <2> SUFFICES ASSUME pc' = "work"
               PROVE  UndoOK'
    BY DEF UndoOK
  <2>1. pc = "work" /\ undo' = undo
    BY <1>1
  <2>2. undo.rows \in 0..Len(run) /\ undo.rows \in Nat
    BY <1>2, <2>1 DEF IInv, UndoOK
  <2>3. Booked(run', undo.rows, undo.ledger) /\ Complete(run', undo.rows, undo.ledger)
    <3>1. \A q \in 1..undo.rows : Of(run'[q], run[q]) /\ run'[q].device = run[q].device
      BY <1>2, <1>8, <2>2
    <3>2. Booked(run, undo.rows, undo.ledger) /\ Complete(run, undo.rows, undo.ledger)
      BY <2>1 DEF IInv, UndoOK
    <3> QED
      BY <2>2, <3>1, <3>2, RowsRelabelled
  <2>4. TasksOK(undo.task)'
    BY <2>1 DEF IInv, UndoOK, TasksOK
  <2> QED
    BY <1>1, <1>6, <2>1, <2>2, <2>3, <2>4 DEF IInv, UndoOK
<1>16. BarredOK'
  <2>1. Kept' = Kept
    BY <1>1, <1>6 DEF Kept
  <2>2. barred \subseteq 1..Len(run)
    BY <1>2 DEF IInv, BarredOK, Kept, UndoOK
  <2>3. ASSUME NEW q \in barred
        PROVE  Refusable(run'[q], task[run'[q].task], session)
    <3>1. Refusable(run[q], task[run[q].task], session)
      BY DEF IInv, BarredOK
    <3>2. q \in 1..Len(run)
      BY <2>2
    <3>3. CASE q = r
      BY <1>5, <1>6, <3>2, <3>3 DEF Refusable
    <3>4. CASE q # r
      BY <1>6, <3>1, <3>2, <3>4
    <3> QED
      BY <3>3, <3>4
  <2> QED
    BY <1>1, <2>1, <2>3 DEF IInv, BarredOK
<1> QED
  BY <1>10, <1>11, <1>12, <1>13, <1>14, <1>15, <1>16 DEF IInv

\* Executions move along their checks, which refuse a barred row.
LEMMA ExecutionStep ==
    ASSUME IInv, NEW r \in RunIds,
           \/ Claim(r) \/ Withdraw(r) \/ Authorize(r) \/ Preflight(r)
           \/ Contact(r) \/ Requeue(r) \/ Finish(r)
    PROVE  IInv'
<1>1. run \in Seq(Rows) /\ RunIds = 1..Len(run) /\ run[r] \in Rows
  BY OpenRowsCount DEF IInv, TypeOK
<1>2. RowOK(run[r], task[run[r].task], session)
  BY DEF IInv, RowsOK
<1>3. r \in barred => Refusable(run[r], task[run[r].task], session)
  BY DEF IInv, BarredOK
<1>4. run[r].revision \in Nat /\ run[r].session \in Nat
      /\ run[r].status \in {"PENDING", "RUNNING", "ENDED"}
  BY <1>1 DEF Rows
<1>5. run[r].phase \in {"loaded", "checked", "cleared"} => Open(r)
  BY <1>2 DEF RowOK, Open
<1>6. CASE Claim(r)
  <2>1. Change(r, "RUNNING", "loaded") /\ UNCHANGED Elsewhere /\ run[r].status = "PENDING"
    BY <1>6 DEF Claim
  <2>2. Open(r)
    BY <2>1 DEF Open
  <2>3. r \in barred => run[r].revision < task[run[r].task].revision
                        \/ run[r].session < session[task[run[r].task].owner]
    BY <1>3 DEF Refusable
  <2> QED
    BY <2>1, <2>2, <2>3, ChangeStep
<1>7. CASE Withdraw(r)
  <2>1. Change(r, "ENDED", "none") /\ UNCHANGED Elsewhere
    BY <1>7 DEF Withdraw
  <2>2. r \in barred => run[r].revision < task[run[r].task].revision
                        \/ run[r].session < session[task[run[r].task].owner]
    BY <1>3 DEF Refusable
  <2> QED
    BY <2>1, <2>2, ChangeStep
<1>8. CASE Authorize(r)
  <2>1. UNCHANGED Elsewhere /\ run[r].phase = "loaded"
    BY <1>8 DEF Authorize
  <2>2. r \in barred => run[r].revision < task[run[r].task].revision
                        \/ run[r].session < session[task[run[r].task].owner]
    BY <1>3 DEF Refusable
  <2>3. CASE Authorized(r)
    <3>1. Change(r, "RUNNING", "checked")
      BY <1>8, <2>3 DEF Authorize
    <3>2. session[task[run[r].task].owner] = run[r].session
      BY <2>3 DEF Authorized
    <3>3. r \in barred => run[r].revision < task[run[r].task].revision
      BY <1>4, <2>2, <3>2
    <3> QED
      BY <1>5, <2>1, <3>1, <3>3, ChangeStep
  <2>4. CASE ~Authorized(r)
    <3>1. Change(r, "ENDED", "none")
      BY <1>8, <2>4 DEF Authorize
    <3> QED
      BY <2>1, <2>2, <3>1, ChangeStep
  <2> QED
    BY <2>3, <2>4
<1>9. CASE Preflight(r)
  <2>1. UNCHANGED Elsewhere /\ run[r].phase = "checked"
    BY <1>9 DEF Preflight
  <2>2. r \in barred => run[r].revision < task[run[r].task].revision
    BY <1>3, <2>1 DEF Refusable
  <2>3. CASE Unchanged(r)
    <3>1. Change(r, "RUNNING", "cleared")
      BY <1>9, <2>3 DEF Preflight
    <3>2. task[run[r].task].revision = run[r].revision
      BY <2>3 DEF Unchanged
    <3>3. r \notin barred
      BY <1>4, <2>2, <3>2
    <3> QED
      BY <1>5, <2>1, <3>1, <3>3, ChangeStep
  <2>4. CASE ~Unchanged(r)
    <3>1. Change(r, "ENDED", "none")
      BY <1>9, <2>4 DEF Preflight
    <3> QED
      BY <2>1, <2>2, <3>1, ChangeStep
  <2> QED
    BY <2>3, <2>4
<1>10. CASE Contact(r)
  <2>1. Change(r, "RUNNING", "sent") /\ UNCHANGED Elsewhere /\ run[r].phase = "cleared"
    BY <1>10 DEF Contact
  <2>2. r \notin barred
    BY <1>3, <2>1 DEF Refusable
  <2> QED
    BY <1>5, <2>1, <2>2, ChangeStep
<1>11. CASE Requeue(r)
  <2>1. Change(r, "PENDING", "none") /\ UNCHANGED Elsewhere /\ run[r].phase = "cleared"
    BY <1>11 DEF Requeue
  <2>2. r \notin barred
    BY <1>3, <2>1 DEF Refusable
  <2> QED
    BY <1>5, <2>1, <2>2, ChangeStep
<1>12. CASE Finish(r)
  <2>1. Change(r, "ENDED", "sent") /\ UNCHANGED Elsewhere /\ run[r].phase = "sent"
    BY <1>12 DEF Finish
  <2>2. r \notin barred
    BY <1>3, <2>1 DEF Refusable
  <2> QED
    BY <2>1, <2>2, ChangeStep
<1> QED
  BY <1>6, <1>7, <1>8, <1>9, <1>10, <1>11, <1>12

-----------------------------------------------------------------------------
(* Steps that change tasks outside tick's transaction *)

\* Such a step keeps the invariant when owners and occurrences stay, revisions only
\* grow, a new time is in the future, and the rows it bars are out of date.
LEMMA TaskStep ==
    ASSUME IInv, TypeOK', InputsOK', TasksOK(task)', pc # "work", pc' # "work",
           UNCHANGED <<clock, ledger, run, session, others, used>>,
           moment' \in {0, moment},
           \A t \in Tasks : task[t].revision > 0 =>
            task'[t].owner = task[t].owner /\ task'[t].revision >= task[t].revision,
           \A t \in Tasks : \/ task'[t].due \in {NoDue, task[t].due}
                            \/ task'[t].due > clock,
           barred' \subseteq 1..Len(run),
           barred \subseteq barred',
           \A r \in barred' \ barred : Refusable(run[r], task'[run[r].task], session)
    PROVE  IInv'
<1>1. run \in Seq(Rows) /\ RunIds = 1..Len(run)
  BY OpenRowsCount DEF IInv, TypeOK
<1>2. ASSUME NEW r \in 1..Len(run)
      PROVE  /\ run[r].task \in Tasks /\ run[r].revision \in Nat
             /\ task[run[r].task].revision \in Nat /\ task'[run[r].task].revision \in Nat
             /\ task[run[r].task].revision > 0
             /\ run[r].revision <= task[run[r].task].revision
             /\ task'[run[r].task].revision >= task[run[r].task].revision
             /\ task'[run[r].task].owner = task[run[r].task].owner
  <2>1. run[r] \in Rows
    BY <1>1
  <2>2. run[r].task \in Tasks /\ run[r].revision \in Nat /\ run[r].revision > 0
    BY <2>1 DEF Rows
  <2>3. RowOK(run[r], task[run[r].task], session)
    BY <1>1 DEF IInv, RowsOK
  <2>4. task[run[r].task] \in TaskRows /\ task'[run[r].task] \in TaskRows
    BY <2>2 DEF IInv, TypeOK
  <2>5. task[run[r].task].revision \in Nat /\ task'[run[r].task].revision \in Nat
    BY <2>4, TaskRowFields
  <2>6. run[r].revision <= task[run[r].task].revision
    BY <2>3 DEF RowOK
  <2>7. task[run[r].task].revision > 0
    BY <2>2, <2>5, <2>6
  <2> QED
    BY <2>2, <2>5, <2>6, <2>7
<1>3. RowsOK'
  <2> SUFFICES ASSUME NEW r \in 1..Len(run)
               PROVE  RowOK(run[r], task'[run[r].task], session)
    BY <1>1 DEF RowsOK, RunIds
  <2>1. RowOK(run[r], task[run[r].task], session)
    BY <1>1 DEF IInv, RowsOK
  <2>2. run[r].revision <= task'[run[r].task].revision
    BY <1>2
  <2> QED
    BY <1>2, <2>1, <2>2 DEF RowOK
<1>4. Booked(run, Len(run), ledger)' /\ Complete(run, Len(run), ledger)'
      /\ Single(run, Len(run))' /\ Apart(run, Len(run))' /\ Fits(run, Len(run), others)'
  BY DEF IInv
<1>5. SpacedOK'
  <2> SUFFICES ASSUME used["jumps"] = 0
               PROVE  moment' <= clock /\ Spaced(task', ledger, clock)
    BY DEF SpacedOK
  <2>1. moment <= clock /\ Spaced(task, ledger, clock)
    BY DEF IInv, SpacedOK
  <2>2. clock \in Nat
    BY ClockTyped DEF IInv
  <2>3. ASSUME NEW o \in ledger, o.source = "scheduled", task'[o.task].due # NoDue
        PROVE  o.at < task'[o.task].due
    <3>1. o.task \in Tasks /\ o.at \in Nat
      BY DEF IInv, TypeOK, Occurrences
    <3>2. task[o.task] \in TaskRows /\ task'[o.task] \in TaskRows
      BY <3>1 DEF IInv, TypeOK
    <3>3. task'[o.task].due \in Times
      BY <3>2, TaskRowFields
    <3>4. task'[o.task].due \in Int
      BY <3>3 DEF Times, NoDue
    <3>5. o.at <= clock
      BY <2>1, <2>3 DEF Spaced
    <3>6. CASE task'[o.task].due > clock
      BY <2>2, <3>1, <3>4, <3>5, <3>6
    <3>7. CASE task'[o.task].due = task[o.task].due
      BY <2>1, <2>3, <3>7 DEF Spaced
    <3> QED
      BY <2>3, <3>1, <3>6, <3>7
  <2>4. moment' <= clock
    BY <2>1, <2>2
  <2> QED
    BY <2>1, <2>3, <2>4 DEF Spaced
<1>6. NoBurst'
  BY DEF IInv, NoBurst
<1>7. BatchOK' /\ UndoOK'
  BY DEF BatchOK, UndoOK
<1>8. BarredOK'
  <2>1. Kept' = Len(run)
    BY DEF Kept
  <2>2. ASSUME NEW r \in barred'
        PROVE  Refusable(run[r], task'[run[r].task], session)
    <3>1. CASE r \in barred
      <4>1. Refusable(run[r], task[run[r].task], session)
        BY <3>1 DEF IInv, BarredOK
      <4>2. r \in 1..Len(run)
        BY <2>2
      <4>3. run[r].revision < task[run[r].task].revision =>
                run[r].revision < task'[run[r].task].revision
        BY <1>2, <4>2
      <4> QED
        BY <1>2, <4>1, <4>2, <4>3 DEF Refusable
    <3>2. CASE r \notin barred
      BY <3>2
    <3> QED
      BY <3>1, <3>2
  <2> QED
    BY <2>1, <2>2 DEF BarredOK
<1> QED
  BY <1>3, <1>4, <1>5, <1>6, <1>7, <1>8 DEF IInv

\* The barred rows are rows.
LEMMA BarredAreRows ==
    ASSUME IInv
    PROVE  barred \subseteq 1..Len(run)
<1>1. Len(run) \in Nat
  BY OpenRowsCount DEF IInv
<1> QED
  BY <1>1 DEF IInv, BarredOK, Kept, UndoOK

\* The rows that wait are those of an earlier revision once a review is saved.
LEMMA ApplySaveStep ==
    ASSUME IInv, NEW u \in Users, ApplySave(u)
    PROVE  IInv'
<1> DEFINE k == request[u].key
           rc == receipt[k]
           t == TaskOf(rc)
           row == IF rc.task = 0 THEN [NoTask EXCEPT !.owner = u, !.creation = k]
                  ELSE task[t]
           n == row.revision + 1
           due == NextTime(rc.rule, clock)
           new == [row EXCEPT !.revision = n, !.rule = rc.rule, !.enabled = rc.enabled,
                              !.saved = rc.saved, !.due = due, !.attention = FALSE,
                              !.review = k]
<1>1. UNCHANGED <<clock, ledger, run, receipt, pc, moment, batch, undo, fails, role,
                  session, ident, book, broken, others, used>>
  BY DEF ApplySave, world, accounts, ticker
<1>2. pc # "work" /\ pc' # "work"
  BY <1>1 DEF ApplySave, LockFree
<1>3. task' = [task EXCEPT ![t] = new] /\ barred' = barred \union Pending(t)
  BY DEF ApplySave
<1>4. /\ k \in Reviews /\ NextTime(rc.rule, clock) # NoDue
      /\ \/ rc.task # 0 /\ Reviewed(rc.task, rc)
         \/ rc.task = 0 /\ Existing # Tasks
  BY DEF ApplySave, SaveAccepted, IInv, InputsOK
<1>5. /\ rc \in Receipts /\ Distinct(rc.saved)
      /\ rc.task # 0 => rc.revision > 0
  BY <1>4, SMTT(60) DEF IInv, TypeOK, InputsOK
<1>6. /\ rc.task \in Tasks \union {0} /\ rc.rule \in Rules
      /\ rc.enabled \in BOOLEAN /\ rc.saved \in Definitions /\ rc.revision \in Nat
  BY <1>4, <1>5 DEF Receipts, ApplySave, SaveAccepted, IInv, InputsOK
<1>7. /\ t \in Tasks
      /\ rc.task = 0 => t \notin Existing
      /\ rc.task # 0 => t = rc.task
  <2>1. rc.task = 0 => Existing # Tasks
    BY <1>4
  <2> HIDE DEF rc
  <2> QED
    BY <1>6, <2>1, TaskOfFree
<1>8. rc.task # 0 => task[t].revision > 0
  BY <1>4, <1>5, <1>7 DEF Reviewed
<1>9. task \in [Tasks -> TaskRows] /\ task[t] \in TaskRows /\ task[t].revision \in Nat
  <2>1. task \in [Tasks -> TaskRows]
    BY DEF IInv, TypeOK
  <2> HIDE DEF t
  <2> QED
    BY <1>7, <2>1, TaskRowFields
<1>10. /\ row \in TaskRows /\ row.owner \in Users
       /\ row.revision = task[t].revision
       /\ task[t].revision > 0 => row.owner = task[t].owner
  <2> HIDE DEF rc, t
  <2>1. CASE rc.task = 0
    <3>1. row = [NoTask EXCEPT !.owner = u, !.creation = k]
      BY <2>1
    <3>2. row \in TaskRows /\ row.owner = u /\ row.revision = 0
      <4> HIDE DEF k
      <4> QED
        BY <1>4, <3>1, EmptyTyped DEF NoTask, TaskRows
    <3>3. task[t].revision = 0
      BY <1>7, <1>9, <2>1 DEF Existing
    <3> QED
      BY <3>2, <3>3
  <2>2. CASE rc.task # 0
    <3>1. row = task[t]
      BY <2>2
    <3>2. task[t].owner \in Users
      BY <1>7, <1>8, <2>2 DEF IInv, TasksOK
    <3> QED
      BY <1>9, <3>1, <3>2
  <2> QED
    BY <2>1, <2>2
<1>11. due \in Times /\ due # NoDue /\ due > clock
  <2>1. clock \in 0..MaxTime
    BY DEF IInv, TypeOK
  <2> HIDE DEF rc
  <2> QED
    BY <1>4, <1>6, <2>1, NextTimeLater
<1>12. n \in Nat /\ n > task[t].revision /\ n > 0
  <2> HIDE DEF row, t
  <2> QED
    BY <1>9, <1>10
<1> HIDE DEF row, n, due, rc, t, k
<1>13. new \in TaskRows
  BY <1>4, <1>6, <1>10, <1>11, <1>12, TaskRowSaved
<1>14. /\ new.revision = n /\ new.owner = row.owner /\ new.saved = rc.saved
       /\ new.rule = rc.rule
       /\ new.due = due
  BY <1>10 DEF TaskRows
<1> HIDE DEF new
<1>15. \A s \in Tasks : task'[s] = IF s = t THEN new ELSE task[s]
  BY <1>3, <1>9
<1>16. TasksOK(task)'
  <2>1. task' \in [Tasks -> TaskRows]
    BY <1>3, <1>9, <1>13
  <2>2. TasksOK(task)
    BY DEF IInv
  <2> QED
    BY <1>5, <1>6, <1>10, <1>11, <1>14, <1>15, <2>1, <2>2 DEF TasksOK
<1>17. InputsOK' /\ request' \in [Users -> Requests]
  BY <1>1, DoneInputs DEF ApplySave
<1>18. Pending(t) \subseteq 1..Len(run)
  BY OpenRowsCount DEF Pending, IInv
<1>19. TypeOK'
  <2>1. barred' \subseteq Nat
    <3>1. 1..Len(run) \subseteq Nat
      BY OpenRowsCount DEF IInv
    <3> QED
      BY <1>3, <1>18, <3>1 DEF IInv, TypeOK
  <2> QED
    BY <1>1, <1>16, <1>17, <2>1 DEF IInv, TypeOK, TasksOK
<1>20. ASSUME NEW s \in Tasks
       PROVE  /\ task[s].revision > 0 =>
                    task'[s].owner = task[s].owner /\ task'[s].revision >= task[s].revision
              /\ task'[s].due \in {NoDue, task[s].due} \/ task'[s].due > clock
  <2>1. task[s].revision \in Nat
    BY <1>9, TaskRowFields
  <2>2. CASE s = t
    BY <1>10, <1>11, <1>12, <1>14, <1>15, <2>1, <2>2
  <2>3. CASE s # t
    BY <1>15, <2>1, <2>3
  <2> QED
    BY <2>2, <2>3
<1>21. ASSUME NEW r \in Pending(t)
       PROVE  Refusable(run[r], task'[run[r].task], session)
  <2>1. r \in 1..Len(run) /\ r \in RunIds /\ run[r].task = t /\ run[r].status = "PENDING"
    BY <1>18 DEF Pending
  <2>2. run[r] \in Rows
    BY <2>1 DEF IInv, TypeOK
  <2>3. run[r].revision \in Nat
    BY <2>2 DEF Rows
  <2>4. RowOK(run[r], task[t], session)
    BY <2>1 DEF IInv, RowsOK
  <2>5. run[r].phase = "none" /\ run[r].revision <= task[t].revision
    BY <2>1, <2>4 DEF RowOK
  <2>6. run[r].revision < task'[t].revision
    BY <1>7, <1>9, <1>12, <1>14, <1>15, <2>3, <2>5
  <2> QED
    BY <2>1, <2>5, <2>6 DEF Refusable
<1>22. barred' \subseteq 1..Len(run) /\ barred \subseteq barred'
       /\ \A r \in barred' \ barred : Refusable(run[r], task'[run[r].task], session)
  BY <1>3, <1>18, <1>21, BarredAreRows
<1> QED
  BY <1>1, <1>2, <1>16, <1>17, <1>19, <1>20, <1>22, TaskStep

\* A request of a task's page is about a task.
LEMMA FoundTask ==
    ASSUME IInv, NEW u \in Users, request[u].op \in {"state", "run"}, Found(u)
    PROVE  request[u].task \in Tasks /\ task[request[u].task].revision > 0
BY DEF IInv, InputsOK, Found

\* Pause and resume.
LEMMA ApplyStateStep ==
    ASSUME IInv, NEW u \in Users, ApplyState(u)
    PROVE  IInv'
<1> DEFINE t == request[u].task
           on == request[u].enabled
           due == IF on THEN NextTime(task[t].rule, clock) ELSE task[t].due
           new == [task[t] EXCEPT !.enabled = on, !.due = due]
<1>1. UNCHANGED <<clock, ledger, run, receipt, pc, moment, batch, undo, fails, role,
                  session, ident, book, broken, others, barred, used>>
  BY DEF ApplyState, world, accounts, ticker
<1>2. pc # "work" /\ pc' # "work"
  BY <1>1 DEF ApplyState, LockFree
<1>3. t \in Tasks /\ task[t].revision > 0
  BY FoundTask DEF ApplyState, StateAccepted
<1>4. on \in BOOLEAN
  <2>1. request[u] \in Requests
    BY DEF IInv, TypeOK
  <2> QED
    BY <2>1 DEF Requests
<1>5. task \in [Tasks -> TaskRows] /\ task[t] \in TaskRows
  BY <1>3 DEF IInv, TypeOK
<1>6. task' = [task EXCEPT ![t] = new]
  <2>1. task' = [task EXCEPT ![t].enabled = on,
                             ![t].due = IF on THEN NextTime(task[t].rule, clock) ELSE @]
    BY DEF ApplyState
  <2>2. \A s \in Tasks : s # t => task'[s] = task[s]
    BY <1>5, <2>1
  <2>3. DOMAIN task' = Tasks /\ task' = [s \in Tasks |-> task'[s]]
    BY <1>5, <2>1
  <2>4. task'[t] = new
    <3>1. task'[t] = [[task[t] EXCEPT !.enabled = on] EXCEPT
                        !.due = IF on THEN NextTime(task[t].rule, clock) ELSE task[t].due]
      BY <1>3, <1>5, <2>1 DEF TaskRows
    <3> QED
      BY <1>5, <3>1 DEF TaskRows
  <2> HIDE DEF new, t
  <2> QED
    BY <1>3, <1>5, <2>2, <2>3, <2>4
<1>7. /\ due \in Times /\ (due = task[t].due \/ due > clock)
      /\ on => due # NoDue
  <2>1. clock \in 0..MaxTime /\ task[t].rule \in Rules /\ task[t].due \in Times
    BY <1>3, <1>5, TaskRowFields DEF IInv, TypeOK, TasksOK
  <2>2. on => NextTime(task[t].rule, clock) # NoDue
    BY DEF ApplyState, StateAccepted
  <2>3. NextTime(task[t].rule, clock) \in Times
        /\ (NextTime(task[t].rule, clock) # NoDue => NextTime(task[t].rule, clock) > clock)
    BY <2>1, NextTimeLater
  <2> HIDE DEF on, t
  <2> QED
    BY <2>1, <2>2, <2>3
<1> HIDE DEF due, on, t
<1>8. new \in TaskRows
  BY <1>4, <1>5, <1>7, TaskRowTimed
<1>9. /\ new.revision = task[t].revision /\ new.owner = task[t].owner
      /\ new.saved = task[t].saved /\ new.due = due /\ (new.enabled <=> on)
      /\ new.rule = task[t].rule
  BY <1>4, <1>5 DEF TaskRows
<1> HIDE DEF new
<1>10. \A s \in Tasks : task'[s] = IF s = t THEN new ELSE task[s]
  BY <1>5, <1>6
<1>11. TasksOK(task)'
  <2>1. task' \in [Tasks -> TaskRows]
    BY <1>5, <1>6, <1>8
  <2>2. TasksOK(task)
    BY DEF IInv
  <2> QED
    BY <1>3, <1>7, <1>9, <1>10, <2>1, <2>2 DEF TasksOK
<1>12. InputsOK' /\ request' \in [Users -> Requests]
  BY <1>1, DoneInputs DEF ApplyState
<1>13. TypeOK'
  BY <1>1, <1>11, <1>12 DEF IInv, TypeOK, TasksOK
<1>14. ASSUME NEW s \in Tasks
       PROVE  /\ task'[s].owner = task[s].owner /\ task'[s].revision >= task[s].revision
              /\ task'[s].due \in {NoDue, task[s].due} \/ task'[s].due > clock
  <2>1. task[s].revision \in Nat
    BY <1>5, TaskRowFields
  <2> QED
    BY <1>7, <1>9, <1>10, <2>1
<1>15. barred' \subseteq 1..Len(run) /\ barred' = barred
  BY <1>1, BarredAreRows
<1> QED
  BY <1>1, <1>2, <1>11, <1>12, <1>13, <1>14, <1>15, TaskStep

\* Quarantine disables the task that failed.
LEMMA QuarantineStep ==
    ASSUME IInv, Quarantine
    PROVE  IInv'
<1>1. /\ UNCHANGED <<clock, ledger, run, receipt, request, undo, fails, role, session,
                     ident, book, broken, others, barred, used>>
      /\ pc = "quarantine" /\ pc' = "idle" /\ moment' = 0 /\ batch' = {}
      /\ task' = [t \in Tasks |-> IF t \in batch THEN Disabled(task[t]) ELSE task[t]]
  BY DEF Quarantine, Idle, world, accounts
<1>2. task \in [Tasks -> TaskRows]
  BY DEF IInv, TypeOK
<1>3. ASSUME NEW s \in Tasks
      PROVE  /\ task'[s] \in TaskRows
             /\ task'[s].revision = task[s].revision /\ task'[s].owner = task[s].owner
             /\ task'[s].saved = task[s].saved /\ task'[s].due = task[s].due
             /\ task'[s].enabled => task[s].enabled
             /\ task'[s].rule = task[s].rule
  <2>1. task[s] \in TaskRows /\ Disabled(task[s]) \in TaskRows
    BY <1>2, TaskRowDisabled
  <2>2. /\ Disabled(task[s]).revision = task[s].revision
        /\ Disabled(task[s]).owner = task[s].owner
        /\ Disabled(task[s]).saved = task[s].saved
        /\ Disabled(task[s]).due = task[s].due
        /\ Disabled(task[s]).rule = task[s].rule
        /\ ~Disabled(task[s]).enabled
    BY <2>1 DEF Disabled, TaskRows
  <2>3. task'[s] = Disabled(task[s]) \/ task'[s] = task[s]
    BY <1>1
  <2> QED
    BY <2>1, <2>2, <2>3
<1>4. TasksOK(task)'
  <2>1. task' \in [Tasks -> TaskRows]
    BY <1>1, <1>3
  <2>2. TasksOK(task)
    BY DEF IInv
  <2> QED
    BY <1>3, <2>1, <2>2 DEF TasksOK
<1>5. TypeOK' /\ InputsOK'
  <2>1. TypeOK'
    BY <1>1, <1>4, ZeroIsTime DEF IInv, TypeOK, TasksOK
  <2>2. InputsOK'
    BY <1>1 DEF IInv, InputsOK
  <2> QED
    BY <2>1, <2>2
<1>6. ASSUME NEW s \in Tasks
      PROVE  task'[s].revision >= task[s].revision
  <2>1. task[s].revision \in Nat
    BY <1>2, TaskRowFields
  <2> QED
    BY <1>3, <2>1
<1>7. barred' \subseteq 1..Len(run) /\ barred' = barred
  BY <1>1, BarredAreRows
<1> QED
  BY <1>1, <1>3, <1>4, <1>5, <1>6, <1>7, TaskStep

\* A new session version bars the rows that wait under an older one.
LEMMA ChangeAccessStep ==
    ASSUME IInv, NEW u \in Users, ChangeAccess(u)
    PROVE  IInv'
<1> DEFINE own == UNION {Pending(t) : t \in {s \in Tasks : task[s].owner = u}}
<1>1. /\ UNCHANGED <<clock, task, ledger, run, receipt, request, pc, moment, batch, undo,
                     fails, ident, book, broken, others>>
      /\ pc # "work"
      /\ session' = [session EXCEPT ![u] = session[u] + 1]
      /\ barred' = barred \union own
  BY DEF ChangeAccess, DbFree, ticker
<1>2. session \in [Users -> Nat] /\ session[u] \in Nat
  BY DEF IInv, TypeOK
<1>3. /\ session' \in [Users -> Nat] /\ session'[u] > session[u]
      /\ \A v \in Users : session'[v] >= session[v] /\ session[v] \in Nat
  BY <1>1, <1>2
<1>4. run \in Seq(Rows) /\ RunIds = 1..Len(run) /\ RunIds' = 1..Len(run) /\ Len(run) \in Nat
  BY <1>1, OpenRowsCount DEF IInv, TypeOK, RunIds
<1>5. own \subseteq 1..Len(run)
  BY <1>4 DEF Pending
<1>6. used' \in [Counted -> Nat] /\ (used'["jumps"] = 0 => used["jumps"] = 0)
  BY MayCounts DEF ChangeAccess, Counted, IInv, TypeOK
<1>7. role' \in [Users -> Roles]
  BY DEF ChangeAccess, IInv, TypeOK
<1>8. TypeOK'
  <2> HIDE DEF own
  <2>1. barred' \subseteq Nat
    <3>1. 1..Len(run) \subseteq Nat
      BY <1>4
    <3> QED
      BY <1>1, <1>5, <3>1 DEF IInv, TypeOK
  <2> QED
    BY <1>1, <1>3, <1>6, <1>7, <2>1 DEF IInv, TypeOK
<1>9. InputsOK'
  <2>1. ASSUME NEW v \in Users
        PROVE  request[v].session <= session'[v]
    <3>1. request[v].session \in Nat
      <4>1. request[v] \in Requests
        BY DEF IInv, TypeOK
      <4> QED
        BY <4>1 DEF Requests
    <3>2. request[v].session <= session[v]
      BY DEF IInv, InputsOK
    <3>3. session[v] \in Nat /\ session'[v] \in Nat /\ session[v] <= session'[v]
      BY <1>3
    <3> QED
      BY <3>1, <3>2, <3>3
  <2> QED
    BY <1>1, <2>1 DEF IInv, InputsOK
<1>10. ASSUME NEW r \in 1..Len(run)
       PROVE  /\ RowOK(run[r], task[run[r].task], session)
              /\ task[run[r].task].owner \in Users
              /\ run[r].task \in Tasks
              /\ run[r].session \in Nat
  <2>1. run[r] \in Rows
    BY <1>4
  <2>2. run[r].task \in Tasks /\ run[r].revision \in Nat \ {0} /\ run[r].session \in Nat
    BY <2>1 DEF Rows
  <2>3. RowOK(run[r], task[run[r].task], session)
    BY <1>4 DEF IInv, RowsOK
  <2>4. task[run[r].task].revision \in Nat
    BY <2>2, TaskRowFields DEF IInv, TypeOK
  <2>5. task[run[r].task].revision > 0
    BY <2>2, <2>3, <2>4 DEF RowOK
  <2> QED
    BY <2>2, <2>3, <2>5 DEF IInv, TasksOK
<1>11. RowsOK'
  <2> SUFFICES ASSUME NEW r \in 1..Len(run)
               PROVE  RowOK(run[r], task[run[r].task], session')
    BY <1>1, <1>4 DEF RowsOK
  <2>1. run[r].session <= session[task[run[r].task].owner]
    BY <1>10 DEF RowOK
  <2>2. run[r].session <= session'[task[run[r].task].owner]
    BY <1>3, <1>10, <2>1
  <2> QED
    BY <1>10, <2>2 DEF RowOK
<1>12. TasksOK(task)' /\ NoBurst'
  BY <1>1, <1>6 DEF IInv, TasksOK, NoBurst
<1>13. Booked(run, Len(run), ledger)' /\ Complete(run, Len(run), ledger)'
       /\ Single(run, Len(run))' /\ Apart(run, Len(run))' /\ Fits(run, Len(run), others)'
  BY <1>1 DEF IInv
<1>14. SpacedOK' /\ BatchOK' /\ UndoOK'
  BY <1>1, <1>6 DEF IInv, SpacedOK, BatchOK, UndoOK
<1>15. BarredOK'
  <2>1. Kept' = Len(run)
    BY <1>1 DEF Kept
  <2>2. ASSUME NEW r \in barred
        PROVE  Refusable(run[r], task[run[r].task], session')
    <3>1. Refusable(run[r], task[run[r].task], session) /\ r \in 1..Len(run)
      BY BarredAreRows DEF IInv, BarredOK
    <3>2. run[r].session < session[task[run[r].task].owner] =>
            run[r].session < session'[task[run[r].task].owner]
      BY <1>3, <1>10, <3>1
    <3> QED
      BY <3>1, <3>2 DEF Refusable
  <2>3. ASSUME NEW r \in own
        PROVE  Refusable(run[r], task[run[r].task], session')
    <3>1. r \in 1..Len(run)
      BY <1>5
    <3>2. run[r].status = "PENDING" /\ task[run[r].task].owner = u
      BY DEF Pending
    <3>3. run[r].phase = "none" /\ run[r].session <= session[u]
      BY <1>10, <3>1, <3>2 DEF RowOK
    <3>4. run[r].session < session'[u]
      BY <1>2, <1>3, <1>10, <3>1, <3>3
    <3> QED
      BY <3>2, <3>3, <3>4 DEF Refusable
  <2> HIDE DEF own
  <2>4. barred' \subseteq 1..Len(run)
    BY <1>1, <1>5, BarredAreRows
  <2> QED
    BY <1>1, <2>1, <2>2, <2>3, <2>4 DEF BarredOK
<1> QED
  BY <1>8, <1>9, <1>11, <1>12, <1>13, <1>14, <1>15 DEF IInv

-----------------------------------------------------------------------------
(* dispatch *)

Verdicts == {"EXISTING", "QUEUED", "MISSED", "BLOCKED", "SKIPPED_OVERLAP",
             "SKIPPED_CAPACITY"}

\* What dispatch has found before it submits anything.
Justified(t, verdict, source, key) ==
    /\ verdict \in Verdicts
    /\ verdict # "EXISTING" => ~Recorded(t, source, key)
    /\ verdict = "QUEUED" => ~Active(t) /\ Current(task[t].saved) /\ HasRoom(t)

\* What dispatch has tested when it does not fail.
LEMMA VerdictJustified ==
    ASSUME NEW t, NEW source, NEW key, NEW seen, Verdict(t, source, key, seen) # "ERROR"
    PROVE  Justified(t, Verdict(t, source, key, seen), source, key)
BY DEF Verdict, Justified, Verdicts, Valid

\* What dispatch has done, of an occurrence whose row saw the session seen.
Dispatched(t, source, due, at, seen) ==
    /\ run' \in Seq(Rows)
    /\ Len(run') >= Len(run)
    /\ \A r \in 1..Len(run) : run'[r] = run[r]
    /\ \A r \in (Len(run) + 1)..Len(run') :
        /\ run'[r].task = t /\ run'[r].revision = task[t].revision
        /\ run'[r].session = seen
        /\ run'[r].status = "PENDING" /\ run'[r].phase = "none"
    /\ ledger' \subseteq Occurrences
    /\ ledger \subseteq ledger'
    /\ \A o \in ledger' \ ledger :
        o.task = t /\ o.source = source /\ o.due = due /\ o.at = at
    /\ Booked(run', Len(run'), ledger')
    /\ Complete(run', Len(run'), ledger')
    /\ Single(run', Len(run'))
    /\ Apart(run', Len(run'))
    /\ Fits(run', Len(run'), others)

\* The elements of a sequence.
LEMMA SeqElements ==
    ASSUME NEW D, NEW s \in Seq(D)
    PROVE  /\ DOMAIN s = 1..Len(s) /\ Len(s) \in Nat
           /\ \A i \in DOMAIN s : s[i] \in D
OBVIOUS

\* One call of dispatch: its receipt and its rows, or a receipt alone.
LEMMA DispatchStep ==
    ASSUME IInv, NEW t \in Tasks, task[t].revision > 0, NEW verdict,
           NEW source \in {"scheduled", "manual"}, NEW key \in Nat \union Keys,
           NEW due \in Nat, NEW at \in Nat, NEW seen \in Nat,
           Justified(t, verdict, source, key),
           AddOccurrence(t, verdict, source, key, due, at),
           Enqueue(t, verdict, source, key, seen)
    PROVE  Dispatched(t, source, due, at, seen)
<1> DEFINE n == Len(run)
           targets == task[t].saved.targets
           devices == {targets[i].device : i \in DOMAIN targets}
           revision == task[t].revision
           o == [task |-> t, source |-> source, key |-> key, due |-> due, at |-> at,
                 status |-> verdict, revision |-> revision, devices |-> devices]
           new == [i \in DOMAIN targets |->
                    [task |-> t, source |-> source, key |-> key,
                     device |-> targets[i].device, target |-> ident[targets[i].device],
                     revision |-> revision, session |-> seen,
                     status |-> "PENDING", phase |-> "none"]]
<1>1. /\ run \in Seq(Rows) /\ n \in Nat /\ ledger \subseteq Occurrences
      /\ ident \in [Devices -> Idents \union {NoIdent}] /\ others \in Nat
      /\ RunIds = 1..n
  BY OpenRowsCount DEF IInv, TypeOK
<1>2. /\ Booked(run, n, ledger) /\ Complete(run, n, ledger) /\ Single(run, n)
      /\ Apart(run, n) /\ Fits(run, n, others)
  BY DEF IInv
<1>3. task[t] \in TaskRows /\ Distinct(task[t].saved)
  BY DEF IInv, TypeOK, TasksOK
<1>4. revision \in Nat \ {0} /\ task[t].saved \in Definitions
  BY <1>3, TaskRowFields
<1>5. targets \in Seq([device : Devices, ident : Idents])
  BY <1>4 DEF Definitions
<1>6. DOMAIN targets = 1..Len(targets) /\ Len(targets) \in Nat
      /\ \A i \in DOMAIN targets : targets[i] \in [device : Devices, ident : Idents]
  <2> HIDE DEF targets
  <2> QED
    BY <1>5, SeqElements
<1>7. \A i \in DOMAIN targets : targets[i].device \in Devices /\ targets[i].ident \in Idents
  BY <1>6
<1>8. \A i, j \in DOMAIN targets : targets[i].device = targets[j].device => i = j
  BY <1>3 DEF Distinct
<1>9. CASE verdict = "EXISTING"
  <2>1. run' = run /\ ledger' = ledger
    BY <1>9 DEF AddOccurrence, Enqueue
  <2>2. (n + 1)..n = {}
    BY <1>1
  <2> HIDE DEF o, new
  <2> QED
    BY <1>1, <1>2, <2>1, <2>2 DEF Dispatched
<1>10. CASE verdict # "EXISTING"
  <2> DEFINE m == IF verdict = "QUEUED" THEN Len(targets) ELSE 0
  <2>1. ledger' = ledger \union {o} /\ m \in Nat
    BY <1>6, <1>10, SMTT(60) DEF AddOccurrence
  <2>2. run' = IF verdict = "QUEUED" THEN run \o new ELSE run
    BY DEF Enqueue
  <2>3. o \in Occurrences
    <3>1. devices \subseteq Devices
      BY <1>7
    <3>2. verdict \in {"QUEUED", "MISSED", "BLOCKED", "SKIPPED_OVERLAP",
                       "SKIPPED_CAPACITY"}
      BY <1>10 DEF Justified, Verdicts
    <3> HIDE DEF devices, revision
    <3> QED
      BY <1>4, <3>1, <3>2 DEF Occurrences, revision
  <2>4. /\ o.task = t /\ o.source = source /\ o.key = key /\ o.due = due /\ o.at = at
        /\ o.status = verdict /\ o.devices = devices
    OBVIOUS
  <2>5. \A p \in ledger : ~Of(p, o)
    BY <1>10, <2>4 DEF Justified, Recorded, Of
  <2>6. /\ run' \in Seq(Rows) /\ Len(run') = n + m
        /\ \A r \in 1..n : run'[r] = run[r]
        /\ \A r \in (n + 1)..(n + m) :
            /\ verdict = "QUEUED" /\ r - n \in DOMAIN targets
            /\ run'[r] = new[r - n]
    <3>1. CASE verdict = "QUEUED"
      <4>1. Current(task[t].saved)
        BY <3>1 DEF Justified
      <4>2. \A i \in DOMAIN targets : ident[targets[i].device] \in Idents
        BY <1>7, <4>1 DEF Current
      <4>3. \A i \in DOMAIN targets : new[i] \in Rows
        <5> SUFFICES ASSUME NEW i \in DOMAIN targets
                     PROVE  new[i] \in Rows
          OBVIOUS
        <5> DEFINE d == targets[i].device
                   x == ident[targets[i].device]
        <5>1. d \in Devices /\ x \in Idents
          BY <1>7, <4>2
        <5>2. new[i] = [task |-> t, source |-> source, key |-> key, device |-> d,
                        target |-> x, revision |-> revision, session |-> seen,
                        status |-> "PENDING", phase |-> "none"]
          OBVIOUS
        <5> HIDE DEF d, x, revision, new
        <5> QED
          BY <1>4, <5>1, <5>2 DEF Rows
      <4>4. new \in Seq(Rows) /\ Len(new) = Len(targets) /\ DOMAIN new = DOMAIN targets
        <5>1. DOMAIN new = 1..Len(targets) /\ new = [i \in 1..Len(targets) |-> new[i]]
          BY <1>6
        <5> HIDE DEF new
        <5>2. new \in [1..Len(targets) -> Rows]
          BY <1>6, <4>3, <5>1
        <5>3. new \in Seq(Rows)
          BY <1>6, <5>2, SeqDef
        <5> QED
          BY <1>6, <5>1, <5>3, LenProperties
      <4> HIDE DEF new
      <4>5. run' = run \o new /\ m = Len(new)
        BY <2>2, <3>1, <4>4
      <4> HIDE DEF m
      <4>6. run' \in Seq(Rows) /\ Len(run') = n + m
            /\ \A r \in 1..(n + m) : run'[r] = IF r <= n THEN run[r] ELSE new[r - n]
        BY <1>1, <4>4, <4>5, ConcatProperties
      <4>7. \A r \in 1..n : r \in 1..(n + m) /\ r <= n
        BY <1>1, <2>1
      <4>8. \A r \in (n + 1)..(n + m) : r \in 1..(n + m) /\ ~(r <= n) /\ r - n \in 1..m
        BY <1>1, <2>1
      <4> QED
        BY <1>6, <3>1, <4>4, <4>5, <4>6, <4>7, <4>8
    <3>2. CASE verdict # "QUEUED"
      <4>1. m = 0 /\ run' = run /\ n + 0 = n /\ (n + 1)..(n + 0) = {}
        BY <1>1, <2>2, <3>2, SMTT(60)
      <4> HIDE DEF new, o
      <4> QED
        BY <1>1, <4>1
    <3> QED
      BY <3>1, <3>2
  <2>7. \A i \in DOMAIN targets :
            /\ new[i].task = t /\ new[i].source = source /\ new[i].key = key
            /\ new[i].device = targets[i].device /\ new[i].revision = revision
            /\ new[i].session = seen /\ new[i].status = "PENDING"
            /\ new[i].phase = "none"
    OBVIOUS
  <2>8. \A r \in (n + 1)..(n + m) :
            /\ Of(run'[r], o) /\ run'[r].device = targets[r - n].device
            /\ run'[r].task = t /\ run'[r].revision = revision /\ run'[r].session = seen
            /\ run'[r].status = "PENDING" /\ run'[r].phase = "none"
    <3> HIDE DEF new, o, targets, revision, m, n
    <3> QED
      BY <2>4, <2>6, <2>7 DEF Of
  <2>9. o.status = "QUEUED" => o.devices = {run'[r].device : r \in (n + 1)..(n + m)}
    <3> SUFFICES ASSUME verdict = "QUEUED"
                 PROVE  devices = {run'[r].device : r \in (n + 1)..(n + m)}
      BY <2>4
    <3>1. m = Len(targets)
      OBVIOUS
    <3>2. \A i \in DOMAIN targets : n + i \in (n + 1)..(n + m) /\ (n + i) - n = i
      BY <1>1, <1>6, <3>1, SMTT(60)
    <3>3. \A r \in (n + 1)..(n + m) : r - n \in DOMAIN targets
      BY <2>6
    <3> HIDE DEF m, n, targets, new, o
    <3>4. ASSUME NEW d \in devices
          PROVE  d \in {run'[r].device : r \in (n + 1)..(n + m)}
      <4>1. PICK i \in DOMAIN targets : d = targets[i].device
        OBVIOUS
      <4>2. run'[n + i].device = d
        BY <2>8, <3>2, <4>1
      <4> QED
        BY <3>2, <4>2
    <3>5. ASSUME NEW r \in (n + 1)..(n + m)
          PROVE  run'[r].device \in devices
      BY <2>8, <3>3
    <3> QED
      BY <3>4, <3>5
  <2>10. o.status # "QUEUED" => m = 0
    BY <2>4
  <2>11. \A q, r \in (n + 1)..(n + m) : run'[q].device = run'[r].device => q = r
    <3> SUFFICES ASSUME NEW q \in (n + 1)..(n + m), NEW r \in (n + 1)..(n + m),
                        run'[q].device = run'[r].device
                 PROVE  q = r
      OBVIOUS
    <3>1. q - n \in DOMAIN targets /\ r - n \in DOMAIN targets
      BY <2>6
    <3>2. targets[q - n].device = targets[r - n].device
      BY <2>8
    <3>3. q - n = r - n
      BY <1>8, <3>1, <3>2
    <3> QED
      BY <1>1, <2>1, <3>3
  <2>12. ASSUME verdict = "QUEUED"
         PROVE  /\ \A r \in OpenIn(run, n) : run[r].task # t
                /\ Fits(run, n, others + m)
    <3>1. ~Active(t) /\ OpenRows + Len(targets) <= Capacity
      BY <2>12 DEF Justified, HasRoom
    <3>2. \A r \in OpenIn(run, n) : run[r].task # t
      BY <1>1, <3>1 DEF Active, Open, OpenIn
    <3>3. OpenRows = Cardinality(OpenIn(run, n)) + others
          /\ Cardinality(OpenIn(run, n)) \in Nat
      BY OpenRowsCount DEF IInv
    <3>4. Cardinality(OpenIn(run, n)) + (others + Len(targets)) <= Capacity
      BY <1>1, <1>6, <3>1, <3>3, NumbersAssumption
    <3> QED
      BY <2>12, <3>2, <3>4 DEF Fits
  <2> HIDE DEF o, m, new, devices, n
  <2>13. Booked(run', n + m, ledger') /\ Complete(run', n + m, ledger')
    BY <1>1, <1>2, <2>1, <2>5, <2>6, <2>8, <2>9, <2>10, RowsOfNewReceipt
  <2>14. Single(run', n + m)
    BY <1>1, <1>2, <2>1, <2>5, <2>6, <2>8, <2>11, RowsOfDistinctDevices
  <2>15. Apart(run', n + m) /\ Fits(run', n + m, others)
    <3>1. CASE verdict = "QUEUED"
      BY <1>1, <1>2, <2>1, <2>4, <2>6, <2>8, <2>12, <3>1, RowsJoin
    <3>2. CASE verdict # "QUEUED"
      <4>1. m = 0 /\ n + m = n /\ run' = run
        BY <1>1, <2>2, <2>4, <2>10, <3>2
      <4> QED
        BY <1>2, <4>1
    <3> QED
      BY <3>1, <3>2
  <2>16. \A p \in ledger' \ ledger : p.task = t /\ p.source = source /\ p.due = due /\ p.at = at
    BY <2>1, <2>4
  <2>17. ledger' \subseteq Occurrences /\ ledger \subseteq ledger'
    BY <1>1, <2>1, <2>3
  <2>18. n + m >= n
    BY <1>1, <2>1
  <2> HIDE DEF targets
  <2> QED
    BY <2>6, <2>8, <2>13, <2>14, <2>15, <2>16, <2>17, <2>18 DEF Dispatched, n
<1> QED
  BY <1>9, <1>10

\* A dispatched occurrence keeps the invariant when its task keeps its revision and
\* owner and its times are in order.
LEMMA OccurrenceStep ==
    ASSUME IInv, NEW t \in Tasks, task[t].revision > 0, NEW source, NEW due, NEW at,
           NEW seen \in Nat, seen <= session[task[t].owner],
           Dispatched(t, source, due, at, seen),
           TypeOK', InputsOK', TasksOK(task)', SpacedOK', NoBurst', BatchOK',
           UNCHANGED <<session, pc, undo, others>>,
           \A s \in Tasks : task'[s].revision = task[s].revision
                            /\ task'[s].owner = task[s].owner,
           barred \subseteq barred',
           barred' \subseteq 1..Kept',
           \A r \in barred' \ barred :
                /\ r \in (Len(run) + 1)..Len(run')
                /\ seen < session[task[t].owner]
    PROVE  IInv'
<1>1. /\ run \in Seq(Rows) /\ RunIds = 1..Len(run) /\ Len(run) \in Nat
      /\ run' \in Seq(Rows) /\ RunIds' = 1..Len(run') /\ Len(run') \in Nat
      /\ Len(run') >= Len(run)
  BY OpenRowsCount DEF IInv, TypeOK, RunIds, Dispatched
<1>2. /\ \A r \in 1..Len(run) : run'[r] = run[r]
      /\ \A r \in (Len(run) + 1)..Len(run') :
            /\ run'[r].task = t /\ run'[r].revision = task[t].revision
            /\ run'[r].session = seen
            /\ run'[r].status = "PENDING" /\ run'[r].phase = "none"
      /\ ledger \subseteq ledger'
  BY DEF Dispatched
<1>3. \A r \in 1..Len(run') : r \in 1..Len(run) \/ r \in (Len(run) + 1)..Len(run')
  BY <1>1
<1>4. \A r \in 1..Len(run) : run[r].task \in Tasks
  <2>1. \A r \in 1..Len(run) : run[r] \in Rows
    BY <1>1
  <2> QED
    BY <2>1 DEF Rows
<1>5. RowsOK'
  <2> SUFFICES ASSUME NEW r \in 1..Len(run')
               PROVE  RowOK(run'[r], task'[run'[r].task], session)
    BY <1>1 DEF RowsOK
  <2>1. CASE r \in 1..Len(run)
    <3>1. RowOK(run[r], task[run[r].task], session)
      BY <1>1, <2>1 DEF IInv, RowsOK
    <3> QED
      BY <1>2, <1>4, <2>1, <3>1 DEF RowOK
  <2>2. CASE r \in (Len(run) + 1)..Len(run')
    <3>1. task[t].revision \in Nat /\ task'[t].revision = task[t].revision
      BY TaskRowFields DEF IInv, TypeOK
    <3> QED
      BY <1>2, <2>2, <3>1 DEF RowOK
  <2> QED
    BY <1>3, <2>1, <2>2
<1>6. Booked(run, Len(run), ledger)' /\ Complete(run, Len(run), ledger)'
      /\ Single(run, Len(run))' /\ Apart(run, Len(run))' /\ Fits(run, Len(run), others)'
  BY DEF Dispatched
<1>7. UndoOK'
  <2> SUFFICES ASSUME pc' = "work"
               PROVE  UndoOK'
    BY DEF UndoOK
  <2>1. UndoOK /\ pc = "work" /\ undo' = undo
    BY DEF IInv
  <2>2. undo.rows \in 0..Len(run) /\ undo.rows \in Nat /\ undo.rows \in 0..Len(run')
    BY <1>1, <2>1 DEF UndoOK
  <2>3. Booked(run', undo.rows, undo.ledger) /\ Complete(run', undo.rows, undo.ledger)
    <3>1. \A r \in 1..undo.rows : Of(run'[r], run[r]) /\ run'[r].device = run[r].device
      BY <1>1, <1>2, <2>2 DEF Of
    <3> QED
      BY <2>1, <2>2, <3>1, RowsRelabelled DEF UndoOK
  <2>4. TasksOK(undo.task)'
    BY <2>1 DEF UndoOK, TasksOK
  <2>5. undo.ledger \subseteq ledger'
    BY <1>2, <2>1 DEF UndoOK
  <2> QED
    BY <2>1, <2>2, <2>3, <2>4, <2>5 DEF UndoOK
<1>8. BarredOK'
  <2> SUFFICES ASSUME NEW r \in barred'
               PROVE  Refusable(run'[r], task'[run'[r].task], session)
    BY DEF BarredOK
  <2>1. CASE r \in barred
    <3>1. Refusable(run[r], task[run[r].task], session) /\ r \in 1..Len(run)
      BY <2>1, BarredAreRows DEF IInv, BarredOK
    <3> QED
      BY <1>2, <1>4, <3>1 DEF Refusable
  <2>2. CASE r \notin barred
    BY <1>2, <2>2, ZenonT(60) DEF Refusable
  <2> QED
    BY <2>1, <2>2
<1> QED
  BY <1>5, <1>6, <1>7, <1>8 DEF IInv

\* Run now.
LEMMA ApplyRunStep ==
    ASSUME IInv, NEW u \in Users, ApplyRun(u)
    PROVE  IInv'
<1> DEFINE t == request[u].task
           verdict == ManualVerdict(u)
           seen == SeenSession(u, t)
           key == request[u].key
           new == Blocked(task[t], verdict)
<1>1. UNCHANGED <<clock, receipt, pc, moment, batch, undo, fails, role, session, ident,
                  book, broken, others, used>>
  BY DEF ApplyRun, world, accounts, ticker
<1>2. pc # "work" /\ pc' # "work"
  BY <1>1 DEF ApplyRun, LockFree
<1>3. /\ AddOccurrence(t, verdict, "manual", key, clock, clock)
      /\ Enqueue(t, verdict, "manual", key, seen)
      /\ task' = [task EXCEPT ![t] = new]
      /\ barred' = IF seen = session[task[t].owner] THEN barred
                   ELSE barred \union (Len(run) + 1)..Len(run')
  BY DEF ApplyRun
<1>4. t \in Tasks /\ task[t].revision > 0 /\ task[t].owner \in Users
  BY FoundTask DEF ApplyRun, RunAccepted, IInv, TasksOK
<1>5. key \in Keys
  BY DEF ApplyRun, RunAccepted, IInv, InputsOK
<1>6. Justified(t, verdict, "manual", key)
  BY VerdictJustified DEF ApplyRun, RunAccepted, ManualVerdict
<1>7. seen \in Nat /\ seen <= session[task[t].owner] /\ session[task[t].owner] \in Nat
  <2>1. request[u] \in Requests /\ \A v \in Users : session[v] \in Nat
    BY DEF IInv, TypeOK
  <2>2. request[u].session \in Nat /\ request[u].session <= session[u]
    BY <2>1 DEF Requests, IInv, InputsOK
  <2> HIDE DEF t
  <2> QED
    BY <1>4, <2>1, <2>2 DEF SeenSession
<1>8. clock \in Nat
  BY ClockTyped DEF IInv
<1> HIDE DEF t, verdict, seen, key
<1>9. Dispatched(t, "manual", clock, clock, seen)
  BY <1>3, <1>4, <1>5, <1>6, <1>7, <1>8, DispatchStep
<1>10. task \in [Tasks -> TaskRows] /\ task[t] \in TaskRows
  BY <1>4 DEF IInv, TypeOK
<1>11. /\ new \in TaskRows /\ new.revision = task[t].revision /\ new.owner = task[t].owner
       /\ new.saved = task[t].saved /\ new.due = task[t].due /\ new.rule = task[t].rule
       /\ new.enabled => task[t].enabled
  <2>1. new \in TaskRows
    BY <1>10, TaskRowBlocked
  <2>2. new = [task[t] EXCEPT !.enabled = task[t].enabled /\ verdict # "BLOCKED",
                              !.attention = task[t].attention \/ verdict = "BLOCKED"]
    BY DEF Blocked
  <2> QED
    BY <1>10, <2>1, <2>2 DEF TaskRows
<1> HIDE DEF new
<1>12. \A s \in Tasks : task'[s] = IF s = t THEN new ELSE task[s]
  BY <1>3, <1>10
<1>13. TasksOK(task)'
  <2>1. task' \in [Tasks -> TaskRows]
    BY <1>3, <1>10, <1>11
  <2>2. TasksOK(task)
    BY DEF IInv
  <2> QED
    BY <1>4, <1>11, <1>12, <2>1, <2>2 DEF TasksOK
<1>14. InputsOK' /\ request' \in [Users -> Requests]
  BY <1>1, DoneInputs DEF ApplyRun
<1>15. /\ run' \in Seq(Rows) /\ ledger' \subseteq Occurrences /\ ledger \subseteq ledger'
       /\ \A o \in ledger' \ ledger : o.source = "manual"
       /\ Len(run') >= Len(run)
  BY <1>9 DEF Dispatched
<1>16. Len(run) \in Nat /\ Len(run') \in Nat /\ Kept = Len(run) /\ Kept' = Len(run')
  BY <1>2, <1>15, OpenRowsCount DEF Kept, IInv
<1>17. /\ barred \subseteq barred' /\ barred' \subseteq 1..Kept'
       /\ \A r \in barred' \ barred : /\ r \in (Len(run) + 1)..Len(run')
                                      /\ seen < session[task[t].owner]
  <2>1. (Len(run) + 1)..Len(run') \subseteq 1..Len(run')
        /\ 1..Len(run) \subseteq 1..Len(run')
    BY <1>15, <1>16
  <2>2. barred \subseteq 1..Len(run)
    BY BarredAreRows
  <2>3. seen # session[task[t].owner] => seen < session[task[t].owner]
    BY <1>7
  <2> QED
    BY <1>3, <1>16, <2>1, <2>2, <2>3
<1>18. TypeOK'
  <2>1. barred' \subseteq Nat
    <3>1. 1..Len(run') \subseteq Nat
      BY <1>16
    <3> QED
      BY <1>16, <1>17, <3>1
  <2> QED
    BY <1>1, <1>13, <1>14, <1>15, <2>1 DEF IInv, TypeOK, TasksOK
<1>19. SpacedOK'
  <2> SUFFICES ASSUME used["jumps"] = 0
               PROVE  moment <= clock /\ Spaced(task', ledger', clock)
    BY <1>1, <1>2 DEF SpacedOK
  <2>1. moment <= clock /\ Spaced(task, ledger, clock)
    BY DEF IInv, SpacedOK
  <2>2. \A o \in ledger : task'[o.task].due = task[o.task].due
    <3>1. \A o \in ledger : o.task \in Tasks
      BY DEF IInv, TypeOK, Occurrences
    <3> QED
      BY <1>11, <1>12, <3>1
  <2>3. \A o \in ledger' : o.source = "scheduled" => o \in ledger
    BY <1>15
  <2> QED
    BY <2>1, <2>2, <2>3 DEF Spaced
<1>20. NoBurst'
  <2>1. \A o \in ledger' : o.source = "scheduled" => o \in ledger
    BY <1>15
  <2> QED
    BY <1>1, <2>1 DEF IInv, NoBurst
<1>21. BatchOK'
  BY <1>2 DEF BatchOK
<1>22. \A s \in Tasks : task'[s].revision = task[s].revision /\ task'[s].owner = task[s].owner
  BY <1>11, <1>12
<1> QED
  BY <1>1, <1>4, <1>7, <1>9, <1>13, <1>14, <1>17, <1>18, <1>19, <1>20, <1>21, <1>22,
     OccurrenceStep

\* What tick knows of the task its loop is at.
LEMMA ForemostFacts ==
    ASSUME IInv, pc = "work", batch # {}
    PROVE  /\ Foremost \in batch /\ Foremost \in Tasks
           /\ task[Foremost].revision > 0 /\ task[Foremost].enabled
           /\ task[Foremost].due \in 0..moment
           /\ task[Foremost].owner \in Users
<1>1. batch \subseteq Tasks /\ moment \in Nat
  BY DEF IInv, TypeOK
<1>2. \A t \in batch : task[t].revision > 0 /\ task[t].enabled /\ task[t].due \in 0..moment
  BY DEF IInv, BatchOK
<1>3. \A t \in batch : task[t].due \in Nat
  BY <1>1, <1>2
<1>4. Foremost \in batch
  BY <1>1, <1>3, ForemostInBatch
<1> QED
  BY <1>1, <1>2, <1>4 DEF IInv, TasksOK

\* One round of the loop of tick.
LEMMA TickTaskStep ==
    ASSUME IInv, TickTask
    PROVE  IInv'
<1> DEFINE t == Foremost
           verdict == TickVerdict(t)
           due == task[t].due
           seen == session[task[t].owner]
           next == NextDue(t)
           row == Blocked(task[t], verdict)
           new == [row EXCEPT !.enabled = row.enabled /\ Continues(t), !.due = next]
<1>1. UNCHANGED <<clock, receipt, request, pc, moment, undo, fails, role, session, ident,
                  book, broken, others, barred, used>>
  BY DEF TickTask, world, accounts
<1>2. pc = "work" /\ pc' = "work" /\ batch # {}
  BY <1>1 DEF TickTask
<1>3. /\ verdict # "ERROR"
      /\ AddOccurrence(t, verdict, "scheduled", due, due, moment)
      /\ Enqueue(t, verdict, "scheduled", due, seen)
      /\ task' = [task EXCEPT ![t] = new]
      /\ batch' = batch \ {t}
  BY DEF TickTask
<1>4. /\ t \in batch /\ t \in Tasks /\ task[t].revision > 0 /\ due \in 0..moment
      /\ task[t].owner \in Users
  BY <1>2, ForemostFacts
<1>5. moment \in Nat /\ due \in Nat /\ due <= moment
  <2>1. moment \in Nat
    BY DEF IInv, TypeOK
  <2> HIDE DEF due
  <2> QED
    BY <1>4, <2>1
<1>6. Justified(t, verdict, "scheduled", due)
  <2>1. CASE moment - due <= Grace
    <3>1. verdict = Verdict(t, "scheduled", due, role[task[t].owner])
      BY <2>1 DEF TickVerdict
    <3> QED
      BY <1>3, <3>1, VerdictJustified
  <2>2. CASE ~(moment - due <= Grace)
    <3>1. verdict = IF Recorded(t, "scheduled", due) THEN "EXISTING" ELSE "MISSED"
      BY <2>2 DEF TickVerdict
    <3> QED
      BY <3>1 DEF Justified, Verdicts
  <2> QED
    BY <2>1, <2>2
<1>7. seen \in Nat /\ seen <= session[task[t].owner]
  <2>1. \A v \in Users : session[v] \in Nat
    BY DEF IInv, TypeOK
  <2>2. seen \in Nat
    BY <1>4, <2>1
  <2> QED
    BY <2>2
<1>8. task \in [Tasks -> TaskRows] /\ task[t] \in TaskRows
  BY <1>4 DEF IInv, TypeOK
<1>9. /\ next \in Times /\ (next # NoDue => next > moment)
      /\ Continues(t) <=> next # NoDue
  <2>1. task[t].rule \in Rules /\ moment \in 0..MaxTime
    BY <1>4 DEF IInv, TypeOK, TasksOK
  <2> HIDE DEF t
  <2> QED
    BY <2>1, NextTimeLater DEF NextDue, Continues
<1> HIDE DEF t, verdict, due, seen, next
<1>10. Dispatched(t, "scheduled", due, moment, seen)
  BY <1>3, <1>4, <1>5, <1>6, <1>7, DispatchStep
<1>11. /\ new \in TaskRows /\ new.revision = task[t].revision /\ new.owner = task[t].owner
       /\ new.saved = task[t].saved /\ new.due = next /\ new.rule = task[t].rule
       /\ new.enabled => next # NoDue
  <2> DEFINE on == row.enabled /\ Continues(t)
  <2>1. row \in TaskRows
    BY <1>8, TaskRowBlocked
  <2>2. /\ row.revision = task[t].revision /\ row.owner = task[t].owner
        /\ row.saved = task[t].saved /\ row.rule = task[t].rule
    BY <1>8 DEF Blocked, TaskRows
  <2> HIDE DEF row
  <2>3. new = [row EXCEPT !.enabled = on, !.due = next]
    OBVIOUS
  <2>4. on \in BOOLEAN /\ (on => next # NoDue)
    BY <1>9
  <2> HIDE DEF on, new
  <2>5. new \in TaskRows
    BY <1>9, <2>1, <2>3, <2>4, TaskRowTimed
  <2> QED
    BY <2>1, <2>2, <2>3, <2>4, <2>5 DEF TaskRows
<1> HIDE DEF new
<1>12. \A s \in Tasks : task'[s] = IF s = t THEN new ELSE task[s]
  BY <1>3, <1>8
<1>13. TasksOK(task)'
  <2>1. task' \in [Tasks -> TaskRows]
    BY <1>3, <1>8, <1>11
  <2>2. TasksOK(task)
    BY DEF IInv
  <2> QED
    BY <1>4, <1>11, <1>12, <2>1, <2>2 DEF TasksOK
<1>14. InputsOK'
  BY <1>1 DEF IInv, InputsOK
<1>15. /\ run' \in Seq(Rows) /\ ledger' \subseteq Occurrences /\ ledger \subseteq ledger'
       /\ \A o \in ledger' \ ledger : o.task = t /\ o.due = due /\ o.at = moment
  BY <1>10 DEF Dispatched
<1>16. TypeOK'
  BY <1>1, <1>3, <1>13, <1>15 DEF IInv, TypeOK, TasksOK
<1>17. barred' = barred /\ barred' \subseteq 1..Kept'
  BY <1>1, <1>2 DEF Kept, IInv, BarredOK
<1>18. BatchOK'
  BY <1>1, <1>3, <1>12 DEF IInv, BatchOK, TypeOK
<1>19. \A s \in Tasks : task'[s].revision = task[s].revision /\ task'[s].owner = task[s].owner
  BY <1>11, <1>12
<1>20. ASSUME used["jumps"] = 0
       PROVE  /\ moment <= clock /\ clock \in Nat
              /\ Spaced(task, ledger, clock)
              /\ Spaced(undo.task, undo.ledger, clock)
  BY <1>2, <1>20, ClockTyped DEF IInv, SpacedOK
<1>21. due # NoDue /\ due = task[t].due
  BY <1>5 DEF NoDue, due
<1>22. \A o \in ledger : o.task \in Tasks /\ o.at \in Nat /\ o.due \in Nat
  BY DEF IInv, TypeOK, Occurrences
<1>23. ASSUME used["jumps"] = 0, NEW o \in ledger, o.source = "scheduled", o.task = t
       PROVE  o.due <= o.at /\ o.at < due
  BY <1>20, <1>21, <1>23 DEF Spaced
<1>24. SpacedOK'
  <2> SUFFICES ASSUME used["jumps"] = 0
               PROVE  Spaced(task', ledger', clock)
    BY <1>1, <1>2, <1>20 DEF SpacedOK
  <2> SUFFICES ASSUME NEW o \in ledger', o.source = "scheduled"
               PROVE  /\ o.due <= o.at /\ o.at <= clock
                      /\ task'[o.task].due # NoDue => o.at < task'[o.task].due
    BY DEF Spaced
  <2>1. next \in Int
    BY <1>9 DEF Times, NoDue
  <2>2. CASE o \in ledger /\ o.task # t
    BY <1>12, <1>20, <1>22, <2>2 DEF Spaced
  <2>3. CASE o \in ledger /\ o.task = t
    <3>1. o.due <= o.at /\ o.at < due /\ o.at <= clock
      BY <1>20, <1>23, <2>3 DEF Spaced
    <3>2. next # NoDue => o.at < next
      BY <1>5, <1>9, <1>22, <2>1, <2>3, <3>1
    <3> QED
      BY <1>4, <1>11, <1>12, <2>3, <3>1, <3>2
  <2>4. CASE o \notin ledger
    <3>1. o.task = t /\ o.due = due /\ o.at = moment
      BY <1>15, <2>4
    <3> QED
      BY <1>4, <1>5, <1>9, <1>11, <1>12, <1>20, <3>1
  <2> QED
    BY <2>2, <2>3, <2>4
<1>25. NoBurst'
  <2> SUFFICES ASSUME used["jumps"] = 0, NEW o \in ledger', NEW p \in ledger',
                      o.task = p.task, o.source = "scheduled", p.source = "scheduled",
                      o.due < p.due
               PROVE  o.at < p.due
    BY <1>1 DEF NoBurst
  <2>1. CASE o \in ledger /\ p \in ledger
    BY <2>1 DEF IInv, NoBurst
  <2>2. CASE o \in ledger /\ p \notin ledger
    <3>1. p.task = t /\ p.due = due
      BY <1>15, <2>2
    <3> QED
      BY <1>23, <2>2, <3>1
  <2>3. CASE o \notin ledger /\ p \in ledger
    <3>1. o.task = t /\ o.due = due
      BY <1>15, <2>3
    <3>2. p.due <= p.at /\ p.at < due /\ p.due \in Nat /\ p.at \in Nat
      BY <1>22, <1>23, <2>3, <3>1
    <3> QED
      BY <1>5, <3>1, <3>2
  <2>4. CASE o \notin ledger /\ p \notin ledger
    <3>1. o.due = due /\ p.due = due
      BY <1>15, <2>4
    <3> QED
      BY <1>5, <3>1
  <2> QED
    BY <2>1, <2>2, <2>3, <2>4
<1> QED
  BY <1>1, <1>4, <1>7, <1>10, <1>13, <1>14, <1>16, <1>17, <1>18, <1>19, <1>24, <1>25,
     OccurrenceStep DEF seen

-----------------------------------------------------------------------------
(* Rollbacks and restarts *)

\* A row as a rollback leaves it, or as the next start does when it was RUNNING.
Left(old, new) ==
    \/ new = old
    \/ /\ Of(new, old) /\ new.device = old.device
       /\ new.revision = old.revision /\ new.session = old.session
       /\ new.status = "ENDED"
       /\ new.phase \in {"none", "sent"}
       /\ new.phase = "sent" => old.phase = "sent"

\* What is left after a rollback, or a restart at any time, is as consistent as what
\* there was when the transaction began.
LEMMA RestoreStep ==
    ASSUME IInv, TypeOK', InputsOK', pc' # "work",
           task' = IF pc = "work" THEN undo.task ELSE task,
           ledger' = IF pc = "work" THEN undo.ledger ELSE ledger,
           Len(run') = Kept,
           \A r \in 1..Kept : Left(run[r], run'[r]),
           UNCHANGED <<clock, session, others, barred>>,
           moment' \in {0, moment},
           used'["jumps"] = 0 => used["jumps"] = 0
    PROVE  IInv'
<1>1. /\ run \in Seq(Rows) /\ RunIds = 1..Len(run) /\ Len(run) \in Nat
      /\ run' \in Seq(Rows) /\ RunIds' = 1..Len(run')
      /\ others \in Nat
  BY OpenRowsCount DEF IInv, TypeOK, RunIds
<1>2. Kept \in 0..Len(run) /\ Kept \in Nat /\ 1..Kept \subseteq 1..Len(run)
  <2>1. pc = "work" => undo.rows \in 0..Len(run)
    BY DEF IInv, UndoOK
  <2>2. Kept \in 0..Len(run)
    BY <1>1, <2>1 DEF Kept
  <2> HIDE DEF Kept
  <2> QED
    BY <1>1, <2>2
<1>3. TasksOK(task)'
  <2>1. TasksOK(task')
    BY DEF IInv, UndoOK
  <2> QED
    BY <2>1 DEF TasksOK
<1>4. /\ Booked(run, Kept, ledger') /\ Complete(run, Kept, ledger') /\ ledger' \subseteq ledger
      /\ \A t \in Tasks : task'[t].revision = task[t].revision
                          /\ task'[t].owner = task[t].owner
  BY DEF IInv, UndoOK, Kept
<1>5. ASSUME used["jumps"] = 0
      PROVE  moment <= clock /\ Spaced(task', ledger', clock)
  BY <1>5 DEF IInv, SpacedOK
<1>6. \A r \in 1..Kept : Of(run'[r], run[r]) /\ run'[r].device = run[r].device
  BY DEF Left, Of
<1>7. \A r \in 1..Kept : run'[r].status \in {"PENDING", "RUNNING"} =>
                            run[r].status \in {"PENDING", "RUNNING"}
  BY DEF Left
<1>8. Single(run, Kept)
  BY <1>2 DEF IInv, Single
<1>9. Booked(run', Kept, ledger') /\ Complete(run', Kept, ledger') /\ Single(run', Kept)
  BY <1>2, <1>4, <1>6, <1>8, RowsRelabelled
<1>10. Apart(run', Kept) /\ Fits(run', Kept, others)
  BY <1>1, <1>2, <1>6, <1>7, RowsNotOpened DEF IInv
<1>11. Booked(run, Len(run), ledger)' /\ Complete(run, Len(run), ledger)'
       /\ Single(run, Len(run))' /\ Apart(run, Len(run))' /\ Fits(run, Len(run), others)'
  BY <1>9, <1>10
<1>12. \A r \in 1..Kept : run[r].task \in Tasks /\ run'[r].task = run[r].task
  <2>1. \A r \in 1..Kept : run[r] \in Rows
    BY <1>1, <1>2
  <2> QED
    BY <1>6, <2>1 DEF Rows, Of
<1>13. RowsOK'
  <2> SUFFICES ASSUME NEW r \in 1..Kept
               PROVE  RowOK(run'[r], task'[run'[r].task], session)
    BY <1>1 DEF RowsOK
  <2>1. RowOK(run[r], task[run[r].task], session)
    BY <1>1, <1>2 DEF IInv, RowsOK
  <2>2. RowOK(run[r], task'[run[r].task], session)
    BY <1>4, <1>12, <2>1 DEF RowOK
  <2>3. Left(run[r], run'[r])
    OBVIOUS
  <2> QED
    BY <1>12, <2>2, <2>3 DEF RowOK, Left
<1>14. SpacedOK'
  <2>1. clock \in Nat
    BY ClockTyped DEF IInv
  <2> QED
    BY <1>5, <2>1 DEF SpacedOK
<1>15. NoBurst'
  BY <1>4 DEF IInv, NoBurst
<1>16. BatchOK' /\ UndoOK'
  BY DEF BatchOK, UndoOK
<1>17. BarredOK'
  <2>1. Kept' = Kept
    <3>1. Kept' = Len(run')
      BY DEF Kept
    <3> HIDE DEF Kept
    <3> QED
      BY <3>1
  <2>2. ASSUME NEW r \in barred
        PROVE  Refusable(run'[r], task'[run'[r].task], session)
    <3>1. r \in 1..Kept /\ Refusable(run[r], task[run[r].task], session)
      BY DEF IInv, BarredOK
    <3>2. Refusable(run[r], task'[run[r].task], session)
      BY <1>4, <1>12, <3>1 DEF Refusable
    <3>3. Left(run[r], run'[r])
      BY <3>1
    <3> QED
      BY <1>12, <3>1, <3>2, <3>3 DEF Refusable, Left
  <2> QED
    BY <2>1, <2>2 DEF IInv, BarredOK
<1> QED
  BY <1>3, <1>11, <1>13, <1>14, <1>15, <1>16, <1>17 DEF IInv

\* A rolled back transaction of tick.
LEMMA RollbackRows ==
    ASSUME IInv, pc = "work", Rollback
    PROVE  /\ run' \in Seq(Rows) /\ Len(run') = Kept
           /\ \A r \in 1..Kept : Left(run[r], run'[r])
           /\ task' = undo.task /\ ledger' = undo.ledger
           /\ task' \in [Tasks -> TaskRows] /\ ledger' \subseteq Occurrences
<1>1. run \in Seq(Rows) /\ Len(run) \in Nat
  BY DEF IInv, TypeOK
<1>2. undo.rows \in 0..Len(run) /\ Kept = undo.rows
  BY DEF IInv, UndoOK, Kept
<1> DEFINE n == undo.rows
<1>3. run' = SubSeq(run, 1, n)
  BY DEF Rollback
<1>4. n \in 0..Len(run) /\ n \in Nat
  BY <1>1, <1>2
<1> HIDE DEF n
<1>5. run' \in Seq(Rows) /\ Len(run') = n /\ \A r \in 1..n : run'[r] = run[r]
  BY <1>1, <1>3, <1>4, SubSeqProperties
<1>6. task' = undo.task /\ ledger' = undo.ledger
  BY DEF Rollback
<1>7. task' \in [Tasks -> TaskRows] /\ ledger' \subseteq Occurrences
  BY <1>6 DEF IInv, UndoOK, TasksOK, TypeOK
<1> QED
  BY <1>2, <1>5, <1>6, <1>7 DEF Left, n

\* A failing tick takes its rows and receipts back together.
LEMMA RollbackStep ==
    ASSUME IInv, TickFails \/ CommitFails
    PROVE  IInv'
<1>1. /\ UNCHANGED <<clock, receipt, request, role, session, ident, book, broken, others,
                     barred>>
      /\ pc = "work" /\ Rollback
  BY DEF TickFails, CommitFails, world, accounts
<1>2. batch \subseteq Tasks /\ moment \in Nat /\ fails \in [Tasks -> 0..(MaxTickFailures - 1)]
      /\ used \in [Counted -> Nat]
  BY DEF IInv, TypeOK
<1>3. MaxTickFailures \in Nat \ {0}
  BY NumbersAssumption
<1>4. CASE TickFails
  <2> DEFINE t == Foremost
             n == fails[t] + 1
  <2>1. batch # {} /\ used' = used
        /\ IF Persistent(n)
           THEN /\ pc' = "quarantine"
                /\ UNCHANGED moment
                /\ batch' = {t}
                /\ fails' = [fails EXCEPT ![t] = 0]
           ELSE /\ pc' = "idle" /\ moment' = 0
                /\ batch' = {}
                /\ fails' = [fails EXCEPT ![t] = n]
    BY <1>4 DEF TickFails, Idle
  <2>2. t \in Tasks
    BY <1>1, <2>1, ForemostFacts
  <2> HIDE DEF t
  <2>3. fails[t] \in 0..(MaxTickFailures - 1)
    BY <1>2, <2>2
  <2>4. 0 \in 0..(MaxTickFailures - 1) /\ (~Persistent(n) => n \in 0..(MaxTickFailures - 1))
    BY <1>3, <2>3 DEF Persistent
  <2> HIDE DEF n
  <2>5. fails' \in [Tasks -> 0..(MaxTickFailures - 1)]
    BY <1>2, <2>1, <2>4
  <2>6. pc' \in {"idle", "quarantine"} /\ moment' \in {0, moment} /\ batch' \subseteq Tasks
    BY <2>1, <2>2
  <2>7. TypeOK' /\ InputsOK'
    <3>1. TypeOK'
      BY <1>1, <1>2, <2>1, <2>5, <2>6, RollbackRows, ZeroIsTime DEF IInv, TypeOK
    <3>2. InputsOK'
      BY <1>1 DEF IInv, InputsOK
    <3> QED
      BY <3>1, <3>2
  <2> QED
    BY <1>1, <2>1, <2>6, <2>7, RollbackRows, RestoreStep
<1>5. CASE CommitFails
  <2>1. pc' = "idle" /\ moment' = 0 /\ UNCHANGED <<batch, fails>>
    BY <1>5 DEF CommitFails, Idle
  <2>2. used' \in [Counted -> Nat] /\ (used'["jumps"] = 0 => used["jumps"] = 0)
    BY <1>2, <1>5, MayCounts DEF CommitFails, Counted
  <2>3. TypeOK' /\ InputsOK'
    <3>1. TypeOK'
      BY <1>1, <1>2, <2>1, <2>2, RollbackRows, ZeroIsTime DEF IInv, TypeOK
    <3>2. InputsOK'
      BY <1>1 DEF IInv, InputsOK
    <3> QED
      BY <3>1, <3>2
  <2> QED
    BY <1>1, <2>1, <2>2, <2>3, RollbackRows, RestoreStep
<1> QED
  BY <1>4, <1>5

\* A kill rolls tick back and ends what was running.
LEMMA RestartStep ==
    ASSUME IInv, Restart
    PROVE  IInv'
<1> DEFINE ended(w) == IF w.status # "RUNNING" THEN w
                       ELSE [w EXCEPT !.status = "ENDED",
                                      !.phase = IF w.phase = "sent" THEN w.phase ELSE "none"]
<1>1. /\ UNCHANGED <<clock, receipt, role, session, ident, book, broken, others, barred>>
      /\ pc' = "idle" /\ moment' = 0 /\ batch' = {}
      /\ task' = (IF pc = "work" THEN undo.task ELSE task)
      /\ ledger' = (IF pc = "work" THEN undo.ledger ELSE ledger)
      /\ fails' = [t \in Tasks |-> 0]
      /\ request' = [u \in Users |-> NoRequest]
  BY DEF Restart, Idle, world, accounts
<1>2. run' = [r \in 1..Kept |-> ended(run[r])]
  BY DEF Restart, Kept
<1>3. run \in Seq(Rows) /\ Len(run) \in Nat /\ Kept \in Nat /\ 1..Kept \subseteq 1..Len(run)
  <2>1. run \in Seq(Rows) /\ Len(run) \in Nat
    BY DEF IInv, TypeOK
  <2>2. pc = "work" => undo.rows \in 0..Len(run)
    BY DEF IInv, UndoOK
  <2>3. Kept \in 0..Len(run)
    BY <2>1, <2>2 DEF Kept
  <2> HIDE DEF Kept
  <2> QED
    BY <2>1, <2>3
<1>4. ASSUME NEW w \in Rows
      PROVE  ended(w) \in Rows /\ Left(w, ended(w))
  <2>1. CASE w.status # "RUNNING"
    BY <2>1 DEF Left
  <2>2. CASE w.status = "RUNNING"
    <3> DEFINE phase == IF w.phase = "sent" THEN w.phase ELSE "none"
    <3>1. ended(w) = [w EXCEPT !.status = "ENDED", !.phase = phase]
      BY <2>2
    <3>2. phase \in {"none", "sent"} /\ (phase = "sent" => w.phase = "sent")
      OBVIOUS
    <3> HIDE DEF ended, phase
    <3> QED
      BY <3>1, <3>2 DEF Rows, Left, Of
  <2> QED
    BY <2>1, <2>2
<1> HIDE DEF ended
<1>5. \A r \in 1..Kept : run[r] \in Rows
  BY <1>3
<1>6. run' \in [1..Kept -> Rows]
  BY <1>2, <1>4, <1>5
<1>7. run' \in Seq(Rows) /\ Len(run') = Kept
  <2> HIDE DEF Kept
  <2>1. run' \in Seq(Rows)
    BY <1>3, <1>6, SeqDef
  <2>2. DOMAIN run' = 1..Kept
    BY <1>6
  <2> QED
    BY <1>3, <2>1, <2>2, LenProperties
<1>8. \A r \in 1..Kept : Left(run[r], run'[r])
  BY <1>2, <1>4, <1>5
<1>9. used' \in [Counted -> Nat] /\ (used'["jumps"] = 0 => used["jumps"] = 0)
  BY MayCounts DEF Restart, Counted, IInv, TypeOK
<1>10. task' \in [Tasks -> TaskRows] /\ ledger' \subseteq Occurrences
  <2>1. pc = "work" => /\ undo.task \in [Tasks -> TaskRows]
                       /\ undo.ledger \subseteq Occurrences
    BY DEF IInv, UndoOK, TasksOK, TypeOK
  <2> QED
    BY <1>1, <2>1 DEF IInv, TypeOK
<1>11. 0 \in 0..(MaxTickFailures - 1)
  BY NumbersAssumption
<1>12. TypeOK'
  <2>1. request' \in [Users -> Requests]
    BY <1>1, EmptyTyped
  <2> QED
    BY <1>1, <1>7, <1>9, <1>10, <1>11, <2>1, ZeroIsTime DEF IInv, TypeOK
<1>13. InputsOK'
  <2>1. NoRequest.op = "none" /\ NoRequest.session = 0
    BY DEF NoRequest
  <2>2. \A u \in Users : request'[u] = NoRequest /\ session'[u] \in Nat
    BY <1>1 DEF IInv, TypeOK
  <2>3. \A u \in Users : request'[u].op = "none" /\ request'[u].session <= session'[u]
    BY <2>1, <2>2
  <2> QED
    BY <1>1, <2>3 DEF IInv, InputsOK
<1> QED
  BY <1>1, <1>7, <1>8, <1>9, <1>12, <1>13, RestoreStep

-----------------------------------------------------------------------------
(* The theorems *)

LEMMA StutterStep ==
    ASSUME IInv, UNCHANGED vars
    PROVE  IInv'
<1>1. UNCHANGED <<clock, task, ledger, run, receipt, request, pc, moment, batch, undo,
                  fails, role, session, ident, book, broken, others, barred, used>>
  BY DEF vars, world, accounts, ticker
<1>2. TypeOK' /\ InputsOK' /\ Fits(run, Len(run), others)'
  BY <1>1 DEF IInv, TypeOK, InputsOK
<1>3. used'["jumps"] = 0 => used["jumps"] = 0 /\ clock <= clock' /\ moment' <= clock'
  BY <1>1, ClockTyped DEF IInv, SpacedOK
<1> QED
  BY <1>1, <1>2, <1>3, QuietStep

\* Every step keeps the invariant.
LEMMA NextIInv == IInv /\ [Next]_vars => IInv'
<1> SUFFICES ASSUME IInv, [Next]_vars
             PROVE  IInv'
  OBVIOUS
<1>1. ASSUME NEW u \in Users, NEW k \in Reviews, Preview(u, k) \/ SendSave(u, k)
      PROVE  IInv'
  BY <1>1, PreviewStep, SendStep
<1>2. ASSUME NEW u \in Users, NEW t \in Existing, SendState(u, t)
      PROVE  IInv'
  BY <1>2, SendStep
<1>3. ASSUME NEW u \in Users, NEW t \in Existing, NEW k \in Keys, SendRun(u, t, k)
      PROVE  IInv'
  BY <1>3, SendStep
<1>4. ASSUME NEW u \in Users, ApplySave(u) \/ ApplyState(u) \/ ApplyRun(u) \/ Answer(u)
      PROVE  IInv'
  BY <1>4, ApplySaveStep, ApplyStateStep, ApplyRunStep, AnswerStep
<1>5. CASE TickStep
  BY <1>5, TickQuietStep, BeginTickStep, TickTaskStep, RollbackStep, QuarantineStep
  DEF TickStep
<1>6. CASE CommitFails \/ TickAborts
  BY <1>6, RollbackStep, TickQuietStep
<1>7. ASSUME NEW r \in RunIds,
             \/ Claim(r) \/ Withdraw(r) \/ Authorize(r) \/ Preflight(r)
             \/ Contact(r) \/ Requeue(r) \/ Finish(r)
      PROVE  IInv'
  BY <1>7, ExecutionStep
<1>8. CASE \/ \E d \in Devices : ChangeDevice(d)
           \/ ReplaceBook
           \/ \E t \in Tasks : BreakOrMend(t)
           \/ OtherQueued
           \/ OtherEnds
           \/ Advance
           \/ JumpBack
  BY <1>8, WorldStep
<1>9. ASSUME NEW u \in Users, ChangeAccess(u)
      PROVE  IInv'
  BY <1>9, ChangeAccessStep
<1>10. CASE Restart
  BY <1>10, RestartStep
<1>11. CASE UNCHANGED vars
  BY <1>11, StutterStep
<1> QED
  BY <1>1, <1>2, <1>3, <1>4, <1>5, <1>6, <1>7, <1>8, <1>9, <1>10, <1>11 DEF Next

\* It always holds.
LEMMA IInvInvariant == Spec => []IInv
BY InitIInv, NextIInv, PTL DEF Spec

\* Every variable keeps its type, whatever tick, the requests, the executions and the
\* world around do.
THEOREM SchedulerTypeCorrect == Spec => []TypeOK
<1>1. IInv => TypeOK
  BY DEF IInv
<1> QED
  BY <1>1, IInvInvariant, PTL

\* dispatch never queues an occurrence twice for a device: not after a rollback, a
\* restart, an edit, a repeated request, or a clock that was set back.
THEOREM SchedulerOncePerOccurrence == Spec => []OncePerOccurrence
<1>1. IInv => OncePerOccurrence
  <2> SUFFICES ASSUME IInv
               PROVE  OncePerOccurrence
    OBVIOUS
  <2>1. RunIds = 1..Len(run) /\ Single(run, Len(run))
    BY OpenRowsCount DEF IInv
  <2> QED
    BY <2>1 DEF OncePerOccurrence, Single, Of
<1> QED
  BY <1>1, IInvInvariant, PTL

\* dispatch queues all the targets of an occurrence or none, within the capacity of
\* the queue.
THEOREM SchedulerAllOrNone == Spec => []AllOrNone
<1>1. IInv => AllOrNone
  <2> SUFFICES ASSUME IInv
               PROVE  AllOrNone
    OBVIOUS
  <2>1. RunIds = 1..Len(run)
        /\ OpenRows = Cardinality(OpenIn(run, Len(run))) + others
    BY OpenRowsCount DEF IInv
  <2>2. OpenRows <= Capacity
    BY <2>1 DEF IInv, Fits
  <2>3. ASSUME NEW o \in ledger
        PROVE  {run[r].device : r \in {q \in RunIds : /\ run[q].task = o.task
                                                      /\ run[q].source = o.source
                                                      /\ run[q].key = o.key}}
                    = IF o.status = "QUEUED" THEN o.devices ELSE {}
    BY <2>1 DEF IInv, Complete, DevicesOf, Of
  <2> QED
    BY <2>2, <2>3 DEF AllOrNone
<1> QED
  BY <1>1, IInvInvariant, PTL

\* has_active: a task's occurrences are never open together.
THEOREM SchedulerNoOverlap == Spec => []NoOverlap
<1>1. IInv => NoOverlap
  <2> SUFFICES ASSUME IInv
               PROVE  NoOverlap
    OBVIOUS
  <2>1. RunIds = 1..Len(run) /\ Apart(run, Len(run))
    BY OpenRowsCount DEF IInv
  <2> QED
    BY <2>1 DEF NoOverlap, Open, Apart, OpenIn, Of
<1> QED
  BY <1>1, IInvInvariant, PTL

\* next_time after tick's moment: no catch-up unless the clock is set back.
THEOREM SchedulerNoBurst == Spec => []NoBurst
<1>1. IInv => NoBurst
  BY DEF IInv
<1> QED
  BY <1>1, IInvInvariant, PTL

\* execute and preflight refuse what became stale while it waited.
THEOREM SchedulerBarredRunsAreRefused == Spec => []BarredRunsAreRefused
<1>1. IInv => BarredRunsAreRefused
  BY DEF IInv, BarredOK, Refusable, BarredRunsAreRefused
<1> QED
  BY <1>1, IInvInvariant, PTL

-----------------------------------------------------------------------------
(* The calendar *)

\* The time of a row is one of its rule and, unless the clock was set back, none comes
\* between now and it.
Chosen(w, now, jumps) ==
    w.revision > 0 /\ w.due # NoDue =>
        /\ IsTime(w.rule, w.due)
        /\ jumps = 0 => \A m \in Instants : now < m /\ m < w.due => ~IsTime(w.rule, m)

\* So are the times of all tasks, and those a rollback would leave.
CalendarOK ==
    /\ \A t \in Tasks : Chosen(task[t], clock, used["jumps"])
    /\ pc = "work" => \A t \in Tasks : Chosen(undo.task[t], clock, used["jumps"])

\* It stays chosen while time passes and nothing about its time changes.
LEMMA ChosenKept ==
    ASSUME NEW w, NEW v, NEW now \in Int, NEW later \in Int, NEW m, NEW n,
           Chosen(w, now, m),
           n = 0 => m = 0 /\ now <= later,
           v.revision = w.revision, v.rule = w.rule, v.due = w.due
    PROVE  Chosen(v, later, n)
<1>1. Instants \subseteq Int
  BY CalendarAssumption
<1>2. \A t \in Instants : n = 0 /\ later < t => now < t
  BY <1>1
<1> QED
  BY <1>2 DEF Chosen

\* What next_time returns is chosen, for any moment that has passed.
LEMMA ChosenNext ==
    ASSUME NEW w, NEW now \in Int, NEW n, NEW after \in 0..MaxTime,
           w.rule \in Rules, w.due = NextTime(w.rule, after),
           n = 0 => after <= now
    PROVE  Chosen(w, now, n)
<1>1. Instants \subseteq Int /\ after \in Int
  BY CalendarAssumption, NumbersAssumption
<1>2. \A t \in Instants : n = 0 /\ now < t => after < t
  BY <1>1
<1>3. w.due # NoDue =>
        /\ IsTime(w.rule, w.due)
        /\ \A t \in Instants : after < t /\ t < w.due => ~IsTime(w.rule, t)
  BY NextTimeLater
<1> QED
  BY <1>2, <1>3 DEF Chosen

\* A review that is saved and a request that resumes ask for the time after the clock ...
LEMMA RequestTimes ==
    ASSUME IInv, NEW u \in Users, ApplySave(u) \/ ApplyState(u) \/ ApplyRun(u), NEW t \in Tasks
    PROVE  \/ /\ task'[t].revision = task[t].revision
              /\ task'[t].rule = task[t].rule /\ task'[t].due = task[t].due
           \/ task'[t].rule \in Rules /\ task'[t].due = NextTime(task'[t].rule, clock)
<1>1. task \in [Tasks -> TaskRows]
  BY DEF IInv, TypeOK
<1>2. CASE ApplySave(u)
  <2> DEFINE k == request[u].key
             rc == receipt[k]
             s == TaskOf(rc)
             row == IF rc.task = 0 THEN [NoTask EXCEPT !.owner = u, !.creation = k]
                    ELSE task[s]
             n == row.revision + 1
             due == NextTime(rc.rule, clock)
             new == [row EXCEPT !.revision = n, !.rule = rc.rule, !.enabled = rc.enabled,
                                !.saved = rc.saved, !.due = due, !.attention = FALSE,
                                !.review = k]
  <2>1. task' = [task EXCEPT ![s] = new]
    BY <1>2, SMTT(60) DEF ApplySave
  <2>2. k \in Reviews /\ rc.rule \in Rules /\ (rc.task = 0 => Existing # Tasks)
    BY <1>2 DEF ApplySave, SaveAccepted, IInv, InputsOK
  <2>3. rc.task \in Tasks \union {0}
    BY <2>2 DEF IInv, TypeOK, Receipts
  <2>4. s \in Tasks
    <3> HIDE DEF rc
    <3> QED
      BY <2>2, <2>3, TaskOfFree
  <2>5. row \in TaskRows
    <3>1. [NoTask EXCEPT !.owner = u, !.creation = k] \in TaskRows
      <4> HIDE DEF k
      <4> QED
        BY <2>2, EmptyTyped DEF NoTask, TaskRows
    <3> HIDE DEF rc, s, k
    <3> QED
      BY <1>1, <2>4, <3>1
  <2> HIDE DEF k, rc, s, row, n, due
  <2>6. new.rule = rc.rule /\ new.due = due
    BY <2>5 DEF TaskRows
  <2> HIDE DEF new
  <2>7. task'[t] = new \/ task'[t] = task[t]
    BY <1>1, <2>1
  <2> QED
    BY <2>2, <2>6, <2>7 DEF due
<1>3. CASE ApplyState(u)
  <2> DEFINE s == request[u].task
             due == IF request[u].enabled THEN NextTime(task[s].rule, clock) ELSE task[s].due
  <2>1. s \in Tasks /\ task[s].revision > 0
    BY <1>3, FoundTask DEF ApplyState, StateAccepted
  <2>2. PICK e : task' = [task EXCEPT ![s].enabled = e, ![s].due = due]
    <3>1. task' = [task EXCEPT ![s].enabled = request[u].enabled,
                               ![s].due = IF request[u].enabled
                                          THEN NextTime(task[s].rule, clock) ELSE @]
      BY <1>3 DEF ApplyState
    <3>2. task[s] \in TaskRows
      BY <1>1, <2>1
    <3> HIDE DEF s
    <3> QED
      BY <1>1, <2>1, <3>1, <3>2 DEF TaskRows
  <2>3. task[s].rule \in Rules
    BY <2>1 DEF IInv, TasksOK
  <2>4. due = task[s].due \/ due = NextTime(task[s].rule, clock)
    OBVIOUS
  <2>5. task[s] \in TaskRows
    BY <1>1, <2>1
  <2> HIDE DEF s, due
  <2>6. /\ task'[s].revision = task[s].revision /\ task'[s].rule = task[s].rule
        /\ task'[s].due = due
    BY <1>1, <2>1, <2>2, <2>5 DEF TaskRows
  <2>7. t # s => task'[t] = task[t]
    BY <1>1, <2>2
  <2> QED
    BY <2>3, <2>4, <2>6, <2>7
<1>4. CASE ApplyRun(u)
  <2> DEFINE s == request[u].task
             new == Blocked(task[s], ManualVerdict(u))
  <2>1. s \in Tasks
    BY <1>4, FoundTask DEF ApplyRun, RunAccepted
  <2>2. task' = [task EXCEPT ![s] = new]
    BY <1>4 DEF ApplyRun
  <2> HIDE DEF s
  <2>3. task[s] \in TaskRows
    BY <1>1, <2>1
  <2>4. new.revision = task[s].revision /\ new.rule = task[s].rule /\ new.due = task[s].due
    BY <2>3 DEF TaskRows, Blocked
  <2> HIDE DEF new
  <2> QED
    BY <1>1, <2>2, <2>4
<1> QED
  BY <1>2, <1>3, <1>4

\* ... and tick for the one after its moment; a quarantined task keeps its own.
LEMMA TickTimes ==
    ASSUME IInv, TickTask \/ Quarantine, NEW t \in Tasks
    PROVE  \/ /\ task'[t].revision = task[t].revision
              /\ task'[t].rule = task[t].rule /\ task'[t].due = task[t].due
           \/ task'[t].rule \in Rules /\ task'[t].due = NextTime(task'[t].rule, moment)
<1>1. task \in [Tasks -> TaskRows]
  BY DEF IInv, TypeOK
<1>2. CASE TickTask
  <2> DEFINE s == Foremost
             row == Blocked(task[s], TickVerdict(s))
             next == NextDue(s)
             on == row.enabled /\ Continues(s)
             new == [row EXCEPT !.enabled = on, !.due = next]
  <2>1. s \in Tasks /\ task[s].revision > 0
    BY <1>2, ForemostFacts DEF TickTask
  <2>2. task' = [task EXCEPT ![s] = new]
    BY <1>2 DEF TickTask
  <2>3. task[s].rule \in Rules /\ next = NextTime(task[s].rule, moment)
    BY <2>1 DEF IInv, TasksOK, NextDue
  <2> HIDE DEF s, next, on
  <2>4. task[s] \in TaskRows
    BY <1>1, <2>1
  <2>5. row \in TaskRows
    BY <2>4, TaskRowBlocked
  <2>6. row.rule = task[s].rule
    BY <2>4 DEF TaskRows, Blocked
  <2> HIDE DEF row
  <2>7. new.rule = task[s].rule /\ new.due = next
    BY <2>5, <2>6 DEF TaskRows
  <2> HIDE DEF new
  <2>8. task'[t] = new \/ task'[t] = task[t]
    BY <1>1, <2>2
  <2> QED
    BY <2>3, <2>7, <2>8
<1>3. CASE Quarantine
  <2>1. task'[t] = task[t] \/ task'[t] = Disabled(task[t])
    BY <1>3 DEF Quarantine
  <2>2. task[t] \in TaskRows
    BY <1>1
  <2>3. /\ Disabled(task[t]).revision = task[t].revision
        /\ Disabled(task[t]).rule = task[t].rule /\ Disabled(task[t]).due = task[t].due
    BY <2>2 DEF Disabled, TaskRows
  <2> QED
    BY <2>1, <2>3
<1> QED
  BY <1>2, <1>3

\* Unless it is set back, the clock never goes back, and tick keeps what a rollback would
\* leave, which is what there was when it began.
LEMMA ClockSteps ==
    ASSUME IInv, [Next]_vars
    PROVE  /\ used'["jumps"] = 0 => used["jumps"] = 0 /\ clock <= clock'
           /\ pc' = "work" => \/ pc = "work" /\ undo' = undo
                              \/ undo'.task = task
<1>1. used \in [Counted -> Nat] /\ clock \in Int
  BY ClockTyped, SMTT(60) DEF IInv, TypeOK
<1>2. \/ clock' = clock \/ Advance \/ JumpBack
  BY ZenonT(60) DEF Next, vars, Preview, SendSave, SendState, SendRun, Wait, Answer, ApplySave,
         ApplyState, ApplyRun, TickStep, ReadClock, BeginTick, TickTask, TickFails,
         CommitTick, CommitFails, Quarantine, TickAborts, Claim, Withdraw, Authorize,
         Preflight, Contact, Requeue, Finish, Elsewhere, ChangeDevice, ChangeAccess,
         ReplaceBook, BreakOrMend, OtherQueued, OtherEnds, Restart
<1>3. UNCHANGED used \/ \E c \in Counted : May(c)
  BY ZenonT(60) DEF Next, vars, Preview, SendSave, SendState, SendRun, Wait, Answer, ApplySave,
         ApplyState, ApplyRun, TickStep, ReadClock, BeginTick, TickTask, TickFails,
         CommitTick, CommitFails, Quarantine, TickAborts, Claim, Withdraw, Authorize,
         Preflight, Contact, Requeue, Finish, Elsewhere, ChangeDevice, ChangeAccess,
         ReplaceBook, BreakOrMend, OtherQueued, OtherEnds, Advance, JumpBack, Restart,
         Counted
<1>4. used'["jumps"] = 0 => used["jumps"] = 0
  BY <1>1, <1>3, MayCounts DEF Counted
<1>5. JumpBack => used'["jumps"] # 0
  BY <1>1, MayCounts DEF JumpBack, Counted
<1>6. used'["jumps"] = 0 => clock <= clock'
  BY <1>1, <1>2, <1>5 DEF Advance
<1>7. pc' = "work" => \/ pc = "work" /\ undo' = undo
                      \/ undo'.task = task
  <2>1. \/ UNCHANGED <<pc, undo>>
        \/ TickStep \/ CommitFails \/ TickAborts \/ Restart
    BY DEF Next, vars, ticker, Preview, SendSave, SendState, SendRun, Wait, Answer,
           ApplySave, ApplyState, ApplyRun, Claim, Withdraw, Authorize, Preflight, Contact,
           Requeue, Finish, Elsewhere, ChangeDevice, ChangeAccess, ReplaceBook,
           BreakOrMend, OtherQueued, OtherEnds, Advance, JumpBack
  <2>2. CASE ReadClock \/ BeginTick \/ TickTask
    BY <2>2 DEF ReadClock, BeginTick, TickTask, Idle
  <2>3. CASE TickFails
    BY <2>3 DEF TickFails, Idle
  <2>4. CASE CommitTick \/ CommitFails \/ Quarantine \/ TickAborts \/ Restart
    BY <2>4 DEF CommitTick, CommitFails, Quarantine, TickAborts, Restart, Idle
  <2> QED
    BY <2>1, <2>2, <2>3, <2>4 DEF TickStep
<1> QED
  BY <1>4, <1>6, <1>7

\* The times are chosen at the beginning ...
LEMMA InitCalendar == Init => CalendarOK
<1> SUFFICES ASSUME Init, NEW t \in Tasks
             PROVE  Chosen(task[t], clock, used["jumps"])
  BY DEF CalendarOK, Init
<1>1. clock = 0
  BY DEF Init
<1>2. CASE task[t] = NoTask
  BY <1>2 DEF Chosen, NoTask
<1>3. CASE task[t] # NoTask
  <2>1. PICK u \in Users, rule \in Rules, s \in Selections, b \in {NoBook, book} :
            task[t] = StoredRow(u, rule, s, b)
    BY <1>3 DEF Init
  <2>2. task[t].rule = rule /\ task[t].due = NextTime(rule, 0)
    BY <2>1 DEF StoredRow, NoTask
  <2> QED
    BY <1>1, <2>2, ZeroIsTime, ChosenNext
<1> QED
  BY <1>2, <1>3

\* ... and every step keeps them so.
LEMMA NextCalendar == IInv /\ CalendarOK /\ [Next]_vars => CalendarOK'
<1> SUFFICES ASSUME IInv, CalendarOK, [Next]_vars
             PROVE  CalendarOK'
  OBVIOUS
<1>1. clock \in 0..MaxTime /\ moment \in 0..MaxTime /\ clock \in Int /\ clock' \in Int
      /\ (used["jumps"] = 0 => moment <= clock)
  BY NextIInv, ClockTyped DEF IInv, TypeOK, SpacedOK
<1>2. /\ used'["jumps"] = 0 => used["jumps"] = 0 /\ clock <= clock'
      /\ pc' = "work" => (pc = "work" /\ undo' = undo) \/ undo'.task = task
  BY ClockSteps
<1>3. ASSUME NEW w, Chosen(w, clock, used["jumps"])
      PROVE  Chosen(w, clock', used'["jumps"])
  BY <1>1, <1>2, <1>3, ChosenKept
<1>4. ASSUME NEW t \in Tasks
      PROVE  Chosen(task'[t], clock', used'["jumps"])
  <2>1. Chosen(task[t], clock, used["jumps"])
    BY DEF CalendarOK
  <2>2. CASE /\ task'[t].revision = task[t].revision
             /\ task'[t].rule = task[t].rule /\ task'[t].due = task[t].due
    BY <1>1, <1>2, <2>1, <2>2, ChosenKept
  <2>3. ASSUME NEW after \in {clock, moment}, task'[t].rule \in Rules,
               task'[t].due = NextTime(task'[t].rule, after)
        PROVE  Chosen(task'[t], clock', used'["jumps"])
    <3>1. after \in 0..MaxTime /\ (used'["jumps"] = 0 => after <= clock')
      BY <1>1, <1>2
    <3> QED
      BY <1>1, <2>3, <3>1, ChosenNext
  <2>4. CASE pc = "work" /\ task' = undo.task
    BY <1>3, <2>4 DEF CalendarOK
  <2>5. \/ UNCHANGED task
        \/ \E u \in Users : ApplySave(u) \/ ApplyState(u) \/ ApplyRun(u)
        \/ TickTask \/ Quarantine
        \/ pc = "work" /\ task' = undo.task
    BY DEF Next, vars, Preview, SendSave, SendState, SendRun, Wait, Answer, TickStep,
           ReadClock, BeginTick, TickFails, CommitTick, CommitFails, Rollback, TickAborts,
           Claim, Withdraw, Authorize, Preflight, Contact, Requeue, Finish, Elsewhere,
           ChangeDevice, ChangeAccess, ReplaceBook, BreakOrMend, OtherQueued, OtherEnds,
           Advance, JumpBack, Restart
  <2>6. CASE \E u \in Users : ApplySave(u) \/ ApplyState(u) \/ ApplyRun(u)
    BY <2>2, <2>3, <2>6, RequestTimes
  <2>7. CASE TickTask \/ Quarantine
    BY <2>2, <2>3, <2>7, TickTimes
  <2> QED
    BY <2>2, <2>4, <2>5, <2>6, <2>7
<1>5. ASSUME pc' = "work", NEW t \in Tasks
      PROVE  Chosen(undo'.task[t], clock', used'["jumps"])
  <2>1. Chosen(undo'.task[t], clock, used["jumps"])
    BY <1>2, <1>5 DEF CalendarOK
  <2> QED
    BY <1>3, <2>1
<1> QED
  BY <1>4, <1>5 DEF CalendarOK

\* It always holds.
LEMMA CalendarInvariant == Spec => []CalendarOK
<1>1. IInv /\ CalendarOK /\ [Next]_vars => CalendarOK'
  BY NextCalendar
<1> QED
  BY <1>1, InitCalendar, IInvInvariant, PTL DEF Spec

\* Whatever enables a task gives it a time: the least one that its rule stands for after
\* the clock it read, on a clock that may be put forward or back; and none comes before it
\* later, unless the system clock is set back.
THEOREM SchedulerEnabledIsScheduled == Spec => []EnabledIsScheduled
<1>1. IInv /\ CalendarOK => EnabledIsScheduled
  BY DEF IInv, TasksOK, CalendarOK, Chosen, EnabledIsScheduled, Existing
<1> QED
  BY <1>1, IInvInvariant, CalendarInvariant, PTL

-----------------------------------------------------------------------------
(* Action properties *)

\* Only save makes a revision: a rollback undoes none, since no request is served
\* within tick's transaction.
LEMMA OnlySaveRevises ==
    ASSUME IInv, Next, ~ \E u \in Users : ApplySave(u)
    PROVE  \A t \in Tasks : task'[t].revision = task[t].revision
<1>0. task \in [Tasks -> TaskRows]
  BY DEF IInv, TypeOK
<1>1. CASE UNCHANGED task
  BY <1>1
<1>2. ASSUME NEW u \in Users, ApplyState(u)
      PROVE  \A t \in Tasks : task'[t].revision = task[t].revision
  <2> DEFINE t == request[u].task
  <2>1. t \in Tasks
    BY <1>2, FoundTask DEF ApplyState, StateAccepted
  <2>2. PICK e, d : task' = [task EXCEPT ![t].enabled = e, ![t].due = d]
    BY <1>2 DEF ApplyState
  <2> HIDE DEF t
  <2>3. task[t] \in TaskRows
    BY <1>0, <2>1
  <2>4. task'[t].revision = task[t].revision
    BY <1>0, <2>1, <2>2, <2>3 DEF TaskRows
  <2> QED
    BY <1>0, <2>2, <2>4
<1>3. ASSUME NEW u \in Users, ApplyRun(u)
      PROVE  \A t \in Tasks : task'[t].revision = task[t].revision
  <2> DEFINE t == request[u].task
             new == Blocked(task[t], ManualVerdict(u))
  <2>1. t \in Tasks
    BY <1>3, FoundTask DEF ApplyRun, RunAccepted
  <2>2. task' = [task EXCEPT ![t] = new]
    BY <1>3 DEF ApplyRun
  <2> HIDE DEF t
  <2>3. task[t] \in TaskRows
    BY <1>0, <2>1
  <2>4. new.revision = task[t].revision
    BY <2>3 DEF TaskRows, Blocked
  <2> HIDE DEF new
  <2> QED
    BY <1>0, <2>2, <2>4
<1>4. CASE TickTask
  <2> DEFINE t == Foremost
             row == Blocked(task[t], TickVerdict(t))
             next == NextDue(t)
             on == row.enabled /\ Continues(t)
             new == [row EXCEPT !.enabled = on, !.due = next]
  <2>1. t \in Tasks
    BY <1>4, ForemostFacts DEF TickTask
  <2>2. task' = [task EXCEPT ![t] = new]
    BY <1>4 DEF TickTask
  <2> HIDE DEF t, next, on
  <2>3. task[t] \in TaskRows
    BY <1>0, <2>1
  <2>4. row \in TaskRows /\ row.revision = task[t].revision
    <3>1. row \in TaskRows
      BY <2>3, TaskRowBlocked
    <3>2. row.revision = task[t].revision
      BY <2>3 DEF TaskRows, Blocked
    <3> QED
      BY <3>1, <3>2
  <2> HIDE DEF row
  <2>5. new.revision = task[t].revision
    BY <2>4 DEF TaskRows
  <2> HIDE DEF new
  <2> QED
    BY <1>0, <2>2, <2>5
<1>5. CASE Quarantine
  <2>1. ASSUME NEW t \in Tasks
        PROVE  Disabled(task[t]).revision = task[t].revision
    <3>1. task[t] \in TaskRows
      BY <1>0
    <3> QED
      BY <3>1 DEF Disabled, TaskRows
  <2>2. task' = [t \in Tasks |-> IF t \in batch THEN Disabled(task[t]) ELSE task[t]]
    BY <1>5 DEF Quarantine
  <2> QED
    BY <2>1, <2>2
<1>6. CASE pc = "work" /\ task' = undo.task
  BY <1>6 DEF IInv, UndoOK
<1>7. \/ UNCHANGED task
      \/ \E u \in Users : ApplyState(u) \/ ApplyRun(u)
      \/ TickTask \/ Quarantine
      \/ pc = "work" /\ task' = undo.task
  BY DEF Next, Preview, SendSave, SendState, SendRun, Wait, Answer, TickStep, ReadClock,
         BeginTick, TickFails, CommitTick, CommitFails, Rollback, TickAborts, Claim,
         Withdraw, Authorize, Preflight, Contact, Requeue, Finish, Elsewhere,
         ChangeDevice, ChangeAccess, ReplaceBook, BreakOrMend, OtherQueued, OtherEnds,
         Advance, JumpBack, Restart
<1> QED
  BY <1>1, <1>2, <1>3, <1>4, <1>5, <1>6, <1>7

\* save compares the revision under LOCK: of the edits of one revision one is saved.
THEOREM SchedulerNoLostEdit == Spec => NoLostEdit
<1> DEFINE A == \A t \in Existing : task'[t].revision # task[t].revision =>
                    \E k \in Reviews : /\ receipt[k].task = t
                                       /\ receipt[k].revision = task[t].revision
                                       /\ task'[t].saved = receipt[k].saved
                                       /\ task'[t].rule = receipt[k].rule
<1>1. IInv /\ [Next]_vars => [A]_vars
  <2> SUFFICES ASSUME IInv, Next
               PROVE  A
    OBVIOUS
  <2>1. ASSUME NEW u \in Users, ApplySave(u), NEW t \in Existing,
               task'[t].revision # task[t].revision
        PROVE  \E k \in Reviews : /\ receipt[k].task = t
                                  /\ receipt[k].revision = task[t].revision
                                  /\ task'[t].saved = receipt[k].saved
                                  /\ task'[t].rule = receipt[k].rule
    <3> DEFINE k == request[u].key
               rc == receipt[k]
               s == TaskOf(rc)
               row == IF rc.task = 0 THEN [NoTask EXCEPT !.owner = u, !.creation = k]
                      ELSE task[s]
               n == row.revision + 1
               due == NextTime(rc.rule, clock)
               new == [row EXCEPT !.revision = n, !.rule = rc.rule, !.enabled = rc.enabled,
                                  !.saved = rc.saved, !.due = due, !.attention = FALSE,
                                  !.review = k]
    <3>1. task' = [task EXCEPT ![s] = new]
      BY <2>1, SMTT(60) DEF ApplySave
    <3>2. /\ k \in Reviews
          /\ \/ rc.task # 0 /\ Reviewed(rc.task, rc)
             \/ rc.task = 0 /\ Existing # Tasks
      BY <2>1 DEF ApplySave, SaveAccepted, IInv, InputsOK
    <3>3. rc.task \in Tasks \union {0}
      BY <3>2 DEF IInv, TypeOK, Receipts
    <3>4. s \in Tasks /\ (rc.task = 0 => s \notin Existing) /\ (rc.task # 0 => s = rc.task)
      <4> HIDE DEF rc
      <4> QED
        BY <3>2, <3>3, TaskOfFree
    <3>5. task \in [Tasks -> TaskRows] /\ t \in Tasks
      BY DEF IInv, TypeOK, Existing
    <3> HIDE DEF new
    <3>6. s = t
      BY <2>1, <3>1, <3>5
    <3>7. rc.task = t /\ rc.revision = task[t].revision
      BY <3>2, <3>4, <3>6 DEF Reviewed
    <3>8. row = task[t] /\ row \in TaskRows
      <4>1. rc.task # 0
        BY <3>4, <3>6
      <4> QED
        BY <3>5, <3>6, <4>1
    <3>9. new.saved = rc.saved /\ new.rule = rc.rule
      <4> HIDE DEF rc, k, n, due, row
      <4> QED
        BY <3>8 DEF new, TaskRows
    <3>10. task'[t] = new
      BY <3>1, <3>5, <3>6
    <3> QED
      BY <3>2, <3>7, <3>9, <3>10
  <2>2. CASE \E u \in Users : ApplySave(u)
    BY <2>1, <2>2
  <2>3. CASE ~ \E u \in Users : ApplySave(u)
    BY <2>3, OnlySaveRevises DEF Existing
  <2> QED
    BY <2>2, <2>3
<1> QED
  BY <1>1, IInvInvariant, PTL DEF Spec, NoLostEdit

\* The second query of tick, under LOCK, finds only enabled tasks, and none is paused
\* before the transaction ends.
THEOREM SchedulerPauseHolds == Spec => PauseHolds
<1> DEFINE A == \A o \in ledger' \ ledger :
                    o.source = "scheduled" => task[o.task].enabled
<1>1. IInv /\ [Next]_vars => [A]_vars
  <2> SUFFICES ASSUME IInv, Next
               PROVE  A
    OBVIOUS
  <2>1. CASE ledger' \subseteq ledger
    BY <2>1
  <2>2. ASSUME NEW u \in Users, ApplyRun(u)
        PROVE  A
    <3>1. \A o \in ledger' \ ledger : o.source = "manual"
      BY <2>2 DEF ApplyRun, AddOccurrence
    <3> QED
      BY <3>1
  <2>3. CASE TickTask
    <3>1. \A o \in ledger' \ ledger : o.task = Foremost
      BY <2>3 DEF TickTask, AddOccurrence
    <3>2. task[Foremost].enabled
      BY <2>3, ForemostFacts DEF TickTask
    <3> QED
      BY <3>1, <3>2
  <2>4. CASE pc = "work" /\ ledger' = undo.ledger
    BY <2>4, SMTT(60) DEF IInv, UndoOK
  <2>5. \/ ledger' = ledger
        \/ \E u \in Users : ApplyRun(u)
        \/ TickTask
        \/ pc = "work" /\ ledger' = undo.ledger
    BY DEF Next, Preview, SendSave, SendState, SendRun, Wait, Answer, ApplySave,
           ApplyState, TickStep, ReadClock, BeginTick, TickFails, CommitTick, CommitFails,
           Rollback, Quarantine, TickAborts, Claim, Withdraw, Authorize, Preflight,
           Contact, Requeue, Finish, Elsewhere, ChangeDevice, ChangeAccess, ReplaceBook,
           BreakOrMend, OtherQueued, OtherEnds, Advance, JumpBack, Restart
  <2> QED
    BY <2>1, <2>2, <2>3, <2>4, <2>5
<1> QED
  BY <1>1, IInvInvariant, PTL DEF Spec, PauseHolds

=============================================================================
