--------------------------- MODULE ConsoleProofs ---------------------------
(***************************************************************************)
(* The console keeps the invariants of its three parts, whose proofs are   *)
(* in modules of their own: a step of one part leaves the state of the     *)
(* others alone.                                                           *)
(***************************************************************************)
EXTENDS Console, InventoryProofs, TelemetryProofs

UsedOK == used \in [Kinds -> Nat]

AccountsInv == AccountsTyped /\ ThrottleOK /\ SessionsOK

InventoryInv == InventoryTyped /\ GroupsOK /\ BooksOK

TelemetryInv == TelemetryTyped /\ PendingOK /\ SamplesOK /\ HealthOK

ConsoleInv == UsedOK /\ AccountsInv /\ InventoryInv /\ TelemetryInv

LEMMA ConsoleInit == Init => ConsoleInv
<1> SUFFICES ASSUME Init PROVE ConsoleInv
  OBVIOUS
<1>1. UsedOK
  BY DEF Init, AccountsInit, UsedOK
<1>2. AccountsInv
  BY AccountsTypedInit, ThrottleInit, SessionsInit DEF Init, AccountsInv
<1>3. InventoryInv
  BY InventoryTypedInit, GroupsInit, BooksInit DEF Init, InventoryInv
<1>4. TelemetryInv
  BY TelemetryTypedInit, PendingInit, SamplesInit, HealthInit DEF Init, TelemetryInv
<1> QED
  BY <1>1, <1>2, <1>3, <1>4 DEF ConsoleInv

\* Requests that are counted stay within the budgets.
LEMMA CountedUsed == ASSUME NEW kind, Counted(kind) PROVE UsedOK'
  BY AccountsAssumption DEF Counted, UsedOK, Kinds

LEMMA UsedStep == UsedOK /\ [Next]_vars => UsedOK'
<1> SUFFICES ASSUME UsedOK, [Next]_vars PROVE UsedOK'
  OBVIOUS
<1>1. UNCHANGED used => UsedOK'
  BY DEF UsedOK
<1>2. CASE AccountsNext
  BY <1>1, <1>2, CountedUsed DEF AccountsNext, SignInEnds, WindowEnds, ChangeEnds
<1>3. CASE InventoryNext
  BY <1>1, <1>3, CountedUsed
     DEF InventoryNext, VerifyEnds, Lapses, AddEnds, EditEnds, RetireEnds, UploadEnds, EditFails, Commits
<1>4. CASE TelemetryNext
  BY <1>1, <1>4, CountedUsed DEF TelemetryNext, Locks, SampleFails, SampleEnds, WaitEnds, Ages, PatchCommits, PatchFails
<1>5. CASE UNCHANGED vars
  BY <1>1, <1>5 DEF vars
<1> QED
  BY <1>2, <1>3, <1>4, <1>5 DEF Next

\* The steps that are not a part's own do not change its state.
LEMMA PartsOfStep ==
  ASSUME [Next]_vars
  PROVE  /\ AccountsNext \/ UNCHANGED accountVars
         /\ InventoryNext \/ UNCHANGED inventoryVars
         /\ TelemetryNext \/ UNCHANGED telemetryVars
  BY DEF Next, vars

LEMMA AccountsStep == AccountsInv /\ (AccountsNext \/ UNCHANGED accountVars) => AccountsInv'
<1>1. AccountsInv /\ AccountsNext => AccountsInv'
  BY AccountsTypedStep, ThrottleStep, SessionsStep DEF AccountsInv
<1>2. AccountsInv /\ UNCHANGED accountVars => AccountsInv'
  <2> SUFFICES ASSUME AccountsInv, UNCHANGED accountVars PROVE AccountsInv'
    OBVIOUS
  <2>1. UNCHANGED user /\ UNCHANGED sessions /\ UNCHANGED counter
    BY DEF accountVars
  <2>2. UNCHANGED request /\ UNCHANGED failures /\ UNCHANGED raced
    BY DEF accountVars
  <2>3. AccountsTyped'
    BY <2>1, <2>2 DEF AccountsInv, AccountsTyped
  <2>4. ThrottleOK'
    BY <2>1, <2>2 DEF AccountsInv, ThrottleOK, Verifying, Waiting
  <2>5. SessionsOK'
    BY <2>1, <2>2 DEF AccountsInv, SessionsOK, Verifying, Changing
  <2> QED
    BY <2>3, <2>4, <2>5 DEF AccountsInv
<1> QED
  BY <1>1, <1>2

LEMMA InventoryStep == InventoryInv /\ (InventoryNext \/ UNCHANGED inventoryVars) => InventoryInv'
<1>1. InventoryInv /\ InventoryNext => InventoryInv'
  BY InventoryTypedStep, GroupsStep, BooksStep DEF InventoryInv
<1>2. InventoryInv /\ UNCHANGED inventoryVars => InventoryInv'
  <2> SUFFICES ASSUME InventoryInv, UNCHANGED inventoryVars PROVE InventoryInv'
    OBVIOUS
  <2>1. UNCHANGED device /\ UNCHANGED retired /\ UNCHANGED verified /\ UNCHANGED books
    BY DEF inventoryVars
  <2>2. UNCHANGED edit /\ UNCHANGED restored /\ UNCHANGED crossed
    BY DEF inventoryVars
  <2>3. InventoryTyped'
    BY <2>1, <2>2 DEF InventoryInv, InventoryTyped
  <2>4. GroupsOK'
    BY <2>1, <2>2 DEF InventoryInv, GroupsOK, Active, Alone, Vacant
  <2>5. BooksOK'
    BY <2>1, <2>2 DEF InventoryInv, BooksOK, Alone
  <2> QED
    BY <2>3, <2>4, <2>5 DEF InventoryInv
<1> QED
  BY <1>1, <1>2

LEMMA TelemetryStep == TelemetryInv /\ (TelemetryNext \/ UNCHANGED telemetryVars) => TelemetryInv'
<1>1. TelemetryInv /\ TelemetryNext => TelemetryInv'
  BY TelemetryTypedStep, PendingStep, SamplesStep, HealthStep DEF TelemetryInv
<1>2. TelemetryInv /\ UNCHANGED telemetryVars => TelemetryInv'
  <2> SUFFICES ASSUME TelemetryInv, UNCHANGED telemetryVars PROVE TelemetryInv'
    OBVIOUS
  <2>1. UNCHANGED target /\ UNCHANGED health /\ UNCHANGED counters /\ UNCHANGED cache /\ UNCHANGED owner
    BY DEF telemetryVars
  <2>2. UNCHANGED reader /\ UNCHANGED holder /\ UNCHANGED patches /\ UNCHANGED mixed /\ UNCHANGED late
    BY DEF telemetryVars
  <2>3. TelemetryTyped'
    BY <2>1, <2>2 DEF TelemetryInv, TelemetryTyped
  <2>4. PendingOK'
    BY <2>1, <2>2 DEF TelemetryInv, PendingOK
  <2>5. SamplesOK' /\ HealthOK'
    BY <2>1, <2>2 DEF TelemetryInv, SamplesOK, HealthOK, HealthIsCurrent, Overlooked
  <2> QED
    BY <2>3, <2>4, <2>5 DEF TelemetryInv
<1> QED
  BY <1>1, <1>2

LEMMA ConsoleStep == ConsoleInv /\ [Next]_vars => ConsoleInv'
  BY UsedStep, PartsOfStep, AccountsStep, InventoryStep, TelemetryStep DEF ConsoleInv

LEMMA ConsoleInvariant == Spec => []ConsoleInv
  BY ConsoleInit, ConsoleStep, PTL DEF Spec

-----------------------------------------------------------------------------
(* Results.                                                                *)

LEMMA ConsoleTyped == ConsoleInv => TypeOK
<1> SUFFICES ASSUME ConsoleInv PROVE TypeOK
  OBVIOUS
<1>1. AccountsTypeOK
  BY DEF ConsoleInv, AccountsInv, AccountsTyped, ThrottleOK, UsedOK, AccountsTypeOK, UserRows
<1>2. InventoryTypeOK
  BY DEF ConsoleInv, InventoryInv, InventoryTyped, InventoryTypeOK
<1>3. TelemetryTypeOK
  BY DEF ConsoleInv, TelemetryInv, TelemetryTyped, TelemetryTypeOK
<1> QED
  BY <1>1, <1>2, <1>3 DEF TypeOK

\* Rows, requests, counters and samples stay what the code takes them for; no row of an
\* address counts more attempts than the limit, and the cache of samples keeps its size.
THEOREM ConsoleTypeCorrect == Spec => []TypeOK
  BY ConsoleInvariant, ConsoleTyped, PTL

\* login: in no window are more passwords from one address refused or being verified
\* than the limit, whatever sign-ins run together and whenever windows end.
THEOREM ThrottleIsBounded == Spec => []FailuresBounded
<1>1. ConsoleInv => FailuresBounded
  BY ThrottleBounds DEF ConsoleInv, AccountsInv
<1> QED
  BY <1>1, ConsoleInvariant, PTL

\* user_item and password: a change of role, state or password leaves no earlier session
\* that is accepted then or later, as long as no two requests overlap.
THEOREM ChangesEndSessions == Spec => SignsOut
<1> DEFINE Step == \A u \in Users : ~raced' /\ user[u] # Absent /\ Differs(user[u], user'[u])
                      => \A s \in sessions : s.user = u => s.version < user'[u].version
<1>1. ConsoleInv /\ [Next]_vars => [Step]_<<accountVars, used>>
  BY PartsOfStep, ChangesSignOut DEF ConsoleInv, AccountsInv
<1> QED
  BY <1>1, ConsoleInvariant, PTL DEF Spec, SignsOut

\* groups, devices and import_candidates: no device is active in an archived group but
\* one that was restored, unless two requests overlapped.
THEOREM GroupsStayEmpty == Spec => []ArchivedGroupsEmpty
<1>1. ConsoleInv => ArchivedGroupsEmpty
  BY GroupsEmpty DEF ConsoleInv, InventoryInv
<1> QED
  BY <1>1, ConsoleInvariant, PTL

\* upload: the last version of a name is its only active one, unless two uploads overlapped.
THEOREM LastVersionIsActive == Spec => []OneActiveVersion
<1>1. ConsoleInv => OneActiveVersion
  BY LastVersionActive DEF ConsoleInv, InventoryInv
<1> QED
  BY <1>1, ConsoleInvariant, PTL

\* coalesced_sample: every answer, and every rate in it, is of the target it was asked for.
THEOREM AnswersAreOfTheirTarget == Spec => []AnswersAreOwn
<1>1. ConsoleInv => AnswersAreOwn
  BY OwnAnswers DEF ConsoleInv, TelemetryInv
<1> QED
  BY <1>1, ConsoleInvariant, PTL

\* coalesced_sample: each key is sampled by one thread, and who waits waits for one that samples.
THEOREM SamplingIsOwned == Spec => []PendingIsOwned
<1>1. ConsoleInv => PendingIsOwned
  BY PendingOwned DEF ConsoleInv, TelemetryInv
<1> QED
  BY <1>1, ConsoleInvariant, PTL

\* change_device and credential_item: the health that is stored is of the device and the
\* credential as they are, however edits overlap, unless a sample was stored after its
\* target had changed or during an edit that had found none.
THEOREM HealthStaysCurrent == Spec => []HealthIsCurrent
<1>1. ConsoleInv => HealthIsCurrent
  BY DEF ConsoleInv, TelemetryInv, HealthOK
<1> QED
  BY <1>1, ConsoleInvariant, PTL
=============================================================================
