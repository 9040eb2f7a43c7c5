-------------------------- MODULE InventoryProofs ---------------------------
(***************************************************************************)
(* Proofs about Accounts and about Inventory, which extends it, for every  *)
(* number of accounts, addresses, threads, attempts, devices and groups.   *)
(***************************************************************************)
EXTENDS Inventory, FiniteSetTheorems, SequenceTheorems, TLAPS

UserRows == [role : Roles \union {"NONE"}, enabled : BOOLEAN, temporary : BOOLEAN, version : Nat]

ChangeRequests ==
    [op : {"change"}, who : Users, role : Roles, enabled : BOOLEAN, reset : BOOLEAN, row : UserRows, alone : BOOLEAN]

PasswordRequests == [op : {"password"}, who : Users, row : UserRows, alone : BOOLEAN]

\* A sign-in counts in the row of its address and in the one of its account.
SignInOK(q) ==
    /\ q = [op |-> "verify", from |-> q.from, who |-> q.who, windows |-> q.windows, row |-> q.row]
    /\ q.from \in Sources /\ q.who \in Users /\ q.row \in UserRows
    /\ q.windows \in [{q.from, q.who} -> Nat]

RequestOK(q) == q = Free \/ q \in ChangeRequests \/ q \in PasswordRequests \/ SignInOK(q)

\* The three sorts of requests are told apart by what they do.
LEMMA RequestSorts ==
  ASSUME NEW q
  PROVE  /\ SignInOK(q) => q.op = "verify" /\ "alone" \notin DOMAIN q
         /\ q \in ChangeRequests => q.op = "change"
         /\ q \in PasswordRequests => q.op = "password"
<1>1. ASSUME SignInOK(q) PROVE q.op = "verify" /\ "alone" \notin DOMAIN q
  <2>1. q = [op |-> "verify", from |-> q.from, who |-> q.who, windows |-> q.windows, row |-> q.row]
    BY <1>1 DEF SignInOK
  <2>2. q.op = "verify"
    BY <2>1
  <2>3. DOMAIN q = {"op", "from", "who", "windows", "row"}
    BY <2>1
  <2> QED
    BY <2>2, <2>3
<1> QED
  BY <1>1 DEF ChangeRequests, PasswordRequests

(***************************************************************************)
(* The type invariant with the types of requests.                          *)
(***************************************************************************)
AccountsTyped ==
    /\ user \in [Users -> UserRows]
    /\ sessions \subseteq [user : Users, version : Nat]
    /\ counter \in [Keys -> [count : Nat, window : Nat]]
    /\ failures \in [Keys -> Nat] /\ raced \in BOOLEAN
    /\ DOMAIN request = Threads /\ request = [t \in Threads |-> request[t]]
    /\ \A t \in Threads : RequestOK(request[t])

LEMMA AccountsTypedInit == AccountsInit => AccountsTyped
<1> SUFFICES ASSUME AccountsInit PROVE AccountsTyped
  OBVIOUS
<1>1. user \in [Users -> UserRows]
  BY DEF AccountsInit, UserRows, Absent, Roles
<1>2. sessions \subseteq [user : Users, version : Nat]
  BY DEF AccountsInit, Admins
<1> QED
  BY <1>1, <1>2 DEF AccountsInit, AccountsTyped, RequestOK

LEMMA WrittenType ==
  ASSUME AccountsTyped, NEW u \in Users, NEW loaded \in UserRows, NEW new \in UserRows
  PROVE  Written(u, loaded, new) \in UserRows
<1>1. user[u] \in UserRows
  BY DEF AccountsTyped
<1>2. DOMAIN new = {"role", "enabled", "temporary", "version"}
  BY DEF UserRows
<1>3. DOMAIN Written(u, loaded, new) = {"role", "enabled", "temporary", "version"}
  BY <1>2 DEF Written
<1>4. \A c \in DOMAIN new : Written(u, loaded, new)[c] \in {user[u][c], new[c]}
  BY DEF Written
<1>5. Written(u, loaded, new) = [role |-> Written(u, loaded, new).role, enabled |-> Written(u, loaded, new).enabled,
                                 temporary |-> Written(u, loaded, new).temporary,
                                 version |-> Written(u, loaded, new).version]
  BY <1>2 DEF Written
<1>6. /\ Written(u, loaded, new).role \in Roles \union {"NONE"}
      /\ Written(u, loaded, new).enabled \in BOOLEAN
      /\ Written(u, loaded, new).temporary \in BOOLEAN
      /\ Written(u, loaded, new).version \in Nat
  <2>1. /\ user[u].role \in Roles \union {"NONE"} /\ user[u].enabled \in BOOLEAN
        /\ user[u].temporary \in BOOLEAN /\ user[u].version \in Nat
    BY <1>1 DEF UserRows
  <2>2. /\ new.role \in Roles \union {"NONE"} /\ new.enabled \in BOOLEAN
        /\ new.temporary \in BOOLEAN /\ new.version \in Nat
    BY DEF UserRows
  <2> QED
    BY <1>2, <1>4, <2>1, <2>2
<1> QED
  BY <1>5, <1>6 DEF UserRows

\* What ChangeEnds writes.
NewRow(q) == IF q.op = "change" THEN Changed(q) ELSE OwnPassword(q)

LEMMA NewRowType ==
  ASSUME NEW q, q \in ChangeRequests \/ q \in PasswordRequests
  PROVE  NewRow(q) \in UserRows /\ q.row \in UserRows /\ q.who \in Users
<1>1. CASE q \in ChangeRequests
  <2>1. /\ q.op = "change" /\ q.role \in Roles /\ q.enabled \in BOOLEAN /\ q.reset \in BOOLEAN
        /\ q.row \in UserRows /\ q.who \in Users
    BY <1>1 DEF ChangeRequests
  <2>2. q.row.temporary \in BOOLEAN /\ q.row.version \in Nat
    BY <2>1 DEF UserRows
  <2>3. q.row.version + (IF q.reset \/ q.role # q.row.role \/ q.enabled # q.row.enabled THEN 1 ELSE 0) \in Nat
    BY <2>2
  <2>4. (q.row.temporary \/ q.reset) \in BOOLEAN
    OBVIOUS
  <2>5. Changed(q) \in UserRows
    BY <2>1, <2>3, <2>4 DEF Changed, UserRows
  <2> QED
    BY <2>1, <2>5 DEF NewRow
<1>2. CASE q \in PasswordRequests
  <2>1. q.op = "password" /\ q.row \in UserRows /\ q.who \in Users
    BY <1>2 DEF PasswordRequests
  <2>2. OwnPassword(q) \in UserRows
    BY <2>1 DEF OwnPassword, UserRows
  <2> QED
    BY <2>1, <2>2 DEF NewRow
<1> QED
  BY <1>1, <1>2

\* A commit tells the other changes that they are not alone, and no sign-in.
LEMMA ChangeEndsRequests ==
  ASSUME AccountsTyped, NEW t \in Threads, ChangeEnds(t)
  PROVE  /\ request'[t] = Free
         /\ \A s \in Threads \ {t} :
              \/ request'[s] = request[s] /\ (request[s] = Free \/ request[s].op = "verify")
              \/ /\ request[s] # Free /\ (request[s] \in ChangeRequests \/ request[s] \in PasswordRequests)
                 /\ request'[s] = [request[s] EXCEPT !.alone = FALSE]
                 /\ request'[s].op = request[s].op /\ request'[s].row = request[s].row /\ request'[s].who = request[s].who
                 /\ request'[s].alone = FALSE
         /\ DOMAIN request' = Threads /\ request' = [s \in Threads |-> request'[s]]
<1>1. request' = [s \in Threads |->
            IF s = t THEN Free
            ELSE IF request[s] # Free /\ "alone" \in DOMAIN request[s] THEN [request[s] EXCEPT !.alone = FALSE]
            ELSE request[s]]
  BY DEF ChangeEnds
<1>2. ASSUME NEW s \in Threads \ {t}, request[s] # Free, ~SignInOK(request[s])
      PROVE  /\ request[s] \in ChangeRequests \/ request[s] \in PasswordRequests
             /\ "alone" \in DOMAIN request[s]
             /\ "op" \in DOMAIN request[s] /\ "row" \in DOMAIN request[s] /\ "who" \in DOMAIN request[s]
  <2>1. request[s] \in ChangeRequests \/ request[s] \in PasswordRequests
    BY <1>2 DEF AccountsTyped, RequestOK
  <2>2. CASE request[s] \in ChangeRequests
    BY <2>2 DEF ChangeRequests
  <2>3. CASE request[s] \in PasswordRequests
    BY <2>3 DEF PasswordRequests
  <2> QED
    BY <2>1, <2>2, <2>3
<1>3. \A s \in Threads \ {t} : request[s] # Free /\ SignInOK(request[s]) =>
          request[s].op = "verify" /\ request'[s] = request[s]
  BY <1>1, RequestSorts
<1>4. \A s \in Threads \ {t} : request[s] = Free => request'[s] = request[s]
  BY <1>1
<1>5. ASSUME NEW s \in Threads \ {t}, request[s] # Free, ~SignInOK(request[s])
      PROVE  /\ request'[s] = [request[s] EXCEPT !.alone = FALSE]
             /\ request'[s].op = request[s].op /\ request'[s].row = request[s].row /\ request'[s].who = request[s].who
             /\ request'[s].alone = FALSE
  <2>1. request'[s] = [request[s] EXCEPT !.alone = FALSE]
    BY <1>1, <1>2, <1>5
  <2> QED
    BY <1>2, <1>5, <2>1
<1> QED
  BY <1>1, <1>2, <1>3, <1>4, <1>5

LEMMA AccountsTypedStep == AccountsTyped /\ AccountsNext => AccountsTyped'
<1> SUFFICES ASSUME AccountsTyped, AccountsNext PROVE AccountsTyped'
  OBVIOUS
<1>1. ASSUME NEW t \in Threads, NEW a \in Sources, NEW u \in Users, SignInStarts(t, a, u) PROVE AccountsTyped'
  <2>1. a \in Keys /\ u \in Keys
    BY DEF Keys
  <2>2. counter' \in [Keys -> [count : Nat, window : Nat]]
    BY <1>1, <2>1 DEF SignInStarts, AccountsTyped
  <2> DEFINE w == [k \in {a, u} |-> counter[k].window]
             q == [op |-> "verify", from |-> a, who |-> u, windows |-> w, row |-> user[u]]
  <2>3. w \in [{a, u} -> Nat]
    BY <2>1 DEF AccountsTyped
  <2>4. SignInOK(q)
    BY <2>3 DEF SignInOK, AccountsTyped
  <2>5. request' = [request EXCEPT ![t] = q]
    BY <1>1 DEF SignInStarts
  <2> HIDE DEF q
  <2> QED
    BY <1>1, <2>2, <2>4, <2>5 DEF SignInStarts, AccountsTyped, RequestOK
<1>2. ASSUME NEW t \in Threads, NEW right \in BOOLEAN, SignInEnds(t, right) PROVE AccountsTyped'
  <2> DEFINE q == request[t]
  <2>1. q # Free /\ q.op = "verify"
    BY <1>2 DEF SignInEnds
  <2>2. SignInOK(q)
    BY <2>1, RequestSorts DEF AccountsTyped, RequestOK
  <2>3. request' = [request EXCEPT ![t] = Free] /\ UNCHANGED <<user, raced>>
    BY <1>2 DEF SignInEnds
  <2>4. counter' \in [Keys -> [count : Nat, window : Nat]]
    <3>1. \A k \in Keys : counter[k] \in [count : Nat, window : Nat]
      BY DEF AccountsTyped
    <3>2. \A k \in Keys : [counter[k] EXCEPT !.count = IF k = q.from /\ @ > 0 THEN @ - 1 ELSE 0] \in [count : Nat, window : Nat]
      BY <3>1
    <3>4. CASE right /\ q.row.enabled
      BY <1>2, <3>1, <3>2, <3>4 DEF SignInEnds
    <3>5. CASE ~(right /\ q.row.enabled)
      BY <1>2, <3>5 DEF SignInEnds, AccountsTyped
    <3> QED
      BY <3>4, <3>5
  <2>5. sessions' \subseteq [user : Users, version : Nat]
    <3>1. q.row.version \in Nat /\ q.who \in Users
      BY <2>2 DEF SignInOK, UserRows
    <3>2. sessions' \subseteq sessions \union {[user |-> q.who, version |-> q.row.version]}
      BY <1>2 DEF SignInEnds
    <3> QED
      BY <3>1, <3>2 DEF AccountsTyped
  <2>6. failures' \in [Keys -> Nat]
    BY <1>2 DEF SignInEnds, AccountsTyped
  <2> QED
    BY <2>3, <2>4, <2>5, <2>6 DEF AccountsTyped, RequestOK
<1>3. ASSUME NEW k \in Keys, WindowEnds(k) PROVE AccountsTyped'
  BY <1>3 DEF WindowEnds, AccountsTyped
<1>4. ASSUME NEW t \in Threads, NEW by \in Users, NEW u \in Users, NEW role \in Roles, NEW enabled \in BOOLEAN,
             NEW reset \in BOOLEAN, ChangeStarts(t, by, u, role, enabled, reset)
      PROVE  AccountsTyped'
  <2> DEFINE q == [op |-> "change", who |-> u, role |-> role, enabled |-> enabled, reset |-> reset, row |-> user[u],
                   alone |-> TRUE]
  <2>1. q \in ChangeRequests
    BY DEF ChangeRequests, AccountsTyped
  <2>2. request' = [request EXCEPT ![t] = q]
    BY <1>4 DEF ChangeStarts
  <2> HIDE DEF q
  <2> QED
    BY <1>4, <2>1, <2>2 DEF ChangeStarts, AccountsTyped, RequestOK
<1>5. ASSUME NEW t \in Threads, NEW u \in Users, PasswordStarts(t, u) PROVE AccountsTyped'
  <2> DEFINE q == [op |-> "password", who |-> u, row |-> user[u], alone |-> TRUE]
  <2>1. q \in PasswordRequests
    BY DEF PasswordRequests, AccountsTyped
  <2>2. request' = [request EXCEPT ![t] = q]
    BY <1>5 DEF PasswordStarts
  <2> HIDE DEF q
  <2> QED
    BY <1>5, <2>1, <2>2 DEF PasswordStarts, AccountsTyped, RequestOK
<1>6. ASSUME NEW t \in Threads, ChangeEnds(t) PROVE AccountsTyped'
  <2> DEFINE q == request[t]
  <2>0. request' = [s \in Threads |->
            IF s = t THEN Free
            ELSE IF request[s] # Free /\ "alone" \in DOMAIN request[s] THEN [request[s] EXCEPT !.alone = FALSE]
            ELSE request[s]]
    BY <1>6 DEF ChangeEnds
  <2>1. q # Free /\ q.op \in {"change", "password"}
    BY <1>6 DEF ChangeEnds
  <2>2. q \in ChangeRequests \/ q \in PasswordRequests
    BY <2>1, RequestSorts DEF AccountsTyped, RequestOK
  <2>3. NewRow(q) \in UserRows /\ q.row \in UserRows /\ q.who \in Users
    BY <2>2, NewRowType
  <2>4. user' = [user EXCEPT ![q.who] = Written(q.who, q.row, NewRow(q))]
    BY <1>6 DEF ChangeEnds, NewRow
  <2>5. user' \in [Users -> UserRows]
    BY <2>3, <2>4, WrittenType DEF AccountsTyped
  <2>6. sessions' \subseteq [user : Users, version : Nat]
    <3>1. NewRow(q).version \in Nat
      BY <2>3 DEF UserRows
    <3>2. sessions' \subseteq sessions \union {[user |-> q.who, version |-> NewRow(q).version]}
      BY <1>6 DEF ChangeEnds, NewRow
    <3> QED
      BY <2>3, <3>1, <3>2 DEF AccountsTyped
  <2>7. \A s \in Threads : RequestOK(request'[s])
    <3> SUFFICES ASSUME NEW s \in Threads PROVE RequestOK(request'[s])
      OBVIOUS
    <3>1. CASE s = t
      <4>1. request'[t] = Free
        BY <2>0
      <4> QED
        BY <3>1, <4>1 DEF RequestOK
    <3>2. CASE s # t /\ request[s] # Free /\ "alone" \in DOMAIN request[s]
      <4>1. request'[s] = [request[s] EXCEPT !.alone = FALSE]
        BY <1>6, <3>2 DEF ChangeEnds
      <4>2. request[s] \in ChangeRequests \/ request[s] \in PasswordRequests
        BY <3>2, RequestSorts DEF AccountsTyped, RequestOK
      <4> QED
        BY <4>1, <4>2 DEF RequestOK, ChangeRequests, PasswordRequests
    <3>3. CASE s # t /\ ~(request[s] # Free /\ "alone" \in DOMAIN request[s])
      BY <1>6, <3>3 DEF ChangeEnds, AccountsTyped
    <3> QED
      BY <3>1, <3>2, <3>3
  <2>8. UNCHANGED <<counter, failures>> /\ raced' \in BOOLEAN
    BY <1>6 DEF ChangeEnds
  <2>9. DOMAIN request' = Threads /\ request' = [s \in Threads |-> request'[s]]
    BY <1>6 DEF ChangeEnds
  <2> QED
    BY <2>5, <2>6, <2>7, <2>8, <2>9 DEF AccountsTyped
<1>7. ASSUME NEW by \in Users, NEW u \in Users, NEW role \in Roles, AddUser(by, u, role) PROVE AccountsTyped'
  BY <1>7 DEF AddUser, AccountsTyped, UserRows
<1> QED
  BY <1>1, <1>2, <1>3, <1>4, <1>5, <1>6, <1>7 DEF AccountsNext

(***************************************************************************)
(* The throttle.  What an address may still try is counted in its row: the *)
(* failures of the window and the sign-ins that reserved an attempt in it  *)
(* are never more than its count.  A reservation is in no later window     *)
(* than the one that is counted, so that a new window begins with none.    *)
(***************************************************************************)
Verifying(t) == request[t] # Free /\ request[t].op = "verify"

ThrottleOK ==
    /\ \A t \in Threads : Verifying(t) =>
        \A k \in {request[t].from, request[t].who} : request[t].windows[k] <= counter[k].window
    /\ \A a \in Sources :
        /\ IsFiniteSet(Waiting(a))
        /\ failures[a] + Cardinality(Waiting(a)) <= counter[a].count
        /\ counter[a].count <= SourceLimit

LEMMA ThrottleInit == AccountsInit => ThrottleOK
<1> SUFFICES ASSUME AccountsInit PROVE ThrottleOK
  OBVIOUS
<1>1. \A a \in Sources : IsFiniteSet(Waiting(a)) /\ Cardinality(Waiting(a)) = 0
  <2>1. \A a \in Sources : Waiting(a) = {}
    BY DEF AccountsInit, Waiting
  <2> QED
    BY <2>1, FS_EmptySet
<1>2. \A a \in Sources : failures[a] = 0 /\ counter[a].count = 0
  BY DEF AccountsInit, Keys
<1>3. \A t \in Threads : request[t] = Free
  BY DEF AccountsInit
<1> QED
  BY <1>1, <1>2, <1>3, AccountsAssumption DEF ThrottleOK, Verifying

\* A sign-in that waits in a row is of that address.
LEMMA WaitingSignIns ==
  ASSUME AccountsTyped, NEW t \in Threads, Verifying(t)
  PROVE  SignInOK(request[t])
  BY RequestSorts DEF AccountsTyped, RequestOK, Verifying

LEMMA ThrottleStep == AccountsTyped /\ ThrottleOK /\ AccountsNext => ThrottleOK'
<1> SUFFICES ASSUME AccountsTyped, ThrottleOK, AccountsNext PROVE ThrottleOK'
  OBVIOUS
<1>0. \A a \in Sources : /\ a \in Keys /\ a \notin Users
                         /\ failures[a] \in Nat /\ counter[a].count \in Nat /\ counter[a].window \in Nat
                         /\ Cardinality(Waiting(a)) \in Nat
  BY FS_CardinalityType, AccountsAssumption DEF AccountsTyped, ThrottleOK, Keys
<1>00. \A u \in Users : u \in Keys /\ u \notin Sources /\ counter[u].window \in Nat
  BY AccountsAssumption DEF AccountsTyped, Keys
<1>1. ASSUME NEW t \in Threads, NEW a \in Sources, NEW u \in Users, SignInStarts(t, a, u) PROVE ThrottleOK'
  <2> DEFINE w == [k \in {a, u} |-> counter[k].window]
  <2>1. /\ request' = [request EXCEPT ![t] = [op |-> "verify", from |-> a, who |-> u, windows |-> w, row |-> user[u]]]
        /\ request[t] = Free
        /\ counter[a].count < SourceLimit
        /\ counter' = [k \in Keys |-> IF k \in {a, u} THEN [counter[k] EXCEPT !.count = @ + 1] ELSE counter[k]]
        /\ failures' = failures
    BY <1>1 DEF SignInStarts
  <2>2. \A k \in Keys : counter'[k].window = counter[k].window
    BY <2>1 DEF AccountsTyped
  <2>3. \A s \in Threads \ {t} : request'[s] = request[s]
    BY <2>1 DEF AccountsTyped
  <2>4. request'[t].windows = w /\ request'[t].from = a /\ request'[t].who = u
    BY <2>1 DEF AccountsTyped
  <2>5. \A s \in Threads : Verifying(s)' =>
            \A k \in {request'[s].from, request'[s].who} : request'[s].windows[k] <= counter'[k].window
    <3> SUFFICES ASSUME NEW s \in Threads, Verifying(s)', NEW k \in {request'[s].from, request'[s].who}
                 PROVE  request'[s].windows[k] <= counter'[k].window
      OBVIOUS
    <3>1. CASE s = t
      BY <1>0, <1>00, <2>2, <2>4, <3>1
    <3>2. CASE s # t
      <4>1. Verifying(s) /\ request'[s] = request[s]
        BY <2>3, <3>2 DEF Verifying
      <4>2. k \in Keys
        BY <4>1, <1>0, <1>00, WaitingSignIns DEF SignInOK
      <4> QED
        BY <4>1, <4>2, <2>2 DEF ThrottleOK
    <3> QED
      BY <3>1, <3>2
  <2>6. ASSUME NEW b \in Sources
        PROVE  /\ IsFiniteSet(Waiting(b)')
               /\ failures'[b] + Cardinality(Waiting(b)') <= counter'[b].count
               /\ counter'[b].count <= SourceLimit
    <3>1. CASE b = a
      <4>1. Waiting(b)' \subseteq Waiting(b) \union {t}
        BY <1>0, <2>2, <2>3 DEF Waiting
      <4>2. /\ IsFiniteSet(Waiting(b)) /\ failures[b] + Cardinality(Waiting(b)) <= counter[b].count
        BY DEF ThrottleOK
      <4>0. Cardinality(Waiting(b)) \in Nat
        BY <1>0
      <4>3. /\ IsFiniteSet(Waiting(b) \union {t})
            /\ Cardinality(Waiting(b) \union {t}) <= Cardinality(Waiting(b)) + 1
        <5>1. Cardinality(Waiting(b) \union {t}) = IF t \in Waiting(b) THEN Cardinality(Waiting(b)) ELSE Cardinality(Waiting(b)) + 1
          BY <4>2, FS_AddElement
        <5> QED
          BY <4>0, <4>2, <5>1, FS_AddElement
      <4>4. /\ IsFiniteSet(Waiting(b)') /\ Cardinality(Waiting(b)') <= Cardinality(Waiting(b) \union {t})
        BY <4>1, <4>3, FS_Subset
      <4>5. counter'[b].count = counter[b].count + 1
        BY <1>0, <2>1, <3>1 DEF AccountsTyped
      <4>6. Cardinality(Waiting(b)') \in Nat /\ Cardinality(Waiting(b) \union {t}) \in Nat
        BY <4>3, <4>4, FS_CardinalityType
      <4> QED
        BY <1>0, <2>1, <3>1, <4>2, <4>3, <4>4, <4>5, <4>6, AccountsAssumption
    <3>2. CASE b # a
      <4>1. Waiting(b)' = Waiting(b)
        <5>1. t \notin Waiting(b) /\ t \notin Waiting(b)'
          BY <2>1, <2>4, <3>2 DEF Waiting
        <5> QED
          BY <1>0, <2>2, <2>3, <5>1 DEF Waiting
      <4>2. counter'[b] = counter[b] /\ failures'[b] = failures[b]
        BY <1>0, <2>1, <3>2
      <4> QED
        BY <4>1, <4>2 DEF ThrottleOK
    <3> QED
      BY <3>1, <3>2
  <2> QED
    BY <2>5, <2>6 DEF ThrottleOK
<1>2. ASSUME NEW t \in Threads, NEW right \in BOOLEAN, SignInEnds(t, right) PROVE ThrottleOK'
  <2> DEFINE q == request[t]
  <2>1. Verifying(t)
    BY <1>2 DEF SignInEnds, Verifying
  <2>2. SignInOK(q)
    BY <2>1, WaitingSignIns
  <2>3. q.from \in Sources /\ q.who \in Users /\ DOMAIN q.windows = {q.from, q.who} /\ q.from # q.who
    BY <1>0, <2>2 DEF SignInOK
  <2>4. request' = [request EXCEPT ![t] = Free]
    BY <1>2 DEF SignInEnds
  <2>5. /\ \A s \in Threads \ {t} : request'[s] = request[s]
        /\ request'[t] = Free
    BY <2>4 DEF AccountsTyped
  <2> DEFINE sound == right /\ q.row.enabled
  <2>6. CASE sound
    <3>1. /\ counter' = [k \in Keys |->
                IF ~GivesBack(q, k) THEN counter[k]
                ELSE [counter[k] EXCEPT !.count = IF k = q.from /\ @ > 0 THEN @ - 1 ELSE 0]]
          /\ failures' = failures
      BY <1>2, <2>6 DEF SignInEnds
    <3>2. \A k \in Keys : GivesBack(q, k) => k = q.who \/ k = q.from
      BY <2>3 DEF GivesBack
    <3>8. \A k : failures'[k] = failures[k]
      BY <3>1
    <3>3. /\ GivesBack(q, q.from) => counter'[q.from] = [counter[q.from] EXCEPT !.count = IF @ > 0 THEN @ - 1 ELSE 0]
          /\ ~GivesBack(q, q.from) => counter'[q.from] = counter[q.from]
      <4>1. \A k \in Keys : k = q.from /\ GivesBack(q, k) =>
                counter'[k] = [counter[k] EXCEPT !.count = IF @ > 0 THEN @ - 1 ELSE 0]
        BY <3>1
      <4>2. \A k \in Keys : ~GivesBack(q, k) => counter'[k] = counter[k]
        BY <3>1
      <4>3. q.from \in Keys
        BY <2>3, <1>0
      <4> QED
        BY <2>3, <4>1, <4>2, <4>3
    <3>4. \A k \in Keys \ {q.from, q.who} : counter'[k] = counter[k]
      BY <3>1, <3>2
    <3>5. \A k \in Keys : counter'[k].window = counter[k].window
      BY <3>1, <3>2 DEF AccountsTyped
    <3>6. \A s \in Threads : Verifying(s)' =>
              \A k \in {request'[s].from, request'[s].who} : request'[s].windows[k] <= counter'[k].window
      <4> SUFFICES ASSUME NEW s \in Threads, Verifying(s)', NEW k \in {request'[s].from, request'[s].who}
                   PROVE  request'[s].windows[k] <= counter'[k].window
        OBVIOUS
      <4>1. s # t /\ request'[s] = request[s] /\ Verifying(s)
        BY <2>5 DEF Verifying
      <4>2. k \in Keys
        BY <4>1, <1>0, <1>00, WaitingSignIns DEF SignInOK
      <4> QED
        BY <4>1, <4>2, <3>5 DEF ThrottleOK
    <3>7. ASSUME NEW b \in Sources
          PROVE  /\ IsFiniteSet(Waiting(b)')
                 /\ failures'[b] + Cardinality(Waiting(b)') <= counter'[b].count
                 /\ counter'[b].count <= SourceLimit
      <4>1. Waiting(b)' = Waiting(b) \ {t}
        BY <1>0, <2>5, <3>5 DEF Waiting
      <4>2. /\ IsFiniteSet(Waiting(b)) /\ failures[b] + Cardinality(Waiting(b)) <= counter[b].count
            /\ counter[b].count <= SourceLimit
        BY DEF ThrottleOK
      <4>0. failures[b] \in Nat /\ Cardinality(Waiting(b)) \in Nat /\ counter[b].count \in Nat /\ SourceLimit \in Nat
        BY <1>0, AccountsAssumption
      <4>3. /\ IsFiniteSet(Waiting(b)')
            /\ Cardinality(Waiting(b)') = IF t \in Waiting(b) THEN Cardinality(Waiting(b)) - 1 ELSE Cardinality(Waiting(b))
        BY <4>1, <4>2, FS_RemoveElement
      <4>4. Cardinality(Waiting(b)') \in Nat
        BY <4>3, FS_CardinalityType
      <4>5. CASE b = q.from /\ GivesBack(q, b)
        <5>1. t \in Waiting(b)
          BY <2>1, <4>5 DEF Waiting, Verifying, GivesBack
        <5>2. counter[b].count > 0
          BY <1>0, <4>2, <4>3, <4>4, <5>1
        <5>3. counter'[b].count = counter[b].count - 1
          BY <1>0, <3>3, <4>5, <5>2 DEF AccountsTyped
        <5> QED
          BY <3>8, <4>0, <4>2, <4>3, <4>4, <5>1, <5>3
      <4>6. CASE ~(b = q.from /\ GivesBack(q, b))
        <5>1. counter'[b] = counter[b]
          BY <1>0, <2>3, <3>3, <3>4, <4>6
        <5> QED
          BY <3>8, <4>0, <4>2, <4>3, <4>4, <5>1
      <4> QED
        BY <4>5, <4>6
    <3> QED
      BY <3>6, <3>7 DEF ThrottleOK
  <2>7. CASE ~sound
    <3>1. /\ failures' = [k \in Keys |-> failures[k] + IF k \in DOMAIN q.windows /\ q.windows[k] = counter[k].window THEN 1 ELSE 0]
          /\ counter' = counter
      BY <1>2, <2>7 DEF SignInEnds
    <3>6. \A s \in Threads : Verifying(s)' =>
              \A k \in {request'[s].from, request'[s].who} : request'[s].windows[k] <= counter'[k].window
      BY <2>5, <3>1 DEF ThrottleOK, Verifying
    <3>7. ASSUME NEW b \in Sources
          PROVE  /\ IsFiniteSet(Waiting(b)')
                 /\ failures'[b] + Cardinality(Waiting(b)') <= counter'[b].count
                 /\ counter'[b].count <= SourceLimit
      <4>1. Waiting(b)' = Waiting(b) \ {t}
        BY <1>0, <2>5, <3>1 DEF Waiting
      <4>2. /\ IsFiniteSet(Waiting(b)) /\ failures[b] + Cardinality(Waiting(b)) <= counter[b].count
            /\ counter[b].count <= SourceLimit
        BY DEF ThrottleOK
      <4>0. failures[b] \in Nat /\ Cardinality(Waiting(b)) \in Nat /\ counter[b].count \in Nat /\ SourceLimit \in Nat
        BY <1>0, AccountsAssumption
      <4>3. /\ IsFiniteSet(Waiting(b)')
            /\ Cardinality(Waiting(b)') = IF t \in Waiting(b) THEN Cardinality(Waiting(b)) - 1 ELSE Cardinality(Waiting(b))
        BY <4>1, <4>2, FS_RemoveElement
      <4>4. Cardinality(Waiting(b)') \in Nat
        BY <4>3, FS_CardinalityType
      <4>5. CASE b \in DOMAIN q.windows /\ q.windows[b] = counter[b].window
        <5>1. b = q.from
          BY <1>0, <2>3, <4>5
        <5>2. t \in Waiting(b)
          BY <2>1, <4>5, <5>1 DEF Waiting, Verifying
        <5>3. failures'[b] = failures[b] + 1
          BY <1>0, <3>1, <4>5
        <5> QED
          BY <3>1, <4>0, <4>2, <4>3, <4>4, <5>2, <5>3
      <4>6. CASE ~(b \in DOMAIN q.windows /\ q.windows[b] = counter[b].window)
        <5>1. failures'[b] = failures[b]
          BY <1>0, <3>1, <4>6
        <5> QED
          BY <3>1, <4>0, <4>2, <4>3, <4>4, <5>1
      <4> QED
        BY <4>5, <4>6
    <3> QED
      BY <3>6, <3>7 DEF ThrottleOK
  <2> QED
    BY <2>6, <2>7
<1>3. ASSUME NEW k \in Keys, WindowEnds(k) PROVE ThrottleOK'
  <2>1. /\ counter' = [counter EXCEPT ![k] = [count |-> 0, window |-> @.window + 1]]
        /\ failures' = [failures EXCEPT ![k] = 0]
        /\ request' = request
    BY <1>3 DEF WindowEnds
  <2>2. /\ \A j \in Keys \ {k} : counter'[j] = counter[j] /\ failures'[j] = failures[j]
        /\ counter'[k] = [count |-> 0, window |-> counter[k].window + 1] /\ failures'[k] = 0
        /\ \A j \in Keys : counter[j].window \in Nat
    BY <2>1 DEF AccountsTyped
  <2>3. \A s \in Threads : Verifying(s) =>
            \A j \in {request[s].from, request[s].who} : j \in Keys /\ request[s].windows[j] \in Nat
    BY <1>0, <1>00, WaitingSignIns DEF SignInOK
  <2>4. \A s \in Threads : Verifying(s)' =>
            \A j \in {request'[s].from, request'[s].who} : request'[s].windows[j] <= counter'[j].window
    <3> SUFFICES ASSUME NEW s \in Threads, Verifying(s), NEW j \in {request[s].from, request[s].who}
                 PROVE  request[s].windows[j] <= counter'[j].window
      BY <2>1 DEF Verifying
    <3>1. request[s].windows[j] <= counter[j].window /\ j \in Keys /\ request[s].windows[j] \in Nat
      BY <2>3 DEF ThrottleOK
    <3> QED
      BY <2>2, <3>1
  <2>5. ASSUME NEW b \in Sources
        PROVE  /\ IsFiniteSet(Waiting(b)')
               /\ failures'[b] + Cardinality(Waiting(b)') <= counter'[b].count
               /\ counter'[b].count <= SourceLimit
    <3>1. CASE b = k
      <4>1. Waiting(b)' = {}
        <5> SUFFICES ASSUME NEW s \in Waiting(b)' PROVE FALSE
          OBVIOUS
        <5>1. s \in Threads /\ Verifying(s) /\ request[s].from = b /\ request[s].windows[b] = counter[b].window + 1
          BY <2>1, <2>2, <3>1 DEF Waiting, Verifying
        <5>2. request[s].windows[b] <= counter[b].window
          BY <5>1 DEF ThrottleOK
        <5> QED
          BY <1>0, <5>1, <5>2
      <4> QED
        BY <2>2, <3>1, <4>1, FS_EmptySet, AccountsAssumption
    <3>2. CASE b # k
      <4>1. counter'[b] = counter[b] /\ failures'[b] = failures[b]
        BY <1>0, <2>2, <3>2
      <4>2. Waiting(b)' = Waiting(b)
        BY <2>1, <4>1 DEF Waiting
      <4> QED
        BY <4>1, <4>2 DEF ThrottleOK
    <3> QED
      BY <3>1, <3>2
  <2> QED
    BY <2>4, <2>5 DEF ThrottleOK
<1>4. ASSUME UNCHANGED <<counter, failures>>,
             \A s \in Threads : (Verifying(s)' \/ Verifying(s)) => request'[s] = request[s]
      PROVE  ThrottleOK'
  <2>1. \A b \in Sources : Waiting(b)' = Waiting(b)
    BY <1>4 DEF Waiting, Verifying
  <2> QED
    BY <1>4, <2>1 DEF ThrottleOK, Verifying
<1>5. ASSUME NEW t \in Threads, NEW by \in Users, NEW u \in Users, NEW role \in Roles, NEW enabled \in BOOLEAN,
             NEW reset \in BOOLEAN, ChangeStarts(t, by, u, role, enabled, reset)
      PROVE  ThrottleOK'
  <2> DEFINE q == [op |-> "change", who |-> u, role |-> role, enabled |-> enabled, reset |-> reset, row |-> user[u],
                   alone |-> TRUE]
  <2>1. request[t] = Free /\ request' = [request EXCEPT ![t] = q] /\ UNCHANGED <<counter, failures>>
    BY <1>5 DEF ChangeStarts
  <2>2. q.op # "verify"
    OBVIOUS
  <2> HIDE DEF q
  <2> QED
    BY <1>4, <2>1, <2>2 DEF Verifying, AccountsTyped
<1>6. ASSUME NEW t \in Threads, NEW u \in Users, PasswordStarts(t, u) PROVE ThrottleOK'
  <2> DEFINE q == [op |-> "password", who |-> u, row |-> user[u], alone |-> TRUE]
  <2>1. request[t] = Free /\ request' = [request EXCEPT ![t] = q] /\ UNCHANGED <<counter, failures>>
    BY <1>6 DEF PasswordStarts
  <2>2. q.op # "verify"
    OBVIOUS
  <2> HIDE DEF q
  <2> QED
    BY <1>4, <2>1, <2>2 DEF Verifying, AccountsTyped
<1>7. ASSUME NEW t \in Threads, ChangeEnds(t) PROVE ThrottleOK'
  <2>1. UNCHANGED <<counter, failures>> /\ ~Verifying(t)
    BY <1>7 DEF ChangeEnds, Verifying
  <2>2. ASSUME NEW s \in Threads, Verifying(s)' \/ Verifying(s) PROVE request'[s] = request[s]
    <3>1. s # t
      BY <1>7, <2>1, <2>2, ChangeEndsRequests DEF Verifying
    <3>2. request[s].op = "verify" \/ request'[s].op = "verify"
      BY <2>2 DEF Verifying
    <3>3. request[s] \in ChangeRequests \/ request[s] \in PasswordRequests => request[s].op # "verify"
      BY RequestSorts
    <3> QED
      BY <1>7, <3>1, <3>2, <3>3, ChangeEndsRequests
  <2> QED
    BY <1>4, <2>1, <2>2
<1>8. ASSUME NEW by \in Users, NEW u \in Users, NEW role \in Roles, AddUser(by, u, role) PROVE ThrottleOK'
  BY <1>4, <1>8 DEF AddUser
<1> QED
  BY <1>1, <1>2, <1>3, <1>5, <1>6, <1>7, <1>8 DEF AccountsNext

LEMMA ThrottleBounds == AccountsTyped /\ ThrottleOK => FailuresBounded
<1> SUFFICES ASSUME AccountsTyped, ThrottleOK, NEW a \in Sources
             PROVE  failures[a] + Cardinality(Waiting(a)) <= SourceLimit
  BY DEF FailuresBounded
<1>1. a \in Keys /\ failures[a] \in Nat /\ counter[a].count \in Nat /\ Cardinality(Waiting(a)) \in Nat
  BY FS_CardinalityType DEF AccountsTyped, ThrottleOK, Keys
<1> QED
  BY <1>1, AccountsAssumption DEF ThrottleOK

(***************************************************************************)
(* Sessions.  While no two requests overlapped, a request that changes an  *)
(* account holds the row as it is, and no session, nor a sign-in that is   *)
(* being verified, is of a later version than its account.                 *)
(***************************************************************************)
Changing(t) == request[t] # Free /\ request[t].op \in {"change", "password"}

SessionsOK ==
    ~raced =>
        /\ \A s \in sessions : s.version <= user[s.user].version
        /\ \A t \in Threads : Verifying(t) => request[t].row.version <= user[request[t].who].version
        /\ \A t \in Threads : Changing(t) /\ request[t].alone =>
                request[t].row = user[request[t].who] /\ request[t].row # Absent

LEMMA SessionsInit == AccountsInit => SessionsOK
<1> SUFFICES ASSUME AccountsInit PROVE SessionsOK
  OBVIOUS
<1>1. \A t \in Threads : request[t] = Free
  BY DEF AccountsInit
<1>2. \A s \in sessions : s.user \in Admins /\ s.version = 1
  BY DEF AccountsInit
<1>3. \A u \in Admins : user[u].version = 1
  BY DEF AccountsInit, Admins, Absent
<1> QED
  BY <1>1, <1>2, <1>3 DEF SessionsOK, Verifying, Changing

LEMMA ChangingRequests ==
  ASSUME AccountsTyped, NEW t \in Threads, Changing(t)
  PROVE  request[t] \in ChangeRequests \/ request[t] \in PasswordRequests
  BY RequestSorts DEF AccountsTyped, RequestOK, Changing

\* What a commit leaves of the account, when the row was as it had been loaded.
LEMMA AloneWrites ==
  ASSUME AccountsTyped, NEW t \in Threads, ChangeEnds(t), request[t].row = user[request[t].who]
  PROVE  /\ request[t].who \in Users /\ NewRow(request[t]) \in UserRows
         /\ user' = [user EXCEPT ![request[t].who] = NewRow(request[t])]
         /\ \/ NewRow(request[t]).version = user[request[t].who].version + 1
            \/ /\ NewRow(request[t]).version = user[request[t].who].version
               /\ NewRow(request[t]).role = user[request[t].who].role
               /\ NewRow(request[t]).enabled = user[request[t].who].enabled
<1> DEFINE q == request[t]
           u == q.who
           new == NewRow(q)
<1>1. q \in ChangeRequests \/ q \in PasswordRequests
  BY ChangingRequests DEF ChangeEnds, Changing
<1>2. new \in UserRows /\ q.row \in UserRows /\ u \in Users
  BY <1>1, NewRowType
<1>3. user' = [user EXCEPT ![u] = Written(u, q.row, new)]
  BY DEF ChangeEnds, NewRow
<1>4. Written(u, q.row, new) = new
  <2>1. Written(u, q.row, new) = [c \in DOMAIN new |-> IF new[c] = q.row[c] THEN user[u][c] ELSE new[c]]
    BY DEF Written
  <2>2. \A c \in DOMAIN new : (IF new[c] = q.row[c] THEN user[u][c] ELSE new[c]) = new[c]
    OBVIOUS
  <2>3. Written(u, q.row, new) = [c \in DOMAIN new |-> new[c]]
    BY <2>1, <2>2
  <2>4. new = [c \in DOMAIN new |-> new[c]]
    BY <1>2 DEF UserRows
  <2> QED
    BY <2>3, <2>4
<1>5. q.row.version \in Nat
  BY <1>2 DEF UserRows
<1> DEFINE Raised == \/ new.version = q.row.version + 1
                     \/ new.version = q.row.version /\ new.role = q.row.role /\ new.enabled = q.row.enabled
<1>6. ASSUME q \in ChangeRequests PROVE Raised
  <2>1. new = Changed(q)
    BY <1>6, RequestSorts DEF NewRow
  <2>2. /\ new.role = q.role /\ new.enabled = q.enabled
        /\ new.version = q.row.version + IF q.reset \/ q.role # q.row.role \/ q.enabled # q.row.enabled THEN 1 ELSE 0
    BY <2>1 DEF Changed
  <2>3. CASE q.reset \/ q.role # q.row.role \/ q.enabled # q.row.enabled
    BY <2>2, <2>3
  <2>4. CASE ~(q.reset \/ q.role # q.row.role \/ q.enabled # q.row.enabled)
    BY <1>5, <2>2, <2>4
  <2> QED
    BY <2>3, <2>4
<1>7. ASSUME q \in PasswordRequests PROVE Raised
  BY <1>7, RequestSorts DEF NewRow, OwnPassword
<1>8. Raised
  BY <1>1, <1>6, <1>7
<1> QED
  BY <1>2, <1>3, <1>4, <1>8

LEMMA SessionsStep == AccountsTyped /\ SessionsOK /\ AccountsNext => SessionsOK'
<1> SUFFICES ASSUME AccountsTyped, SessionsOK, AccountsNext, ~raced' PROVE SessionsOK'
  BY DEF SessionsOK
<1>0. ~raced /\ \A u \in Users : user[u] \in UserRows /\ user[u].version \in Nat
  BY DEF AccountsNext, AccountsTyped, UserRows, SignInStarts, SignInEnds, WindowEnds, ChangeStarts, PasswordStarts,
         ChangeEnds, AddUser
<1>1. /\ \A s \in sessions : s.user \in Users /\ s.version \in Nat /\ s.version <= user[s.user].version
      /\ \A t \in Threads : Verifying(t) => request[t].row.version <= user[request[t].who].version
      /\ \A t \in Threads : Changing(t) /\ request[t].alone =>
            request[t].row = user[request[t].who] /\ request[t].row # Absent
  BY <1>0 DEF SessionsOK, AccountsTyped
<1>2. ASSUME NEW t \in Threads, NEW a \in Sources, NEW u \in Users, SignInStarts(t, a, u) PROVE SessionsOK'
  <2> DEFINE q == [op |-> "verify", from |-> a, who |-> u, windows |-> [k \in {a, u} |-> counter[k].window], row |-> user[u]]
  <2>1. request' = [request EXCEPT ![t] = q] /\ UNCHANGED <<user, sessions>>
    BY <1>2 DEF SignInStarts
  <2>2. q.op = "verify" /\ q.row = user[u] /\ q.who = u
    OBVIOUS
  <2> HIDE DEF q
  <2> QED
    BY <1>0, <1>1, <2>1, <2>2 DEF SessionsOK, Verifying, Changing, AccountsTyped
<1>3. ASSUME NEW t \in Threads, NEW right \in BOOLEAN, SignInEnds(t, right) PROVE SessionsOK'
  <2> DEFINE q == request[t]
  <2>1. Verifying(t)
    BY <1>3 DEF SignInEnds, Verifying
  <2>2. q.row.version <= user[q.who].version /\ q.who \in Users
    BY <1>1, <2>1, WaitingSignIns DEF SignInOK
  <2>3. /\ request' = [request EXCEPT ![t] = Free] /\ user' = user
        /\ sessions' \subseteq sessions \union {[user |-> q.who, version |-> q.row.version]}
    BY <1>3 DEF SignInEnds
  <2>4. \A s \in sessions' : s.version <= user[s.user].version
    BY <1>1, <2>2, <2>3
  <2> QED
    BY <1>1, <2>3, <2>4 DEF SessionsOK, Verifying, Changing, AccountsTyped
<1>4. ASSUME NEW k \in Keys, WindowEnds(k) PROVE SessionsOK'
  BY <1>1, <1>4 DEF WindowEnds, SessionsOK, Verifying, Changing
<1>5. ASSUME NEW t \in Threads, NEW by \in Users, NEW u \in Users, NEW role \in Roles, NEW enabled \in BOOLEAN,
             NEW reset \in BOOLEAN, ChangeStarts(t, by, u, role, enabled, reset)
      PROVE  SessionsOK'
  <2> DEFINE q == [op |-> "change", who |-> u, role |-> role, enabled |-> enabled, reset |-> reset, row |-> user[u],
                   alone |-> TRUE]
  <2>1. request' = [request EXCEPT ![t] = q] /\ UNCHANGED <<user, sessions>> /\ user[u] # Absent
    BY <1>5 DEF ChangeStarts
  <2>2. q.op = "change" /\ q.row = user[u] /\ q.who = u
    OBVIOUS
  <2> HIDE DEF q
  <2> QED
    BY <1>0, <1>1, <2>1, <2>2 DEF SessionsOK, Verifying, Changing, AccountsTyped
<1>6. ASSUME NEW t \in Threads, NEW u \in Users, PasswordStarts(t, u) PROVE SessionsOK'
  <2> DEFINE q == [op |-> "password", who |-> u, row |-> user[u], alone |-> TRUE]
  <2>1. request' = [request EXCEPT ![t] = q] /\ UNCHANGED <<user, sessions>> /\ user[u] # Absent
    BY <1>6 DEF PasswordStarts, Accepted, Absent
  <2>2. q.op = "password" /\ q.row = user[u] /\ q.who = u
    OBVIOUS
  <2> HIDE DEF q
  <2> QED
    BY <1>0, <1>1, <2>1, <2>2 DEF SessionsOK, Verifying, Changing, AccountsTyped
<1>7. ASSUME NEW t \in Threads, ChangeEnds(t) PROVE SessionsOK'
  <2> DEFINE q == request[t]
             u == q.who
             new == NewRow(q)
  <2>1. Changing(t) /\ q.alone
    BY <1>7 DEF ChangeEnds, Changing
  <2>2. q.row = user[u]
    BY <1>1, <2>1
  <2>3. /\ u \in Users /\ new \in UserRows /\ user' = [user EXCEPT ![u] = new]
        /\ new.version = user[u].version + 1 \/ new.version = user[u].version
    BY <1>7, <2>2, AloneWrites
  <2>4. \A v \in Users : user[v].version <= user'[v].version /\ user'[v].version \in Nat
    BY <1>0, <2>3 DEF AccountsTyped, UserRows
  <2>5. \A s \in sessions' : s.version <= user'[s.user].version
    <3>1. sessions' \subseteq sessions \union {[user |-> u, version |-> new.version]}
      BY <1>7 DEF ChangeEnds, NewRow
    <3>2. user'[u].version = new.version /\ new.version \in Nat
      BY <2>3 DEF AccountsTyped, UserRows
    <3>3. \A s \in sessions : s.version <= user'[s.user].version
      BY <1>0, <1>1, <2>4
    <3> QED
      BY <3>1, <3>2, <3>3
  <2>6. ASSUME NEW s \in Threads, Verifying(s)'
        PROVE  request'[s].row.version <= user'[request'[s].who].version
    <3>1. s # t /\ Verifying(s) /\ request'[s] = request[s]
      BY <1>7, <2>6, ChangeEndsRequests, RequestSorts DEF Verifying
    <3>2. /\ request[s].row.version <= user[request[s].who].version
          /\ request[s].who \in Users /\ request[s].row.version \in Nat
      BY <1>1, <3>1, WaitingSignIns DEF SignInOK, UserRows
    <3> QED
      BY <1>0, <2>4, <3>1, <3>2
  <2>7. ASSUME NEW s \in Threads, Changing(s)' PROVE ~request'[s].alone
    BY <1>7, <2>7, ChangeEndsRequests DEF Changing
  <2> QED
    BY <2>5, <2>6, <2>7 DEF SessionsOK
<1>8. ASSUME NEW by \in Users, NEW u \in Users, NEW role \in Roles, AddUser(by, u, role) PROVE SessionsOK'
  <2>1. /\ user[u] = Absent /\ UNCHANGED <<sessions, request>>
        /\ user' = [user EXCEPT ![u] = [role |-> role, enabled |-> TRUE, temporary |-> TRUE, version |-> 1]]
    BY <1>8 DEF AddUser
  <2>2. user'[u].version = 1 /\ user[u].version = 0
    BY <2>1 DEF AccountsTyped, Absent
  <2>3. \A v \in Users : v # u => user'[v] = user[v]
    BY <2>1
  <2>4. \A s \in sessions : s.version <= user'[s.user].version
    BY <1>0, <1>1, <2>2, <2>3
  <2>5. ASSUME NEW s \in Threads, Verifying(s) PROVE request[s].row.version <= user'[request[s].who].version
    <3>1. /\ request[s].row.version <= user[request[s].who].version
          /\ request[s].who \in Users /\ request[s].row.version \in Nat
      BY <1>1, <2>5, WaitingSignIns DEF SignInOK, UserRows
    <3> QED
      BY <1>0, <2>2, <2>3, <3>1
  <2>6. ASSUME NEW s \in Threads, Changing(s), request[s].alone PROVE request[s].row = user'[request[s].who]
    <3>1. request[s].row = user[request[s].who] /\ request[s].row # Absent
      BY <1>1, <2>6
    <3>2. request[s].who \in Users
      <4>1. request[s] \in ChangeRequests \/ request[s] \in PasswordRequests
        BY <2>6, ChangingRequests
      <4> QED
        BY <4>1, NewRowType
    <3>3. request[s].who # u
      BY <2>1, <3>1
    <3> QED
      BY <2>3, <3>1, <3>2, <3>3
  <2>7. \A s \in Threads : Changing(s) /\ request[s].alone => request[s].row # Absent
    BY <1>1
  <2> QED
    BY <2>1, <2>7, <2>4, <2>5, <2>6 DEF SessionsOK, Verifying, Changing
<1> QED
  BY <1>2, <1>3, <1>4, <1>5, <1>6, <1>7, <1>8 DEF AccountsNext

LEMMA ChangesSignOut ==
  ASSUME AccountsTyped, SessionsOK, AccountsNext \/ UNCHANGED accountVars,
         NEW u \in Users, ~raced', user[u] # Absent, Differs(user[u], user'[u]),
         NEW s \in sessions, s.user = u
  PROVE  s.version < user'[u].version
<1>1. user # user'
  BY DEF Differs
<1>2. PICK t \in Threads : ChangeEnds(t)
  <2>1. ~UNCHANGED user
    BY <1>1
  <2>2. ASSUME NEW by \in Users, NEW v \in Users, NEW role \in Roles, AddUser(by, v, role) PROVE FALSE
    BY <2>2 DEF AddUser, AccountsTyped, Differs
  <2> QED
    BY <2>1, <2>2 DEF AccountsNext, accountVars, SignInStarts, SignInEnds, WindowEnds, ChangeStarts, PasswordStarts
<1> DEFINE q == request[t]
           new == NewRow(q)
<1>3. ~raced /\ Changing(t) /\ q.alone
  BY <1>2 DEF ChangeEnds, Changing, AccountsTyped
<1>4. q.row = user[q.who]
  BY <1>3 DEF SessionsOK
<1>5. /\ q.who \in Users /\ new \in UserRows /\ user' = [user EXCEPT ![q.who] = new]
      /\ \/ new.version = user[q.who].version + 1
         \/ /\ new.version = user[q.who].version
            /\ new.role = user[q.who].role /\ new.enabled = user[q.who].enabled
  BY <1>2, <1>4, AloneWrites
<1>6. user \in [Users -> UserRows] /\ u = q.who
  BY <1>5 DEF AccountsTyped, Differs
<1>7. user'[u] = new
  BY <1>5, <1>6
<1>8. new.version = user[u].version + 1
  BY <1>5, <1>6, <1>7 DEF Differs
<1>9. s.version <= user[u].version /\ s.version \in Nat /\ user[u].version \in Nat
  BY <1>3, <1>6 DEF SessionsOK, AccountsTyped, UserRows
<1> QED
  BY <1>7, <1>8, <1>9

-----------------------------------------------------------------------------
AddEdits == [op : {"add"}, alone : BOOLEAN, rows : SUBSET DeviceRows]

DeviceEdits == [op : {"edit"}, alone : BOOLEAN, device : Devices, loaded : DeviceRows, row : DeviceRows]

RetireEdits == [op : {"retire"}, alone : BOOLEAN, group : Groups]

UploadEdits == [op : {"upload"}, alone : BOOLEAN, old : Nat]

Edits == AddEdits \union DeviceEdits \union RetireEdits \union UploadEdits

VerifyEdits == [op : {"verify"}, candidate : Addresses]

BookRows == [version : Nat, active : BOOLEAN]

(***************************************************************************)
(* The type invariant with the types of requests.  The version an upload   *)
(* replaces is one of the versions there are.                              *)
(***************************************************************************)
InventoryTyped ==
    /\ device \in [Devices -> DeviceRows]
    /\ retired \subseteq Groups /\ verified \subseteq Addresses /\ restored \subseteq Devices
    /\ books \in Seq(BookRows) /\ \A k \in 1..Len(books) : books[k].version \in 1..k
    /\ edit \in [Threads -> {Free} \union Edits \union VerifyEdits]
    /\ \A t \in Threads : edit[t] # Free /\ edit[t].op = "upload" => edit[t].old <= Len(books)
    /\ crossed \subseteq {"inventory", "books"}

\* The kinds of requests are told apart by what they do.
LEMMA EditSorts ==
  ASSUME NEW q
  PROVE  /\ q \in AddEdits => q.op = "add"
         /\ q \in DeviceEdits => q.op = "edit"
         /\ q \in RetireEdits => q.op = "retire"
         /\ q \in UploadEdits => q.op = "upload"
         /\ q \in VerifyEdits => q.op = "verify"
  BY DEF AddEdits, DeviceEdits, RetireEdits, UploadEdits, VerifyEdits

LEMMA EditOf ==
  ASSUME InventoryTyped, NEW t \in Threads, edit[t] # Free
  PROVE  /\ edit[t].op = "add" => edit[t] \in AddEdits
         /\ edit[t].op = "edit" => edit[t] \in DeviceEdits
         /\ edit[t].op = "retire" => edit[t] \in RetireEdits
         /\ edit[t].op = "upload" => edit[t] \in UploadEdits
         /\ edit[t].op = "verify" => edit[t] \in VerifyEdits
         /\ edit[t].op # "verify" => edit[t] \in Edits
  BY EditSorts DEF InventoryTyped, Edits

LEMMA InventoryTypedInit == InventoryInit => InventoryTyped
<1> SUFFICES ASSUME InventoryInit PROVE InventoryTyped
  OBVIOUS
<1>1. device \in [Devices -> DeviceRows]
  BY InventoryAssumption DEF InventoryInit
<1>2. books \in Seq(BookRows) /\ Len(books) = 0
  BY DEF InventoryInit
<1>3. \A t \in Threads : edit[t] = Free
  BY DEF InventoryInit
<1> QED
  BY <1>1, <1>2, <1>3 DEF InventoryInit, InventoryTyped

\* A commit leaves the requests of others as they are, but for those on its table, which are not alone any longer.
LEMMA CommitsEdits ==
  ASSUME InventoryTyped, NEW t \in Threads, edit[t] # Free, Commits(t)
  PROVE  /\ edit'[t] = Free /\ edit' \in [Threads -> {Free} \union Edits \union VerifyEdits]
         /\ \A s \in Threads \ {t} :
              \/ edit'[s] = edit[s] /\ (edit[s] = Free \/ edit[s].op = "verify" \/ Table(edit[s]) # Table(edit[t]))
              \/ /\ edit'[s].alone = FALSE /\ edit'[s].op = edit[s].op /\ edit[s] # Free
                 /\ edit[s].op = "upload" => edit'[s].old = edit[s].old
         /\ crossed' = (IF edit[t].alone THEN crossed ELSE crossed \union {Table(edit[t])}) /\ verified' = verified
<1>1. edit' = [s \in Threads |->
            IF s = t THEN Free
            ELSE IF edit[s] # Free /\ edit[s].op # "verify" /\ Table(edit[s]) = Table(edit[t])
            THEN [edit[s] EXCEPT !.alone = FALSE]
            ELSE edit[s]]
  BY DEF Commits
<1>2. ASSUME NEW s \in Threads \ {t}, edit[s] # Free, edit[s].op # "verify", NEW q, q = [edit[s] EXCEPT !.alone = FALSE]
      PROVE  q \in Edits /\ q.alone = FALSE /\ q.op = edit[s].op /\ (edit[s].op = "upload" => q.old = edit[s].old)
  <2>1. edit[s] \in Edits
    BY <1>2, EditOf
  <2>2. CASE edit[s] \in AddEdits
    BY <1>2, <2>2, EditSorts DEF AddEdits, Edits
  <2>3. CASE edit[s] \in DeviceEdits
    BY <1>2, <2>3, EditSorts DEF DeviceEdits, Edits
  <2>4. CASE edit[s] \in RetireEdits
    BY <1>2, <2>4, EditSorts DEF RetireEdits, Edits
  <2>5. CASE edit[s] \in UploadEdits
    BY <1>2, <2>5, EditSorts DEF UploadEdits, Edits
  <2> QED
    BY <2>1, <2>2, <2>3, <2>4, <2>5 DEF Edits
<1>3. edit'[t] = Free
  BY <1>1
<1>4. \A s \in Threads \ {t} :
         \/ edit'[s] = edit[s] /\ (edit[s] = Free \/ edit[s].op = "verify" \/ Table(edit[s]) # Table(edit[t]))
         \/ edit[s] # Free /\ edit[s].op # "verify" /\ edit'[s] = [edit[s] EXCEPT !.alone = FALSE]
  BY <1>1
<1>5. \A s \in Threads : edit'[s] \in {Free} \union Edits \union VerifyEdits
  BY <1>2, <1>3, <1>4 DEF InventoryTyped
<1>6. edit' \in [Threads -> {Free} \union Edits \union VerifyEdits]
  BY <1>1, <1>5
<1>7. crossed' = (IF edit[t].alone THEN crossed ELSE crossed \union {Table(edit[t])}) /\ verified' = verified
  BY DEF Commits
<1> QED
  BY <1>2, <1>3, <1>4, <1>6, <1>7

LEMMA BeginsTyped ==
  ASSUME InventoryTyped, NEW t \in Threads, NEW q \in Edits, Begins(t, q), q.op = "upload" => q.old <= Len(books)
  PROVE  InventoryTyped'
  BY DEF Begins, InventoryTyped

LEMMA RowType == ASSUME NEW a \in Addresses, NEW g \in Groups \union {Free} PROVE Row(a, g) \in DeviceRows
  BY DEF Row, DeviceRows

LEMMA FoundVersion == InventoryTyped => Found \in 0..Len(books)
<1> SUFFICES ASSUME InventoryTyped PROVE Found \in 0..Len(books)
  OBVIOUS
<1>1. Len(books) \in Nat /\ DOMAIN books = 1..Len(books)
  BY DEF InventoryTyped
<1>2. CASE ~\E k \in DOMAIN books : books[k].active
  BY <1>1, <1>2 DEF Found
<1>3. CASE \E k \in DOMAIN books : books[k].active
  BY <1>1, <1>3 DEF Found
<1> QED
  BY <1>2, <1>3

LEMMA UploadedType ==
  ASSUME InventoryTyped, NEW old \in 0..Len(books)
  PROVE  /\ Uploaded(old) \in Seq(BookRows) /\ Len(Uploaded(old)) = Len(books) + 1
         /\ \A k \in 1..Len(books) : Uploaded(old)[k] = IF k = old THEN [books[k] EXCEPT !.active = FALSE] ELSE books[k]
         /\ Uploaded(old)[Len(books) + 1] =
                [version |-> IF old = 0 THEN 1 ELSE books[old].version + 1, active |-> TRUE]
<1> DEFINE kept == [k \in DOMAIN books |-> IF k = old THEN [books[k] EXCEPT !.active = FALSE] ELSE books[k]]
           new == [version |-> IF old = 0 THEN 1 ELSE books[old].version + 1, active |-> TRUE]
<1>1. Len(books) \in Nat /\ DOMAIN books = 1..Len(books) /\ \A k \in 1..Len(books) : books[k] \in BookRows
  BY DEF InventoryTyped
<1>2. \A k \in 1..Len(books) : [books[k] EXCEPT !.active = FALSE] \in BookRows
  BY <1>1 DEF BookRows
<1>3. kept \in [1..Len(books) -> BookRows]
  BY <1>1, <1>2
<1>4. kept \in Seq(BookRows) /\ Len(kept) = Len(books)
  BY <1>1, <1>3
<1>5. new \in BookRows
  <2>1. old # 0 => books[old].version + 1 \in Nat
    BY <1>1 DEF BookRows
  <2> QED
    BY <2>1 DEF BookRows
<1>6. Uploaded(old) = Append(kept, new)
  BY DEF Uploaded
<1>7. \A k \in 1..Len(books) : kept[k] = IF k = old THEN [books[k] EXCEPT !.active = FALSE] ELSE books[k]
  BY <1>1
<1> HIDE DEF kept, new
<1>8. /\ Append(kept, new) \in Seq(BookRows) /\ Len(Append(kept, new)) = Len(books) + 1
      /\ \A k \in 1..Len(books) : Append(kept, new)[k] = kept[k]
      /\ Append(kept, new)[Len(books) + 1] = new
  BY <1>1, <1>4, <1>5
<1> QED
  BY <1>6, <1>7, <1>8 DEF new

LEMMA InventoryTypedStep == InventoryTyped /\ InventoryNext => InventoryTyped'
<1> SUFFICES ASSUME InventoryTyped, InventoryNext PROVE InventoryTyped'
  OBVIOUS
<1>1. ASSUME NEW t \in Threads, NEW a \in Addresses, NEW g \in Groups \union {Free}, AddStarts(t, a, g)
      PROVE  InventoryTyped'
  <2> DEFINE q == [op |-> "add", alone |-> TRUE, rows |-> {Row(a, g)}]
  <2>1. q \in AddEdits /\ q.op = "add"
    BY RowType DEF AddEdits
  <2>2. Begins(t, q)
    BY <1>1 DEF AddStarts
  <2> HIDE DEF q
  <2> QED
    BY <2>1, <2>2, BeginsTyped DEF Edits
<1>2. ASSUME NEW t \in Threads, NEW d \in Devices, NEW row \in DeviceRows,
             Begins(t, [op |-> "edit", alone |-> TRUE, device |-> d, loaded |-> device[d], row |-> row])
      PROVE  InventoryTyped'
  <2> DEFINE q == [op |-> "edit", alone |-> TRUE, device |-> d, loaded |-> device[d], row |-> row]
  <2>1. q \in DeviceEdits /\ q.op = "edit"
    BY DEF DeviceEdits, InventoryTyped
  <2>2. Begins(t, q)
    BY <1>2
  <2> HIDE DEF q
  <2> QED
    BY <2>1, <2>2, BeginsTyped DEF Edits
<1>3. ASSUME NEW t \in Threads, NEW a \in Addresses, NEW g \in Groups \union {Free}, NEW d \in Devices,
             EditStarts(t, d, a, g)
      PROVE  InventoryTyped'
  BY <1>2, <1>3, RowType DEF EditStarts
<1>4. ASSUME NEW t \in Threads, NEW d \in Devices, ArchiveStarts(t, d) \/ RestoreStarts(t, d) PROVE InventoryTyped'
  <2>1. device[d] \in DeviceRows
    BY DEF InventoryTyped
  <2>2. [device[d] EXCEPT !.state = "archived"] \in DeviceRows /\ [device[d] EXCEPT !.state = "active"] \in DeviceRows
    BY <2>1 DEF DeviceRows
  <2> QED
    BY <1>2, <1>4, <2>2 DEF ArchiveStarts, RestoreStarts
<1>5. ASSUME NEW t \in Threads, NEW g \in Groups, RetireStarts(t, g) PROVE InventoryTyped'
  <2> DEFINE q == [op |-> "retire", alone |-> TRUE, group |-> g]
  <2>1. q \in RetireEdits /\ q.op = "retire"
    BY DEF RetireEdits
  <2>2. Begins(t, q)
    BY <1>5 DEF RetireStarts
  <2> HIDE DEF q
  <2> QED
    BY <2>1, <2>2, BeginsTyped DEF Edits
<1>6. ASSUME NEW t \in Threads, NEW chosen \in SUBSET Addresses, NEW g \in Groups \union {Free}, ImportStarts(t, chosen, g)
      PROVE  InventoryTyped'
  <2> DEFINE q == [op |-> "add", alone |-> TRUE, rows |-> {Row(c, g) : c \in {x \in chosen : ~Taken(x, Free)}}]
  <2>1. {Row(c, g) : c \in {x \in chosen : ~Taken(x, Free)}} \in SUBSET DeviceRows
    BY RowType
  <2>2. q \in AddEdits /\ q.op = "add"
    BY <2>1 DEF AddEdits
  <2>3. Begins(t, q)
    BY <1>6 DEF ImportStarts
  <2> HIDE DEF q
  <2> QED
    BY <2>2, <2>3, BeginsTyped DEF Edits
<1>7. ASSUME NEW t \in Threads, NEW c \in Addresses, VerifyStarts(t, c) PROVE InventoryTyped'
  <2> DEFINE q == [op |-> "verify", candidate |-> c]
  <2>1. q \in VerifyEdits /\ q.op = "verify"
    BY DEF VerifyEdits
  <2>2. edit' = [edit EXCEPT ![t] = q] /\ verified' = verified \ {c} /\ UNCHANGED <<device, retired, books, restored, crossed>>
    BY <1>7 DEF VerifyStarts
  <2> HIDE DEF q
  <2> QED
    BY <2>1, <2>2 DEF InventoryTyped
<1>8. ASSUME NEW t \in Threads, NEW replace \in BOOLEAN, UploadStarts(t, replace) PROVE InventoryTyped'
  <2> DEFINE q == [op |-> "upload", alone |-> TRUE, old |-> Found]
  <2>1. Found \in Nat /\ Found <= Len(books)
    BY FoundVersion DEF InventoryTyped
  <2>2. q \in UploadEdits /\ q.old <= Len(books)
    BY <2>1 DEF UploadEdits
  <2>3. Begins(t, q)
    BY <1>8 DEF UploadStarts
  <2> HIDE DEF q
  <2> QED
    BY <2>2, <2>3, BeginsTyped DEF Edits
<1>9. ASSUME NEW t \in Threads, NEW good \in BOOLEAN, VerifyEnds(t, good) PROVE InventoryTyped'
  <2>1. edit[t].candidate \in Addresses
    BY <1>9, EditOf DEF VerifyEnds, VerifyEdits
  <2> QED
    BY <1>9, <2>1 DEF VerifyEnds, InventoryTyped
<1>10. ASSUME NEW c \in Addresses, Lapses(c) PROVE InventoryTyped'
  BY <1>10 DEF Lapses, InventoryTyped
<1>11. ASSUME NEW t \in Threads, edit[t] # Free, edit[t].op # "verify", Commits(t), UNCHANGED books,
              device' \in [Devices -> DeviceRows], retired' \subseteq Groups, restored' \subseteq Devices
       PROVE  InventoryTyped'
  <2>1. Table(edit[t]) \in {"inventory", "books"}
    BY DEF Table
  <2>2. \A s \in Threads : edit'[s] # Free /\ edit'[s].op = "upload" => edit'[s].old <= Len(books)
    BY <1>11, CommitsEdits DEF InventoryTyped
  <2>3. crossed' \subseteq {"inventory", "books"}
    BY <1>11, <2>1, CommitsEdits DEF InventoryTyped
  <2> QED
    BY <1>11, <2>2, <2>3, CommitsEdits DEF InventoryTyped
<1>12. ASSUME NEW t \in Threads, AddEnds(t) PROVE InventoryTyped'
  <2>1. edit[t] \in AddEdits /\ edit[t] # Free /\ edit[t].op = "add"
    BY <1>12, EditOf DEF AddEnds
  <2>2. PICK new \in [edit[t].rows -> {d \in Devices : device[d] = Unused}] :
            device' = [d \in Devices |->
                IF \E r \in DOMAIN new : new[r] = d THEN CHOOSE r \in DOMAIN new : new[r] = d ELSE device[d]]
    BY <1>12 DEF AddEnds
  <2>3. DOMAIN new \subseteq DeviceRows
    BY <2>1 DEF AddEdits
  <2>4. device' \in [Devices -> DeviceRows]
    BY <2>2, <2>3 DEF InventoryTyped
  <2> QED
    BY <1>11, <1>12, <2>1, <2>4 DEF AddEnds, InventoryTyped
<1>13. ASSUME NEW t \in Threads, EditEnds(t) PROVE InventoryTyped'
  <2> DEFINE q == edit[t]
  <2>1. q \in DeviceEdits /\ q # Free /\ q.op = "edit"
    BY <1>13, EditOf DEF EditEnds
  <2>2. q.device \in Devices /\ q.row \in DeviceRows /\ q.loaded \in DeviceRows /\ device[q.device] \in DeviceRows
    BY <2>1 DEF DeviceEdits, InventoryTyped
  <2> DEFINE new == [c \in DOMAIN q.row |-> IF q.row[c] = q.loaded[c] THEN device[q.device][c] ELSE q.row[c]]
  <2>3. new \in DeviceRows
    BY <2>2 DEF DeviceRows
  <2>4. device' = [device EXCEPT ![q.device] = new]
    BY <1>13 DEF EditEnds
  <2>5. device' \in [Devices -> DeviceRows] /\ restored' \subseteq Devices
    BY <1>13, <2>2, <2>3, <2>4 DEF InventoryTyped, EditEnds
  <2> QED
    BY <1>11, <1>13, <2>1, <2>5 DEF EditEnds, InventoryTyped
<1>14. ASSUME NEW t \in Threads, RetireEnds(t) PROVE InventoryTyped'
  <2>1. edit[t] \in RetireEdits /\ edit[t] # Free /\ edit[t].op = "retire"
    BY <1>14, EditOf DEF RetireEnds
  <2>2. retired' \subseteq Groups
    BY <1>14, <2>1 DEF RetireEnds, RetireEdits, InventoryTyped
  <2> QED
    BY <1>11, <1>14, <2>1, <2>2 DEF RetireEnds, InventoryTyped
<1>15. ASSUME NEW t \in Threads, UploadEnds(t) PROVE InventoryTyped'
  <2>1. edit[t] \in UploadEdits /\ edit[t] # Free /\ edit[t].op = "upload"
    BY <1>15, EditOf DEF UploadEnds
  <2>2. edit[t].old \in 0..Len(books) /\ Len(books) \in Nat
    BY <2>1 DEF InventoryTyped, UploadEdits
  <2>3. books' = Uploaded(edit[t].old) /\ Commits(t) /\ UNCHANGED <<device, retired, restored>>
    BY <1>15 DEF UploadEnds
  <2>4. books' \in Seq(BookRows) /\ Len(books') = Len(books) + 1
    BY <2>2, <2>3, UploadedType
  <2>8. /\ \A k \in 1..Len(books) : books'[k] = IF k = edit[t].old THEN [books[k] EXCEPT !.active = FALSE] ELSE books[k]
        /\ books'[Len(books) + 1] =
                [version |-> IF edit[t].old = 0 THEN 1 ELSE books[edit[t].old].version + 1, active |-> TRUE]
    <3> DEFINE old == edit[t].old
    <3>1. old \in 0..Len(books)
      BY <2>2
    <3> HIDE DEF old
    <3>2. /\ \A k \in 1..Len(books) : Uploaded(old)[k] = IF k = old THEN [books[k] EXCEPT !.active = FALSE] ELSE books[k]
          /\ Uploaded(old)[Len(books) + 1] =
                [version |-> IF old = 0 THEN 1 ELSE books[old].version + 1, active |-> TRUE]
      BY <3>1, UploadedType
    <3>3. books' = Uploaded(old)
      BY <2>3 DEF old
    <3> QED
      BY <3>2, <3>3 DEF old
  <2>5. \A k \in 1..Len(books') : books'[k].version \in 1..k
    <3> SUFFICES ASSUME NEW k \in 1..Len(books') PROVE books'[k].version \in 1..k
      OBVIOUS
    <3>1. CASE k <= Len(books)
      <4>1. books'[k] = IF k = edit[t].old THEN [books[k] EXCEPT !.active = FALSE] ELSE books[k]
        <5>1. k \in 1..Len(books)
          BY <2>2, <2>4, <3>1
        <5> QED
          BY <2>8, <5>1
      <4>2. books[k] \in BookRows /\ books[k].version \in 1..k
        BY <2>2, <3>1 DEF InventoryTyped
      <4>3. books'[k].version = books[k].version
        BY <4>1, <4>2 DEF BookRows
      <4> QED
        BY <4>2, <4>3
    <3>2. CASE k = Len(books) + 1
      <4>1. books'[k].version = IF edit[t].old = 0 THEN 1 ELSE books[edit[t].old].version + 1
        BY <2>8, <3>2
      <4>2. edit[t].old # 0 => books[edit[t].old].version \in 1..edit[t].old
        BY <2>2 DEF InventoryTyped
      <4> QED
        BY <2>2, <3>2, <4>1, <4>2
    <3> QED
      BY <2>2, <2>4, <3>1, <3>2
  <2>6. \A s \in Threads : edit'[s] # Free /\ edit'[s].op = "upload" => edit'[s].old <= Len(books')
    <3>1. \A s \in Threads : edit'[s] # Free /\ edit'[s].op = "upload" => edit'[s].old <= Len(books) /\ edit'[s].old \in Nat
      <4> SUFFICES ASSUME NEW s \in Threads, edit'[s] # Free, edit'[s].op = "upload"
                   PROVE  edit'[s].old <= Len(books) /\ edit'[s].old \in Nat
        OBVIOUS
      <4>1. edit[s] # Free /\ edit[s].op = "upload" /\ edit'[s].old = edit[s].old
        BY <2>1, <2>3, CommitsEdits
      <4> QED
        BY <4>1, EditOf DEF InventoryTyped, UploadEdits
    <3> QED
      BY <2>2, <2>4, <3>1
  <2>7. crossed' \subseteq {"inventory", "books"}
    BY <2>1, <2>3, CommitsEdits DEF InventoryTyped, Table
  <2> QED
    BY <2>1, <2>3, <2>4, <2>5, <2>6, <2>7, CommitsEdits DEF InventoryTyped
<1>16. ASSUME NEW t \in Threads, EditFails(t) PROVE InventoryTyped'
  BY <1>16 DEF EditFails, InventoryTyped
<1> QED
  BY <1>1, <1>3, <1>4, <1>5, <1>6, <1>7, <1>8, <1>9, <1>10, <1>12, <1>13, <1>14, <1>15, <1>16 DEF InventoryNext

(***************************************************************************)
(* Groups.  As long as no two requests overlapped, what a request checked  *)
(* still holds when it commits: its rows are in groups that are kept, the  *)
(* row it changes is as it was loaded, the group it archives is empty.     *)
(***************************************************************************)
Alone(t, op) == edit[t] # Free /\ edit[t].op = op /\ edit[t].alone

GroupsOK ==
    "inventory" \notin crossed =>
        /\ \A d \in Devices : Active(d) /\ device[d].group \in retired => d \in restored
        /\ \A t \in Threads : Alone(t, "add") => \A row \in edit[t].rows : row.group \notin retired
        /\ \A t \in Threads : Alone(t, "edit") =>
                /\ edit[t].loaded = device[edit[t].device] /\ edit[t].loaded.state \in {"active", "archived"}
                /\ edit[t].row.group = edit[t].loaded.group \/ edit[t].row.group \notin retired
        /\ \A t \in Threads : Alone(t, "retire") => Vacant(edit[t].group)

LEMMA GroupsInit == InventoryInit => GroupsOK
  BY DEF InventoryInit, GroupsOK, Alone

LEMMA GroupsStep == InventoryTyped /\ GroupsOK /\ InventoryNext => GroupsOK'
<1> SUFFICES ASSUME InventoryTyped, GroupsOK, InventoryNext, "inventory" \notin crossed' PROVE GroupsOK'
  BY DEF GroupsOK
<1>0. \A g : Usable(g) => g \notin retired
  BY InventoryAssumption DEF Usable, InventoryTyped
<1>1. ASSUME NEW t \in Threads, NEW q, Begins(t, q),
             q.op = "add" => \A row \in q.rows : row.group \notin retired,
             q.op = "edit" => /\ q.loaded = device[q.device] /\ q.loaded.state \in {"active", "archived"}
                              /\ q.row.group = q.loaded.group \/ q.row.group \notin retired,
             q.op = "retire" => Vacant(q.group)
      PROVE  GroupsOK'
  <2>1. edit' = [edit EXCEPT ![t] = q] /\ UNCHANGED <<device, retired, restored, crossed>>
    BY <1>1 DEF Begins
  <2>2. /\ \A d \in Devices : Active(d) /\ device[d].group \in retired => d \in restored
        /\ \A s \in Threads : Alone(s, "add") => \A row \in edit[s].rows : row.group \notin retired
        /\ \A s \in Threads : Alone(s, "edit") =>
                /\ edit[s].loaded = device[edit[s].device] /\ edit[s].loaded.state \in {"active", "archived"}
                /\ edit[s].row.group = edit[s].loaded.group \/ edit[s].row.group \notin retired
        /\ \A s \in Threads : Alone(s, "retire") => Vacant(edit[s].group)
    BY <2>1 DEF GroupsOK
  <2>3. edit'[t] = q /\ \A s \in Threads \ {t} : edit'[s] = edit[s]
    BY <2>1 DEF InventoryTyped
  <2>4. \A s \in Threads : Alone(s, "add")' => \A row \in edit'[s].rows : row.group \notin retired
    BY <1>1, <2>2, <2>3 DEF Alone
  <2>5. \A s \in Threads : Alone(s, "edit")' =>
                /\ edit'[s].loaded = device[edit'[s].device] /\ edit'[s].loaded.state \in {"active", "archived"}
                /\ edit'[s].row.group = edit'[s].loaded.group \/ edit'[s].row.group \notin retired
    BY <1>1, <2>2, <2>3 DEF Alone
  <2>6. \A s \in Threads : Alone(s, "retire")' => Vacant(edit'[s].group)
    BY <1>1, <2>2, <2>3 DEF Alone
  <2> QED
    BY <2>1, <2>2, <2>4, <2>5, <2>6 DEF GroupsOK, Active, Vacant
<1>2. ASSUME NEW t \in Threads, NEW a \in Addresses, NEW g \in Groups \union {Free}, AddStarts(t, a, g)
      PROVE  GroupsOK'
  <2> DEFINE q == [op |-> "add", alone |-> TRUE, rows |-> {Row(a, g)}]
  <2>1. q.op = "add" /\ \A row \in q.rows : row.group \notin retired
    BY <1>0, <1>2 DEF AddStarts, Row
  <2>2. Begins(t, q)
    BY <1>2 DEF AddStarts
  <2> HIDE DEF q
  <2> QED
    BY <1>1, <2>1, <2>2
<1>3. ASSUME NEW t \in Threads, NEW d \in Devices, NEW row, device[d].state \in {"active", "archived"},
             row.group = device[d].group \/ row.group \notin retired,
             Begins(t, [op |-> "edit", alone |-> TRUE, device |-> d, loaded |-> device[d], row |-> row])
      PROVE  GroupsOK'
  <2> DEFINE q == [op |-> "edit", alone |-> TRUE, device |-> d, loaded |-> device[d], row |-> row]
  <2>1. /\ q.op = "edit" /\ q.loaded = device[q.device] /\ q.loaded.state \in {"active", "archived"}
        /\ q.row.group = q.loaded.group \/ q.row.group \notin retired
    BY <1>3
  <2>2. Begins(t, q)
    BY <1>3
  <2> HIDE DEF q
  <2> QED
    BY <1>1, <2>1, <2>2
<1>4. ASSUME NEW t \in Threads, NEW a \in Addresses, NEW g \in Groups \union {Free}, NEW d \in Devices,
             EditStarts(t, d, a, g)
      PROVE  GroupsOK'
  BY <1>0, <1>3, <1>4 DEF EditStarts, Active, Row
<1>5. ASSUME NEW t \in Threads, NEW d \in Devices, ArchiveStarts(t, d) \/ RestoreStarts(t, d) PROVE GroupsOK'
  <2>1. device[d] \in DeviceRows
    BY DEF InventoryTyped
  <2>2. /\ [device[d] EXCEPT !.state = "archived"].group = device[d].group
        /\ [device[d] EXCEPT !.state = "active"].group = device[d].group
    BY <2>1 DEF DeviceRows
  <2>3. CASE ArchiveStarts(t, d)
    <3> DEFINE row == [device[d] EXCEPT !.state = "archived"]
    <3>1. row.group = device[d].group /\ device[d].state = "active"
      BY <2>2, <2>3 DEF ArchiveStarts, Active
    <3>2. Begins(t, [op |-> "edit", alone |-> TRUE, device |-> d, loaded |-> device[d], row |-> row])
      BY <2>3 DEF ArchiveStarts
    <3> HIDE DEF row
    <3> QED
      BY <1>3, <3>1, <3>2
  <2>4. CASE RestoreStarts(t, d)
    <3> DEFINE row == [device[d] EXCEPT !.state = "active"]
    <3>1. row.group = device[d].group /\ device[d].state = "archived"
      BY <2>2, <2>4 DEF RestoreStarts
    <3>2. Begins(t, [op |-> "edit", alone |-> TRUE, device |-> d, loaded |-> device[d], row |-> row])
      BY <2>4 DEF RestoreStarts
    <3> HIDE DEF row
    <3> QED
      BY <1>3, <3>1, <3>2
  <2> QED
    BY <1>5, <2>3, <2>4
<1>6. ASSUME NEW t \in Threads, NEW g \in Groups, RetireStarts(t, g) PROVE GroupsOK'
  <2> DEFINE q == [op |-> "retire", alone |-> TRUE, group |-> g]
  <2>1. q.op = "retire" /\ Vacant(q.group)
    BY <1>6 DEF RetireStarts
  <2>2. Begins(t, q)
    BY <1>6 DEF RetireStarts
  <2> HIDE DEF q
  <2> QED
    BY <1>1, <2>1, <2>2
<1>7. ASSUME NEW t \in Threads, NEW chosen \in SUBSET Addresses, NEW g \in Groups \union {Free}, ImportStarts(t, chosen, g)
      PROVE  GroupsOK'
  <2> DEFINE q == [op |-> "add", alone |-> TRUE, rows |-> {Row(c, g) : c \in {x \in chosen : ~Taken(x, Free)}}]
  <2>1. q.op = "add" /\ \A row \in q.rows : row.group \notin retired
    BY <1>0, <1>7 DEF ImportStarts, Row
  <2>2. Begins(t, q)
    BY <1>7 DEF ImportStarts
  <2> HIDE DEF q
  <2> QED
    BY <1>1, <2>1, <2>2
<1>8. ASSUME NEW t \in Threads, NEW replace \in BOOLEAN, UploadStarts(t, replace) PROVE GroupsOK'
  <2> DEFINE q == [op |-> "upload", alone |-> TRUE, old |-> Found]
  <2>1. q.op = "upload"
    OBVIOUS
  <2>2. Begins(t, q)
    BY <1>8 DEF UploadStarts
  <2> HIDE DEF q
  <2> QED
    BY <1>1, <2>1, <2>2
<1>9. ASSUME UNCHANGED <<device, retired, restored, crossed>>,
             \A s \in Threads : edit'[s] = edit[s] \/ edit'[s] = Free \/ edit'[s].op = "verify" \/ ~edit'[s].alone
      PROVE  GroupsOK'
  <2>1. \A s \in Threads, op \in {"add", "edit", "retire"} : Alone(s, op)' => Alone(s, op) /\ edit'[s] = edit[s]
    BY <1>9 DEF Alone
  <2> QED
    BY <1>9, <2>1 DEF GroupsOK, Active, Vacant
<1>10. ASSUME NEW t \in Threads, NEW c \in Addresses, VerifyStarts(t, c) PROVE GroupsOK'
  <2> DEFINE q == [op |-> "verify", candidate |-> c]
  <2>1. q.op = "verify"
    OBVIOUS
  <2>2. edit' = [edit EXCEPT ![t] = q] /\ UNCHANGED <<device, retired, restored, crossed>>
    BY <1>10 DEF VerifyStarts
  <2> HIDE DEF q
  <2> QED
    BY <1>9, <2>1, <2>2 DEF InventoryTyped
<1>11. ASSUME NEW t \in Threads, NEW good \in BOOLEAN, VerifyEnds(t, good) PROVE GroupsOK'
  BY <1>9, <1>11 DEF VerifyEnds, InventoryTyped
<1>12. ASSUME NEW c \in Addresses, Lapses(c) PROVE GroupsOK'
  BY <1>9, <1>12 DEF Lapses
<1>13. ASSUME NEW t \in Threads, EditFails(t) PROVE GroupsOK'
  BY <1>9, <1>13 DEF EditFails, InventoryTyped
<1>14. ASSUME NEW t \in Threads, edit[t] # Free, edit[t].op \in {"add", "edit", "retire"}, Commits(t)
       PROVE  /\ "inventory" \notin crossed /\ Alone(t, edit[t].op)
              /\ \A s \in Threads : \A op \in {"add", "edit", "retire"} : ~Alone(s, op)'
  <2>1. Table(edit[t]) = "inventory"
    BY <1>14 DEF Table
  <2>2. edit[t].alone /\ "inventory" \notin crossed
    BY <1>14, <2>1, CommitsEdits
  <2>3. ASSUME NEW s \in Threads, NEW op \in {"add", "edit", "retire"}, Alone(s, op)' PROVE FALSE
    <3>1. s # t /\ edit'[s] = edit[s] /\ edit[s].op = op
      BY <1>14, <2>3, CommitsEdits DEF Alone
    <3>2. Table(edit[s]) = "inventory"
      BY <3>1 DEF Table
    <3> QED
      BY <1>14, <2>1, <2>3, <3>1, <3>2, CommitsEdits DEF Alone
  <2> QED
    BY <1>14, <2>2, <2>3 DEF Alone
<1>15. ASSUME \A s \in Threads : \A op \in {"add", "edit", "retire"} : ~Alone(s, op)',
              \A d \in Devices : device'[d].state = "active" /\ device'[d].group \in retired' => d \in restored'
       PROVE  GroupsOK'
  BY <1>15 DEF GroupsOK, Active
<1>16. "inventory" \notin crossed =>
          \A d \in Devices : device[d].state = "active" /\ device[d].group \in retired => d \in restored
  BY DEF GroupsOK, Active
<1>17. ASSUME NEW t \in Threads, AddEnds(t) PROVE GroupsOK'
  <2>1. /\ edit[t] # Free /\ edit[t].op = "add" /\ Commits(t) /\ UNCHANGED <<retired, restored>>
    BY <1>17 DEF AddEnds
  <2>2. \A row \in edit[t].rows : row.group \notin retired
    BY <1>14, <2>1 DEF GroupsOK
  <2>3. PICK new \in [edit[t].rows -> {d \in Devices : device[d] = Unused}] :
            device' = [d \in Devices |->
                IF \E r \in DOMAIN new : new[r] = d THEN CHOOSE r \in DOMAIN new : new[r] = d ELSE device[d]]
    BY <1>17 DEF AddEnds
  <2>4. \A d \in Devices : device'[d] \in edit[t].rows \/ device'[d] = device[d]
    BY <2>3
  <2>5. \A d \in Devices : device'[d].state = "active" /\ device'[d].group \in retired' => d \in restored'
    BY <1>14, <1>16, <2>1, <2>2, <2>4
  <2> QED
    BY <1>14, <1>15, <2>1, <2>5
<1>18. ASSUME NEW t \in Threads, EditEnds(t) PROVE GroupsOK'
  <2> DEFINE q == edit[t]
  <2>1. /\ q # Free /\ q.op = "edit" /\ Commits(t) /\ retired' = retired
        /\ device' = [device EXCEPT ![q.device] =
                        [c \in DOMAIN q.row |-> IF q.row[c] = q.loaded[c] THEN @[c] ELSE q.row[c]]]
        /\ restored' = IF q.loaded.state = "archived" THEN restored \union {q.device} ELSE restored
    BY <1>18 DEF EditEnds
  <2>2. q.device \in Devices /\ q.row \in DeviceRows
    BY <2>1, EditOf DEF DeviceEdits
  <2>3. /\ q.loaded = device[q.device] /\ q.loaded.state \in {"active", "archived"}
        /\ q.row.group = q.loaded.group \/ q.row.group \notin retired
    BY <1>14, <2>1 DEF GroupsOK
  <2>4. /\ device'[q.device].group = q.row.group /\ \A d \in Devices \ {q.device} : device'[d] = device[d]
    BY <2>1, <2>2, <2>3 DEF InventoryTyped, DeviceRows
  <2>5. \A d \in Devices : device'[d].state = "active" /\ device'[d].group \in retired' => d \in restored'
    <3> SUFFICES ASSUME NEW d \in Devices, device'[d].state = "active", device'[d].group \in retired PROVE d \in restored'
      BY <2>1
    <3>1. CASE d # q.device
      BY <1>14, <1>16, <2>1, <2>4, <3>1
    <3>2. CASE d = q.device
      <4>1. device[d].group \in retired
        BY <2>3, <2>4, <3>2
      <4> QED
        BY <1>14, <1>16, <2>1, <2>3, <3>2, <4>1
    <3> QED
      BY <3>1, <3>2
  <2> QED
    BY <1>14, <1>15, <2>1, <2>5
<1>19. ASSUME NEW t \in Threads, RetireEnds(t) PROVE GroupsOK'
  <2>1. /\ edit[t] # Free /\ edit[t].op = "retire" /\ Commits(t) /\ UNCHANGED <<device, restored>>
        /\ retired' = retired \union {edit[t].group}
    BY <1>19 DEF RetireEnds
  <2>2. Vacant(edit[t].group)
    BY <1>14, <2>1 DEF GroupsOK
  <2>3. \A d \in Devices : device'[d].state = "active" /\ device'[d].group \in retired' => d \in restored'
    BY <1>14, <1>16, <2>1, <2>2 DEF Vacant, Active
  <2> QED
    BY <1>14, <1>15, <2>1, <2>3
<1>20. ASSUME NEW t \in Threads, UploadEnds(t) PROVE GroupsOK'
  <2>1. edit[t] # Free /\ edit[t].op = "upload" /\ Commits(t) /\ UNCHANGED <<device, retired, restored>>
    BY <1>20 DEF UploadEnds
  <2>2. "inventory" \notin crossed
    BY <2>1, CommitsEdits
  <2>3. \A s \in Threads, op \in {"add", "edit", "retire"} : Alone(s, op)' => Alone(s, op) /\ edit'[s] = edit[s]
    BY <2>1, CommitsEdits DEF Alone
  <2> QED
    BY <2>1, <2>2, <2>3 DEF GroupsOK, Active, Vacant
<1> QED
  BY <1>2, <1>4, <1>5, <1>6, <1>7, <1>8, <1>10, <1>11, <1>12, <1>13, <1>17, <1>18, <1>19, <1>20 DEF InventoryNext

LEMMA GroupsEmpty == GroupsOK => ArchivedGroupsEmpty
  BY DEF GroupsOK, ArchivedGroupsEmpty

(***************************************************************************)
(* The catalog.  As long as no two uploads overlapped, the version an      *)
(* upload found is the last one, and the only one that is active.          *)
(***************************************************************************)
BooksOK ==
    "books" \notin crossed =>
        /\ \A k \in 1..Len(books) : books[k].version = k /\ (books[k].active <=> k = Len(books))
        /\ \A t \in Threads : Alone(t, "upload") => edit[t].old = Len(books)

LEMMA BooksInit == InventoryInit => BooksOK
  BY DEF InventoryInit, BooksOK, Alone

LEMMA FoundIsLast ==
  ASSUME InventoryTyped, \A k \in 1..Len(books) : books[k].active <=> k = Len(books)
  PROVE  Found = Len(books)
<1>1. Len(books) \in Nat /\ DOMAIN books = 1..Len(books)
  BY DEF InventoryTyped
<1>2. CASE Len(books) = 0
  BY <1>1, <1>2, SMTT(60) DEF Found
<1>3. CASE Len(books) # 0
  <2>0. Len(books) \in 1..Len(books)
    <3>1. \A n \in Nat : n # 0 => n \in 1..n
      BY SMTT(60)
    <3> QED
      BY <1>1, <1>3, <3>1
  <2>1. Len(books) \in DOMAIN books /\ books[Len(books)].active
    BY <1>1, <2>0
  <2>2. Found = CHOOSE k \in DOMAIN books : books[k].active
    BY <2>1 DEF Found
  <2>3. Found \in DOMAIN books /\ books[Found].active
    BY <2>1, <2>2
  <2> QED
    BY <1>1, <2>3
<1> QED
  BY <1>2, <1>3

LEMMA BooksStep == InventoryTyped /\ BooksOK /\ InventoryNext => BooksOK'
<1> SUFFICES ASSUME InventoryTyped, BooksOK, InventoryNext, "books" \notin crossed' PROVE BooksOK'
  BY DEF BooksOK
<1>1. CASE \E t \in Threads : UploadEnds(t)
  <2>1. PICK t \in Threads : UploadEnds(t)
    BY <1>1
  <2>2. edit[t] # Free /\ edit[t].op = "upload" /\ Commits(t) /\ books' = Uploaded(edit[t].old)
    BY <2>1 DEF UploadEnds
  <2>3. "books" \notin crossed /\ edit[t].alone
    BY <2>2, CommitsEdits DEF Table
  <2>4. edit[t].old = Len(books) /\ Len(books) \in Nat
    BY <2>2, <2>3 DEF BooksOK, Alone, InventoryTyped
  <2>5. \A k \in 1..Len(books) : /\ books[k] \in BookRows /\ books[k].version = k
                                 /\ books[k].active <=> k = Len(books)
    BY <2>3 DEF BooksOK, InventoryTyped
  <2>6. /\ Len(books') = Len(books) + 1
        /\ \A k \in 1..Len(books) : books'[k] = IF k = Len(books) THEN [books[k] EXCEPT !.active = FALSE] ELSE books[k]
        /\ books'[Len(books) + 1] =
                [version |-> IF Len(books) = 0 THEN 1 ELSE books[Len(books)].version + 1, active |-> TRUE]
    <3> DEFINE n == Len(books)
    <3>1. n \in 0..Len(books) /\ books' = Uploaded(n)
      BY <2>2, <2>4
    <3> HIDE DEF n
    <3>2. /\ Len(Uploaded(n)) = Len(books) + 1
          /\ \A k \in 1..Len(books) : Uploaded(n)[k] = IF k = n THEN [books[k] EXCEPT !.active = FALSE] ELSE books[k]
          /\ Uploaded(n)[Len(books) + 1] = [version |-> IF n = 0 THEN 1 ELSE books[n].version + 1, active |-> TRUE]
      BY <3>1, UploadedType
    <3> QED
      BY <3>1, <3>2 DEF n
  <2>7. \A k \in 1..Len(books) : books'[k].version = k /\ ~books'[k].active
    <3> SUFFICES ASSUME NEW k \in 1..Len(books) PROVE books'[k].version = k /\ ~books'[k].active
      OBVIOUS
    <3>1. CASE k = Len(books)
      BY <2>5, <2>6, <3>1 DEF BookRows
    <3>2. CASE k # Len(books)
      BY <2>5, <2>6, <3>2
    <3> QED
      BY <3>1, <3>2
  <2>8. books'[Len(books) + 1].version = Len(books) + 1 /\ books'[Len(books) + 1].active
    <3>1. Len(books) # 0 => books[Len(books)].version = Len(books)
      BY <2>4, <2>5
    <3> QED
      BY <2>4, <2>6, <3>1
  <2>9. \A k \in 1..Len(books') : books'[k].version = k /\ (books'[k].active <=> k = Len(books'))
    <3> SUFFICES ASSUME NEW k \in 1..Len(books')
                 PROVE  books'[k].version = k /\ (books'[k].active <=> k = Len(books'))
      OBVIOUS
    <3>1. CASE k = Len(books) + 1
      BY <2>6, <2>8, <3>1
    <3>2. CASE k # Len(books) + 1
      <4>1. k \in 1..Len(books) /\ k # Len(books')
        BY <2>4, <2>6, <3>2
      <4> QED
        BY <2>7, <4>1
    <3> QED
      BY <3>1, <3>2
  <2>10. \A s \in Threads : ~Alone(s, "upload")'
    <3> SUFFICES ASSUME NEW s \in Threads, Alone(s, "upload")' PROVE FALSE
      OBVIOUS
    <3>1. s # t /\ edit'[s] = edit[s] /\ edit[s] # Free /\ edit[s].op = "upload"
      BY <2>2, CommitsEdits DEF Alone
    <3> QED
      BY <2>2, <3>1, CommitsEdits DEF Alone, Table
  <2> QED
    BY <2>9, <2>10 DEF BooksOK
<1>2. ASSUME UNCHANGED books, "books" \notin crossed,
             \A s \in Threads : Alone(s, "upload")' => (Alone(s, "upload") /\ edit'[s] = edit[s]) \/ edit'[s].old = Len(books)
      PROVE  BooksOK'
  BY <1>2 DEF BooksOK
<1>3. ASSUME NEW t \in Threads, AddEnds(t) \/ EditEnds(t) \/ RetireEnds(t) PROVE BooksOK'
  <2>1. edit[t] # Free /\ edit[t].op # "upload" /\ edit[t].op # "verify" /\ Commits(t) /\ UNCHANGED books
    BY <1>3 DEF AddEnds, EditEnds, RetireEnds
  <2>2. "books" \notin crossed
    BY <2>1, CommitsEdits
  <2>3. \A s \in Threads : Alone(s, "upload")' => Alone(s, "upload") /\ edit'[s] = edit[s]
    BY <2>1, CommitsEdits DEF Alone
  <2> QED
    BY <1>2, <2>1, <2>2, <2>3
<1>4. ASSUME NEW t \in Threads, NEW q, edit' = [edit EXCEPT ![t] = q], UNCHANGED <<books, crossed>>,
             q = Free \/ q.op # "upload" \/ q.old = Found
      PROVE  BooksOK'
  <2>1. "books" \notin crossed
    BY <1>4
  <2>2. Found = Len(books)
    BY <2>1, FoundIsLast DEF BooksOK
  <2>3. edit'[t] = q /\ \A s \in Threads \ {t} : edit'[s] = edit[s]
    BY <1>4 DEF InventoryTyped
  <2> QED
    BY <1>2, <1>4, <2>1, <2>2, <2>3 DEF Alone
<1>5. ASSUME NEW t \in Threads, NEW q, Begins(t, q), q.op # "upload" \/ q.old = Found PROVE BooksOK'
  BY <1>4, <1>5 DEF Begins
<1>6. ASSUME NEW t \in Threads, NEW a \in Addresses, NEW g \in Groups \union {Free}, AddStarts(t, a, g)
      PROVE  BooksOK'
  <2> DEFINE q == [op |-> "add", alone |-> TRUE, rows |-> {Row(a, g)}]
  <2>1. q.op # "upload" /\ Begins(t, q)
    BY <1>6 DEF AddStarts
  <2> QED
    BY <1>5, <2>1
<1>7. ASSUME NEW t \in Threads, NEW d \in Devices, NEW row,
             Begins(t, [op |-> "edit", alone |-> TRUE, device |-> d, loaded |-> device[d], row |-> row])
      PROVE  BooksOK'
  <2> DEFINE q == [op |-> "edit", alone |-> TRUE, device |-> d, loaded |-> device[d], row |-> row]
  <2>1. q.op # "upload" /\ Begins(t, q)
    BY <1>7
  <2> QED
    BY <1>5, <2>1
<1>8. ASSUME NEW t \in Threads, NEW g \in Groups, RetireStarts(t, g) PROVE BooksOK'
  <2> DEFINE q == [op |-> "retire", alone |-> TRUE, group |-> g]
  <2>1. q.op # "upload" /\ Begins(t, q)
    BY <1>8 DEF RetireStarts
  <2> QED
    BY <1>5, <2>1
<1>9. ASSUME NEW t \in Threads, NEW chosen \in SUBSET Addresses, NEW g \in Groups \union {Free}, ImportStarts(t, chosen, g)
      PROVE  BooksOK'
  <2> DEFINE q == [op |-> "add", alone |-> TRUE, rows |-> {Row(c, g) : c \in {x \in chosen : ~Taken(x, Free)}}]
  <2>1. q.op # "upload" /\ Begins(t, q)
    BY <1>9 DEF ImportStarts
  <2> QED
    BY <1>5, <2>1
<1>10. ASSUME NEW t \in Threads, NEW replace \in BOOLEAN, UploadStarts(t, replace) PROVE BooksOK'
  <2> DEFINE q == [op |-> "upload", alone |-> TRUE, old |-> Found]
  <2>1. q.old = Found /\ Begins(t, q)
    BY <1>10 DEF UploadStarts
  <2> QED
    BY <1>5, <2>1
<1>11. ASSUME NEW t \in Threads, NEW c \in Addresses, VerifyStarts(t, c) PROVE BooksOK'
  <2> DEFINE q == [op |-> "verify", candidate |-> c]
  <2>1. q.op # "upload" /\ edit' = [edit EXCEPT ![t] = q] /\ UNCHANGED <<books, crossed>>
    BY <1>11 DEF VerifyStarts
  <2> QED
    BY <1>4, <2>1
<1>12. ASSUME NEW t \in Threads, NEW good \in BOOLEAN, VerifyEnds(t, good) \/ EditFails(t) PROVE BooksOK'
  BY <1>4, <1>12 DEF VerifyEnds, EditFails
<1>13. ASSUME NEW c \in Addresses, Lapses(c) PROVE BooksOK'
  BY <1>2, <1>13 DEF Lapses, Alone
<1>14. ASSUME NEW t \in Threads, NEW d \in Devices, NEW a \in Addresses, NEW g \in Groups \union {Free},
              EditStarts(t, d, a, g)
       PROVE  BooksOK'
  BY <1>7, <1>14 DEF EditStarts
<1>15. ASSUME NEW t \in Threads, NEW d \in Devices, ArchiveStarts(t, d) \/ RestoreStarts(t, d) PROVE BooksOK'
  BY <1>7, <1>15 DEF ArchiveStarts, RestoreStarts
<1> QED
  BY <1>1, <1>3, <1>6, <1>8, <1>9, <1>10, <1>11, <1>12, <1>13, <1>14, <1>15 DEF InventoryNext

LEMMA LastVersionActive == InventoryTyped /\ BooksOK => OneActiveVersion
  BY DEF InventoryTyped, BooksOK, OneActiveVersion

=============================================================================
