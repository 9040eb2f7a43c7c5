------------------------------ MODULE Accounts ------------------------------
(***************************************************************************)
(* Accounts, their sessions and the sign-in throttle of the web console    *)
(* (app/routes.py, the account handlers of app/api.py, guards in           *)
(* app/__init__.py, require in app/security.py).                           *)
(*                                                                         *)
(* A request loads the rows it decides on, and commits later: between the  *)
(* two, the requests of other threads commit.  SQLite starts a transaction *)
(* at the first write, so nothing that was read is protected.              *)
(*                                                                         *)
(* Abstractions.                                                           *)
(*   - A session is the account and the version its cookie holds.          *)
(*   - Whether a password is right is for the caller to choose.            *)
(*   - The checks of a request are one step with the rows it loads; so are *)
(*     the commit of a reserved attempt and the load of the account.       *)
(*   - The reset_at of a row of login_attempt is the number of its window. *)
(*   - A refused request, which changes nothing, is no step.               *)
(***************************************************************************)
EXTENDS Integers, FiniteSets

CONSTANTS
    Users,
    Sources,      \* client addresses
    Threads,      \* requests served at once
    SourceLimit,  \* attempts of an address in a window
    UserLimit,    \* attempts for an account in a window
    Free,         \* no request
    Budgets,      \* bound: how many requests of each kind there may be together
    MaxWindows    \* bound: windows of a row

ASSUME AccountsAssumption ==
    /\ SourceLimit \in Nat \ {0} /\ UserLimit \in Nat \ {0} /\ MaxWindows \in Nat
    /\ Budgets \subseteq [{"accounts", "inventory", "samples"} -> Nat]
    /\ Users \intersect Sources = {}

VARIABLES
    user,      \* rows of user
    sessions,  \* sessions whose cookies browsers hold
    counter,   \* rows of login_attempt, with the window they count in
    request,   \* what each thread is doing
    failures,  \* history: attempts that failed in the window, for each row
    raced,     \* history: a request wrote an account after another one had, since it was loaded
    used       \* how many requests of each kind there were

accountVars == <<user, sessions, counter, request, failures, raced>>

Kinds == {"accounts", "inventory", "samples"}

Keys == Sources \union Users

Roles == {"VIEWER", "OPERATOR", "ADMIN"}

Absent == [role |-> "NONE", enabled |-> FALSE, temporary |-> FALSE, version |-> 0]

Admins == {u \in Users : user[u].role = "ADMIN" /\ user[u].enabled}

AccountsInit ==
    /\ \E admins \in (SUBSET Users) \ {{}} :
        user = [u \in Users |-> IF u \notin admins THEN Absent
                                ELSE [role |-> "ADMIN", enabled |-> TRUE, temporary |-> FALSE, version |-> 1]]
    /\ sessions = [user : Admins, version : {1}]
    /\ counter = [k \in Keys |-> [count |-> 0, window |-> 0]]
    /\ request = [t \in Threads |-> Free]
    /\ failures = [k \in Keys |-> 0]
    /\ raced = FALSE
    /\ used = [kind \in Kinds |-> 0]

Counted(kind) ==
    /\ [used EXCEPT ![kind] = @ + 1] \in Budgets
    /\ used' = [used EXCEPT ![kind] = @ + 1]

\* guards: a session is served while its account is active and of its version.
Accepted(s) == user[s.user].enabled /\ s.version = user[s.user].version

\* require, of an account that is not held up by a temporary password.
Serves(u, roles) ==
    /\ \E s \in sessions : s.user = u /\ Accepted(s)
    /\ user[u].role \in roles /\ ~user[u].temporary

\* Some account is.
Served(roles) == \E u \in Users : Serves(u, roles)

-----------------------------------------------------------------------------
(* Sign in.                                                                *)

\* Attempts are reserved before the password is looked at; a refused one is rolled back.
SignInStarts(t, a, u) ==
    /\ request[t] = Free
    /\ counter[a].count < SourceLimit /\ counter[u].count < UserLimit
    /\ counter' = [k \in Keys |-> IF k \in {a, u} THEN [counter[k] EXCEPT !.count = @ + 1] ELSE counter[k]]
    /\ request' = [request EXCEPT ![t] =
            [op |-> "verify", from |-> a, who |-> u, windows |-> [k \in {a, u} |-> counter[k].window], row |-> user[u]]]
    /\ UNCHANGED <<user, sessions, failures, raced>>

\* Mutant of GivesBack: into whatever window there is now.
GivesBackAnyway(q, k) == k \in DOMAIN q.windows

\* The reservation of an attempt is in the window that is still counted.
GivesBack(q, k) == k \in DOMAIN q.windows /\ q.windows[k] = counter[k].window

SignInEnds(t, right) ==
    LET q == request[t] IN
    /\ q # Free /\ q.op = "verify"
    /\ request' = [request EXCEPT ![t] = Free]
    /\ IF right /\ q.row.enabled
       THEN /\ counter' = [k \in Keys |->
                IF ~GivesBack(q, k) THEN counter[k]
                ELSE [counter[k] EXCEPT !.count = IF k = q.from /\ @ > 0 THEN @ - 1 ELSE 0]]
            /\ sessions' = sessions \union {[user |-> q.who, version |-> q.row.version]}
            /\ UNCHANGED failures
       ELSE /\ failures' = [k \in Keys |-> failures[k] + IF k \in DOMAIN q.windows /\ q.windows[k] = counter[k].window THEN 1 ELSE 0]
            /\ UNCHANGED <<counter, sessions>>
    /\ UNCHANGED <<user, raced, used>>

\* 15 minutes after its first attempt a row is deleted by the next one.
WindowEnds(k) ==
    /\ counter[k].count > 0 /\ counter[k].window < MaxWindows
    /\ counter' = [counter EXCEPT ![k] = [count |-> 0, window |-> @.window + 1]]
    /\ failures' = [failures EXCEPT ![k] = 0]
    /\ UNCHANGED <<user, sessions, request, raced, used>>

-----------------------------------------------------------------------------
(* Changes of accounts.                                                    *)

\* An UPDATE holds the columns that differ from the row as it was loaded.
Written(u, loaded, new) ==
    [c \in DOMAIN new |-> IF new[c] = loaded[c] THEN user[u][c] ELSE new[c]]

LastAdmin(u) == u \in Admins /\ Cardinality(Admins) <= 1

\* user_item: an administrator sets role, state and password of an account.
ChangeStarts(t, by, u, role, enabled, reset) ==
    /\ request[t] = Free
    /\ Serves(by, {"ADMIN"}) /\ user[u] # Absent
    /\ (~enabled \/ role # "ADMIN") => u # by /\ ~LastAdmin(u)
    /\ request' = [request EXCEPT ![t] =
            [op |-> "change", who |-> u, role |-> role, enabled |-> enabled, reset |-> reset, row |-> user[u], alone |-> TRUE]]
    /\ UNCHANGED <<user, sessions, counter, failures, raced>>

\* Mutant of Changed: the version is only raised with the password.
ChangedQuietly(q) ==
    [role |-> q.role, enabled |-> q.enabled, temporary |-> q.row.temporary \/ q.reset,
     version |-> q.row.version + IF q.reset THEN 1 ELSE 0]

Changed(q) ==
    [role |-> q.role, enabled |-> q.enabled, temporary |-> q.row.temporary \/ q.reset,
     version |-> q.row.version + IF q.reset \/ q.role # q.row.role \/ q.enabled # q.row.enabled THEN 1 ELSE 0]

\* password: an account changes its own.
PasswordStarts(t, u) ==
    /\ request[t] = Free
    /\ \E s \in sessions : s.user = u /\ Accepted(s)
    /\ request' = [request EXCEPT ![t] = [op |-> "password", who |-> u, row |-> user[u], alone |-> TRUE]]
    /\ UNCHANGED <<user, sessions, counter, failures, raced>>

OwnPassword(q) ==
    [role |-> q.row.role, enabled |-> q.row.enabled, temporary |-> FALSE, version |-> q.row.version + 1]

\* The commit of either.  The cookie of the thread that changed its password follows.
ChangeEnds(t) ==
    LET q   == request[t]
        new == IF q.op = "change" THEN Changed(q) ELSE OwnPassword(q)
    IN
    /\ q # Free /\ q.op \in {"change", "password"}
    /\ user' = [user EXCEPT ![q.who] = Written(q.who, q.row, new)]
    /\ sessions' = sessions \union IF q.op = "password" THEN {[user |-> q.who, version |-> new.version]} ELSE {}
    /\ raced' = (raced \/ ~q.alone)
    /\ request' = [s \in Threads |->
            IF s = t THEN Free
            ELSE IF request[s] # Free /\ "alone" \in DOMAIN request[s] THEN [request[s] EXCEPT !.alone = FALSE]
            ELSE request[s]]
    /\ UNCHANGED <<counter, failures, used>>

\* users: the name is unique, the password generated.
AddUser(by, u, role) ==
    /\ Serves(by, {"ADMIN"}) /\ user[u] = Absent
    /\ user' = [user EXCEPT ![u] = [role |-> role, enabled |-> TRUE, temporary |-> TRUE, version |-> 1]]
    /\ UNCHANGED <<sessions, counter, request, failures, raced>>

AccountsNext ==
    \/ /\ Counted("accounts")
       /\ \/ \E t \in Threads, a \in Sources, u \in Users : SignInStarts(t, a, u)
          \/ \E t \in Threads, by, u \in Users, role \in Roles, enabled, reset \in BOOLEAN :
                ChangeStarts(t, by, u, role, enabled, reset)
          \/ \E t \in Threads, u \in Users : PasswordStarts(t, u)
          \/ \E by, u \in Users, role \in Roles : AddUser(by, u, role)
    \/ \E t \in Threads, right \in BOOLEAN : SignInEnds(t, right)
    \/ \E k \in Keys : WindowEnds(k)
    \/ \E t \in Threads : ChangeEnds(t)

AccountsSpec == AccountsInit /\ [][AccountsNext]_<<accountVars, used>>

-----------------------------------------------------------------------------
(* Properties.                                                             *)

AccountsTypeOK ==
    /\ user \in [Users -> [role : Roles \union {"NONE"}, enabled : BOOLEAN, temporary : BOOLEAN, version : Nat]]
    /\ sessions \subseteq [user : Users, version : Nat]
    /\ counter \in [Keys -> [count : Nat, window : Nat]]
    /\ \A a \in Sources : counter[a].count <= SourceLimit
    /\ failures \in [Keys -> Nat] /\ raced \in BOOLEAN /\ used \in [Kinds -> Nat]

Differs(old, new) == old.role # new.role \/ old.enabled # new.enabled \/ old.version # new.version

Waiting(a) ==
    {t \in Threads : request[t] # Free /\ request[t].op = "verify" /\ request[t].from = a
                     /\ request[t].windows[a] = counter[a].window}

\* "Reserve attempts atomically before expensive password verification": successful
\* attempts give back what they took, in their own window only, so that in no window
\* more passwords of one address are refused or still being verified than the limit.
FailuresBounded == \A a \in Sources : failures[a] + Cardinality(Waiting(a)) <= SourceLimit

\* "The last active administrator must remain enabled" (app/api.py:218).
AdminRemains == Admins # {}

\* "Changing a user's role, disabling them or resetting their password signs out their
\* existing sessions", as long as no two requests overlap: no session an account has
\* before such a change is ever served again, not when it is enabled again either.
SignsOut ==
    [][\A u \in Users : ~raced' /\ user[u] # Absent /\ Differs(user[u], user'[u])
        => \A s \in sessions : s.user = u => s.version < user'[u].version]_<<accountVars, used>>
=============================================================================
