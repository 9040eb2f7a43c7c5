---------------------------- MODULE FirewallPlan ----------------------------
(***************************************************************************)
(* The pure part of firewall control (app/services/firewall.py): what a    *)
(* reading of a device shows, how a change set is checked and compiled     *)
(* into a plan, what the commands of the plan and its recovery recipe do   *)
(* on a device, and how the result is verified.                            *)
(*                                                                         *)
(* Abstractions.                                                           *)
(*   - The selectors of a rule (protocol, port, addresses, chain) are one  *)
(*     member of Traffic; what the compiler asks of them are the subsets   *)
(*     MgmtPath, AnySource and OddPort.                                    *)
(*   - A RouterOS filter is a sequence of rules, a Cisco configuration a   *)
(*     function from ACL names to sets of numbered entries.  Every other   *)
(*     access list is a name in OtherAcls.                                 *)
(*   - The tag of an item is the review and the position in it: the code   *)
(*     draws it at random.                                                 *)
(***************************************************************************)
EXTENDS Integers, Sequences, FiniteSets, SequencesExt

CONSTANTS
    Traffic,     \* what a rule may select
    MgmtPath,    \* ... that carries Narsika's own SSH session
    AnySource,   \* ... from any source
    OddPort,     \* ... on another port than the service's preset
    OtherAcls,   \* access lists that are not named extended ones
    MaxItems     \* MAX_ITEMS

ASSUME PlanAssumption ==
    /\ MgmtPath \subseteq Traffic /\ AnySource \subseteq Traffic /\ OddPort \subseteq Traffic
    /\ MaxItems \in Nat \ {0}

Body(c) == <<c.action, c.traffic>>

\* What the external administrator wrote: a rule of the same tag whose address is no CIDR.
Unreadable == <<"range", "range">>

Entries(rules) == UNION {{a} \X rules[a] : a \in DOMAIN rules}

\* What a device may have as its rules: a list of rules, or entries of named extended ACLs.
IsFilter(platform, rules) ==
    IF platform = "mikrotik"
    THEN /\ rules \in Seq(Range(rules))
         /\ \A k \in DOMAIN rules : rules[k] = [comment |-> rules[k].comment, body |-> rules[k].body]
    ELSE /\ rules = [a \in DOMAIN rules |-> rules[a]]
         /\ DOMAIN rules \intersect OtherAcls = {}
         /\ IsFiniteSet(Entries(rules))

\* A tag is drawn at random: before the receipt of a review shows it, no rule has it.
Foreign(platform, review, rules) ==
    platform = "mikrotik" => \A k \in DOMAIN rules : rules[k].comment \notin {review} \X Nat

-----------------------------------------------------------------------------
(* Checking and compiling a change set.                                    *)

\* normalize: a list, the number of changes, no duplicates, and the fields the platform has.
WellFormed(platform, changes) ==
    /\ changes \in Seq(Range(changes))
    /\ Len(changes) \in 1..MaxItems
    /\ IsInjective(changes)
    /\ \A k \in DOMAIN changes :
        /\ changes[k].traffic \in Traffic
        /\ IF platform = "mikrotik" THEN "position" \in DOMAIN changes[k] /\ changes[k].position \in {"first", "last"}
           ELSE {"acl", "sequence", "create"} \subseteq DOMAIN changes[k] /\ changes[k].create \in BOOLEAN

Rank == [LOW |-> 0, MEDIUM |-> 1, HIGH |-> 2, LOCKOUT |-> 3]

Creates(c) == "create" \in DOMAIN c /\ c.create

Disguised(c) == c.service # "custom" /\ c.traffic \in OddPort

\* An entry of a new ACL has no effect before the ACL is bound.
Risk(c) ==
    IF Creates(c) THEN IF Disguised(c) THEN "HIGH" ELSE "LOW"
    ELSE IF c.action = "block" /\ c.traffic \in MgmtPath THEN "LOCKOUT"
    ELSE IF c.action = "block" \/ c.traffic \in AnySource \/ Disguised(c) THEN "HIGH"
    ELSE "MEDIUM"

PlanRisk(changes) ==
    CHOOSE risk \in DOMAIN Rank :
        /\ \E k \in DOMAIN changes : Risk(changes[k]) = risk
        /\ \A k \in DOMAIN changes : Rank[Risk(changes[k])] <= Rank[risk]

AdminOnly(changes) ==
    PlanRisk(changes) \in {"HIGH", "LOCKOUT"} \/ \E k \in DOMAIN changes : changes[k].service = "custom"

\* cisco_acl_names
AclNames(rules) == DOMAIN rules \union OtherAcls

\* A Cisco entry needs a free sequence number in an ACL that was observed, or one that does not exist yet.
AclRefuses(changes, state) ==
    \E k \in DOMAIN changes :
        LET c == changes[k] IN
        \/ c.create /\ c.acl \in AclNames(state.rules)
        \/ ~c.create /\ c.acl \notin DOMAIN state.rules
        \/ c.acl \in state.remarks
        \/ c.acl \in DOMAIN state.rules /\ \E e \in state.rules[c.acl] : e.sequence = c.sequence
        \/ \E j \in 1..(k - 1) : changes[j].acl = c.acl /\ changes[j].sequence = c.sequence

SameScope(a, b) ==
    a.traffic = b.traffic /\ ("acl" \in DOMAIN a => a.acl = b.acl)

\* compile_plan: when a change set is refused for what was observed and for the role of the reviewer.
Refuses(platform, changes, state, role) ==
    \/ platform = "cisco" /\ AclRefuses(changes, state)
    \/ \E k \in 1..(Len(changes) - 1) : Risk(changes[k]) = "LOCKOUT"
    \/ role = "OPERATOR" /\ AdminOnly(changes)
    \/ \E j, k \in DOMAIN changes : SameScope(changes[j], changes[k]) /\ changes[j].action # changes[k].action

Items(review, changes) == [k \in DOMAIN changes |-> [tag |-> <<review, k>>, change |-> changes[k]]]

-----------------------------------------------------------------------------
(* What the reviewer is shown as the final order.                          *)

\* The elements of s at the places in K, in their order (SelectSeq would name them by a test).
Nth(K, k) == Cardinality({j \in K : j <= k})

Place(K, n) == CHOOSE k \in K : Nth(K, k) = n

AtPlaces(s, K) == [n \in 1..Cardinality(K) |-> s[Place(K, n)]]

AtPosition(items, position) == AtPlaces(items, {k \in DOMAIN items : items[k].change.position = position})

AsRules(items) == [k \in DOMAIN items |-> [comment |-> items[k].tag, body |-> Body(items[k].change)]]

AsEntry(item) == [sequence |-> item.change.sequence, body |-> Body(item.change)]

Final(platform, items, base) ==
    IF platform = "mikrotik"
    THEN AsRules(Reverse(AtPosition(items, "first"))) \o base \o AsRules(AtPosition(items, "last"))
    ELSE LET mine == ToSet(items) IN
         [a \in DOMAIN base \union {i.change.acl : i \in mine} |->
            (IF a \in DOMAIN base THEN base[a] ELSE {}) \union {AsEntry(i) : i \in {j \in mine : j.change.acl = a}}]

-----------------------------------------------------------------------------
(* What the commands do on a device.                                       *)

\* One item: the RouterOS script refuses a tag it finds, adds at the end and moves to the front;
\* an IOS entry opens its ACL and is refused at an occupied sequence number.
Performed(platform, item, rules) ==
    IF platform = "mikrotik"
    THEN IF \E k \in DOMAIN rules : rules[k].comment = item.tag THEN rules
         ELSE IF item.change.position = "first" THEN AsRules(<<item>>) \o rules
         ELSE rules \o AsRules(<<item>>)
    ELSE LET acl == item.change.acl
             had == IF acl \in DOMAIN rules THEN rules[acl] ELSE {}
             now == IF \E e \in had : e.sequence = item.change.sequence THEN had ELSE had \union {AsEntry(item)}
         IN [a \in DOMAIN rules \union {acl} |-> IF a = acl THEN now ELSE rules[a]]

Succeeds(platform, item, rules) == Performed(platform, item, rules) # rules

\* Mutant of Recovered: entries of a new ACL are removed one by one.
RecoveredByNumber(platform, items, rules) ==
    IF platform = "mikrotik"
    THEN AtPlaces(rules, {j \in DOMAIN rules : \A k \in DOMAIN items : rules[j].comment # items[k].tag})
    ELSE LET mine == {items[k].change : k \in DOMAIN items} IN
         [a \in DOMAIN rules |-> {e \in rules[a] : \A c \in mine : c.acl = a => c.sequence # e.sequence}]

\* The recovery recipe: rules of the tags are removed, a new ACL as a whole, other entries by their number.
Recovered(platform, items, rules) ==
    IF platform = "mikrotik"
    THEN AtPlaces(rules, {j \in DOMAIN rules : \A k \in DOMAIN items : rules[j].comment # items[k].tag})
    ELSE LET mine == {items[k].change : k \in DOMAIN items} IN
         [a \in DOMAIN rules \ {c.acl : c \in {d \in mine : Creates(d)}} |->
            {e \in rules[a] : \A c \in mine : c.acl = a => c.sequence # e.sequence}]

-----------------------------------------------------------------------------
(* Verification of what is read after the execution.                       *)

\* Whether an item is on the device as it was reviewed.
Outcome(platform, item, after) ==
    IF platform = "mikrotik"
    THEN LET found == {k \in DOMAIN after.rules : after.rules[k].comment = item.tag} IN
         Cardinality(found) = 1 /\ \A k \in found : after.rules[k].body = Body(item.change)
    ELSE item.change.acl \in DOMAIN after.rules /\ AsEntry(item) \in after.rules[item.change.acl]

\* The comparison of addresses fails on one that is no CIDR.
VerifyFails(platform, items, after) ==
    /\ platform = "mikrotik"
    /\ \E j \in DOMAIN items, k \in DOMAIN after.rules :
        after.rules[k] = [comment |-> items[j].tag, body |-> Unreadable]

Comments(rules) == [k \in DOMAIN rules |-> rules[k].comment]

\* Placement on RouterOS: the tags in the reviewed order around unchanged rules.
Placed(items, base, after) ==
    LET first == AsRules(Reverse(AtPosition(items, "first")))
        last  == AsRules(AtPosition(items, "last"))
    IN /\ Comments(after.rules) = Comments(first) \o Comments(base.rules) \o Comments(last)
       /\ SubSeq(after.rules, Len(first) + 1, Len(first) + Len(base.rules)) = base.rules

\* Mutant of Preserved: entries are not counted.
PreservedUncounted(items, base, after) ==
    /\ after.bindings = base.bindings
    /\ after.remarks = base.remarks
    /\ AclNames(after.rules) =
        AclNames(base.rules) \union {items[k].change.acl : k \in {j \in DOMAIN items : Creates(items[j].change)}}
    /\ Entries(base.rules) \subseteq Entries(after.rules)

\* On Cisco: bindings, the number of entries, remarks, the names of the lists, and every old entry.
Preserved(items, base, after) ==
    /\ after.bindings = base.bindings
    /\ Cardinality(Entries(after.rules)) = Cardinality(Entries(base.rules)) + Len(items)
    /\ after.remarks = base.remarks
    /\ AclNames(after.rules) =
        AclNames(base.rules) \union {items[k].change.acl : k \in {j \in DOMAIN items : Creates(items[j].change)}}
    /\ Entries(base.rules) \subseteq Entries(after.rules)

Complete(platform, items, base, after) ==
    /\ IF platform = "mikrotik" THEN Placed(items, base, after) ELSE Preserved(items, base, after)
    /\ \A k \in DOMAIN items : Outcome(platform, items[k], after)
=============================================================================
