----------------------------- MODULE MCFirewall -----------------------------
(* An instance of Firewall for TLC: small configurations and change sets.  *)
EXTENDS Firewall, TLC

Symmetric == Permutations(Reviews) \union Permutations(Idents)

Filter(service, action, traffic, position) ==
    [service |-> service, action |-> action, traffic |-> traffic, position |-> position]

Entry(traffic, acl, sequence, create) ==
    [service |-> "ssh", action |-> "allow", traffic |-> traffic, acl |-> acl, sequence |-> sequence, create |-> create]

MCRequests ==
    [mikrotik |-> {<<Filter("ssh", "allow", "lan", "first"), Filter("ssh", "allow", "dmz", "first")>>,
                   <<Filter("ssh", "allow", "dmz", "last"), Filter("custom", "block", "mgmt", "first")>>},
     cisco    |-> {<<Entry("lan", "in", 20, FALSE), Entry("dmz", "new", 10, TRUE)>>}]

MCInitial ==
    [mikrotik |-> [rules |-> <<[comment |-> <<"old">>, body |-> <<"block", "dmz">>]>>, bindings |-> 0, remarks |-> {}],
     cisco    |-> [rules |-> [a \in {"in"} |-> {[sequence |-> 10, body |-> <<"block", "dmz">>]}],
                   bindings |-> 0, remarks |-> {}]]

\* A foreign rule or entry is added or removed, the first rule is rewritten, an ACL is bound, or one is added
\* while another gets a remark.
MCEdits(p, state) ==
    IF p = "mikrotik"
    THEN {[state EXCEPT !.rules = Append(@, [comment |-> <<"new">>, body |-> <<"allow", "dmz">>])]}
         \union {[state EXCEPT !.rules = RemoveAt(@, k)] : k \in DOMAIN state.rules}
         \union {[state EXCEPT !.rules[k].body = Unreadable] : k \in DOMAIN state.rules \intersect {1}}
    ELSE {[state EXCEPT !.bindings = 1 - @],
          [state EXCEPT !.remarks = {"in"}, !.rules = [a \in DOMAIN @ \union {"new"} |-> IF a \in DOMAIN @ THEN @[a] ELSE {}]],
          [state EXCEPT !.rules["in"] = {}],
          [state EXCEPT !.rules["in"] = @ \union {[sequence |-> 20, body |-> <<"allow", "lan">>]}]}
=============================================================================
