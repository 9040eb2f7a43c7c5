----------------------------- MODULE MCConsole -----------------------------
(* An instance of Console for TLC. *)
EXTENDS Console, TLC

Symmetric == Permutations(Users) \union Permutations(Threads)

\* Nothing, or an active device and an archived one of the same address.
MCStored ==
    LET a == CHOOSE x \in Addresses : TRUE
        d == CHOOSE x \in Devices : TRUE
        g == CHOOSE x \in Groups : TRUE
    IN {[e \in Devices |-> Unused],
        [e \in Devices |-> [state |-> IF e = d THEN "active" ELSE "archived", address |-> a, group |-> g]]}

\* Three requests, of any kinds, or four of one kind.
MCBudgets ==
    {b \in [Kinds -> 0..4] :
        LET all == b["accounts"] + b["inventory"] + b["samples"] IN
        all <= 3 \/ (all = 4 /\ 4 \in {b["inventory"], b["samples"]})}
=============================================================================
