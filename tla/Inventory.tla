----------------------------- MODULE Inventory -----------------------------
(***************************************************************************)
(* The rows administrators keep: devices, groups, candidates of discovery  *)
(* and versions of one uploaded playbook (app/api.py, upload in            *)
(* app/services/catalog.py).                                               *)
(*                                                                         *)
(* A request checks what it finds and commits later, as in Accounts; only  *)
(* the unique index on the addresses of active devices is checked with     *)
(* the commit.                                                             *)
(*                                                                         *)
(* Abstractions.                                                           *)
(*   - Of a device: its address, group and whether it is archived; what    *)
(*     samples depend on is in Telemetry.                                  *)
(*   - A candidate is its address.  Half an hour passes at any moment.     *)
(*   - The file of a playbook is written before, and removed unless, its   *)
(*     row is committed.                                                   *)
(***************************************************************************)
EXTENDS Accounts, Sequences

CONSTANTS
    Devices,    \* identifiers of devices
    Addresses,
    Groups,
    Stored      \* the table of devices at the beginning

VARIABLES
    device,     \* rows of device
    retired,    \* groups that are archived
    verified,   \* candidates verified within half an hour
    books,      \* rows of playbook of the name, in order
    edit,       \* what each thread is doing
    restored,   \* history: devices that were restored
    crossed     \* history: tables where a request committed after another one had, since its checks

inventoryVars == <<device, retired, verified, books, edit, restored, crossed>>

DeviceRows ==
    [state : {"none", "active", "archived"}, address : Addresses \union {Free}, group : Groups \union {Free}]

Unused == [state |-> "none", address |-> Free, group |-> Free]

\* The index uq_active_device_ip.
Unique(rows) ==
    \A d, e \in Devices : (rows[d].state = "active" /\ rows[e].state = "active" /\ rows[d].address = rows[e].address) => d = e

ASSUME InventoryAssumption ==
    /\ Stored \subseteq [Devices -> DeviceRows] /\ \A rows \in Stored : Unique(rows)
    /\ Free \notin Groups

InventoryInit ==
    /\ device \in Stored
    /\ retired = {}
    /\ verified = {}
    /\ books = <<>>
    /\ edit = [t \in Threads |-> Free]
    /\ restored = {}
    /\ crossed = {}

Active(d) == device[d].state = "active"

Taken(address, but) == \E d \in Devices \ {but} : Active(d) /\ device[d].address = address

\* Mutant of Usable: any group there is.
UsableAny(g) == g \in Groups \union {Free}

\* reference: no group, or one that is not archived.
Usable(g) == g \in (Groups \ retired) \union {Free}

Begins(t, q) ==
    /\ edit[t] = Free
    /\ edit' = [edit EXCEPT ![t] = q]
    /\ UNCHANGED <<device, retired, verified, books, restored, crossed>>

\* Rows as a device form asks for them.
Row(address, g) == [state |-> "active", address |-> address, group |-> g]

AddStarts(t, address, g) ==
    /\ Served({"ADMIN"}) /\ ~Taken(address, Free) /\ Usable(g)
    /\ Begins(t, [op |-> "add", alone |-> TRUE, rows |-> {Row(address, g)}])

\* change_device, of the columns that are sent.
EditStarts(t, d, address, g) ==
    /\ Served({"ADMIN"}) /\ Active(d) /\ Row(address, g) # device[d]
    /\ address # device[d].address => ~Taken(address, d)
    /\ g # device[d].group => Usable(g)
    /\ Begins(t, [op |-> "edit", alone |-> TRUE, device |-> d, loaded |-> device[d], row |-> Row(address, g)])

ArchiveStarts(t, d) ==
    /\ Served({"ADMIN"}) /\ Active(d)
    /\ Begins(t, [op |-> "edit", alone |-> TRUE, device |-> d, loaded |-> device[d], row |-> [device[d] EXCEPT !.state = "archived"]])

RestoreStarts(t, d) ==
    /\ Served({"ADMIN"}) /\ device[d].state = "archived" /\ ~Taken(device[d].address, d)
    /\ Begins(t, [op |-> "edit", alone |-> TRUE, device |-> d, loaded |-> device[d], row |-> [device[d] EXCEPT !.state = "active"]])

\* "Move active devices out of this group first."
Vacant(g) == \A d \in Devices : Active(d) => device[d].group # g

RetireStarts(t, g) ==
    /\ Served({"ADMIN"}) /\ g \in Groups \ retired /\ Vacant(g)
    /\ Begins(t, [op |-> "retire", alone |-> TRUE, group |-> g])

\* import_candidates: those with a taken address are skipped.
ImportStarts(t, chosen, g) ==
    /\ Served({"ADMIN"}) /\ Usable(g)
    /\ chosen # {} /\ chosen \subseteq verified
    /\ Begins(t, [op |-> "add", alone |-> TRUE, rows |-> {Row(c, g) : c \in {x \in chosen : ~Taken(x, Free)}}])

\* verify_candidate: the earlier result is gone before the device is asked.
VerifyStarts(t, c) ==
    /\ Served({"OPERATOR", "ADMIN"}) /\ edit[t] = Free
    /\ verified' = verified \ {c}
    /\ edit' = [edit EXCEPT ![t] = [op |-> "verify", candidate |-> c]]
    /\ UNCHANGED <<device, retired, books, restored, crossed>>

VerifyEnds(t, good) ==
    /\ edit[t] # Free /\ edit[t].op = "verify"
    /\ verified' = IF good THEN verified \union {edit[t].candidate} ELSE verified
    /\ edit' = [edit EXCEPT ![t] = Free]
    /\ UNCHANGED <<device, retired, books, restored, crossed, used>>

Lapses(c) ==
    /\ c \in verified
    /\ verified' = verified \ {c}
    /\ UNCHANGED <<device, retired, books, edit, restored, crossed, used>>

\* The active version a query without an order finds.
Found == IF \E k \in DOMAIN books : books[k].active THEN CHOOSE k \in DOMAIN books : books[k].active ELSE 0

\* upload: a name that is in use has to be replaced.
UploadStarts(t, replace) ==
    /\ Served({"ADMIN"})
    /\ Found # 0 => replace
    /\ Begins(t, [op |-> "upload", alone |-> TRUE, old |-> Found])

\* Mutant of Uploaded: the old version stays active.
UploadedBeside(old) == Append(books, [version |-> IF old = 0 THEN 1 ELSE books[old].version + 1, active |-> TRUE])

Uploaded(old) ==
    Append([k \in DOMAIN books |-> IF k = old THEN [books[k] EXCEPT !.active = FALSE] ELSE books[k]],
           [version |-> IF old = 0 THEN 1 ELSE books[old].version + 1, active |-> TRUE])

-----------------------------------------------------------------------------
(* Commits.                                                                *)

Table(q) == IF q.op = "upload" THEN "books" ELSE "inventory"

\* Of the rows of another request on the table nothing is known any longer.
Commits(t) ==
    /\ crossed' = IF edit[t].alone THEN crossed ELSE crossed \union {Table(edit[t])}
    /\ edit' = [s \in Threads |->
            IF s = t THEN Free
            ELSE IF edit[s] # Free /\ edit[s].op # "verify" /\ Table(edit[s]) = Table(edit[t])
            THEN [edit[s] EXCEPT !.alone = FALSE]
            ELSE edit[s]]
    /\ UNCHANGED <<verified, used>>

\* New rows, in a transaction.
AddEnds(t) ==
    /\ edit[t] # Free /\ edit[t].op = "add"
    /\ \E new \in [edit[t].rows -> {d \in Devices : device[d] = Unused}] :
        /\ \A r, s \in DOMAIN new : new[r] = new[s] => r = s
        /\ device' = [d \in Devices |-> IF \E r \in DOMAIN new : new[r] = d THEN CHOOSE r \in DOMAIN new : new[r] = d ELSE device[d]]
    /\ Unique(device')
    /\ Commits(t)
    /\ UNCHANGED <<retired, books, restored>>

\* The columns that differ from the row as it was loaded.
EditEnds(t) ==
    /\ edit[t] # Free /\ edit[t].op = "edit"
    /\ LET q == edit[t] IN
       /\ device' = [device EXCEPT ![q.device] =
                        [c \in DOMAIN q.row |-> IF q.row[c] = q.loaded[c] THEN @[c] ELSE q.row[c]]]
       /\ restored' = IF q.loaded.state = "archived" THEN restored \union {q.device} ELSE restored
    /\ Unique(device')
    /\ Commits(t)
    /\ UNCHANGED <<retired, books>>

RetireEnds(t) ==
    /\ edit[t] # Free /\ edit[t].op = "retire"
    /\ retired' = retired \union {edit[t].group}
    /\ Commits(t)
    /\ UNCHANGED <<device, books, restored>>

UploadEnds(t) ==
    /\ edit[t] # Free /\ edit[t].op = "upload"
    /\ books' = Uploaded(edit[t].old)
    /\ Commits(t)
    /\ UNCHANGED <<device, retired, restored>>

\* The index is violated or the commit fails: the whole transaction is rolled back.
EditFails(t) ==
    /\ edit[t] # Free
    /\ edit' = [edit EXCEPT ![t] = Free]
    /\ UNCHANGED <<device, retired, verified, books, restored, crossed, used>>

InventoryNext ==
    \/ /\ Counted("inventory")
       /\ \E t \in Threads :
            \/ \E a \in Addresses, g \in Groups \union {Free} :
                AddStarts(t, a, g) \/ \E d \in Devices : EditStarts(t, d, a, g)
            \/ \E d \in Devices : ArchiveStarts(t, d) \/ RestoreStarts(t, d)
            \/ \E g \in Groups : RetireStarts(t, g)
            \/ \E chosen \in SUBSET Addresses, g \in Groups \union {Free} : ImportStarts(t, chosen, g)
            \/ \E c \in Addresses : VerifyStarts(t, c)
            \/ \E replace \in BOOLEAN : UploadStarts(t, replace)
    \/ \E t \in Threads, good \in BOOLEAN : VerifyEnds(t, good)
    \/ \E c \in Addresses : Lapses(c)
    \/ \E t \in Threads : AddEnds(t) \/ EditEnds(t) \/ RetireEnds(t) \/ UploadEnds(t) \/ EditFails(t)

-----------------------------------------------------------------------------
(* Properties.                                                             *)

InventoryTypeOK ==
    /\ device \in [Devices -> DeviceRows]
    /\ retired \subseteq Groups /\ verified \subseteq Addresses /\ restored \subseteq Devices
    /\ \A k \in DOMAIN books : books[k].version \in 1..k
    /\ crossed \subseteq {"inventory", "books"}

\* docs/API.md, of groups: "archive requires no active devices".  By no order of additions,
\* moves, imports and archivings is a device active in an archived group, but one that
\* was restored, or when two requests overlapped.
ArchivedGroupsEmpty ==
    \/ "inventory" \in crossed
    \/ \A d \in Devices : Active(d) /\ device[d].group \in retired => d \in restored

\* A name of the catalog has one active version, the last one, unless two uploads overlapped.
OneActiveVersion ==
    \/ "books" \in crossed
    \/ \A k \in DOMAIN books : books[k].version = k /\ (books[k].active <=> k = Len(books))
=============================================================================
