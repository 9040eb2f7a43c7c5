------------------------------ MODULE Console ------------------------------
(***************************************************************************)
(* The web console of one process: requests for accounts, for inventory    *)
(* and for samples interleave, and each is served while the session it     *)
(* came with is.  A thread is free for one request of each of the three.   *)
(***************************************************************************)
EXTENDS Inventory, Telemetry

vars == <<accountVars, inventoryVars, telemetryVars, used>>

Init == AccountsInit /\ InventoryInit /\ TelemetryInit

Next ==
    \/ AccountsNext /\ UNCHANGED <<inventoryVars, telemetryVars>>
    \/ InventoryNext /\ UNCHANGED <<accountVars, telemetryVars>>
    \/ TelemetryNext /\ UNCHANGED <<accountVars, inventoryVars>>

Spec == Init /\ [][Next]_vars

TypeOK == AccountsTypeOK /\ InventoryTypeOK /\ TelemetryTypeOK
=============================================================================
