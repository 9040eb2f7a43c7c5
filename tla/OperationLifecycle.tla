------------------------- MODULE OperationLifecycle -------------------------
(***************************************************************************)
(* What the operation queue of Narsika promises its users, whatever        *)
(* threads and processes carry it out: the life of a persisted run as an   *)
(* observer of the operation_run table and of the devices may see it.      *)
(*                                                                         *)
(*   - a run is started only when every earlier run of the same device is  *)
(*     finished, so a device's runs execute one at a time and in order;    *)
(*   - a device is touched only by a run whose row says RUNNING;           *)
(*   - a run goes back to PENDING only while nothing was sent for it;      *)
(*   - a finished run is final, and INTERRUPTED is given to all running    *)
(*     rows at once, by a restart.                                         *)
(*                                                                         *)
(* JobQueue, the model of app/services/jobs.py, implements this module.    *)
(***************************************************************************)
EXTENDS Naturals, FiniteSets

CONSTANTS
    MaxRuns,        \* rows are numbered 1..MaxRuns, in submission order
    Devices,        \* inventory devices
    NoDevice,       \* the device of a run that has none (discovery)
    QueueCapacity   \* most rows that may be PENDING or RUNNING

Runs == 1..MaxRuns

\* Terminal statuses (STATUSES of a run that no code leaves again).
Outcomes == {"SUCCESS", "FAILED", "CANCELLED", "INTERRUPTED"}

\* "NONE" is a row that was not inserted yet.
Statuses == {"NONE", "PENDING", "RUNNING"} \union Outcomes

VARIABLES
    status,     \* status column of each row
    site,       \* device of each row
    touched     \* whether any network contact was made for the row

vars == <<status, site, touched>>

Open == {r \in Runs : status[r] \in {"PENDING", "RUNNING"}}

\* The earlier rows of the same device.
Earlier(r) == {q \in Runs : q < r /\ site[q] = site[r] /\ site[r] # NoDevice}

Init ==
    /\ status = [r \in Runs |-> "NONE"]
    /\ site = [r \in Runs |-> NoDevice]
    /\ touched = [r \in Runs |-> FALSE]

\* A request adds the next row.
Submit(r) ==
    /\ status[r] = "NONE"
    /\ \A q \in Runs : q < r => status[q] # "NONE"
    /\ Cardinality(Open) < QueueCapacity
    /\ status' = [status EXCEPT ![r] = "PENDING"]
    /\ \E d \in Devices \union {NoDevice} : site' = [site EXCEPT ![r] = d]
    /\ UNCHANGED touched

\* A run starts once the earlier runs of its device are over.
Start(r) ==
    /\ status[r] = "PENDING"
    /\ \A q \in Earlier(r) : status[q] \in Outcomes
    /\ status' = [status EXCEPT ![r] = "RUNNING"]
    /\ UNCHANGED <<site, touched>>

\* A run that waits is withdrawn by its owner.
Withdraw(r) ==
    /\ status[r] = "PENDING"
    /\ status' = [status EXCEPT ![r] = "CANCELLED"]
    /\ UNCHANGED <<site, touched>>

\* Something is sent to the network for a running run.
Touch(r) ==
    /\ status[r] = "RUNNING"
    /\ touched' = [touched EXCEPT ![r] = TRUE]
    /\ UNCHANGED <<status, site>>

\* A run for which nothing was sent may wait again.
Requeue(r) ==
    /\ status[r] = "RUNNING"
    /\ ~touched[r]
    /\ status' = [status EXCEPT ![r] = "PENDING"]
    /\ UNCHANGED <<site, touched>>

\* A run ends.
Finish(r) ==
    /\ status[r] = "RUNNING"
    /\ \E o \in Outcomes \ {"INTERRUPTED"} : status' = [status EXCEPT ![r] = o]
    /\ UNCHANGED <<site, touched>>

\* A restart finds every running row without an execution.
Interrupt ==
    /\ \E r \in Runs : status[r] = "RUNNING"
    /\ status' = [r \in Runs |->
                    IF status[r] = "RUNNING" THEN "INTERRUPTED" ELSE status[r]]
    /\ UNCHANGED <<site, touched>>

Next ==
    \/ \E r \in Runs :
        Submit(r) \/ Start(r) \/ Withdraw(r) \/ Touch(r) \/ Requeue(r) \/ Finish(r)
    \/ Interrupt

Spec == Init /\ [][Next]_vars
=============================================================================
