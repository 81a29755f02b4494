----------------------------- MODULE Transfers -----------------------------
(***************************************************************************)
(* TransferManager of internal/cluster: transfers of a table from one node *)
(* to another, each driven by a goroutine that raises its progress step by *)
(* step, beside callers that cancel transfers and sweep completed ones.    *)
(* Every critical section of tm.mu is one action.                          *)
(*                                                                         *)
(* The goroutine keeps the task by pointer, so it goes on whatever happens *)
(* to the entry in the table.                                              *)
(***************************************************************************)
EXTENDS Integers

CONSTANTS
    Transfer,       \* ids of transfers (CreateTransfer makes a fresh one)
    Steps           \* progress updates of a transfer: 10 in the code

ASSUME StepsAssumption == Steps \in Nat \ {0}

VARIABLES
    transfers,      \* TransferManager.transfers: the ids it holds
    task,           \* the TransferTask objects
    running         \* the transfers whose goroutine has not returned

tvars == <<transfers, task, running>>

\* Progress is counted in updates; the code shows (i * 100) / steps.
Task == [Status : {"pending", "in_progress", "completed", "failed"},
         Progress : 0..Steps]

TransferInit ==
    /\ transfers = {}
    /\ task = [t \in Transfer |-> [Status |-> "pending", Progress |-> 0]]
    /\ running = {}

\* CreateTransfer gives its caller a task that nobody else has; the caller then
\* starts it, once (RemoveManager and Rebalancer are the callers).
Created(t) == task[t].Status = "pending"

StartTransfer(t) ==
    /\ task' = [task EXCEPT ![t].Status = "in_progress"]
    /\ transfers' = transfers \cup {t}
    /\ running' = running \cup {t}

ProgressStep(t) ==
    /\ t \in running /\ task[t].Progress < Steps
    /\ task' = [task EXCEPT ![t].Progress = @ + 1]
    /\ UNCHANGED <<transfers, running>>

\* A cancellation in between is overwritten.
MarkCompleted(t) ==
    /\ t \in running /\ task[t].Progress = Steps
    /\ task' = [task EXCEPT ![t].Status = "completed"]
    /\ running' = running \ {t}
    /\ UNCHANGED transfers

executeTransfer(t) == ProgressStep(t) \/ MarkCompleted(t)

CancelTransfer(t) ==
    /\ t \in transfers
    /\ task[t].Status # "completed"
    /\ task' = [task EXCEPT ![t].Status = "failed"]
    /\ UNCHANGED <<transfers, running>>

Sweepable == {t \in transfers : task[t].Status = "completed"}

\* Which of the completed transfers are an hour old is open.
CleanupCompletedTransfers ==
    \E old \in (SUBSET Sweepable) \ {{}} :
        /\ transfers' = transfers \ old
        /\ UNCHANGED <<task, running>>

TransferNext ==
    \/ \E t \in Transfer : (Created(t) /\ StartTransfer(t)) \/ executeTransfer(t) \/ CancelTransfer(t)
    \/ CleanupCompletedTransfers

\* The goroutine of a started transfer keeps running: it only sleeps and takes
\* tm.mu, which every caller gives back.
TransferFairness == \A t \in Transfer : WF_tvars(executeTransfer(t))
=============================================================================
