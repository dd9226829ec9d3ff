---------------------------- MODULE Cancellation ----------------------------
(***************************************************************************)
(* CancellationManager (tsl/framework/cancellation.cc): one per step, it    *)
(* keeps the callbacks of the step's pending operations and runs them when  *)
(* the step is cancelled.  A component of FIFOQueue and of Rendezvous,      *)
(* which add the threads and what the callbacks do.  Child managers and the *)
(* logging of statuses are left out.                                        *)
(***************************************************************************)
CONSTANTS
    Managers,
    Calls       \* operations that may register; the token of a callback is its call

VARIABLES
    cmState,    \* "open", "cancelling" (is_cancelling_) or "cancelled" (is_cancelled_)
    callbacks,  \* state_->callbacks
    running     \* callbacks_to_run of StartCancel, those not yet run

cmVars == <<cmState, callbacks, running>>

CancellationTypeOK ==
    /\ cmState \in [Managers -> {"open", "cancelling", "cancelled"}]
    /\ callbacks \in [Managers -> SUBSET Calls]
    /\ running \in [Managers -> SUBSET Calls]

CancellationInit ==
    /\ cmState = [m \in Managers |-> "open"]
    /\ callbacks = [m \in Managers |-> {}]
    /\ running = [m \in Managers |-> {}]

\* RegisterCallback returns false, and registers nothing, once StartCancel has begun.
MayRegister(m) == cmState[m] = "open"

RegisterCallback(m, c) ==
    /\ callbacks' = [callbacks EXCEPT ![m] = @ \cup {c}]
    /\ UNCHANGED <<cmState, running>>

\* StartCancelWithStatus up to its loop; later calls return at once.
BeginCancel(m) ==
    /\ cmState[m] = "open"
    /\ cmState' = [cmState EXCEPT ![m] = "cancelling"]
    /\ running' = [running EXCEPT ![m] = callbacks[m]]
    /\ callbacks' = [callbacks EXCEPT ![m] = {}]

\* One turn of its loop; the map gives no order.
NextCallback(m, c) ==
    /\ c \in running[m]
    /\ running' = [running EXCEPT ![m] = @ \ {c}]
    /\ UNCHANGED <<cmState, callbacks>>

\* All callbacks have returned: is_cancelled_ is set, the notification is given.
EndCancel_Silent(m) ==     \* mutant: the notification is not given
    /\ cmState[m] = "cancelling" /\ running[m] = {}
    /\ UNCHANGED <<cmState, callbacks, running>>
EndCancel(m) ==
    /\ cmState[m] = "cancelling" /\ running[m] = {}
    /\ cmState' = [cmState EXCEPT ![m] = "cancelled"]
    /\ UNCHANGED <<callbacks, running>>

\* DeregisterCallback waits for the notification while callbacks are being run.
DeregisterWaits(m) == cmState[m] = "cancelling"

\* What it does when it does not wait, and what TryDeregisterCallback does.
DeregisterCallback(m, c) ==
    /\ callbacks' = [callbacks EXCEPT ![m] = IF cmState[m] = "open" THEN @ \ {c} ELSE @]
    /\ UNCHANGED <<cmState, running>>

TryDeregisters(m) == cmState[m] = "open"
=============================================================================
