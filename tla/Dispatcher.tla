------------------------------ MODULE Dispatcher -----------------------------
(***************************************************************************)
(* dispatcher.py: the per-worker counters behind one asyncio.Condition.    *)
(*                                                                         *)
(* Everything here runs in one event loop, and no critical section of the  *)
(* Condition suspends except cond.wait(): the lock is never found taken,   *)
(* and a section is one step.  dispatch() suspends right after its section *)
(* (the put into the worker's OS queue); that part is in QueueManager.     *)
(*                                                                         *)
(* The callers keep the WorkerHandle that dispatch() returned and name it  *)
(* when they call release(): handle[r] is that local variable.  A request  *)
(* id that was released stands for a new one when it is dispatched again.  *)
(***************************************************************************)
EXTENDS WorkerTopology

CONSTANTS
    Clones,     \* requests of compute_latents(): they bypass the drain loop
    NoWorker    \* what a caller holds before dispatch(), after release()

ASSUME DispatcherAssumption ==
    /\ IsFiniteSet(Requests)
    /\ Clones \subseteq Requests
    /\ NoWorker \notin Workers

VARIABLES
    active_requests,    \* WorkerHandle.active_requests, per worker
    active_jobs,        \* the keys of WorkerHandle.active_jobs, per worker
    waiter,             \* the drain loop in wait_for_free_worker()
    handle              \* handle[r]: the worker the caller of r must release

dispatcherVars == <<active_requests, active_jobs, waiter, handle>>

Holders(w) == {r \in Requests : handle[r] = w}

\* all_busy()
AllBusy == \A w \in Workers : active_requests[w] >= 1

-----------------------------------------------------------------------------
DispatcherInit ==
    /\ active_requests = [w \in Workers |-> 0]
    /\ active_jobs = [w \in Workers |-> {}]
    /\ waiter = "out"
    /\ handle = [r \in Requests |-> NoWorker]

\* The critical section of dispatch().
Assign(r) ==
    /\ handle[r] = NoWorker
    /\ \E w \in Workers :
         /\ IsPick(active_requests, w)
         /\ active_requests' = [active_requests EXCEPT ![w] = @ + 1]
         /\ active_jobs' = [active_jobs EXCEPT ![w] = @ \cup {r}]
         /\ handle' = [handle EXCEPT ![r] = w]

\* compute_latents() dispatches without asking for a free worker.
DispatchLatents(r) == Assign(r) /\ UNCHANGED waiter

\* Slip: the drain loop goes on to dispatch() without the check of all_busy().
DispatchUnchecked(r) ==
    /\ waiter \in {"out", "notified"}
    /\ Assign(r)
    /\ waiter' = "out"

\* The drain loop finds a free worker (at once, or after a notify) and goes
\* on to dispatch() without suspending in between.
DispatchQueued(r) ==
    /\ waiter \in {"out", "notified"}
    /\ ~AllBusy
    /\ Assign(r)
    /\ waiter' = "out"

\* The drain loop finds every worker busy, the first time or once more after
\* a notify, and waits on the Condition.
Park ==
    /\ waiter \in {"out", "notified"}
    /\ AllBusy
    /\ waiter' = "parked"
    /\ UNCHANGED <<active_requests, active_jobs, handle>>

\* Slip: release() without its notify_all().
NotifyForgotten == waiter

\* notify_all(): the waiter leaves the wait set and runs again later.
Notified == IF waiter = "parked" THEN "notified" ELSE waiter

\* Slip: release() discards the job and forgets the counter.
ReleaseJobOnly(r) ==
    /\ handle[r] # NoWorker
    /\ \E w \in Workers :
         /\ IsFirstWithId(w, WorkerId(handle[r]))
         /\ active_jobs' = [active_jobs EXCEPT ![w] = @ \ {r}]
    /\ waiter' = Notified
    /\ handle' = [handle EXCEPT ![r] = NoWorker]
    /\ UNCHANGED active_requests

\* release(worker_id, job_id): it looks the worker up by its name.
Release(r) ==
    /\ handle[r] # NoWorker
    /\ \E w \in Workers :
         /\ IsFirstWithId(w, WorkerId(handle[r]))
         /\ active_requests' =
              [active_requests EXCEPT ![w] = IF @ = 0 THEN 0 ELSE @ - 1]
         /\ active_jobs' = [active_jobs EXCEPT ![w] = @ \ {r}]
    /\ waiter' = Notified
    /\ handle' = [handle EXCEPT ![r] = NoWorker]

DispatcherNext ==
    \/ \E r \in Clones : DispatchLatents(r)
    \/ \E r \in Requests \ Clones : DispatchQueued(r)
    \/ \E r \in Requests : Release(r)
    \/ Park

DispatcherSpec == DispatcherInit /\ [][DispatcherNext]_dispatcherVars

-----------------------------------------------------------------------------
(* Properties *)

\* Every field has its type.
DispatcherTypeOK ==
    /\ active_requests \in [Workers -> Nat]
    /\ active_jobs \in [Workers -> SUBSET Requests]
    /\ waiter \in {"out", "parked", "notified"}
    /\ handle \in [Requests -> Workers \cup {NoWorker}]

\* The counter of a worker is the number of callers that still owe it a
\* release(), and active_jobs names exactly those: no slot leaks, none is
\* handed back twice, and the max(0, ...) of release() never has to act.
SlotAccounting ==
    \A w \in Workers :
        /\ active_requests[w] = Cardinality(Holders(w))
        /\ active_jobs[w] = Holders(w)

\* wait_for_free_worker() is "guaranteed to wake": it never stays in the wait
\* set while a worker is free, whatever dispatches and releases come between.
NoLostWakeup == waiter = "parked" => AllBusy

\* The dispatcher implements the counter-free description of WorkerSlots: the
\* check of all_busy() still holds when dispatch() picks, so no request of the
\* drain loop is given out while every worker is held, and each hand-back goes
\* to the worker that was given and wakes the loop.
Slots == INSTANCE WorkerSlots WITH
    Direct  <- Clones,
    serving <- [w \in Workers |-> Holders(w)],
    asleep  <- (waiter = "parked")

ImplementsWorkerSlots == Slots!SlotSpec
=============================================================================
