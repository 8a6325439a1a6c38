------------------------------ MODULE Lifecycle ------------------------------
(***************************************************************************)
(* The lifespan of main.py around the request path: the server serves, is  *)
(* told to stop, and shuts down in the order of the code below the yield:  *)
(* queue manager, dispatcher, job store.                                   *)
(*                                                                         *)
(* uvicorn calls that code once no connection is open any more: whoever    *)
(* waits on a connection (/audio requests, clones, WebSockets) has been    *)
(* answered by then.  Jobs have no such caller, and shutdown() does not    *)
(* wait for them.  A coroutine that is cancelled takes no more steps: what *)
(* it held stays as it was; only the thread it waited for goes on.         *)
(***************************************************************************)
EXTENDS QueueManager

CONSTANT Syncs      \* the Jobs of /audio requests: a connection waits for them

ASSUME LifecycleAssumption == Syncs \subseteq Jobs

VARIABLES
    stage,      \* how far the lifespan got
    told,       \* the workers whose queue was given a sentinel
    joined,     \* the workers join() has returned for
    left,       \* the workers that ended at their sentinel
    revoked     \* the put of the cancelled drain loop will never run

lifecycleVars == <<stage, told, joined, left, revoked>>
allVars == <<vars, lifecycleVars>>

\* Requests a connection waits for.
Connected == Streams \cup Clones \cup Syncs

Idle == {"new", "refused", "done"}

ConnectionsClosed == \A r \in Connected : phase[r] \in Idle

\* The list order in which shutdown() goes through the workers.
IsNext(w, visited) ==
    /\ w \in Workers \ visited
    /\ \A v \in Workers \ visited : v # w => SpawnedBefore(w, v)

-----------------------------------------------------------------------------
LifecycleInit ==
    /\ Init
    /\ stage = "serving"
    /\ told = {} /\ joined = {} /\ left = {}
    /\ revoked = FALSE

(* The request path, as far as it still runs *)

\* Requests arrive, and one whose body is still being read when the socket is
\* closed is submitted after that: its connection is open, and waited for.
Arrive(r) ==
    /\ stage \in {"serving", "closing"}
    /\ Accept(r) \/ Refuse(r) \/ StartLatents(r)
    /\ UNCHANGED lifecycleVars

\* The drain loop runs until queue_manager.shutdown() cancels it.
Drain ==
    /\ stage \in {"serving", "closing"}
    /\ DrainStep
    /\ UNCHANGED lifecycleVars

\* A thread ends the put it has begun, whatever became of the drain loop.
Put(r) ==
    /\ ~(revoked /\ r = drain)
    /\ ExecutorPut(r)
    /\ UNCHANGED lifecycleVars

\* The owner of r goes on, until the manager process with its result queue is
\* gone: then its get() raises (or its task is cancelled with the event loop).
Own(r) ==
    /\ IF stage = "stopped" THEN ReadBroken(r)
                            ELSE LatentsHandOver(r) \/ OwnerStep(r)
    /\ UNCHANGED lifecycleVars

Work(w) == WorkerMoves(w) /\ UNCHANGED lifecycleVars

(* Shutdown *)

\* A signal: uvicorn closes the listening socket and lets connections end.
Stop ==
    /\ stage = "serving"
    /\ stage' = "closing"
    /\ UNCHANGED <<vars, told, joined, left, revoked>>

\* Slip: the connections are not waited for.
CancelDrainAtOnce ==
    /\ stage = "closing"
    /\ stage' = "stopping"
    /\ \/ UNCHANGED revoked
       \/ drain # NoRequest /\ phase[drain] = "putting" /\ revoked' = TRUE
    /\ UNCHANGED <<vars, told, joined, left>>

\* queue_manager.shutdown(): the drain loop is cancelled wherever it waits, and
\* what it holds is dropped with the queue.  Its put may be under way in a
\* thread, or not have begun; then it is cancelled as well.
CancelDrain ==
    /\ stage = "closing"
    /\ ConnectionsClosed
    /\ stage' = "stopping"
    /\ \/ UNCHANGED revoked
       \/ drain # NoRequest /\ phase[drain] = "putting" /\ revoked' = TRUE
    /\ UNCHANGED <<vars, told, joined, left>>

\* Slip: the dispatcher is shut down before the queue manager.
TellWhileDraining(w) ==
    /\ stage \in {"closing", "stopping"}
    /\ IsNext(w, told)
    /\ told' = told \cup {w}
    /\ request_queue' = [request_queue EXCEPT ![w] = Append(@, Sentinel)]
    /\ UNCHANGED <<queueVars, dispatcherVars, executing, alive, result_queue>>
    /\ UNCHANGED <<stage, joined, left, revoked>>

\* dispatcher.shutdown() puts a sentinel behind all that is in the OS queue.
TellWorker(w) ==
    /\ stage = "stopping"
    /\ IsNext(w, told)
    /\ told' = told \cup {w}
    /\ request_queue' = [request_queue EXCEPT ![w] = Append(@, Sentinel)]
    /\ UNCHANGED <<queueVars, dispatcherVars, executing, alive, result_queue>>
    /\ UNCHANGED <<stage, joined, left, revoked>>

\* The worker reads it.
Leave(w) ==
    /\ WorkerLeaves(w)
    /\ left' = left \cup {w}
    /\ UNCHANGED <<queueVars, dispatcherVars, stage, told, joined, revoked>>

\* Slip: join() without a timeout.
JoinForEver(w) ==
    /\ stage = "stopping" /\ told = Workers
    /\ IsNext(w, joined)
    /\ ~alive[w]
    /\ joined' = joined \cup {w}
    /\ UNCHANGED <<vars, stage, told, left, revoked>>

\* join(15) returns: the process has ended, or is terminated now.
Join(w) ==
    /\ stage = "stopping" /\ told = Workers
    /\ IsNext(w, joined)
    /\ joined' = joined \cup {w}
    /\ alive' = [alive EXCEPT ![w] = FALSE]
    /\ executing' = [executing EXCEPT ![w] = NoRequest]
    /\ UNCHANGED <<queueVars, dispatcherVars, request_queue, result_queue>>
    /\ UNCHANGED <<stage, told, left, revoked>>

\* manager.shutdown(): the result queues are gone.
StopManager ==
    /\ stage = "stopping" /\ joined = Workers
    /\ stage' = "stopped"
    /\ result_queue' = [r \in Requests |-> <<>>]
    /\ UNCHANGED <<queueVars, dispatcherVars, request_queue, executing, alive>>
    /\ UNCHANGED <<told, joined, left, revoked>>

-----------------------------------------------------------------------------
ShutdownStep ==
    \/ CancelDrain
    \/ \E w \in Workers : TellWorker(w) \/ Join(w)
    \/ StopManager

LifecycleNext ==
    \/ \E r \in Requests : Arrive(r) \/ Put(r) \/ Own(r)
    \/ Drain
    \/ \E w \in Workers : Work(w) \/ Leave(w)
    \/ Stop
    \/ ShutdownStep

LifecycleSpec == LifecycleInit /\ [][LifecycleNext]_allVars

\* The owner of r goes on by itself.
OwnerContinues(r) ==
    /\ Own(r)
    /\ IF stage = "stopped" THEN ReadBroken(r) ELSE LatentsHandOver(r) \/ Collect(r)

\* The event loop runs what can run, a thread ends its put, a timeout expires,
\* a get() from a manager that is gone raises, and the awaits of shutdown() end
\* (join() by its timeout).  Nothing is assumed of the workers, which may hang
\* or die, of clients or of signals.
LifecycleFairness ==
    /\ WF_allVars(Drain)
    /\ WF_allVars(\E r \in Requests : Put(r))
    /\ WF_allVars(\E r \in Requests : OwnerContinues(r))
    /\ WF_allVars(ShutdownStep)

FairLifecycleSpec == LifecycleSpec /\ LifecycleFairness

-----------------------------------------------------------------------------
(* Properties *)

\* Every field has its type.
LifecycleTypeOK ==
    /\ TypeOK
    /\ stage \in {"serving", "closing", "stopping", "stopped"}
    /\ told \subseteq Workers /\ joined \subseteq Workers /\ left \subseteq Workers
    /\ revoked \in BOOLEAN

\* A worker that went by its sentinel has answered every request whose owner
\* still waits: nothing with an owner was put behind the sentinel.
LeftNothingUnanswered ==
    \A w \in left, r \in Requests :
        stage # "stopped" /\ handle[r] = w /\ phase[r] = "collecting"
            => \E i \in DOMAIN result_queue[r] : result_queue[r][i] \in FinalItems

\* A server that is told to stop does stop, whatever its workers are doing, and
\* none of them outlives it.
StopIsCarriedOut ==
    stage = "closing" ~> stage = "stopped" /\ \A w \in Workers : ~alive[w]

\* Nobody who waits on a connection is left behind by a shutdown that begins
\* meanwhile: only jobs are dropped with the queue.
WaitingClientsAnswered ==
    \A r \in Connected : phase[r] \in {"queued", "putting"} ~> phase[r] = "done"
=============================================================================
