----------------------------- MODULE QueueManager ----------------------------
(***************************************************************************)
(* queue_manager.py with everything it drives: the waiting queue, the      *)
(* drain loop, the collectors of job results, the WebSocket handlers that  *)
(* read a stream, compute_latents() of the clone endpoint, the dispatcher  *)
(* and the worker processes.                                               *)
(*                                                                         *)
(* One process runs the event loop: a coroutine is a sequence of steps     *)
(* that end where it really suspends.  Next to it run the executor         *)
(* threads (put and get of the multiprocessing queues) and the workers.    *)
(***************************************************************************)
EXTENDS Dispatcher, Worker

CONSTANTS
    Jobs,           \* requests of submit_job(): a collector task reads them
    MaxQueueSize    \* MAX_QUEUE_SIZE; 0 makes the asyncio.Queue unbounded

ASSUME QueueManagerAssumption ==
    /\ Requests = Jobs \cup Streams \cup Clones
    /\ Jobs \cap Streams = {} /\ Jobs \cap Clones = {} /\ Streams \cap Clones = {}
    /\ MaxQueueSize \in Nat

VARIABLES
    queue,          \* the asyncio.Queue of waiting requests
    drain,          \* the item the drain loop took out, until it is delivered
    phase,          \* phase[r]: where the coroutine that owns r has got to
    answer          \* answer[r]: what the owner of r ended with

queueVars == <<queue, drain, phase, answer>>
vars == <<queueVars, dispatcherVars, workerVars>>

Queued == Jobs \cup Streams

\* The owner of r holds a slot from the critical section of dispatch() on:
\* "putting" while an executor thread puts r into the OS queue, "delivered"
\* until its owner runs again, "collecting" while the owner reads results.
InFlight == {"putting", "delivered", "collecting"}

Phases == {"new", "refused", "queued", "taken", "done"} \cup InFlight
Answers == {"none", "timeout", "gone", "broken"} \cup FinalItems

QueueFull == MaxQueueSize > 0 /\ Len(queue) >= MaxQueueSize

SetPhase(r, p) == phase' = [phase EXCEPT ![r] = p]

-----------------------------------------------------------------------------
Init ==
    /\ DispatcherInit
    /\ WorkerInit
    /\ queue = <<>>
    /\ drain = NoRequest
    /\ phase = [r \in Requests |-> "new"]
    /\ answer = [r \in Requests |-> "none"]

(* Submission *)

\* Slip: the latents requests go through the queue as well.
AcceptAnything(r) ==
    /\ phase[r] = "new"
    /\ ~QueueFull
    /\ queue' = Append(queue, r)
    /\ SetPhase(r, "queued")
    /\ UNCHANGED <<drain, answer, dispatcherVars, workerVars>>

\* submit_job() / submit_stream(): put_nowait() never suspends.
Accept(r) ==
    /\ r \in Queued /\ phase[r] = "new"
    /\ ~QueueFull
    /\ queue' = Append(queue, r)
    /\ SetPhase(r, "queued")
    /\ UNCHANGED <<drain, answer, dispatcherVars, workerVars>>

\* QueueFullError
Refuse(r) ==
    /\ r \in Queued /\ phase[r] = "new"
    /\ QueueFull
    /\ SetPhase(r, "refused")
    /\ UNCHANGED <<queue, drain, answer, dispatcherVars, workerVars>>

\* compute_latents() goes straight to dispatch().
StartLatents(r) ==
    /\ r \in Clones /\ phase[r] = "new"
    /\ DispatchLatents(r)
    /\ SetPhase(r, "putting")
    /\ UNCHANGED <<queue, drain, answer, workerVars>>

(* Drain loop *)

\* queue.get() returns and the loop runs on to its next suspension: the wait
\* set of the Condition, or the executor call inside dispatch().
DrainTake ==
    /\ drain = NoRequest
    /\ queue # <<>>
    /\ drain' = Head(queue)
    /\ queue' = Tail(queue)
    /\ \/ Park /\ SetPhase(Head(queue), "taken")
       \/ DispatchQueued(Head(queue)) /\ SetPhase(Head(queue), "putting")
    /\ UNCHANGED <<answer, workerVars>>

\* The loop runs again after a notify and checks all_busy() once more.
DrainWake ==
    /\ waiter = "notified"
    /\ \/ Park /\ UNCHANGED phase
       \/ DispatchQueued(drain) /\ SetPhase(drain, "putting")
    /\ UNCHANGED <<queue, drain, answer, workerVars>>

\* The put is done: the loop starts the collector of a job, or resolves the
\* future the WebSocket handler waits for, and goes back to queue.get().
DrainHandOver ==
    /\ drain # NoRequest /\ phase[drain] = "delivered"
    /\ drain' = NoRequest
    /\ SetPhase(drain, "collecting")
    /\ UNCHANGED <<queue, answer, dispatcherVars, workerVars>>

LatentsHandOver(r) ==
    /\ r \in Clones /\ phase[r] = "delivered"
    /\ SetPhase(r, "collecting")
    /\ UNCHANGED <<queue, drain, answer, dispatcherVars, workerVars>>

(* Executor thread *)

\* Slip: the request goes into the queue of the first worker of the list.
PutIntoFirstQueue(r) ==
    /\ phase[r] = "putting"
    /\ \E w \in Workers :
         /\ \A v \in Workers : ~SpawnedBefore(v, w)
         /\ request_queue' = [request_queue EXCEPT ![w] = Append(@, r)]
    /\ SetPhase(r, "delivered")
    /\ UNCHANGED <<queue, drain, answer, dispatcherVars>>
    /\ UNCHANGED <<executing, alive, result_queue>>

\* request_queue.put() of dispatch(); a dead worker's queue takes it as well.
ExecutorPut(r) ==
    /\ phase[r] = "putting"
    /\ request_queue' = [request_queue EXCEPT ![handle[r]] = Append(@, r)]
    /\ SetPhase(r, "delivered")
    /\ UNCHANGED <<queue, drain, answer, dispatcherVars>>
    /\ UNCHANGED <<executing, alive, result_queue>>

(* The owners of a dispatched request.  A read, what the owner sends on and  *)
(* the release after it are one step, at the time the send is over: until    *)
(* then the item counts as unread and the slot as held.                      *)

\* The owner gives its slot back and is finished.
End(r, outcome) ==
    /\ Release(r)
    /\ SetPhase(r, "done")
    /\ answer' = [answer EXCEPT ![r] = outcome]
    /\ UNCHANGED <<queue, drain>>

Read(r) ==
    /\ phase[r] = "collecting"
    /\ result_queue[r] # <<>>
    /\ result_queue' = [result_queue EXCEPT ![r] = Tail(@)]
    /\ UNCHANGED <<request_queue, executing, alive>>

\* A chunk is sent on; the owner keeps its slot.
SendChunk(r) ==
    /\ Read(r)
    /\ Head(result_queue[r]) = "chunk"
    /\ UNCHANGED <<queueVars, dispatcherVars>>

\* The client is gone: send_bytes() raises and the finally block releases.
ClientGone(r) ==
    /\ Read(r)
    /\ Head(result_queue[r]) = "chunk"
    /\ End(r, "gone")

\* The final item of a job, a stream or a latents request.
ReadFinal(r) ==
    /\ Read(r)
    /\ Head(result_queue[r]) \in FinalItems
    /\ End(r, Head(result_queue[r]))

\* Slip: an early return between the timeout and the release().
TimeoutKeepsSlot(r) ==
    /\ phase[r] = "collecting"
    /\ result_queue[r] = <<>>
    /\ SetPhase(r, "done")
    /\ answer' = [answer EXCEPT ![r] = "timeout"]
    /\ UNCHANGED <<queue, drain, dispatcherVars, workerVars>>

\* Slip: a request that timed out is queued once more.
TimeoutRetries(r) ==
    /\ phase[r] = "collecting"
    /\ result_queue[r] = <<>>
    /\ Release(r)
    /\ SetPhase(r, "queued")
    /\ queue' = Append(queue, r)
    /\ UNCHANGED <<drain, answer, workerVars>>

\* result_queue.get(timeout=...) raises queue.Empty.
Timeout(r) ==
    /\ phase[r] = "collecting"
    /\ result_queue[r] = <<>>
    /\ End(r, "timeout")
    /\ UNCHANGED workerVars

\* The connection to the multiprocessing manager breaks: get() raises something
\* else, and whoever owns r releases its slot all the same.
ReadBroken(r) ==
    /\ phase[r] = "collecting"
    /\ End(r, "broken")
    /\ UNCHANGED workerVars

-----------------------------------------------------------------------------
DrainStep == DrainTake \/ DrainWake \/ DrainHandOver

\* What the owner of r does by itself, and what can happen to it.
Collect(r) == SendChunk(r) \/ ReadFinal(r) \/ Timeout(r)

OwnerStep(r) == Collect(r) \/ ClientGone(r) \/ ReadBroken(r)

WorkerMoves(w) == WorkerStep(w) /\ UNCHANGED <<queueVars, dispatcherVars>>

Next ==
    \/ \E r \in Requests :
         \/ Accept(r) \/ Refuse(r) \/ StartLatents(r)
         \/ ExecutorPut(r) \/ LatentsHandOver(r)
         \/ OwnerStep(r)
    \/ DrainStep
    \/ \E w \in Workers : WorkerMoves(w)

Spec == Init /\ [][Next]_vars

\* The event loop runs every coroutine that can run, an executor call ends, a
\* timeout expires, a worker that is alive takes its next request and ends
\* its synthesis.  No client has to leave, no worker to die, no read to break.
Fairness ==
    /\ WF_vars(DrainStep)
    /\ \A r \in Requests :
         WF_vars(ExecutorPut(r)) /\ WF_vars(LatentsHandOver(r)) /\ WF_vars(Collect(r))
    /\ \A w \in Workers :
         /\ WF_vars(WorkerTake(w) /\ UNCHANGED <<queueVars, dispatcherVars>>)
         /\ WF_vars(WorkerAnswer(w) /\ UNCHANGED <<queueVars, dispatcherVars>>)

FairSpec == Spec /\ Fairness

-----------------------------------------------------------------------------
(* Properties *)

\* Every field has its type.
TypeOK ==
    /\ DispatcherTypeOK
    /\ request_queue \in [Workers -> Seq(Requests \cup {Sentinel})]
    /\ executing \in [Workers -> Requests \cup {NoRequest}]
    /\ alive \in [Workers -> BOOLEAN]
    /\ result_queue \in [Requests -> Seq(Items)]
    /\ queue \in Seq(Queued)
    /\ drain \in Queued \cup {NoRequest}
    /\ phase \in [Requests -> Phases]
    /\ answer \in [Requests -> Answers]

\* No slot leaks and none is given back early: a request holds a slot exactly
\* from its dispatch until its owner has an answer, a timeout or no client
\* left.  The drain loop waits on the Condition only for the item it holds.
SlotsFollowOwners ==
    /\ \A r \in Requests : handle[r] # NoWorker <=> phase[r] \in InFlight
    /\ waiter # "out" <=> drain # NoRequest /\ phase[drain] = "taken"
    /\ \A r \in Queued : phase[r] = "taken" => drain = r

\* The queue holds every request that waits, and holds it once.
WaitingOnce ==
    /\ IsInjective(queue)
    /\ \A r \in Requests : phase[r] = "queued" <=> r \in Range(queue)

\* Where the work for r is: in an OS queue, in the hands of a worker, in its
\* result queue as a final item, or read by its owner.
Places(r) ==
    {<<"to do", w>> : w \in {v \in Workers : r \in Range(request_queue[v])}}
    \cup {<<"under way", w>> : w \in {v \in Workers : executing[v] = r}}
    \cup {<<"answered", i>> :
             i \in {j \in DOMAIN result_queue[r] : result_queue[r][j] \in FinalItems}}
    \cup {<<"read", a>> : a \in {answer[r]} \cap FinalItems}

\* A request is never worked on twice and never answered twice, however
\* timeouts, crashes and clients that leave fall; and while its owner waits
\* for a worker that is alive, its work is still somewhere.
ExactlyOnce ==
    /\ \A w \in Workers : IsInjective(request_queue[w])
    /\ \A r \in Requests :
         LET places == Places(r) IN
         /\ \A p, q \in places : p = q
         /\ phase[r] \in {"delivered", "collecting"} /\ alive[handle[r]]
               => places # {}
         /\ phase[r] \in {"new", "refused", "queued", "taken", "putting"}
               => places = {}

\* How far the work for r has come: not handed over, in an OS queue, in the
\* hands of a worker, answered, and read or lost with its worker.
InQueue(r) == \E w \in Workers : r \in Range(request_queue[w])
InHands(r) == \E w \in Workers : executing[w] = r
Answered(r) ==
    \E i \in DOMAIN result_queue[r] : result_queue[r][i] \in FinalItems

WorkStage(r) ==
    IF phase[r] \in {"new", "refused", "queued", "taken", "putting"} THEN 0
    ELSE IF InQueue(r) THEN 1
    ELSE IF InHands(r) THEN 2
    ELSE IF Answered(r) THEN 3
    ELSE 4

\* The work for a request only moves on: neither a timeout nor the death of a
\* worker brings back what was handed over, begun, answered or lost, so that no
\* worker ever begins a request a second time, however long the server runs.
WorkOnlyMovesOn ==
    [][\A r \in Requests : WorkStage(r) <= WorkStage(r)']_vars

\* No more requests wait than MAX_QUEUE_SIZE says.
QueueBounded == Len(queue) <= MaxQueueSize

\* The worker a request from the queue is given in this step.
GetsWorker(r, w) == handle[r] = NoWorker /\ handle'[r] = w

\* "Wait for a worker that has no active requests before dispatching": the
\* request from the queue lands on a worker whose counter is 0.
QueuedLandsOnFreeWorker ==
    [][\A r \in Queued, w \in Workers :
         GetsWorker(r, w) => active_requests[w] = 0]_vars

\* ... which is meant to keep the OS queues empty: the worker that gets the
\* request has nothing in its queue and nothing under way.
QueuedFindsIdleWorker ==
    [][\A r \in Queued, w \in Workers :
         GetsWorker(r, w) => request_queue[w] = <<>> /\ executing[w] = NoRequest]_vars

\* The owner of r has ended without its answer: a timeout, a broken read, or a
\* client that left.
Abandoned(r) == phase[r] = "done" /\ answer[r] \notin FinalItems

\* It is not always so, but what a request from the queue finds there was given
\* up by its owner: it never stands behind work that somebody waits for, nor
\* behind any whose answer was read.
QueuedMeetsAbandonedWork ==
    [][\A r \in Queued, w \in Workers :
         GetsWorker(r, w) =>
            \A q \in Requests :
               q \in Range(request_queue[w]) \/ executing[w] = q => Abandoned(q)]_vars

\* The steps of the whole system are steps of the dispatcher or leave it alone.
ImplementsDispatcher == DispatcherSpec

\* What an endpoint can tell of a request it submitted.
Stage(r) ==
    CASE phase[r] = "queued" -> "waiting"
      [] phase[r] \in {"taken"} \cup InFlight -> "started"
      [] phase[r] = "done" -> answer[r]
      [] OTHER -> phase[r]

\* Seen from the endpoints all of this is a bounded first-come first-served
\* queue whose requests end exactly once.
Submission == INSTANCE RequestQueue WITH
    Submitters <- Queued,
    Capacity   <- MaxQueueSize,
    Outcomes   <- Answers \ {"none"},
    waiting    <- queue,
    stage      <- [r \in Queued |-> Stage(r)]

ImplementsRequestQueue == Submission!RequestQueueSpec

\* Whatever workers die, a request that was accepted ends: its owner gets an
\* answer or a timeout, or notices that its client has left.
AcceptedRequestsEnd == Submission!RequestQueueLive
=============================================================================
