----------------------------- MODULE ExecutorPool -----------------------------
(***************************************************************************)
(* The request path of QueueManager on the default ThreadPoolExecutor of   *)
(* the event loop, which all run_in_executor(None, ...) calls share: the   *)
(* puts into the OS queues of the workers, the blocking gets on the result *)
(* queues, and the saves and encodings that follow a synthesis.            *)
(*                                                                         *)
(* A get holds its thread for as long as the worker takes; its timeout     *)
(* runs from the time the thread starts it.  The calls of one coroutine    *)
(* come one after the other, those of different coroutines in any order.   *)
(***************************************************************************)
EXTENDS QueueManager

CONSTANT PoolSize       \* min(32, CPUs + 4) threads

ASSUME PoolAssumption == PoolSize \in Nat \ {0}

VARIABLES
    backlog,    \* the calls no thread has begun, first come first served
    running     \* the calls that hold a thread

pool == <<backlog, running>>
poolVars == <<vars, pool>>

Call(kind, r) == [kind |-> kind, request |-> r]
Calls == [kind : {"put", "get", "save"}, request : Requests]

Pending == Range(backlog) \cup running

PoolInit ==
    /\ Init
    /\ backlog = <<>>
    /\ running = {}

-----------------------------------------------------------------------------
(* The event loop submits calls *)

\* Slip: the thread that will read the answer is asked for before the put.
SubmitPutLast(r) ==
    /\ backlog' = backlog \o <<Call("get", r), Call("put", r)>>
    /\ UNCHANGED running

\* dispatch(), after its critical section.
SubmitPut(r) ==
    /\ backlog' = Append(backlog, Call("put", r))
    /\ UNCHANGED running

Submit(r) == (Accept(r) \/ Refuse(r)) /\ UNCHANGED pool

RequestLatents(r) == StartLatents(r) /\ SubmitPut(r)

\* The loop takes an item or wakes up, and dispatches what it holds or parks.
DrainLoop ==
    /\ DrainTake \/ DrainWake
    /\ IF phase'[drain'] = "putting" THEN SubmitPut(drain') ELSE UNCHANGED pool

HandOver == DrainHandOver /\ UNCHANGED pool

\* Slip: the handler asks again while it is waiting.
AskAgain(r) ==
    /\ r \in Queued /\ phase[r] = "collecting"
    /\ backlog' = Append(backlog, Call("get", r))
    /\ UNCHANGED <<vars, running>>

\* The collector task or the WebSocket handler runs for the first time.
Ask(r) ==
    /\ r \in Queued /\ phase[r] = "collecting"
    /\ Call("get", r) \notin Pending
    /\ backlog' = Append(backlog, Call("get", r))
    /\ UNCHANGED <<vars, running>>

\* compute_latents() goes on from its put to its get.
AskForLatents(r) ==
    /\ LatentsHandOver(r)
    /\ backlog' = Append(backlog, Call("get", r))
    /\ UNCHANGED running

(* Threads *)

\* A free thread begins the oldest call.
Begin ==
    /\ backlog # <<>>
    /\ Cardinality(running) < PoolSize
    /\ running' = running \cup {Head(backlog)}
    /\ backlog' = Tail(backlog)
    /\ UNCHANGED vars

\* A call ends, and its coroutine runs up to the next calls it submits.
Return(call, next) ==
    /\ call \in running
    /\ running' = running \ {call}
    /\ backlog' = backlog \o next

PutReturns(r) == ExecutorPut(r) /\ Return(Call("put", r), <<>>)

\* The handler sends the chunk and asks for the next one.
ChunkReturns(r) == SendChunk(r) /\ Return(Call("get", r), <<Call("get", r)>>)

\* What a request ended with goes to disk or into a response.
AfterFinal(r) ==
    IF r \in Jobs /\ Head(result_queue[r]) = "ok" THEN <<Call("save", r)>> ELSE <<>>

\* Slip: the slot is kept until the audio is saved.
FinalKeepsSlot(r) ==
    /\ Read(r) /\ Head(result_queue[r]) \in FinalItems
    /\ UNCHANGED <<queueVars, dispatcherVars>>
    /\ Return(Call("get", r), AfterFinal(r))

FinalReturns(r) == ReadFinal(r) /\ Return(Call("get", r), AfterFinal(r))

\* Slip: the thread goes on waiting for an answer nobody wants any more.
TimerOfCoroutine(r) == Timeout(r) /\ Call("get", r) \in running /\ UNCHANGED pool

\* get() raises Empty in its thread.
Expire(r) == Timeout(r) /\ Return(Call("get", r), <<>>)

EndsBadly(r) ==
    /\ ClientGone(r) \/ ReadBroken(r)
    /\ Return(Call("get", r), <<>>)

SaveReturns(r) == Return(Call("save", r), <<>>) /\ UNCHANGED vars

-----------------------------------------------------------------------------
GetReturns(r) == ChunkReturns(r) \/ FinalReturns(r)

PoolNext ==
    \/ \E r \in Requests :
         \/ Submit(r) \/ RequestLatents(r) \/ Ask(r) \/ AskForLatents(r)
         \/ PutReturns(r) \/ GetReturns(r) \/ Expire(r) \/ EndsBadly(r)
         \/ SaveReturns(r)
    \/ DrainLoop \/ HandOver
    \/ Begin
    \/ \E w \in Workers : WorkerMoves(w) /\ UNCHANGED pool

PoolSpec == PoolInit /\ [][PoolNext]_poolVars

CoroutineStep(r) ==
    Ask(r) \/ AskForLatents(r) \/ PutReturns(r) \/ GetReturns(r) \/ SaveReturns(r)

\* The event loop runs what can run, a free thread begins a call, a call that
\* can end does, and a worker that is alive works.  Timeouts are left out.
PoolFairness ==
    /\ WF_poolVars(DrainLoop \/ HandOver)
    /\ WF_poolVars(Begin)
    /\ WF_poolVars(\E r \in Requests : CoroutineStep(r))
    /\ WF_poolVars(\E w \in Workers :
          (WorkerTake(w) \/ WorkerAnswer(w)) /\ UNCHANGED <<queueVars, dispatcherVars, pool>>)

FairPoolSpec == PoolSpec /\ PoolFairness

-----------------------------------------------------------------------------
(* Properties *)

\* Every field has its type.
PoolTypeOK ==
    /\ TypeOK
    /\ backlog \in Seq(Calls)
    /\ running \subseteq Calls

\* No thread waits for what the pool itself has yet to do: no call is pending
\* twice, and the request behind every get that is under way or waits for a
\* thread has been put and has an owner that reads.
GetsFollowPuts ==
    /\ IsInjective(backlog)
    /\ running \cap Range(backlog) = {}
    /\ \A r \in Requests :
        /\ Call("put", r) \in Pending <=> phase[r] = "putting"
        /\ Call("get", r) \in Pending => phase[r] = "collecting"

\* The threads decide when a call ends, not what the request path does.
ImplementsQueueManager == Spec

InProgress == {"queued", "taken"} \cup InFlight

\* What can go on without a timeout: the drain loop, a thread, a coroutine that
\* has its next call to submit, a call that has what it waits for, a worker.
DrainCanMove ==
    \/ drain = NoRequest /\ queue # <<>>
    \/ waiter = "notified"
    \/ drain # NoRequest /\ phase[drain] = "delivered"

PoolCanBegin == backlog # <<>> /\ Cardinality(running) < PoolSize

OwnerCanAsk(r) ==
    \/ r \in Queued /\ phase[r] = "collecting" /\ Call("get", r) \notin Pending
    \/ r \in Clones /\ phase[r] = "delivered"

CallCanReturn(r) ==
    \/ Call("put", r) \in running
    \/ Call("get", r) \in running /\ result_queue[r] # <<>>
    \/ Call("save", r) \in running

WorkerCanWork(w) ==
    /\ alive[w]
    /\ \/ executing[w] # NoRequest
       \/ request_queue[w] # <<>> /\ Head(request_queue[w]) # Sentinel

\* A thread has begun to wait for a worker that died.
WaitsForTheDead(r) ==
    Call("get", r) \in running /\ result_queue[r] = <<>> /\ ~alive[handle[r]]

\* The request path never comes to a halt with a request in it.  Threads that wait
\* for calls behind them, a drain loop asleep with no release to come, an owner
\* nobody hands its worker to: any of these would leave nothing to do but to wait
\* for a timeout of a worker that is alive, or for ever.
NeverStuck ==
    (\E r \in Requests : phase[r] \in InProgress)
        => \/ DrainCanMove \/ PoolCanBegin
           \/ \E r \in Requests : OwnerCanAsk(r) \/ CallCanReturn(r) \/ WaitsForTheDead(r)
           \/ \E w \in Workers : WorkerCanWork(w)

\* As long as no worker dies every request ends without the help of a timeout,
\* however few threads there are: gets that hold all of them wait for workers
\* that have their requests, never for puts that wait behind them.
NoJam ==
    [](\A w \in Workers : alive[w])
        => \A r \in Requests : phase[r] \in InProgress ~> phase[r] = "done"

\* With dead workers it takes the timeouts, whose clocks only run in threads.
TimeoutsFreeThePool ==
    WF_poolVars(\E r \in Requests : Expire(r))
        => \A r \in Requests : phase[r] \in InProgress ~> phase[r] = "done"
=============================================================================
