-------------------------------- MODULE Worker -------------------------------
(***************************************************************************)
(* worker.py: the request loop of a worker process.                        *)
(*                                                                         *)
(* A worker takes one request at a time from its own OS queue and answers  *)
(* on the result queue that travelled with the request.  It knows nothing  *)
(* of timeouts, of clients that left or of slots: it works until its       *)
(* synthesis ends, whether or not anybody still reads the answer.  Loading *)
(* the model comes before the loop; a worker that fails there died with    *)
(* whatever its queue held.  The model (Xtts) is a nondeterministic        *)
(* outcome.  The loop ends at a sentinel, which only shutdown() puts.      *)
(***************************************************************************)
EXTENDS WorkerTopology

CONSTANTS
    Streams,        \* the StreamSynthesisRequests among the Requests
    MaxUnread,      \* bound: unread chunks of one stream
    NoRequest,      \* a worker that waits in request_queue.get()
    Sentinel        \* the None that ends the loop

ASSUME WorkerAssumption ==
    /\ NoRequest \notin Requests
    /\ Sentinel \notin Requests
    /\ MaxUnread \in Nat

VARIABLES
    request_queue,  \* request_queue[w]: the OS queue of worker w
    executing,      \* executing[w]: the request worker w is handling
    alive,          \* alive[w]: the process runs
    result_queue    \* result_queue[r]: what workers put for r and nobody read

workerVars == <<request_queue, executing, alive, result_queue>>

\* A SynthesisChunk, or the item that ends a request: SynthesisResult,
\* SynthesisStreamEnd or LatentsResult, with or without its error field.
FinalItems == {"ok", "error"}
Items == {"chunk"} \cup FinalItems

WorkerInit ==
    /\ request_queue = [w \in Workers |-> <<>>]
    /\ executing = [w \in Workers |-> NoRequest]
    /\ alive = [w \in Workers |-> TRUE]
    /\ result_queue = [r \in Requests |-> <<>>]

\* Slip: the worker looks at its next request and leaves it in the queue.
WorkerPeek(w) ==
    /\ alive[w]
    /\ executing[w] = NoRequest
    /\ request_queue[w] # <<>> /\ Head(request_queue[w]) # Sentinel
    /\ executing' = [executing EXCEPT ![w] = Head(request_queue[w])]
    /\ UNCHANGED <<request_queue, alive, result_queue>>

\* request_queue.get() at the head of the loop returns a request.
WorkerTake(w) ==
    /\ alive[w]
    /\ executing[w] = NoRequest
    /\ request_queue[w] # <<>> /\ Head(request_queue[w]) # Sentinel
    /\ executing' = [executing EXCEPT ![w] = Head(request_queue[w])]
    /\ request_queue' = [request_queue EXCEPT ![w] = Tail(@)]
    /\ UNCHANGED <<alive, result_queue>>

\* One turn of the inference_stream() loop.
WorkerChunk(w) ==
    /\ alive[w]
    /\ executing[w] \in Streams
    /\ Len(result_queue[executing[w]]) < MaxUnread
    /\ result_queue' = [result_queue EXCEPT ![executing[w]] = Append(@, "chunk")]
    /\ UNCHANGED <<request_queue, executing, alive>>

\* The handler ends, normally or through its except branch, and puts the
\* final item of the request.
WorkerAnswer(w) ==
    /\ alive[w]
    /\ executing[w] # NoRequest
    /\ \E item \in FinalItems :
         result_queue' = [result_queue EXCEPT ![executing[w]] = Append(@, item)]
    /\ executing' = [executing EXCEPT ![w] = NoRequest]
    /\ UNCHANGED <<request_queue, alive>>

\* The process ends without an answer: out of memory, a failed model load, or
\* a put() that raises outside any handler.  Nothing restarts it.
WorkerDies(w) ==
    /\ alive[w]
    /\ alive' = [alive EXCEPT ![w] = FALSE]
    /\ executing' = [executing EXCEPT ![w] = NoRequest]
    /\ UNCHANGED <<request_queue, result_queue>>

\* It returns the sentinel: the loop breaks and the process ends.
WorkerLeaves(w) ==
    /\ alive[w]
    /\ executing[w] = NoRequest
    /\ request_queue[w] # <<>> /\ Head(request_queue[w]) = Sentinel
    /\ request_queue' = [request_queue EXCEPT ![w] = Tail(@)]
    /\ alive' = [alive EXCEPT ![w] = FALSE]
    /\ UNCHANGED <<executing, result_queue>>

WorkerStep(w) ==
    WorkerTake(w) \/ WorkerChunk(w) \/ WorkerAnswer(w) \/ WorkerDies(w)
=============================================================================
