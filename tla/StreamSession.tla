---------------------------- MODULE StreamSession -----------------------------
(***************************************************************************)
(* One connection to /v1/stream: stream_tts() from the accept to its last  *)
(* finally block, the worker that makes the chunks, and a client that may  *)
(* leave at any time.  Sessions share the queue and the slots, which       *)
(* QueueManager models; here the drain loop dispatches some time.          *)
(***************************************************************************)
EXTENDS Integers, Sequences

CONSTANT MaxChunks      \* bound: chunks of one synthesis

ASSUME MaxChunksAssumption == MaxChunks \in Nat

VARIABLES
    handler,    \* what stream_tts() awaits
    inner,      \* it is inside the inner try, whose finally block releases
    item,       \* the item it sends, or the text frame it is going to send
    owed,       \* dispatches of this request without their release
    request,    \* where the request has got to
    made,       \* the chunks a worker has made
    results,    \* the result queue
    client,     \* "there" or "left"
    sent, final, closed     \* what was sent, as in StreamProtocol

handlerVars == <<handler, inner, item, owed>>
workerVars == <<request, made, results>>
clientVars == <<sent, final, closed>>
vars == <<handlerVars, workerVars, client, clientVars>>

Chunk(i) == [kind |-> "chunk", number |-> i]
StreamEnd(kind) == [kind |-> kind, number |-> 0]
NoItem == StreamEnd("none")
Items == {Chunk(i) : i \in 1..MaxChunks} \cup {StreamEnd("done"), StreamEnd("error")}

-----------------------------------------------------------------------------
Init ==
    /\ handler = "reading" /\ inner = FALSE /\ item = NoItem /\ owed = 0
    /\ request = "new" /\ made = 0 /\ results = <<>>
    /\ client = "there"
    /\ sent = <<>> /\ final = "none" /\ closed = FALSE

(* The handler, one action per await that ends *)

Telling(kind) == handler' = "telling" /\ item' = StreamEnd(kind)

\* No frame for 30 seconds, a frame that is not valid, a make_queue() that
\* raises, or a full queue.
Reject ==
    /\ handler = "reading"
    /\ Telling("error")
    /\ UNCHANGED <<inner, owed, workerVars, client, clientVars>>

\* A valid frame: submit_stream().
Submit ==
    /\ handler = "reading"
    /\ handler' = "waiting"
    /\ request' = "queued"
    /\ UNCHANGED <<inner, item, owed, made, results, client, clientVars>>

\* receive_text() raises WebSocketDisconnect.
NoFrame ==
    /\ handler = "reading" /\ client = "left"
    /\ handler' = "ended"
    /\ UNCHANGED <<inner, item, owed, workerVars, client, clientVars>>

\* Slip: the handler gives up when the client leaves before the dispatch.
DispatchedIfThere ==
    /\ handler = "waiting"
    /\ IF client = "left"
         THEN handler' = "ended" /\ UNCHANGED inner
         ELSE request # "queued" /\ handler' = "getting" /\ inner' = TRUE
    /\ UNCHANGED <<item, owed, workerVars, client, clientVars>>

\* worker_future is resolved.  That the client has left goes unnoticed.
Dispatched ==
    /\ handler = "waiting" /\ request # "queued"
    /\ handler' = "getting" /\ inner' = TRUE
    /\ UNCHANGED <<item, owed, workerVars, client, clientVars>>

\* Slip: the next chunk is read while this one is sent.
GetAhead ==
    /\ handler \in {"getting", "sending"} /\ results # <<>>
    /\ results' = Tail(results)
    /\ item' = Head(results)
    /\ handler' = IF item'.kind = "chunk" THEN "sending" ELSE "telling"
    /\ UNCHANGED <<inner, owed, request, made, client, clientVars>>

\* result_queue.get() returns an item.
Get ==
    /\ handler = "getting" /\ results # <<>>
    /\ results' = Tail(results)
    /\ item' = Head(results)
    /\ handler' = IF item'.kind = "chunk" THEN "sending" ELSE "telling"
    /\ UNCHANGED <<inner, owed, request, made, client, clientVars>>

\* Slip: a timeout is logged, and the handler reads on.
TimeoutReadsOn == handler = "getting" /\ results = <<>> /\ UNCHANGED vars

\* The read times out: queue.Empty.
Timeout ==
    /\ handler = "getting" /\ results = <<>>
    /\ Telling("error")
    /\ UNCHANGED <<inner, owed, workerVars, client, clientVars>>

\* Slip: an except branch releases what the finally block will release again.
GetRaisesInside ==
    /\ handler = "getting"
    /\ Telling("error")
    /\ owed' = owed - 1
    /\ UNCHANGED <<inner, workerVars, client, clientVars>>

\* get() raises something else: the finally block releases, and after it the
\* outer handler tells the client.
GetRaises ==
    /\ handler = "getting"
    /\ Telling("error")
    /\ inner' = FALSE /\ owed' = owed - 1
    /\ UNCHANGED <<workerVars, client, clientVars>>

\* send_bytes()
SendChunk ==
    /\ handler = "sending"
    /\ handler' = "getting"
    /\ sent' = Append(sent, item.number)
    /\ UNCHANGED <<inner, item, owed, workerVars, client, final, closed>>

\* send_text()
Tell ==
    /\ handler = "telling"
    /\ handler' = "closing"
    /\ final' = item.kind
    /\ UNCHANGED <<inner, item, owed, workerVars, client, sent, closed>>

\* Slip: the release comes after the loop, not in a finally block.
LeaveInHaste == handler' = "ended" /\ UNCHANGED <<inner, owed>>

\* The handler ends, through the finally block if it is inside.
Leave ==
    /\ handler' = "ended"
    /\ inner' = FALSE
    /\ owed' = IF inner THEN owed - 1 ELSE owed

\* websocket.close()
Hangup ==
    /\ handler = "closing"
    /\ closed' = TRUE
    /\ Leave
    /\ UNCHANGED <<item, workerVars, client, sent, final>>

\* Sending to a client that has left raises; within _close_error(), or on the
\* way out of the outer handler, that is suppressed.
SendRaises ==
    /\ handler \in {"sending", "telling", "closing"} /\ client = "left"
    /\ Leave
    /\ UNCHANGED <<item, workerVars, client, clientVars>>

(* The drain loop, the worker and the client *)

\* The loop reaches the request and gives it a worker, perhaps a dead one.
Dispatch ==
    /\ request = "queued"
    /\ request' \in {"working", "dead"}
    /\ owed' = owed + 1
    /\ UNCHANGED <<handler, inner, item, made, results, client, clientVars>>

MakeChunk ==
    /\ request = "working" /\ made < MaxChunks
    /\ made' = made + 1
    /\ results' = Append(results, Chunk(made + 1))
    /\ UNCHANGED <<handlerVars, request, client, clientVars>>

\* Slip: the last chunk is put after the end.
EndBeforeLastChunk ==
    /\ request = "working" /\ made < MaxChunks
    /\ request' = "over" /\ made' = made + 1
    /\ results' = results \o <<StreamEnd("done"), Chunk(made + 1)>>
    /\ UNCHANGED <<handlerVars, client, clientVars>>

\* inference_stream() is exhausted or raises.
EndStream ==
    /\ request = "working"
    /\ request' = "over"
    /\ \E kind \in {"done", "error"} : results' = Append(results, StreamEnd(kind))
    /\ UNCHANGED <<handlerVars, made, client, clientVars>>

WorkerDies ==
    /\ request = "working"
    /\ request' = "dead"
    /\ UNCHANGED <<handlerVars, made, results, client, clientVars>>

ClientLeaves ==
    /\ client = "there" /\ handler # "ended"
    /\ client' = "left"
    /\ UNCHANGED <<handlerVars, workerVars, clientVars>>

-----------------------------------------------------------------------------
\* What the handler does when nothing breaks.
HandlerStep ==
    \/ Reject \/ Submit \/ NoFrame \/ Dispatched
    \/ Get \/ Timeout
    \/ SendChunk \/ Tell \/ Hangup \/ SendRaises

WorkerStep == MakeChunk \/ EndStream \/ WorkerDies

Next == HandlerStep \/ GetRaises \/ Dispatch \/ WorkerStep \/ ClientLeaves

Spec == Init /\ [][Next]_vars

\* The 30 seconds and the timeout of get() expire, a send ends or raises (the
\* pings of the WebSocket server end a connection that nobody reads from), and
\* the drain loop reaches every request (AcceptedRequestsEnd of QueueManager).
\* Nothing is assumed of the worker and of the client.
FairSpec == Spec /\ WF_vars(HandlerStep) /\ WF_vars(Dispatch)

-----------------------------------------------------------------------------
(* Properties *)

\* Every field has its type, and no slot is given back twice or before it was
\* taken.
StreamTypeOK ==
    /\ handler \in {"reading", "waiting", "getting", "sending", "telling", "closing", "ended"}
    /\ inner \in BOOLEAN
    /\ item \in Items \cup {NoItem}
    /\ owed \in {0, 1}
    /\ request \in {"new", "queued", "working", "over", "dead"}
    /\ made \in 0..MaxChunks
    /\ results \in Seq(Items)
    /\ client \in {"there", "left"}
    /\ sent \in Seq(1..MaxChunks)
    /\ final \in {"none", "done", "error"}
    /\ closed \in BOOLEAN

\* "done" is a promise: the worker has ended its synthesis, and every chunk it
\* made was sent before.
DoneIsWhole == final = "done" => request = "over" /\ Len(sent) = made

\* The handler can leave its slot to nobody: once it has ended nothing is in
\* the queue that would take one, and what was taken is given back.
EndedOwesNothing == handler = "ended" => owed = 0 /\ request # "queued"

\* The frames are the ones of the protocol, in its order.
Protocol == INSTANCE StreamProtocol

ImplementsProtocol == Protocol!StreamProtocolSpec

\* A client that stays is told how its stream ended, and the connection is
\* closed, whatever becomes of the worker.
SessionEnds == handler = "reading" ~> closed \/ client = "left"

\* The slot comes back, whatever becomes of the client.
SlotComesBack == owed = 1 ~> owed = 0
=============================================================================
