----------------------------- MODULE RequestQueue ----------------------------
(***************************************************************************)
(* What the QueueManager promises to the endpoints that submit to it: a    *)
(* bounded first-come first-served queue in front of a pool of unknown     *)
(* size.  A request is refused only when the queue is full, is started in  *)
(* its turn, and once started ends exactly once, with an outcome.          *)
(***************************************************************************)
EXTENDS Naturals, Sequences

CONSTANTS
    Submitters,     \* the requests that go through the queue
    Capacity,       \* how many may wait; 0 sets no limit
    Outcomes        \* how a started request can end

VARIABLES
    waiting,        \* the requests in the queue, first to come first
    stage           \* stage[r]: where r is, or how it ended

requestQueueVars == <<waiting, stage>>

IsFull == Capacity > 0 /\ Len(waiting) >= Capacity

RequestQueueInit ==
    /\ waiting = <<>>
    /\ stage = [r \in Submitters |-> "new"]

AcceptRequest(r) ==
    /\ stage[r] = "new"
    /\ ~IsFull
    /\ waiting' = Append(waiting, r)
    /\ stage' = [stage EXCEPT ![r] = "waiting"]

RefuseRequest(r) ==
    /\ stage[r] = "new"
    /\ IsFull
    /\ stage' = [stage EXCEPT ![r] = "refused"]
    /\ UNCHANGED waiting

StartNext ==
    /\ waiting # <<>>
    /\ waiting' = Tail(waiting)
    /\ stage' = [stage EXCEPT ![Head(waiting)] = "started"]

FinishRequest(r, outcome) ==
    /\ stage[r] = "started"
    /\ stage' = [stage EXCEPT ![r] = outcome]
    /\ UNCHANGED waiting

RequestQueueNext ==
    \/ \E r \in Submitters :
         \/ AcceptRequest(r)
         \/ RefuseRequest(r)
         \/ \E outcome \in Outcomes : FinishRequest(r, outcome)
    \/ StartNext

RequestQueueSpec ==
    RequestQueueInit /\ [][RequestQueueNext]_requestQueueVars

\* A request that waits ends, as far as its clients are concerned.
RequestQueueLive ==
    \A r \in Submitters : stage[r] = "waiting" ~> stage[r] \in Outcomes
=============================================================================
