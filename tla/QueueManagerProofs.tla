------------------------- MODULE QueueManagerProofs --------------------------
(***************************************************************************)
(* Proofs about QueueManager for every topology, every queue size and every *)
(* set of jobs, streams and clones.                                        *)
(***************************************************************************)
EXTENDS QueueManager, DispatcherProofs

-----------------------------------------------------------------------------
(* The dispatcher inside the queue manager. *)

\* Jobs, streams and clones are the requests the dispatcher knows, and those of
\* the queue are no clones.
LEMMA KindsAreRequests ==
    Queued \subseteq Requests \ Clones /\ Clones \subseteq Requests
BY QueueManagerAssumption DEF Queued

\* Every step of the whole system is a dispatcher step or leaves it alone.
LEMMA StepIsDispatcherStep ==
    ASSUME TypeOK, SlotsFollowOwners, [Next]_vars
    PROVE  [DispatcherNext]_dispatcherVars
<1> USE DEF DispatcherNext
<1>1. ASSUME NEW r \in Requests, Accept(r) \/ Refuse(r)
      PROVE  UNCHANGED dispatcherVars
  BY <1>1 DEF Accept, Refuse
<1>2. ASSUME NEW r \in Requests, StartLatents(r)
      PROVE  DispatcherNext
  BY <1>2 DEF StartLatents
<1>3. ASSUME NEW r \in Requests, ExecutorPut(r) \/ LatentsHandOver(r)
      PROVE  UNCHANGED dispatcherVars
  BY <1>3 DEF ExecutorPut, LatentsHandOver
<1>4. ASSUME NEW r \in Requests, OwnerStep(r)
      PROVE  [DispatcherNext]_dispatcherVars
  BY <1>4 DEF OwnerStep, Collect, SendChunk, ClientGone, ReadFinal, Timeout, ReadBroken, End
<1>5. CASE DrainTake
  <2>1. Head(queue) \in Requests \ Clones
    BY <1>5, KindsAreRequests DEF DrainTake, TypeOK
  <2> QED
    BY <1>5, <2>1 DEF DrainTake
<1>6. CASE DrainWake
  <2>1. drain \in Requests \ Clones
    BY <1>6, KindsAreRequests DEF DrainWake, SlotsFollowOwners, TypeOK
  <2> QED
    BY <1>6, <2>1 DEF DrainWake
<1>7. CASE DrainHandOver
  BY <1>7 DEF DrainHandOver
<1>8. ASSUME NEW w \in Workers, WorkerMoves(w)
      PROVE  UNCHANGED dispatcherVars
  BY <1>8 DEF WorkerMoves
<1>9. CASE UNCHANGED vars
  BY <1>9 DEF vars
<1> QED
  BY <1>1, <1>2, <1>3, <1>4, <1>5, <1>6, <1>7, <1>8, <1>9 DEF Next, DrainStep

-----------------------------------------------------------------------------
(* Sequences without repetitions: the queue, the OS queues, the backlog.    *)

LEMMA AppendNew ==
    ASSUME NEW S, NEW s \in Seq(S), NEW e \in S, IsInjective(s), e \notin Range(s)
    PROVE  /\ Append(s, e) \in Seq(S)
           /\ IsInjective(Append(s, e))
           /\ Range(Append(s, e)) = Range(s) \cup {e}
<1> DEFINE n == Len(s)
<1>1. /\ n \in Nat
      /\ DOMAIN s = 1 .. n
      /\ Append(s, e) \in Seq(S)
      /\ DOMAIN Append(s, e) = 1 .. (n + 1)
      /\ \A i \in 1 .. n : Append(s, e)[i] = s[i]
      /\ Append(s, e)[n + 1] = e
  OBVIOUS
<1> HIDE DEF n
<1>2. \A i \in 1 .. (n + 1) : i \in 1 .. n \/ i = n + 1
  BY <1>1
<1>3. IsInjective(Append(s, e))
  BY <1>1, <1>2 DEF IsInjective, Range
<1>4. Range(Append(s, e)) = Range(s) \cup {e}
  <2>1. n + 1 \in 1 .. (n + 1) /\ \A i \in 1 .. n : i \in 1 .. (n + 1)
    BY <1>1
  <2> QED
    BY <1>1, <1>2, <2>1 DEF Range
<1> QED
  BY <1>1, <1>3, <1>4

LEMMA TakeFirst ==
    ASSUME NEW S, NEW s \in Seq(S), IsInjective(s), s # <<>>
    PROVE  /\ Tail(s) \in Seq(S)
           /\ IsInjective(Tail(s))
           /\ Head(s) \in Range(s)
           /\ Head(s) \in S
           /\ Range(Tail(s)) = Range(s) \ {Head(s)}
<1>1. Len(s) > 0 /\ DOMAIN s = 1 .. Len(s)
  OBVIOUS
<1>2. Head(s) = s[1] /\ 1 \in DOMAIN s /\ s[1] \in S
  BY <1>1
<1>3. /\ Tail(s) \in Seq(S)
      /\ DOMAIN Tail(s) = 1 .. (Len(s) - 1)
      /\ \A i \in DOMAIN Tail(s) : Tail(s)[i] = s[i + 1]
  BY <1>1
<1>4. IsInjective(Tail(s))
  BY <1>1, <1>3 DEF IsInjective
<1>5. ASSUME NEW i \in DOMAIN s, i # 1
      PROVE  i - 1 \in DOMAIN Tail(s) /\ Tail(s)[i - 1] = s[i]
  BY <1>1, <1>3, <1>5
<1>6. ASSUME NEW i \in DOMAIN Tail(s)
      PROVE  i + 1 \in DOMAIN s /\ i + 1 # 1 /\ Tail(s)[i] = s[i + 1]
  BY <1>1, <1>3
<1>7. ASSUME NEW i \in DOMAIN Tail(s)
      PROVE  Tail(s)[i] \in Range(s) \ {Head(s)}
  BY <1>2, <1>6, <1>7 DEF Range, IsInjective
<1>8. ASSUME NEW i \in DOMAIN s, s[i] # Head(s)
      PROVE  s[i] \in Range(Tail(s))
  <2>1. i # 1
    BY <1>2, <1>8
  <2> QED
    BY <1>5, <2>1 DEF Range
<1>9. Range(Tail(s)) = Range(s) \ {Head(s)}
  BY <1>7, <1>8 DEF Range
<1> QED
  BY <1>2, <1>3, <1>4, <1>9 DEF Range

-----------------------------------------------------------------------------
(* The types, the content of the queue and the ownership of the slots.      *)
(* None is inductive alone: what the drain loop dispatches after a notify   *)
(* is a request because of the ownership, and that it takes one without a   *)
(* slot out of the queue is what the queue says of its content.             *)

OwnerInv == TypeOK /\ WaitingOnce /\ SlotsFollowOwners

\* Every item of the queue waits, and no other item is equal to the first.
LEMMA QueueHead ==
    ASSUME TypeOK, WaitingOnce, queue # <<>>
    PROVE  /\ Head(queue) \in Queued
           /\ Head(queue) \in Requests
           /\ phase[Head(queue)] = "queued"
           /\ Tail(queue) \in Seq(Queued)
           /\ IsInjective(Tail(queue))
           /\ Range(Tail(queue)) = Range(queue) \ {Head(queue)}
BY TakeFirst, KindsAreRequests DEF TypeOK, WaitingOnce

\* A request that is not in the queue may be appended to it.
LEMMA QueueAppend ==
    ASSUME TypeOK, WaitingOnce, NEW r \in Queued, phase[r] # "queued"
    PROVE  /\ Append(queue, r) \in Seq(Queued)
           /\ IsInjective(Append(queue, r))
           /\ Range(Append(queue, r)) = Range(queue) \cup {r}
BY AppendNew, KindsAreRequests DEF TypeOK, WaitingOnce

\* At the start nobody owns a slot, nothing waits and the account is balanced.
LEMMA OwnerInit == Init => OwnerInv
BY DispatcherAssumption, QueueManagerAssumption
   DEF Init, OwnerInv, TypeOK, SlotsFollowOwners, WaitingOnce, IsInjective, Range,
       DispatcherInit, WorkerInit, DispatcherTypeOK, Phases, InFlight, Answers, Queued

\* The types of the dispatcher are kept by every step.
LEMMA DispatcherTypesKept ==
    ASSUME OwnerInv, [Next]_vars
    PROVE  DispatcherTypeOK'
BY StepIsDispatcherStep, DispatcherTypeInductive DEF OwnerInv, TypeOK

\* submit_job() and submit_stream() append a new request: it waits, once.
LEMMA AcceptKeepsOwners ==
    ASSUME OwnerInv, NEW r \in Requests, Accept(r)
    PROVE  OwnerInv'
<1> USE DEF OwnerInv
<1>1. DispatcherTypeOK'
  BY DispatcherTypesKept DEF Next
<1>2. /\ r \in Queued
      /\ phase[r] = "new"
      /\ queue' = Append(queue, r)
      /\ phase' = [phase EXCEPT ![r] = "queued"]
      /\ UNCHANGED <<drain, answer, waiter, handle>>
      /\ UNCHANGED <<request_queue, executing, alive, result_queue>>
  BY DEF Accept, SetPhase, dispatcherVars, workerVars
<1>3. TypeOK'
  BY <1>1, <1>2, QueueAppend DEF TypeOK, Phases
<1>4. WaitingOnce'
  BY <1>2, QueueAppend DEF WaitingOnce, TypeOK
<1>5. SlotsFollowOwners'
  BY <1>2, KindsAreRequests DEF SlotsFollowOwners, TypeOK, InFlight
<1> QED
  BY <1>3, <1>4, <1>5

\* A step that moves one request, outside the queue and neither parked nor
\* about to be, between two phases that both hold a slot or both hold none.
LEMMA PhaseMoveKeepsOwners ==
    ASSUME OwnerInv, NEW r \in Requests, NEW p \in Phases,
           phase' = [phase EXCEPT ![r] = p],
           UNCHANGED <<waiter, handle, queue>>,
           drain' = drain \/ (drain' = NoRequest /\ drain = r),
           phase[r] \notin {"queued", "taken"},
           p \notin {"queued", "taken"},
           phase[r] \in InFlight <=> p \in InFlight
    PROVE  WaitingOnce' /\ SlotsFollowOwners'
<1> USE DEF OwnerInv
<1>1. \A q \in Requests : /\ phase'[q] = "queued" <=> phase[q] = "queued"
                          /\ phase'[q] = "taken" <=> phase[q] = "taken"
                          /\ phase'[q] \in InFlight <=> phase[q] \in InFlight
  BY DEF TypeOK
<1>2. WaitingOnce'
  BY <1>1 DEF WaitingOnce
<1>3. SlotsFollowOwners'
  BY <1>1, KindsAreRequests DEF SlotsFollowOwners, TypeOK
<1> QED
  BY <1>2, <1>3

\* A QueueFullError leaves the queue and the slots alone.
LEMMA RefuseKeepsOwners ==
    ASSUME OwnerInv, NEW r \in Requests, Refuse(r)
    PROVE  OwnerInv'
<1> USE DEF OwnerInv
<1>1. DispatcherTypeOK'
  BY DispatcherTypesKept DEF Next
<1>2. TypeOK'
  BY <1>1 DEF TypeOK, Refuse, SetPhase, Phases, workerVars
<1>3. WaitingOnce' /\ SlotsFollowOwners'
  BY PhaseMoveKeepsOwners DEF Refuse, SetPhase, Phases, InFlight, dispatcherVars
<1> QED
  BY <1>2, <1>3

\* The put in the executor moves the request on; its slot is taken already.
LEMMA ExecutorPutKeepsOwners ==
    ASSUME OwnerInv, NEW r \in Requests, ExecutorPut(r)
    PROVE  OwnerInv'
<1> USE DEF OwnerInv
<1>1. DispatcherTypeOK'
  BY DispatcherTypesKept DEF Next
<1>2. handle[r] \in Workers
  BY DEF ExecutorPut, SlotsFollowOwners, InFlight, TypeOK, DispatcherTypeOK
<1>3. TypeOK'
  BY <1>1, <1>2 DEF TypeOK, ExecutorPut, SetPhase, Phases, InFlight
<1>4. WaitingOnce' /\ SlotsFollowOwners'
  BY PhaseMoveKeepsOwners DEF ExecutorPut, SetPhase, Phases, InFlight, dispatcherVars
<1> QED
  BY <1>3, <1>4

\* So does handing the worker to the collector, the WS handler or the clone.
LEMMA HandOverKeepsOwners ==
    ASSUME OwnerInv, NEW r \in Requests,
           LatentsHandOver(r) \/ (DrainHandOver /\ r = drain)
    PROVE  OwnerInv'
<1> USE DEF OwnerInv
<1>1. DispatcherTypeOK'
  BY DispatcherTypesKept DEF Next, DrainStep
<1>2. /\ phase[r] = "delivered"
      /\ phase' = [phase EXCEPT ![r] = "collecting"]
      /\ drain' = drain \/ (drain' = NoRequest /\ drain = r)
      /\ UNCHANGED <<queue, answer, waiter, handle>>
      /\ UNCHANGED <<request_queue, executing, alive, result_queue>>
  BY DEF LatentsHandOver, DrainHandOver, SetPhase, dispatcherVars, workerVars
<1>3. TypeOK'
  BY <1>1, <1>2 DEF TypeOK, Phases, InFlight
<1>4. WaitingOnce' /\ SlotsFollowOwners'
  BY <1>2, PhaseMoveKeepsOwners DEF Phases, InFlight
<1> QED
  BY <1>3, <1>4

\* dispatch(), whoever calls it, turns a phase without a slot into one with.
LEMMA StartLatentsKeepsOwners ==
    ASSUME OwnerInv, NEW r \in Requests, StartLatents(r)
    PROVE  OwnerInv'
<1> USE DEF OwnerInv
<1>1. DispatcherTypeOK'
  BY DispatcherTypesKept DEF Next
<1>2. TypeOK'
  BY <1>1 DEF TypeOK, StartLatents, SetPhase, Phases, InFlight, workerVars
<1>3. PICK w \in Workers : handle' = [handle EXCEPT ![r] = w]
  BY DEF StartLatents, DispatchLatents, Assign
<1>4. /\ phase[r] = "new"
      /\ phase' = [phase EXCEPT ![r] = "putting"]
      /\ UNCHANGED <<queue, drain, waiter>>
  BY DEF StartLatents, DispatchLatents, SetPhase
<1>5. WaitingOnce'
  BY <1>4 DEF WaitingOnce, TypeOK
<1>6. SlotsFollowOwners'
  BY <1>3, <1>4, DispatcherAssumption, KindsAreRequests
     DEF SlotsFollowOwners, TypeOK, DispatcherTypeOK, InFlight
<1> QED
  BY <1>2, <1>5, <1>6

\* The drain loop takes the head of the queue, to start it or to park with it.
LEMMA DrainTakeKeepsOwners ==
    ASSUME OwnerInv, DrainTake
    PROVE  OwnerInv'
<1> USE DEF OwnerInv
<1>1. DispatcherTypeOK'
  BY DispatcherTypesKept DEF Next, DrainStep
<1>2. PICK r \in Queued : r = Head(queue)
  BY QueueHead DEF DrainTake
<1>3. /\ r \in Requests
      /\ phase[r] = "queued"
      /\ queue' \in Seq(Queued)
      /\ IsInjective(queue')
      /\ Range(queue') = Range(queue) \ {r}
      /\ drain = NoRequest /\ drain' = r
      /\ UNCHANGED <<answer, request_queue, executing, alive, result_queue>>
  BY <1>2, QueueHead DEF DrainTake, workerVars
<1>4. \/ Park /\ phase' = [phase EXCEPT ![r] = "taken"]
      \/ DispatchQueued(r) /\ phase' = [phase EXCEPT ![r] = "putting"]
  BY <1>2 DEF DrainTake, SetPhase
<1>5. TypeOK'
  BY <1>1, <1>3, <1>4 DEF TypeOK, Phases, InFlight
<1>6. WaitingOnce'
  BY <1>3, <1>4 DEF WaitingOnce, TypeOK
<1>7. \A q \in Queued : phase[q] # "taken"
  BY <1>3, QueueManagerAssumption, WorkerAssumption, KindsAreRequests DEF SlotsFollowOwners
<1>8. SlotsFollowOwners'
  <2>1. CASE Park /\ phase' = [phase EXCEPT ![r] = "taken"]
    BY <1>3, <1>7, <2>1, QueueManagerAssumption, WorkerAssumption, KindsAreRequests
       DEF SlotsFollowOwners, TypeOK, Park, InFlight
  <2>2. CASE DispatchQueued(r) /\ phase' = [phase EXCEPT ![r] = "putting"]
    <3>1. PICK w \in Workers : handle' = [handle EXCEPT ![r] = w]
      BY <2>2 DEF DispatchQueued, Assign
    <3> QED
      BY <1>3, <1>7, <2>2, <3>1, DispatcherAssumption, KindsAreRequests
         DEF SlotsFollowOwners, TypeOK, DispatcherTypeOK, DispatchQueued, InFlight
  <2> QED
    BY <1>4, <2>1, <2>2
<1> QED
  BY <1>5, <1>6, <1>8

\* The woken drain loop starts the request it holds, or parks again.
LEMMA DrainWakeKeepsOwners ==
    ASSUME OwnerInv, DrainWake
    PROVE  OwnerInv'
<1> USE DEF OwnerInv
<1>1. DispatcherTypeOK'
  BY DispatcherTypesKept DEF Next, DrainStep
<1>2. /\ drain \in Queued /\ drain \in Requests
      /\ phase[drain] = "taken"
  BY KindsAreRequests DEF DrainWake, SlotsFollowOwners, TypeOK
<1>3. UNCHANGED <<queue, drain, answer, request_queue, executing, alive, result_queue>>
  BY DEF DrainWake, workerVars
<1>4. CASE Park /\ UNCHANGED phase
  <2>1. TypeOK'
    BY <1>1, <1>3, <1>4 DEF TypeOK
  <2>2. WaitingOnce'
    BY <1>3, <1>4 DEF WaitingOnce
  <2>3. SlotsFollowOwners'
    BY <1>2, <1>3, <1>4, QueueManagerAssumption, WorkerAssumption DEF SlotsFollowOwners, Park
  <2> QED
    BY <2>1, <2>2, <2>3
<1>5. CASE DispatchQueued(drain) /\ phase' = [phase EXCEPT ![drain] = "putting"]
  <2>1. TypeOK'
    BY <1>1, <1>2, <1>3, <1>5 DEF TypeOK, Phases, InFlight
  <2>2. WaitingOnce'
    BY <1>2, <1>3, <1>5 DEF WaitingOnce, TypeOK
  <2>3. PICK w \in Workers : handle' = [handle EXCEPT ![drain] = w]
    BY <1>5 DEF DispatchQueued, Assign
  <2>4. SlotsFollowOwners'
    BY <1>2, <1>3, <1>5, <2>3, DispatcherAssumption, KindsAreRequests
       DEF SlotsFollowOwners, TypeOK, DispatcherTypeOK, DispatchQueued, InFlight
  <2> QED
    BY <2>1, <2>2, <2>4
<1> QED
  BY <1>4, <1>5 DEF DrainWake, SetPhase

\* Every end of an owner (answer, timeout, broken read, lost client) releases
\* its slot in the same step.
LEMMA OwnerStepKeepsOwners ==
    ASSUME OwnerInv, NEW r \in Requests, OwnerStep(r)
    PROVE  OwnerInv'
<1> USE DEF OwnerInv
<1>1. DispatcherTypeOK'
  BY DispatcherTypesKept DEF Next
<1>2. CASE SendChunk(r)
  <2>1. /\ result_queue[r] # <<>>
        /\ result_queue' = [result_queue EXCEPT ![r] = Tail(@)]
        /\ UNCHANGED <<queue, drain, phase, answer, waiter, handle>>
        /\ UNCHANGED <<request_queue, executing, alive>>
    BY <1>2 DEF SendChunk, Read, queueVars, dispatcherVars
  <2>2. TypeOK'
    BY <1>1, <2>1 DEF TypeOK
  <2> QED
    BY <2>1, <2>2 DEF WaitingOnce, SlotsFollowOwners
<1>3. ASSUME NEW outcome \in Answers, End(r, outcome),
             phase[r] = "collecting",
             result_queue' \in [Requests -> Seq(Items)],
             UNCHANGED <<request_queue, executing, alive>>
      PROVE  OwnerInv'
  <2>1. /\ waiter' = Notified
        /\ handle' = [handle EXCEPT ![r] = NoWorker]
        /\ phase' = [phase EXCEPT ![r] = "done"]
        /\ answer' = [answer EXCEPT ![r] = outcome]
        /\ UNCHANGED <<queue, drain>>
    BY <1>3 DEF End, Release, SetPhase
  <2>2. TypeOK'
    BY <1>1, <1>3, <2>1 DEF TypeOK, Phases
  <2>3. WaitingOnce'
    BY <1>3, <2>1 DEF WaitingOnce, TypeOK
  <2>4. SlotsFollowOwners'
    <3>1. \A q \in Requests : phase'[q] = "taken" <=> phase[q] = "taken"
      BY <1>3, <2>1 DEF TypeOK
    <3>2. waiter' # "out" <=> waiter # "out"
      BY <2>1 DEF Notified
    <3>3. \A q \in Requests : handle'[q] # NoWorker <=> phase'[q] \in InFlight
      BY <2>1 DEF SlotsFollowOwners, TypeOK, DispatcherTypeOK, InFlight
    <3> QED
      BY <2>1, <3>1, <3>2, <3>3, KindsAreRequests DEF SlotsFollowOwners, TypeOK
  <2> QED
    BY <2>2, <2>3, <2>4
<1>4. CASE ClientGone(r) \/ ReadFinal(r)
  <2>1. Read(r)
    BY <1>4 DEF ClientGone, ReadFinal
  <2>2. Tail(result_queue[r]) \in Seq(Items)
    BY <2>1 DEF Read, TypeOK
  <2>3. /\ phase[r] = "collecting"
        /\ result_queue' \in [Requests -> Seq(Items)]
        /\ UNCHANGED <<request_queue, executing, alive>>
    BY <2>1, <2>2 DEF Read, TypeOK
  <2>4. \E outcome \in Answers : End(r, outcome)
    BY <1>4 DEF ClientGone, ReadFinal, Answers
  <2> QED
    BY <2>3, <2>4, <1>3
<1>5. CASE Timeout(r) \/ ReadBroken(r)
  BY <1>3, <1>5 DEF Timeout, ReadBroken, Answers, workerVars, TypeOK
<1> QED
  BY <1>2, <1>4, <1>5 DEF OwnerStep, Collect

\* Nothing a worker does, its death included, touches slots or queue.
LEMMA WorkerKeepsOwners ==
    ASSUME OwnerInv, NEW w \in Workers, WorkerMoves(w)
    PROVE  OwnerInv'
<1> USE DEF OwnerInv
<1>1. UNCHANGED <<queue, drain, phase, answer, waiter, handle, active_requests, active_jobs>>
  BY DEF WorkerMoves, queueVars, dispatcherVars
<1>2. /\ request_queue' \in [Workers -> Seq(Requests \cup {Sentinel})]
      /\ executing' \in [Workers -> Requests \cup {NoRequest}]
      /\ alive' \in [Workers -> BOOLEAN]
      /\ result_queue' \in [Requests -> Seq(Items)]
  <2>1. CASE WorkerTake(w)
    <3>1. Head(request_queue[w]) \in Requests
      BY <2>1 DEF WorkerTake, TypeOK
    <3> QED
      BY <2>1, <3>1 DEF WorkerTake, TypeOK
  <2>2. CASE WorkerChunk(w)
    <3>1. executing[w] \in Requests
      BY <2>2, QueueManagerAssumption, WorkerAssumption DEF WorkerChunk
    <3> QED
      BY <2>2, <3>1 DEF WorkerChunk, TypeOK, Items
  <2>3. CASE WorkerAnswer(w)
    <3>1. executing[w] \in Requests
      BY <2>3 DEF WorkerAnswer, TypeOK
    <3> QED
      BY <2>3, <3>1 DEF WorkerAnswer, TypeOK, Items
  <2>4. CASE WorkerDies(w)
    BY <2>4 DEF WorkerDies, TypeOK
  <2> QED
    BY <2>1, <2>2, <2>3, <2>4 DEF WorkerMoves, WorkerStep
<1> QED
  BY <1>1, <1>2 DEF TypeOK, DispatcherTypeOK, WaitingOnce, SlotsFollowOwners

\* Every step of the server keeps the inductive invariant.
LEMMA OwnerInductive ==
    ASSUME OwnerInv, [Next]_vars
    PROVE  OwnerInv'
<1>1. ASSUME NEW r \in Requests,
             \/ Accept(r) \/ Refuse(r) \/ StartLatents(r)
             \/ ExecutorPut(r) \/ LatentsHandOver(r) \/ OwnerStep(r)
      PROVE  OwnerInv'
  BY <1>1, AcceptKeepsOwners, RefuseKeepsOwners, StartLatentsKeepsOwners,
     ExecutorPutKeepsOwners, HandOverKeepsOwners, OwnerStepKeepsOwners
<1>2. CASE DrainStep
  <2>1. DrainHandOver => drain \in Requests
    BY KindsAreRequests DEF DrainHandOver, OwnerInv, TypeOK
  <2> QED
    BY <1>2, <2>1, DrainTakeKeepsOwners, DrainWakeKeepsOwners, HandOverKeepsOwners
       DEF DrainStep
<1>3. ASSUME NEW w \in Workers, WorkerMoves(w) PROVE OwnerInv'
  BY <1>3, WorkerKeepsOwners
<1>4. CASE UNCHANGED vars
  BY <1>4 DEF vars, queueVars, dispatcherVars, workerVars, OwnerInv, TypeOK,
              DispatcherTypeOK, WaitingOnce, SlotsFollowOwners
<1> QED
  BY <1>1, <1>2, <1>3, <1>4 DEF Next

\* The types of every variable of the server's request path.
THEOREM TypeCorrect == Spec => []TypeOK
<1>1. OwnerInv /\ [Next]_vars => OwnerInv'
  BY OwnerInductive
<1> QED
  BY OwnerInit, <1>1, PTL DEF Spec, OwnerInv

\* A slot is held exactly while its request is in flight, whatever times out,
\* crashes or disconnects: no slot leaks and none is given back twice.
THEOREM SlotsFollowOwnersHolds == Spec => []SlotsFollowOwners
<1>1. OwnerInv /\ [Next]_vars => OwnerInv'
  BY OwnerInductive
<1> QED
  BY OwnerInit, <1>1, PTL DEF Spec, OwnerInv

\* The queue neither loses a request nor holds one twice.
THEOREM WaitingOnceHolds == Spec => []WaitingOnce
<1>1. OwnerInv /\ [Next]_vars => OwnerInv'
  BY OwnerInductive
<1> QED
  BY OwnerInit, <1>1, PTL DEF Spec, OwnerInv

-----------------------------------------------------------------------------
(* What the dispatcher guarantees on its own, it guarantees in the server.  *)

\* Every behaviour of the request path is a behaviour of the dispatcher.
THEOREM RefinesDispatcher == Spec => ImplementsDispatcher
<1>1. Init => DispatcherInit
  BY DEF Init
<1>2. TypeOK /\ SlotsFollowOwners /\ [Next]_vars
        => [DispatcherNext]_dispatcherVars
  BY StepIsDispatcherStep
<1> QED
  BY <1>1, <1>2, TypeCorrect, SlotsFollowOwnersHolds, PTL
     DEF Spec, ImplementsDispatcher, DispatcherSpec

\* The counters agree with the owners, timeouts and crashes included.
THEOREM SlotAccountingInServer ==
    ASSUME UniqueIds
    PROVE  Spec => []SlotAccounting
BY RefinesDispatcher, SlotAccountingHolds, PTL DEF ImplementsDispatcher

\* The drain loop never sleeps on the Condition while a worker is free.
THEOREM NoLostWakeupInServer == Spec => []NoLostWakeup
BY RefinesDispatcher, NoLostWakeupHolds, PTL DEF ImplementsDispatcher

\* The only step that gives a request from the queue a worker is one of the drain
\* loop, which has just seen a free one.
LEMMA LandsOnFreeWorker ==
    ASSUME Len(WorkersPerGpu) = 1, TypeOK, Next,
           NEW r \in Queued, NEW w \in Workers, GetsWorker(r, w)
    PROVE  active_requests[w] = 0
<1>1. r \in Requests /\ r \notin Clones /\ w # NoWorker /\ DispatcherTypeOK
  BY QueueManagerAssumption, DispatcherAssumption, KindsAreRequests
     DEF Queued, TypeOK
<1>2. handle[r] = NoWorker /\ handle'[r] = w
  BY DEF GetsWorker
<1>3. ASSUME NEW q, DispatchQueued(q) PROVE active_requests[w] = 0
  <2>1. ~AllBusy /\ Assign(q)
    BY <1>3 DEF DispatchQueued
  <2>2. PICK v \in Workers : /\ IsPick(active_requests, v)
                            /\ handle' = [handle EXCEPT ![q] = v]
    BY <2>1 DEF Assign
  <2>3. v = w
    BY <1>1, <1>2, <2>2 DEF DispatcherTypeOK
  <2> QED
    BY <1>1, <2>1, <2>2, <2>3, OneGpuPicksFree
<1>4. ASSUME UNCHANGED handle PROVE FALSE
  BY <1>1, <1>2, <1>4
<1>5. ASSUME NEW q \in Requests, StartLatents(q) PROVE FALSE
  BY <1>1, <1>2, <1>5 DEF StartLatents, DispatchLatents, Assign, DispatcherTypeOK
<1>6. ASSUME NEW q \in Requests, OwnerStep(q) PROVE FALSE
  <2>1. UNCHANGED handle \/ Release(q)
    BY <1>6 DEF OwnerStep, Collect, SendChunk, ClientGone, ReadFinal, Timeout,
                ReadBroken, End, dispatcherVars
  <2> QED
    BY <1>1, <1>2, <1>4, <2>1 DEF Release, DispatcherTypeOK
<1>7. ASSUME NEW q \in Requests,
             Accept(q) \/ Refuse(q) \/ ExecutorPut(q) \/ LatentsHandOver(q)
      PROVE  FALSE
  BY <1>4, <1>7 DEF Accept, Refuse, ExecutorPut, LatentsHandOver, dispatcherVars
<1>8. CASE DrainStep
  BY <1>3, <1>4, <1>8 DEF DrainStep, DrainTake, DrainWake, DrainHandOver, Park, dispatcherVars
<1>9. ASSUME NEW v \in Workers, WorkerMoves(v) PROVE FALSE
  BY <1>4, <1>9 DEF WorkerMoves, dispatcherVars
<1> QED
  BY <1>5, <1>6, <1>7, <1>8, <1>9 DEF Next

\* With one GPU a request from the queue lands on a free worker, whatever
\* clones take slots next to the drain loop.
THEOREM QueuedLandsOnFreeWorkerHolds ==
    ASSUME Len(WorkersPerGpu) = 1
    PROVE  Spec => QueuedLandsOnFreeWorker
<1> DEFINE Lands(r, w) == GetsWorker(r, w) => active_requests[w] = 0
<1>1. TypeOK /\ [Next]_vars
        => [\A r \in Queued, w \in Workers : Lands(r, w)]_vars
  BY LandsOnFreeWorker
<1> QED
  BY <1>1, TypeCorrect, PTL DEF Spec, QueuedLandsOnFreeWorker

-----------------------------------------------------------------------------
(* The queue as the endpoints see it. *)

\* With a positive MAX_QUEUE_SIZE no more requests wait than it says.
THEOREM QueueBoundedHolds ==
    ASSUME MaxQueueSize > 0
    PROVE  Spec => []QueueBounded
<1> USE QueueManagerAssumption DEF QueueBounded
<1>1. Init => QueueBounded
  BY DEF Init
<1>2. TypeOK /\ QueueBounded /\ [Next]_vars => QueueBounded'
  <2> SUFFICES ASSUME TypeOK, QueueBounded, [Next]_vars
               PROVE  QueueBounded'
    OBVIOUS
  <2>0. queue \in Seq(Queued)
    BY DEF TypeOK
  <2>1. ASSUME NEW r \in Requests, Accept(r) PROVE QueueBounded'
    BY <2>0, <2>1 DEF Accept, QueueFull
  <2>2. ASSUME NEW r \in Requests,
               \/ Refuse(r) \/ StartLatents(r) \/ ExecutorPut(r)
               \/ LatentsHandOver(r) \/ OwnerStep(r)
        PROVE  QueueBounded'
    BY <2>2 DEF Refuse, StartLatents, ExecutorPut, LatentsHandOver, OwnerStep, Collect,
                SendChunk, ClientGone, ReadFinal, Timeout, ReadBroken, End, queueVars
  <2>3. CASE DrainTake
    BY <2>0, <2>3 DEF DrainTake
  <2>4. CASE DrainWake \/ DrainHandOver
    BY <2>4 DEF DrainWake, DrainHandOver
  <2>5. ASSUME NEW w \in Workers, WorkerMoves(w) PROVE QueueBounded'
    BY <2>5 DEF WorkerMoves, queueVars
  <2>6. CASE UNCHANGED vars
    BY <2>6 DEF vars, queueVars
  <2> QED
    BY <2>1, <2>2, <2>3, <2>4, <2>5, <2>6 DEF Next, DrainStep
<1> QED
  BY <1>1, <1>2, TypeCorrect, PTL DEF Spec

\* A step that moves one request to a phase it can be told apart by.
LEMMA StageMove ==
    ASSUME TypeOK, NEW r \in Queued, NEW p, NEW a,
           phase' = [phase EXCEPT ![r] = p],
           answer' = answer \/ answer' = [answer EXCEPT ![r] = a]
    PROVE  [q \in Queued |-> Stage(q)]'
             = [[q \in Queued |-> Stage(q)] EXCEPT ![r] = Stage(r)']
<1>1. ASSUME NEW q \in Queued, q # r PROVE Stage(q)' = Stage(q)
  <2>1. phase'[q] = phase[q] /\ answer'[q] = answer[q]
    BY <1>1, KindsAreRequests DEF TypeOK
  <2> QED
    BY <2>1 DEF Stage
<1> QED
  BY <1>1

\* Every step is one of that queue, or invisible to the endpoints.
LEMMA StepIsQueueStep ==
    ASSUME OwnerInv, [Next]_vars
    PROVE  [Submission!RequestQueueNext]_(Submission!requestQueueVars)
<1> USE DEF OwnerInv, Submission!RequestQueueNext, Submission!requestQueueVars
<1>1. ASSUME NEW r \in Requests, Accept(r)
      PROVE  Submission!RequestQueueNext
  <2>1. r \in Queued /\ Stage(r) = "new" /\ Stage(r)' = "waiting"
    BY <1>1 DEF Accept, SetPhase, Stage, InFlight, TypeOK
  <2> QED
    BY <1>1, <2>1, StageMove
       DEF Accept, SetPhase, QueueFull, Submission!AcceptRequest, Submission!IsFull
<1>2. ASSUME NEW r \in Requests, Refuse(r)
      PROVE  Submission!RequestQueueNext
  <2>1. r \in Queued /\ Stage(r) = "new" /\ Stage(r)' = "refused"
    BY <1>2 DEF Refuse, SetPhase, Stage, InFlight, TypeOK
  <2> QED
    BY <1>2, <2>1, StageMove
       DEF Refuse, SetPhase, QueueFull, Submission!RefuseRequest, Submission!IsFull
<1>3. CASE DrainTake
  <2>1. PICK r \in Queued : r = Head(queue)
    BY <1>3, QueueHead DEF DrainTake
  <2>2. PICK p \in {"taken", "putting"} : phase' = [phase EXCEPT ![r] = p]
    BY <1>3, <2>1 DEF DrainTake, SetPhase
  <2>3. Stage(r)' = "started"
    BY <2>2, KindsAreRequests DEF Stage, InFlight, TypeOK
  <2> QED
    BY <1>3, <2>1, <2>2, <2>3, StageMove DEF DrainTake, Submission!StartNext
<1>4. CASE DrainWake
  <2>1. drain \in Queued /\ phase[drain] = "taken" /\ UNCHANGED <<queue, answer>>
    BY <1>4 DEF DrainWake, SlotsFollowOwners, TypeOK
  <2>2. UNCHANGED phase \/ phase' = [phase EXCEPT ![drain] = "putting"]
    BY <1>4 DEF DrainWake, SetPhase
  <2>3. \A q \in Queued : Stage(q)' = Stage(q)
    BY <2>1, <2>2, KindsAreRequests DEF Stage, InFlight, TypeOK
  <2> QED
    BY <2>1, <2>3
<1>5. ASSUME NEW r \in Requests,
             ExecutorPut(r) \/ LatentsHandOver(r) \/ (DrainHandOver /\ r = drain)
      PROVE  UNCHANGED Submission!requestQueueVars
  <2>1. /\ phase[r] \in InFlight
        /\ \E p \in InFlight : phase' = [phase EXCEPT ![r] = p]
        /\ UNCHANGED <<queue, answer>>
    BY <1>5 DEF ExecutorPut, LatentsHandOver, DrainHandOver, SetPhase, InFlight
  <2>2. \A q \in Queued : Stage(q)' = Stage(q)
    BY <2>1, KindsAreRequests DEF Stage, InFlight, TypeOK
  <2> QED
    BY <2>1, <2>2
<1>6. ASSUME NEW r \in Requests, StartLatents(r)
      PROVE  UNCHANGED Submission!requestQueueVars
  <2>1. r \notin Queued
    BY <1>6, QueueManagerAssumption DEF StartLatents, Queued
  <2>2. \A q \in Queued : Stage(q)' = Stage(q)
    BY <1>6, <2>1 DEF StartLatents, SetPhase, Stage, TypeOK
  <2> QED
    BY <1>6, <2>2 DEF StartLatents
<1>7. ASSUME NEW r \in Requests, OwnerStep(r)
      PROVE  [Submission!RequestQueueNext]_(Submission!requestQueueVars)
  <2>1. CASE SendChunk(r)
    BY <2>1 DEF SendChunk, queueVars, Stage
  <2>2. CASE ClientGone(r) \/ ReadFinal(r) \/ Timeout(r) \/ ReadBroken(r)
    <3>1. PICK outcome \in Answers \ {"none"} :
            End(r, outcome) /\ phase[r] = "collecting"
      BY <2>2 DEF ClientGone, ReadFinal, Timeout, ReadBroken, Read, Answers, FinalItems
    <3>2. /\ phase' = [phase EXCEPT ![r] = "done"]
          /\ answer' = [answer EXCEPT ![r] = outcome]
          /\ UNCHANGED queue
      BY <3>1 DEF End, SetPhase
    <3>3. CASE r \in Queued
      <4>1. Stage(r) = "started" /\ Stage(r)' = outcome
        BY <3>1, <3>2 DEF Stage, InFlight, TypeOK
      <4> QED
        BY <3>2, <3>3, <4>1, StageMove DEF Submission!FinishRequest
    <3>4. CASE r \notin Queued
      <4>1. \A q \in Queued : Stage(q)' = Stage(q)
        BY <3>2, <3>4 DEF Stage, TypeOK
      <4> QED
        BY <3>2, <4>1
    <3> QED
      BY <3>3, <3>4
  <2> QED
    BY <1>7, <2>1, <2>2 DEF OwnerStep, Collect
<1>8. ASSUME NEW w \in Workers, WorkerMoves(w)
      PROVE  UNCHANGED Submission!requestQueueVars
  BY <1>8 DEF WorkerMoves, queueVars, Stage
<1>9. CASE UNCHANGED vars
  BY <1>9 DEF vars, queueVars, Stage
<1>10. CASE DrainHandOver
  <2>1. drain \in Requests
    BY <1>10, KindsAreRequests DEF DrainHandOver, TypeOK
  <2> QED
    BY <1>5, <1>10, <2>1
<1> QED
  BY <1>1, <1>2, <1>3, <1>4, <1>5, <1>6, <1>7, <1>8, <1>9, <1>10
     DEF Next, DrainStep

LEMMA QueueStartsEmpty == Init => Submission!RequestQueueInit
BY KindsAreRequests DEF Init, Submission!RequestQueueInit, Stage, InFlight

\* The drain loop, the dispatcher and the workers together implement a
\* bounded first-come first-served queue whose requests end once.
THEOREM RefinesRequestQueue == Spec => ImplementsRequestQueue
<1>1. OwnerInv /\ [Next]_vars
        => /\ [Submission!RequestQueueNext]_(Submission!requestQueueVars)
           /\ OwnerInv'
  BY StepIsQueueStep, OwnerInductive
<1> QED
  BY <1>1, QueueStartsEmpty, OwnerInit, PTL
     DEF Spec, ImplementsRequestQueue, Submission!RequestQueueSpec
=============================================================================
