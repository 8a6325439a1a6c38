-------------------------- MODULE ExecutorPoolProofs --------------------------
(***************************************************************************)
(* Proofs about ExecutorPool for pools of any size: the threads delay the  *)
(* request path, and change nothing else about it.                         *)
(***************************************************************************)
EXTENDS ExecutorPool, ExactlyOnceProofs

-----------------------------------------------------------------------------
(* Every step of the pool is a step of the request path or none at all. *)

LEMMA PoolStepIsStep ==
    ASSUME [PoolNext]_poolVars
    PROVE  [Next]_vars
<1> USE DEF Next, OwnerStep, Collect, DrainStep
<1>1. ASSUME NEW r \in Requests, Submit(r) \/ RequestLatents(r)
      PROVE  Next
  BY <1>1 DEF Submit, RequestLatents
<1>2. ASSUME NEW r \in Requests, Ask(r) \/ SaveReturns(r)
      PROVE  UNCHANGED vars
  BY <1>2 DEF Ask, SaveReturns
<1>3. ASSUME NEW r \in Requests, AskForLatents(r) \/ PutReturns(r)
      PROVE  Next
  BY <1>3 DEF AskForLatents, PutReturns
<1>4. ASSUME NEW r \in Requests, GetReturns(r) \/ Expire(r) \/ EndsBadly(r)
      PROVE  Next
  BY <1>4 DEF GetReturns, ChunkReturns, FinalReturns, Expire, EndsBadly
<1>5. CASE DrainLoop \/ HandOver
  BY <1>5 DEF DrainLoop, HandOver
<1>6. CASE Begin
  BY <1>6 DEF Begin
<1>7. ASSUME NEW w \in Workers, WorkerMoves(w)
      PROVE  Next
  BY <1>7
<1>8. CASE UNCHANGED poolVars
  BY <1>8 DEF poolVars
<1> QED
  BY <1>1, <1>2, <1>3, <1>4, <1>5, <1>6, <1>7, <1>8 DEF PoolNext

\* However the threads are scheduled, what happens to the requests is what
\* QueueManager describes: every safety property proved of it holds here too.
THEOREM RefinesQueueManager == PoolSpec => ImplementsQueueManager
<1>1. PoolInit => Init
  BY DEF PoolInit
<1>2. [PoolNext]_poolVars => [Next]_vars
  BY PoolStepIsStep
<1> QED
  BY <1>1, <1>2, PTL DEF PoolSpec, ImplementsQueueManager, Spec

-----------------------------------------------------------------------------
(* The pending calls, whether or not they hold a thread. *)

\* What Return() does with the calls a coroutine goes on to submit.
LEMMA Concatenations ==
    ASSUME NEW S, NEW s \in Seq(S), NEW e \in S
    PROVE  s \o <<>> = s /\ s \o <<e>> = Append(s, e)
OBVIOUS

LEMMA CallsAreCalls ==
    \A kind \in {"put", "get", "save"}, r \in Requests :
        /\ Call(kind, r) \in Calls
        /\ \A k \in {"put", "get", "save"}, q \in Requests :
             Call(kind, r) = Call(k, q) <=> kind = k /\ r = q
BY DEF Call, Calls

\* A call is in one place.
InOnePlace ==
    /\ backlog \in Seq(Calls) /\ running \subseteq Calls
    /\ IsInjective(backlog)
    /\ running \cap Range(backlog) = {}

\* Which calls are pending; a save comes last, and compute_latents() goes on to
\* its get without handing over to anybody.
CallsFit ==
    \A r \in Requests :
        /\ Call("put", r) \in Pending <=> phase[r] = "putting"
        /\ Call("get", r) \in Pending => phase[r] = "collecting"
        /\ Call("save", r) \in Pending => phase[r] = "done"
        /\ r \in Clones /\ phase[r] = "collecting" => Call("get", r) \in Pending

PoolInv == OwnerInv /\ InOnePlace /\ CallsFit

LEMMA NewCall ==
    ASSUME InOnePlace, NEW call \in Calls, call \notin Pending,
           backlog' = Append(backlog, call), UNCHANGED running
    PROVE  InOnePlace' /\ Pending' = Pending \cup {call}
BY AppendNew DEF InOnePlace, Pending

LEMMA CallReturns ==
    ASSUME InOnePlace, NEW call \in Calls, Return(call, <<>>)
    PROVE  InOnePlace' /\ Pending' = Pending \ {call}
BY Concatenations DEF InOnePlace, Pending, Return

LEMMA CallLeadsToNext ==
    ASSUME InOnePlace, NEW call \in Calls, NEW next \in Calls,
           Return(call, <<next>>), next \notin Pending \ {call}
    PROVE  InOnePlace' /\ Pending' = (Pending \ {call}) \cup {next}
<1>1. next \notin Range(backlog)
  BY DEF InOnePlace, Pending, Return
<1>2. backlog' = Append(backlog, next) /\ running' = running \ {call}
  BY Concatenations DEF Return, InOnePlace
<1>3. /\ backlog' \in Seq(Calls) /\ IsInjective(backlog')
      /\ Range(backlog') = Range(backlog) \cup {next}
  BY <1>1, <1>2, AppendNew DEF InOnePlace
<1> QED
  BY <1>2, <1>3 DEF InOnePlace, Pending, Return

LEMMA BeginKeepsCalls ==
    ASSUME InOnePlace, Begin
    PROVE  InOnePlace' /\ Pending' = Pending
<1>1. backlog # <<>> /\ backlog' = Tail(backlog) /\ running' = running \cup {Head(backlog)}
  BY DEF Begin
<1>2. /\ backlog' \in Seq(Calls) /\ IsInjective(backlog')
      /\ Head(backlog) \in Range(backlog) /\ Head(backlog) \in Calls
      /\ Range(backlog') = Range(backlog) \ {Head(backlog)}
  BY <1>1, TakeFirst DEF InOnePlace
<1> QED
  BY <1>1, <1>2 DEF InOnePlace, Pending

\* The request of a step moves on, and only its calls change.
LEMMA MoveFits ==
    ASSUME phase \in [Requests -> Phases], CallsFit,
           NEW r \in Requests, NEW p, phase' = [phase EXCEPT ![r] = p],
           \A call \in Calls :
               call.request # r => (call \in Pending' <=> call \in Pending),
           Call("put", r) \in Pending' <=> p = "putting",
           Call("get", r) \in Pending' => p = "collecting",
           Call("save", r) \in Pending' => p = "done",
           r \in Clones /\ p = "collecting" => Call("get", r) \in Pending'
    PROVE  CallsFit'
<1> SUFFICES ASSUME NEW q \in Requests
             PROVE  /\ Call("put", q) \in Pending' <=> phase'[q] = "putting"
                    /\ Call("get", q) \in Pending' => phase'[q] = "collecting"
                    /\ Call("save", q) \in Pending' => phase'[q] = "done"
                    /\ q \in Clones /\ phase'[q] = "collecting"
                          => Call("get", q) \in Pending'
  BY DEF CallsFit
<1>1. CASE q = r
  BY <1>1
<1>2. CASE q # r
  <2>1. \A kind \in {"put", "get", "save"} :
            Call(kind, q) \in Pending' <=> Call(kind, q) \in Pending
    BY <1>2 DEF Call, Calls
  <2> QED
    BY <1>2, <2>1 DEF CallsFit
<1> QED
  BY <1>1, <1>2

LEMMA OwnerTypes ==
    ASSUME OwnerInv
    PROVE  phase \in [Requests -> Phases]
BY DEF OwnerInv, TypeOK

-----------------------------------------------------------------------------
(* One lemma per group of steps. *)

LEMMA PoolInitFits == PoolInit => InOnePlace /\ CallsFit
<1> SUFFICES ASSUME PoolInit PROVE InOnePlace /\ CallsFit
  OBVIOUS
<1>1. backlog = <<>> /\ running = {} /\ \A r \in Requests : phase[r] = "new"
  BY DEF PoolInit, Init
<1>2. backlog \in Seq(Calls) /\ IsInjective(backlog) /\ Range(backlog) = {}
  BY <1>1 DEF IsInjective, Range
<1> QED
  BY <1>1, <1>2 DEF InOnePlace, CallsFit, Pending

LEMMA SubmissionFits ==
    ASSUME PoolInv, NEW r \in Requests,
           Submit(r) \/ RequestLatents(r) \/ Ask(r) \/ AskForLatents(r)
    PROVE  InOnePlace' /\ CallsFit'
<1> USE DEF PoolInv
<1>1. phase \in [Requests -> Phases]
  BY OwnerTypes
<1>2. CASE Submit(r)
  <2>1. UNCHANGED pool /\ \E p \in {"queued", "refused"} : phase' = [phase EXCEPT ![r] = p]
    BY <1>2 DEF Submit, Accept, Refuse, SetPhase
  <2>2. phase[r] = "new"
    BY <1>2 DEF Submit, Accept, Refuse
  <2>3. InOnePlace' /\ Pending' = Pending
    BY <2>1 DEF pool, InOnePlace, Pending
  <2> QED
    BY <1>1, <2>1, <2>2, <2>3, MoveFits DEF CallsFit
<1>3. CASE RequestLatents(r)
  <2>1. phase[r] = "new" /\ phase' = [phase EXCEPT ![r] = "putting"]
    BY <1>3 DEF RequestLatents, StartLatents, SetPhase
  <2>2. Call("put", r) \in Calls /\ Call("put", r) \notin Pending
    BY <2>1, CallsAreCalls DEF CallsFit
  <2>3. InOnePlace' /\ Pending' = Pending \cup {Call("put", r)}
    BY <1>3, <2>2, NewCall DEF RequestLatents, SubmitPut
  <2> QED
    BY <1>1, <2>1, <2>3, MoveFits, CallsAreCalls DEF CallsFit, Call
<1>4. CASE Ask(r)
  <2>1. /\ phase[r] = "collecting" /\ UNCHANGED phase
        /\ Call("get", r) \notin Pending
    BY <1>4 DEF Ask, vars, queueVars
  <2>2. InOnePlace' /\ Pending' = Pending \cup {Call("get", r)}
    BY <1>4, <2>1, NewCall, CallsAreCalls DEF Ask
  <2> QED
    BY <2>1, <2>2, CallsAreCalls DEF CallsFit
<1>5. CASE AskForLatents(r)
  <2>1. phase[r] = "delivered" /\ phase' = [phase EXCEPT ![r] = "collecting"]
    BY <1>5 DEF AskForLatents, LatentsHandOver, SetPhase
  <2>2. Call("get", r) \in Calls /\ Call("get", r) \notin Pending
    BY <2>1, CallsAreCalls DEF CallsFit
  <2>3. InOnePlace' /\ Pending' = Pending \cup {Call("get", r)}
    BY <1>5, <2>2, NewCall DEF AskForLatents
  <2> QED
    BY <1>1, <2>1, <2>3, MoveFits, CallsAreCalls DEF CallsFit, Call
<1> QED
  BY <1>2, <1>3, <1>4, <1>5

LEMMA DrainFits ==
    ASSUME PoolInv, DrainLoop \/ HandOver
    PROVE  InOnePlace' /\ CallsFit'
<1> USE DEF PoolInv
<1>1. phase \in [Requests -> Phases]
  BY OwnerTypes
<1>2. ASSUME NEW r \in Requests, phase[r] \in {"queued", "taken"},
             phase' = [phase EXCEPT ![r] = "putting"], SubmitPut(r)
      PROVE  InOnePlace' /\ CallsFit'
  <2>1. Call("put", r) \in Calls /\ Call("put", r) \notin Pending
    BY <1>2, CallsAreCalls DEF CallsFit
  <2>2. InOnePlace' /\ Pending' = Pending \cup {Call("put", r)}
    BY <1>2, <2>1, NewCall DEF SubmitPut
  <2> QED
    BY <1>1, <1>2, <2>2, MoveFits, CallsAreCalls DEF CallsFit, Call
<1>3. ASSUME UNCHANGED pool PROVE InOnePlace' /\ Pending' = Pending
  BY <1>3 DEF pool, InOnePlace, Pending
<1>4. CASE DrainTake /\ DrainLoop
  <2> DEFINE r == Head(queue)
  <2>1. r \in Requests /\ phase[r] = "queued" /\ drain' = r
    BY <1>4, QueueHead DEF DrainTake, OwnerInv
  <2>2. \/ phase' = [phase EXCEPT ![r] = "taken"]
        \/ phase' = [phase EXCEPT ![r] = "putting"]
    BY <1>4 DEF DrainTake, SetPhase
  <2> HIDE DEF r
  <2>3. CASE phase' = [phase EXCEPT ![r] = "taken"]
    <3>1. UNCHANGED pool
      BY <1>1, <1>4, <2>1, <2>3 DEF DrainLoop
    <3> QED
      BY <1>1, <1>3, <2>1, <2>3, <3>1, MoveFits DEF CallsFit
  <2>4. CASE phase' = [phase EXCEPT ![r] = "putting"]
    <3>1. SubmitPut(r)
      BY <1>1, <1>4, <2>1, <2>4 DEF DrainLoop
    <3> QED
      BY <1>2, <2>1, <2>4, <3>1
  <2> QED
    BY <2>2, <2>3, <2>4
<1>5. CASE DrainWake /\ DrainLoop
  <2>1. drain \in Requests /\ phase[drain] = "taken" /\ drain' = drain
    BY <1>5, KindsAreRequests DEF DrainWake, OwnerInv, SlotsFollowOwners, TypeOK
  <2>2. CASE UNCHANGED phase
    <3>1. UNCHANGED pool
      BY <1>5, <2>1, <2>2 DEF DrainLoop
    <3> QED
      BY <1>3, <2>2, <3>1 DEF CallsFit
  <2>3. CASE phase' = [phase EXCEPT ![drain] = "putting"]
    <3>1. SubmitPut(drain)
      BY <1>1, <1>5, <2>1, <2>3 DEF DrainLoop
    <3> QED
      BY <1>2, <2>1, <2>3, <3>1
  <2> QED
    BY <1>5, <2>2, <2>3 DEF DrainWake, SetPhase
<1>6. CASE HandOver
  <2>1. /\ drain \in Requests /\ drain \notin Clones /\ phase[drain] = "delivered"
        /\ phase' = [phase EXCEPT ![drain] = "collecting"] /\ UNCHANGED pool
    BY <1>6, KindsAreRequests, QueueManagerAssumption
       DEF HandOver, DrainHandOver, SetPhase, OwnerInv, TypeOK, Queued
  <2> QED
    BY <1>1, <1>3, <2>1, MoveFits DEF CallsFit
<1> QED
  BY <1>4, <1>5, <1>6 DEF DrainLoop

LEMMA ReturnFits ==
    ASSUME PoolInv, NEW r \in Requests,
           \/ PutReturns(r) \/ GetReturns(r) \/ Expire(r)
           \/ EndsBadly(r) \/ SaveReturns(r)
    PROVE  InOnePlace' /\ CallsFit'
<1> USE DEF PoolInv
<1>1. phase \in [Requests -> Phases]
  BY OwnerTypes
<1>2. ASSUME phase[r] = "collecting", phase' = [phase EXCEPT ![r] = "done"],
             Return(Call("get", r), <<>>)
      PROVE  InOnePlace' /\ CallsFit'
  <2>1. InOnePlace' /\ Pending' = Pending \ {Call("get", r)}
    BY <1>2, CallReturns, CallsAreCalls
  <2> QED
    BY <1>1, <1>2, <2>1, MoveFits DEF CallsFit, Call
<1>3. CASE PutReturns(r)
  <2>1. phase[r] = "putting" /\ phase' = [phase EXCEPT ![r] = "delivered"]
    BY <1>3 DEF PutReturns, ExecutorPut, SetPhase
  <2>2. InOnePlace' /\ Pending' = Pending \ {Call("put", r)}
    BY <1>3, CallReturns, CallsAreCalls DEF PutReturns
  <2> QED
    BY <1>1, <2>1, <2>2, MoveFits DEF CallsFit, Call
<1>4. CASE ChunkReturns(r)
  <2>1. UNCHANGED phase /\ Call("get", r) \in Pending
    BY <1>4 DEF ChunkReturns, SendChunk, queueVars, Return, Pending
  <2>2. InOnePlace' /\ Pending' = (Pending \ {Call("get", r)}) \cup {Call("get", r)}
    BY <1>4, CallLeadsToNext, CallsAreCalls DEF ChunkReturns
  <2> QED
    BY <2>1, <2>2 DEF CallsFit
<1>5. CASE FinalReturns(r)
  <2>1. phase[r] = "collecting" /\ phase' = [phase EXCEPT ![r] = "done"]
    BY <1>5 DEF FinalReturns, ReadFinal, Read, End, SetPhase
  <2>2. CASE AfterFinal(r) = <<>>
    BY <1>2, <1>5, <2>1, <2>2 DEF FinalReturns
  <2>3. CASE AfterFinal(r) = <<Call("save", r)>>
    <3>1. Call("save", r) \notin Pending
      BY <2>1 DEF CallsFit
    <3>2. /\ InOnePlace'
          /\ Pending' = (Pending \ {Call("get", r)}) \cup {Call("save", r)}
      BY <1>5, <2>3, <3>1, CallLeadsToNext, CallsAreCalls DEF FinalReturns
    <3> QED
      BY <1>1, <2>1, <3>2, MoveFits, CallsAreCalls DEF CallsFit, Call
  <2> QED
    BY <2>2, <2>3 DEF AfterFinal
<1>6. CASE Expire(r)
  BY <1>2, <1>6 DEF Expire, Timeout, End, SetPhase
<1>7. CASE EndsBadly(r)
  BY <1>2, <1>7 DEF EndsBadly, ClientGone, ReadBroken, Read, End, SetPhase
<1>8. CASE SaveReturns(r)
  <2>1. InOnePlace' /\ Pending' = Pending \ {Call("save", r)} /\ UNCHANGED phase
    BY <1>8, CallReturns, CallsAreCalls DEF SaveReturns, vars, queueVars
  <2> QED
    BY <2>1, CallsAreCalls DEF CallsFit
<1> QED
  BY <1>3, <1>4, <1>5, <1>6, <1>7, <1>8 DEF GetReturns

LEMMA PoolInductive ==
    ASSUME PoolInv, [PoolNext]_poolVars
    PROVE  PoolInv'
<1>1. OwnerInv'
  BY PoolStepIsStep, OwnerInductive DEF PoolInv
<1>2. ASSUME UNCHANGED pool, UNCHANGED phase
      PROVE  InOnePlace' /\ CallsFit'
  BY <1>2 DEF PoolInv, pool, InOnePlace, CallsFit, Pending
<1>3. ASSUME Begin PROVE InOnePlace' /\ CallsFit'
  <2>1. UNCHANGED phase
    BY <1>3 DEF Begin, vars, queueVars
  <2>2. InOnePlace' /\ Pending' = Pending
    BY <1>3, BeginKeepsCalls DEF PoolInv
  <2> QED
    BY <2>1, <2>2 DEF PoolInv, CallsFit
<1>4. ASSUME NEW w \in Workers, WorkerMoves(w), UNCHANGED pool
      PROVE  InOnePlace' /\ CallsFit'
  BY <1>2, <1>4 DEF WorkerMoves, queueVars
<1>5. ASSUME UNCHANGED poolVars PROVE InOnePlace' /\ CallsFit'
  <2>1. UNCHANGED pool /\ UNCHANGED phase
    BY <1>5 DEF poolVars, vars, queueVars
  <2> QED
    BY <1>2, <2>1
<1>6. ASSUME NEW r \in Requests,
             \/ Submit(r) \/ RequestLatents(r) \/ Ask(r) \/ AskForLatents(r)
             \/ PutReturns(r) \/ GetReturns(r) \/ Expire(r) \/ EndsBadly(r)
             \/ SaveReturns(r)
      PROVE  InOnePlace' /\ CallsFit'
  BY <1>6, SubmissionFits, ReturnFits
<1>7. ASSUME DrainLoop \/ HandOver PROVE InOnePlace' /\ CallsFit'
  BY <1>7, DrainFits
<1>8. InOnePlace' /\ CallsFit'
  BY <1>3, <1>4, <1>5, <1>6, <1>7 DEF PoolNext
<1> QED
  BY <1>1, <1>8 DEF PoolInv

LEMMA PoolInvariant == PoolSpec => []PoolInv
<1>1. PoolInit => PoolInv
  BY OwnerInit, PoolInitFits DEF PoolInit, PoolInv
<1>2. PoolInv /\ [PoolNext]_poolVars => PoolInv'
  BY PoolInductive
<1> QED
  BY <1>1, <1>2, PTL DEF PoolSpec

\* The types, the pool's own included.
THEOREM PoolTypeCorrect == PoolSpec => []PoolTypeOK
<1>1. PoolInv => PoolTypeOK
  BY DEF PoolInv, OwnerInv, InOnePlace, PoolTypeOK
<1> QED
  BY <1>1, PoolInvariant, PTL

\* A get is only in the pool behind its own put and for an owner that reads,
\* so no number of gets can keep a put from what they wait for.
THEOREM GetsFollowPutsHolds == PoolSpec => []GetsFollowPuts
<1>1. PoolInv => GetsFollowPuts
  BY DEF PoolInv, InOnePlace, CallsFit, GetsFollowPuts
<1> QED
  BY <1>1, PoolInvariant, PTL

-----------------------------------------------------------------------------
(* The pool never comes to a halt.  Besides what is proved of the request path *)
(* this takes two facts about who acts next.                                *)

\* What the drain loop has begun it holds, until its owner runs.
DrainHolds ==
    \A r \in Requests :
        /\ r \in Queued => (drain = r <=> phase[r] \in {"taken", "putting", "delivered"})
        /\ phase[r] = "taken" => r \in Queued

\* Only shutdown() puts sentinels.
OnlyRequests == \A w \in Workers : request_queue[w] \in Seq(Requests)

NextActor == DrainHolds /\ OnlyRequests

LEMMA NextActorInit == Init => NextActor
<1>1. Init => OnlyRequests
  BY DEF Init, WorkerInit, OnlyRequests
<1>2. Init => DrainHolds
  BY QueueManagerAssumption, WorkerAssumption, KindsAreRequests DEF Init, DrainHolds
<1> QED
  BY <1>1, <1>2 DEF NextActor

\* A request that the drain loop does not hold moves, and none comes to it.
LEMMA OthersMove ==
    ASSUME OwnerInv, DrainHolds, UNCHANGED drain, NEW r \in Requests, NEW p,
           phase' = [phase EXCEPT ![r] = p], p # "taken",
           r \in Queued => (phase[r] \in {"taken", "putting", "delivered"}
                             <=> p \in {"taken", "putting", "delivered"})
    PROVE  DrainHolds'
BY OwnerTypes DEF DrainHolds

LEMMA DrainHoldsInductive ==
    ASSUME OwnerInv, DrainHolds, [Next]_vars
    PROVE  DrainHolds'
<1>1. phase \in [Requests -> Phases]
  BY OwnerTypes
<1>2. ASSUME NEW r \in Requests,
             Accept(r) \/ Refuse(r) \/ StartLatents(r) \/ ExecutorPut(r) \/ LatentsHandOver(r)
      PROVE  DrainHolds'
  BY <1>2, OthersMove, QueueManagerAssumption
     DEF Accept, Refuse, StartLatents, ExecutorPut, LatentsHandOver, SetPhase, Queued
<1>3. ASSUME NEW r \in Requests, OwnerStep(r)
      PROVE  DrainHolds'
  <2>1. CASE SendChunk(r)
    BY <2>1 DEF SendChunk, queueVars, DrainHolds
  <2>2. CASE ~SendChunk(r)
    <3>1. /\ phase[r] = "collecting" /\ UNCHANGED drain
          /\ phase' = [phase EXCEPT ![r] = "done"]
      BY <1>3, <2>2 DEF OwnerStep, Collect, ClientGone, ReadFinal, Timeout, ReadBroken,
                        Read, End, SetPhase
    <3> QED
      BY <3>1, OthersMove
  <2> QED
    BY <2>1, <2>2
<1>4. CASE DrainTake
  <2> DEFINE r == Head(queue)
  <2>1. /\ r \in Queued /\ r \in Requests /\ phase[r] = "queued"
        /\ drain = NoRequest /\ drain' = r
    BY <1>4, QueueHead DEF DrainTake, OwnerInv
  <2>2. \E p \in {"taken", "putting"} : phase' = [phase EXCEPT ![r] = p]
    BY <1>4 DEF DrainTake, SetPhase
  <2> HIDE DEF r
  <2>3. \A q \in Queued : phase[q] \notin {"taken", "putting", "delivered"}
    BY <2>1, KindsAreRequests, WorkerAssumption DEF DrainHolds
  <2> QED
    BY <1>1, <2>1, <2>2, <2>3 DEF DrainHolds
<1>5. CASE DrainWake
  <2>1. /\ drain \in Queued /\ drain \in Requests /\ phase[drain] = "taken"
        /\ UNCHANGED drain
    BY <1>5, KindsAreRequests DEF DrainWake, OwnerInv, SlotsFollowOwners, TypeOK
  <2>2. CASE UNCHANGED phase
    BY <2>1, <2>2 DEF DrainHolds
  <2>3. CASE phase' = [phase EXCEPT ![drain] = "putting"]
    BY <2>1, <2>3, OthersMove
  <2> QED
    BY <1>5, <2>2, <2>3 DEF DrainWake, SetPhase
<1>6. CASE DrainHandOver
  <2>1. /\ drain \in Queued /\ drain \in Requests /\ drain' = NoRequest
        /\ phase' = [phase EXCEPT ![drain] = "collecting"]
    BY <1>6, KindsAreRequests DEF DrainHandOver, SetPhase, OwnerInv, TypeOK
  <2>2. \A q \in Queued : q # drain => phase[q] \notin {"taken", "putting", "delivered"}
    BY KindsAreRequests DEF DrainHolds
  <2> QED
    BY <1>1, <2>1, <2>2, KindsAreRequests, WorkerAssumption DEF DrainHolds
<1>7. ASSUME NEW w \in Workers, WorkerMoves(w) PROVE DrainHolds'
  BY <1>7 DEF WorkerMoves, queueVars, DrainHolds
<1>8. CASE UNCHANGED vars
  BY <1>8 DEF vars, queueVars, DrainHolds
<1> QED
  BY <1>2, <1>3, <1>4, <1>5, <1>6, <1>7, <1>8 DEF Next, DrainStep

LEMMA OnlyRequestsInductive ==
    ASSUME OwnerInv, OnlyRequests, [Next]_vars
    PROVE  OnlyRequests'
<1>1. ASSUME UNCHANGED request_queue PROVE OnlyRequests'
  BY <1>1 DEF OnlyRequests
<1>2. ASSUME NEW r \in Requests, ExecutorPut(r) PROVE OnlyRequests'
  BY <1>2 DEF ExecutorPut, OnlyRequests, OwnerInv, TypeOK
<1>3. ASSUME NEW w \in Workers, WorkerMoves(w) PROVE OnlyRequests'
  <2>1. CASE WorkerTake(w)
    <3>1. Tail(request_queue[w]) \in Seq(Requests)
      BY <2>1 DEF WorkerTake, OnlyRequests
    <3> QED
      BY <2>1, <3>1 DEF WorkerTake, OnlyRequests, OwnerInv, TypeOK
  <2>2. CASE ~WorkerTake(w)
    BY <1>1, <1>3, <2>2 DEF WorkerMoves, WorkerStep, WorkerChunk, WorkerAnswer, WorkerDies
  <2> QED
    BY <2>1, <2>2
<1>4. ASSUME NEW r \in Requests,
             \/ Accept(r) \/ Refuse(r) \/ StartLatents(r)
             \/ LatentsHandOver(r) \/ OwnerStep(r)
      PROVE  OnlyRequests'
  BY <1>1, <1>4 DEF Accept, Refuse, StartLatents, LatentsHandOver, OwnerStep, Collect,
         SendChunk, ClientGone, ReadFinal, Timeout, ReadBroken, Read, workerVars
<1>5. CASE DrainStep \/ UNCHANGED vars
  BY <1>1, <1>5 DEF DrainStep, DrainTake, DrainWake, DrainHandOver, vars, workerVars
<1> QED
  BY <1>2, <1>3, <1>4, <1>5 DEF Next

LEMMA NextActorHolds == Spec => []NextActor
<1>1. OwnerInv /\ NextActor /\ [Next]_vars => NextActor'
  BY DrainHoldsInductive, OnlyRequestsInductive DEF NextActor
<1> QED
  BY <1>1, NextActorInit, WorkInvariant, PTL DEF Spec

Halted ==
    /\ ~DrainCanMove /\ ~PoolCanBegin
    /\ \A r \in Requests :
         ~OwnerCanAsk(r) /\ ~CallCanReturn(r) /\ ~WaitsForTheDead(r)
    /\ \A w \in Workers : ~WorkerCanWork(w)

\* A get that waits for a worker that is alive keeps that worker busy: the work it
\* waits for is in the worker's queue or in its hands.
LEMMA WaitingKeepsBusy ==
    ASSUME PoolInv, WorkInv, OnlyRequests, NEW r \in Requests,
           Call("get", r) \in running, result_queue[r] = <<>>, ~WaitsForTheDead(r)
    PROVE  \E w \in Workers : WorkerCanWork(w)
<1>1. phase[r] = "collecting" /\ OwnerInv
  BY DEF PoolInv, CallsFit, Pending
<1>2. handle[r] \in Workers /\ alive[handle[r]]
  BY <1>1 DEF OwnerInv, SlotsFollowOwners, InFlight, TypeOK, DispatcherTypeOK, WaitsForTheDead
<1>3. PICK p \in Places(r) : TRUE
  BY <1>1, <1>2 DEF WorkInv, OneWork, Waits
<1>4. \/ \E w \in Workers : p = <<"to do", w>> \/ p = <<"under way", w>>
      \/ answer[r] \in FinalItems /\ <<"read", answer[r]>> \in Places(r)
  <2>1. DOMAIN result_queue[r] = {}
    OBVIOUS
  <2>2. \/ \E w \in Workers : p = <<"to do", w>> \/ p = <<"under way", w>>
        \/ answer[r] \in FinalItems /\ p = <<"read", answer[r]>>
    BY <2>1, PlaceKinds
  <2> QED
    BY <2>2
<1>5. PICK w \in Workers : AtWorker(r, w)
  <2>1. OneWork(r) /\ phase[r] # "done"
    BY <1>1 DEF WorkInv
  <2>2. ~(answer[r] \in FinalItems /\ <<"read", answer[r]>> \in Places(r))
    BY <2>1 DEF OneWork
  <2> QED
    BY <1>3, <1>4, <2>2 DEF AtWorker
<1>6. w = handle[r]
  BY <1>1, <1>5 DEF WorkInv, OneWork, Waits
<1>7. r \in Range(request_queue[w]) \/ executing[w] = r
  BY <1>5, PlacesOf DEF AtWorker
<1>8. CASE executing[w] = r
  BY <1>2, <1>6, <1>8, WorkerAssumption DEF WorkerCanWork
<1>9. CASE r \in Range(request_queue[w])
  <2>1. request_queue[w] \in Seq(Requests) /\ request_queue[w] # <<>>
    BY <1>9 DEF OnlyRequests, Range
  <2>2. Head(request_queue[w]) # Sentinel
    BY <2>1, WorkerAssumption
  <2> QED
    BY <1>2, <1>6, <2>1, <2>2 DEF WorkerCanWork
<1> QED
  BY <1>7, <1>8, <1>9

\* When nothing can move, no thread is held and no call waits for one.
LEMMA HaltedPoolIsEmpty ==
    ASSUME PoolInv, WorkInv, OnlyRequests, Halted
    PROVE  Pending = {}
<1>1. \A r \in Requests : \A kind \in {"put", "get", "save"} : Call(kind, r) \notin running
  BY WaitingKeepsBusy DEF Halted, CallCanReturn
<1>2. ASSUME NEW call \in running PROVE FALSE
  <2>1. call \in Calls /\ call = Call(call.kind, call.request)
    BY DEF PoolInv, InOnePlace, Calls, Call
  <2>2. call.kind \in {"put", "get", "save"} /\ call.request \in Requests
    BY <2>1 DEF Calls
  <2> QED
    BY <1>1, <2>1, <2>2
<1>3. Cardinality(running) = 0
  BY <1>2, FS_EmptySet
<1>4. backlog = <<>>
  BY <1>3, PoolAssumption DEF Halted, PoolCanBegin
<1> QED
  BY <1>2, <1>4 DEF Pending, Range

\* Then no request holds a slot, ...
LEMMA HaltedHoldsNoSlot ==
    ASSUME PoolInv, WorkInv, NextActor, Halted, NEW r \in Requests
    PROVE  phase[r] \notin InFlight
<1>1. Pending = {} /\ OwnerInv
  BY HaltedPoolIsEmpty DEF NextActor, PoolInv
<1>2. r \in Queued \/ r \in Clones
  BY QueueManagerAssumption DEF Queued
<1>3. phase[r] # "putting"
  BY <1>1 DEF PoolInv, CallsFit
<1>4. phase[r] # "collecting"
  BY <1>1, <1>2 DEF Halted, OwnerCanAsk, PoolInv, CallsFit
<1>5. phase[r] # "delivered"
  <2>1. CASE r \in Clones
    BY <2>1 DEF Halted, OwnerCanAsk
  <2>2. CASE r \in Queued
    <3>1. phase[r] = "delivered" => drain = r
      BY <2>2 DEF NextActor, DrainHolds
    <3>2. r # NoRequest
      BY WorkerAssumption
    <3> QED
      BY <3>1, <3>2 DEF Halted, DrainCanMove
  <2> QED
    BY <1>2, <2>1, <2>2
<1> QED
  BY <1>3, <1>4, <1>5 DEF InFlight

\* ... so that every worker is free and the drain loop is not asleep, ...
LEMMA HaltedDrainIsAwake ==
    ASSUME PoolInv, WorkInv, NextActor, SlotAccounting, NoLostWakeup, Halted
    PROVE  waiter = "out"
<1>1. TypeOK /\ DispatcherTypeOK /\ SlotsFollowOwners
  BY DEF PoolInv, OwnerInv, TypeOK
<1>2. \A r \in Requests : handle[r] = NoWorker
  BY <1>1, HaltedHoldsNoSlot DEF SlotsFollowOwners
<1>3. \A w \in Workers : Holders(w) = {}
  BY <1>2, DispatcherAssumption DEF Holders
<1>4. \A w \in Workers : active_requests[w] = 0
  BY <1>3, FS_EmptySet DEF SlotAccounting
<1>5. \E w : w \in Workers
  <2>1. 1 \in DOMAIN WorkersPerGpu /\ WorkersPerGpu[1] \in Nat \ {0}
    BY TopologyAssumption
  <2>2. 1 \in 1 .. WorkersPerGpu[1]
    BY <2>1
  <2>3. <<1, 1>> \in {1} \X (1 .. WorkersPerGpu[1])
    BY <2>2
  <2> QED
    BY <2>1, <2>3 DEF Workers, Gpus
<1>6. ~AllBusy
  BY <1>4, <1>5 DEF AllBusy
<1> QED
  BY <1>1, <1>6 DEF NoLostWakeup, Halted, DrainCanMove, DispatcherTypeOK

\* ... and it holds nothing and finds nothing in the queue.
LEMMA HaltedIsOver ==
    ASSUME PoolInv, WorkInv, NextActor, SlotAccounting, NoLostWakeup, Halted,
           NEW r \in Requests
    PROVE  phase[r] \notin InProgress
<1>1. TypeOK /\ SlotsFollowOwners /\ WaitingOnce
  BY DEF PoolInv, OwnerInv
<1>2. \A q \in Requests : phase[q] \notin InFlight
  BY HaltedHoldsNoSlot
<1>3. \A q \in Requests : phase[q] # "taken"
  <2> SUFFICES ASSUME NEW q \in Requests, phase[q] = "taken" PROVE FALSE
    OBVIOUS
  <2>1. drain = q /\ q # NoRequest
    BY WorkerAssumption DEF NextActor, DrainHolds
  <2> QED
    BY <1>1, <2>1, HaltedDrainIsAwake DEF SlotsFollowOwners
<1>4. drain = NoRequest
  <2> SUFFICES ASSUME drain \in Queued PROVE FALSE
    BY <1>1 DEF TypeOK
  <2>1. drain \in Requests /\ phase[drain] \in {"taken", "putting", "delivered"}
    BY KindsAreRequests DEF NextActor, DrainHolds
  <2> QED
    BY <1>2, <1>3, <2>1 DEF InFlight
<1>5. phase[r] # "queued"
  <2>1. queue = <<>>
    BY <1>4 DEF Halted, DrainCanMove
  <2>2. Range(queue) = {}
    BY <2>1 DEF Range
  <2> QED
    BY <1>1, <2>2 DEF WaitingOnce
<1> QED
  BY <1>2, <1>3, <1>5 DEF InProgress

\* However few threads the pool has and however its calls are ordered, whatever
\* dies, times out or leaves: as long as a request is in progress something can go
\* on, and a timeout is needed only for a worker that died.
THEOREM NeverStuckHolds ==
    ASSUME UniqueIds
    PROVE  PoolSpec => []NeverStuck
<1>1. PoolInv /\ WorkInv /\ NextActor /\ SlotAccounting /\ NoLostWakeup => NeverStuck
  <2> SUFFICES ASSUME PoolInv, WorkInv, NextActor, SlotAccounting, NoLostWakeup, ~NeverStuck
               PROVE  FALSE
    OBVIOUS
  <2>1. Halted
    BY DEF NeverStuck, Halted
  <2> QED
    BY <2>1, HaltedIsOver DEF NeverStuck
<1>2. Spec => [](OwnerInv /\ WorkInv) /\ []NextActor /\ []SlotAccounting /\ []NoLostWakeup
  BY WorkInvariant, NextActorHolds, SlotAccountingInServer, NoLostWakeupInServer
<1>3. PoolSpec => Spec
  BY RefinesQueueManager DEF ImplementsQueueManager
<1> QED
  BY <1>1, <1>2, <1>3, PoolInvariant, PTL

\* What is proved of the request path holds on the threads.
THEOREM PoolKeepsExactlyOnce == PoolSpec => []ExactlyOnce
BY RefinesQueueManager, ExactlyOnceHolds, PTL DEF ImplementsQueueManager

\* Seen from the endpoints the request path on its threads is still a bounded
\* first-come first-served queue.
THEOREM PoolRefinesRequestQueue == PoolSpec => ImplementsRequestQueue
BY RefinesQueueManager, RefinesRequestQueue, PTL DEF ImplementsQueueManager
=============================================================================
