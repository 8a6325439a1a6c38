--------------------------- MODULE LifecycleProofs ----------------------------
(***************************************************************************)
(* Proofs about Lifecycle: what the order of the shutdown guarantees.      *)
(***************************************************************************)
EXTENDS Lifecycle, ExactlyOnceProofs

-----------------------------------------------------------------------------
(* The invariant.  Sentinels are put when nobody hands requests over any   *)
(* more: whoever still reads has his request in front of them.             *)

Stopping == {"stopping", "stopped"}

\* The requests behind the sentinel of w.
Behind(w) ==
    {r \in Requests : \E i, j \in DOMAIN request_queue[w] :
        i < j /\ request_queue[w][i] = Sentinel /\ request_queue[w][j] = r}

StageInv ==
    /\ stage \notin Stopping => told = {} /\ joined = {} /\ left = {}
    /\ stage \in Stopping => ConnectionsClosed
    /\ stage = "stopped" => joined = Workers
    /\ \A w \in left \cup joined : ~alive[w]

SentinelInv ==
    /\ \A w \in Workers : Sentinel \in Range(request_queue[w]) => w \in told
    /\ \A w \in Workers : \A r \in Behind(w) : phase[r] # "collecting"
    /\ \A w \in left, r \in Requests :
         r \in Range(request_queue[w]) => phase[r] # "collecting"

LifecycleInv ==
    /\ LifecycleTypeOK
    /\ OwnerInv /\ WorkInv
    /\ StageInv /\ SentinelInv
    /\ LeftNothingUnanswered

\* Nothing in the queues of the workers changes.
LEMMA BehindStays ==
    ASSUME UNCHANGED request_queue, NEW w
    PROVE  Behind(w)' = Behind(w)
BY DEF Behind

LEMMA QueueIndices ==
    ASSUME TypeOK, NEW w \in Workers
    PROVE  /\ request_queue[w] \in Seq(Requests \cup {Sentinel})
           /\ Len(request_queue[w]) \in Nat
           /\ DOMAIN request_queue[w] = 1 .. Len(request_queue[w])
BY DEF TypeOK

LEMMA TailOf ==
    ASSUME NEW S, NEW s \in Seq(S), s # <<>>
    PROVE  /\ Len(s) \in Nat \ {0}
           /\ DOMAIN s = 1 .. Len(s)
           /\ DOMAIN Tail(s) = 1 .. (Len(s) - 1)
           /\ \A i \in 1 .. (Len(s) - 1) : Tail(s)[i] = s[i + 1]
           /\ Head(s) = s[1]
OBVIOUS

\* A queue gets shorter at its head.
LEMMA BehindTail ==
    ASSUME TypeOK, NEW w \in Workers, request_queue[w] # <<>>,
           request_queue' = [request_queue EXCEPT ![w] = Tail(@)]
    PROVE  /\ \A v \in Workers : Behind(v)' \subseteq Behind(v)
           /\ \A v \in Workers : Range(request_queue'[v]) \subseteq Range(request_queue[v])
           /\ Head(request_queue[w]) = Sentinel =>
                 \A r \in Requests : r \in Range(request_queue'[w]) => r \in Behind(w)
<1> DEFINE n == Len(request_queue[w])
<1>1. /\ request_queue[w] \in Seq(Requests \cup {Sentinel})
      /\ request_queue'[w] = Tail(request_queue[w])
      /\ \A v \in Workers : v # w => request_queue'[v] = request_queue[v]
  BY QueueIndices DEF TypeOK
<1>2. /\ n \in Nat \ {0}
      /\ DOMAIN request_queue[w] = 1 .. n
      /\ DOMAIN request_queue'[w] = 1 .. (n - 1)
      /\ \A i \in 1 .. (n - 1) : request_queue'[w][i] = request_queue[w][i + 1]
      /\ Head(request_queue[w]) = request_queue[w][1]
  BY <1>1, TailOf
<1> HIDE DEF n
<1>3. /\ \A i \in 1 .. (n - 1) : i + 1 \in 1 .. n /\ 1 < i + 1
      /\ \A i, j \in 1 .. (n - 1) : i < j => i + 1 < j + 1
      /\ 1 \in 1 .. n
  BY <1>2
<1>4. Behind(w)' \subseteq Behind(w)
  <2> SUFFICES ASSUME NEW r \in Requests,
                      NEW i \in 1 .. (n - 1), NEW j \in 1 .. (n - 1), i < j,
                      request_queue'[w][i] = Sentinel, request_queue'[w][j] = r
               PROVE  r \in Behind(w)
    BY <1>2 DEF Behind
  <2>1. /\ i + 1 \in 1 .. n /\ j + 1 \in 1 .. n /\ i + 1 < j + 1
        /\ request_queue[w][i + 1] = Sentinel /\ request_queue[w][j + 1] = r
    BY <1>2, <1>3
  <2> QED
    BY <1>2, <2>1 DEF Behind
<1>5. \A v \in Workers : v # w => Behind(v)' = Behind(v)
  BY <1>1 DEF Behind
<1>6. Range(request_queue'[w]) \subseteq Range(request_queue[w])
  BY <1>2, <1>3 DEF Range
<1>7. Head(request_queue[w]) = Sentinel =>
         \A r \in Requests : r \in Range(request_queue'[w]) => r \in Behind(w)
  <2> SUFFICES ASSUME Head(request_queue[w]) = Sentinel, NEW r \in Requests,
                      NEW i \in 1 .. (n - 1), request_queue'[w][i] = r
               PROVE  r \in Behind(w)
    BY <1>2 DEF Range
  <2>1. /\ 1 \in 1 .. n /\ i + 1 \in 1 .. n /\ 1 < i + 1
        /\ request_queue[w][1] = Sentinel /\ request_queue[w][i + 1] = r
    BY <1>2, <1>3
  <2> QED
    BY <1>2, <2>1 DEF Behind
<1> QED
  BY <1>1, <1>4, <1>5, <1>6, <1>7

\* A queue gets longer at its end.
LEMMA BehindAppend ==
    ASSUME TypeOK, NEW w \in Workers, NEW x \in Requests \cup {Sentinel},
           request_queue' = [request_queue EXCEPT ![w] = Append(@, x)]
    PROVE  /\ \A v \in Workers : Behind(v)' \subseteq Behind(v) \cup {x}
           /\ \A v \in Workers :
                 Range(request_queue'[v]) \subseteq Range(request_queue[v]) \cup {x}
           /\ \A v \in Workers : v # w => request_queue'[v] = request_queue[v]
           /\ Range(request_queue'[w]) = Range(request_queue[w]) \cup {x}
<1> DEFINE n == Len(request_queue[w])
<1>1. /\ request_queue[w] \in Seq(Requests \cup {Sentinel})
      /\ request_queue'[w] = Append(request_queue[w], x)
      /\ \A v \in Workers : v # w => request_queue'[v] = request_queue[v]
  BY QueueIndices DEF TypeOK
<1>2. /\ n \in Nat
      /\ DOMAIN request_queue[w] = 1 .. n
      /\ DOMAIN request_queue'[w] = 1 .. (n + 1)
      /\ \A i \in 1 .. n : request_queue'[w][i] = request_queue[w][i]
      /\ request_queue'[w][n + 1] = x
  BY <1>1
<1> HIDE DEF n
<1>3. /\ \A i \in 1 .. (n + 1) : i \in 1 .. n \/ i = n + 1
      /\ \A i \in 1 .. n : i \in 1 .. (n + 1)
      /\ \A i \in 1 .. (n + 1), j \in 1 .. n : i < j => i \in 1 .. n
      /\ n + 1 \in 1 .. (n + 1)
  BY <1>2
<1>4. Behind(w)' \subseteq Behind(w) \cup {x}
  <2> SUFFICES ASSUME NEW r \in Requests, r # x,
                      NEW i \in 1 .. (n + 1), NEW j \in 1 .. (n + 1), i < j,
                      request_queue'[w][i] = Sentinel, request_queue'[w][j] = r
               PROVE  r \in Behind(w)
    BY <1>2 DEF Behind
  <2>1. j \in 1 .. n /\ i \in 1 .. n
    BY <1>2, <1>3
  <2> QED
    BY <1>2, <2>1 DEF Behind
<1>5. \A v \in Workers : v # w => Behind(v)' = Behind(v)
  BY <1>1 DEF Behind
<1>6. Range(request_queue'[w]) = Range(request_queue[w]) \cup {x}
  BY <1>2, <1>3 DEF Range
<1> QED
  BY <1>1, <1>4, <1>5, <1>6

-----------------------------------------------------------------------------
(* The request path while it runs. *)

RequestPath ==
    \/ \E r \in Requests : Arrive(r) \/ Put(r) \/ Own(r)
    \/ Drain
    \/ \E w \in Workers : Work(w)

LEMMA PathIsNext ==
    ASSUME RequestPath
    PROVE  Next /\ UNCHANGED lifecycleVars
<1>1. ASSUME NEW r \in Requests, Arrive(r) \/ Put(r) \/ Own(r)
      PROVE  Next /\ UNCHANGED lifecycleVars
  BY <1>1 DEF Arrive, Put, Own, Next, OwnerStep
<1>2. ASSUME Drain PROVE Next /\ UNCHANGED lifecycleVars
  BY <1>2 DEF Drain, Next
<1>3. ASSUME NEW w \in Workers, Work(w) PROVE Next /\ UNCHANGED lifecycleVars
  BY <1>3 DEF Work, Next
<1> QED
  BY <1>1, <1>2, <1>3 DEF RequestPath

\* What the steps do to the queues of the workers and to the workers.
LEMMA PathQueues ==
    ASSUME LifecycleInv, RequestPath
    PROVE  /\ \A w \in Workers, r \in Requests :
                 r \in Behind(w)' => r \in Behind(w) \/ phase'[r] = "delivered"
           /\ \A w \in Workers, r \in Requests :
                 r \in Range(request_queue'[w])
                    => r \in Range(request_queue[w]) \/ phase'[r] = "delivered"
           /\ \A w \in Workers :
                 Sentinel \in Range(request_queue'[w]) => Sentinel \in Range(request_queue[w])
           /\ \A w \in Workers : alive'[w] => alive[w]
<1> DEFINE Goal ==
       /\ \A w \in Workers, r \in Requests :
             r \in Behind(w)' => r \in Behind(w) \/ phase'[r] = "delivered"
       /\ \A w \in Workers, r \in Requests :
             r \in Range(request_queue'[w])
                => r \in Range(request_queue[w]) \/ phase'[r] = "delivered"
       /\ \A w \in Workers :
             Sentinel \in Range(request_queue'[w]) => Sentinel \in Range(request_queue[w])
       /\ \A w \in Workers : alive'[w] => alive[w]
<1>1. TypeOK /\ phase \in [Requests -> Phases] /\ alive \in [Workers -> BOOLEAN]
  BY DEF LifecycleInv, OwnerInv, TypeOK
<1>2. ASSUME UNCHANGED <<request_queue, alive>> PROVE Goal
  BY <1>2, BehindStays
<1> HIDE DEF Goal
<1>3. ASSUME NEW r \in Requests, Arrive(r) PROVE Goal
  BY <1>2, <1>3 DEF Arrive, Accept, Refuse, StartLatents, workerVars
<1>4. ASSUME Drain PROVE Goal
  BY <1>2, <1>4 DEF Drain, DrainStep, DrainTake, DrainWake, DrainHandOver, workerVars
<1>5. ASSUME NEW r \in Requests, Own(r) PROVE Goal
  BY <1>2, <1>5 DEF Own, LatentsHandOver, OwnerStep, Collect, SendChunk, ReadFinal,
                    ClientGone, Timeout, ReadBroken, Read, workerVars
<1>6. ASSUME NEW r \in Requests, Put(r) PROVE Goal
  <2>1. /\ phase'[r] = "delivered" /\ phase[r] = "putting" /\ UNCHANGED alive
        /\ request_queue' = [request_queue EXCEPT ![handle[r]] = Append(@, r)]
    BY <1>1, <1>6 DEF Put, ExecutorPut, SetPhase
  <2>2. handle[r] \in Workers
    BY <2>1 DEF LifecycleInv, OwnerInv, SlotsFollowOwners, InFlight, TypeOK, DispatcherTypeOK
  <2>3. /\ \A v \in Workers : Behind(v)' \subseteq Behind(v) \cup {r}
        /\ \A v \in Workers :
              Range(request_queue'[v]) \subseteq Range(request_queue[v]) \cup {r}
    BY <1>1, <2>1, <2>2, BehindAppend
  <2> QED
    BY <2>1, <2>3, WorkerAssumption DEF Goal
<1>7. ASSUME NEW w \in Workers, Work(w) PROVE Goal
  <2>1. CASE WorkerTake(w)
    BY <1>1, <2>1, BehindTail DEF WorkerTake, Goal
  <2>2. CASE WorkerChunk(w) \/ WorkerAnswer(w)
    BY <1>2, <2>2 DEF WorkerChunk, WorkerAnswer
  <2>3. CASE WorkerDies(w)
    <3>1. UNCHANGED request_queue /\ \A v \in Workers : alive'[v] => alive[v]
      BY <1>1, <2>3 DEF WorkerDies
    <3> QED
      BY <3>1, BehindStays DEF Goal
  <2> QED
    BY <1>7, <2>1, <2>2, <2>3 DEF Work, WorkerMoves, WorkerStep
<1> QED
  BY <1>3, <1>4, <1>5, <1>6, <1>7 DEF RequestPath, Goal

\* What they do to the owners: nobody begins to read once the server stops, who
\* is idle then remains so, and who goes on reading still finds his answer.
HasAnswer(r) == \E i \in DOMAIN result_queue[r] : result_queue[r][i] \in FinalItems

LEMMA PathOwners ==
    ASSUME LifecycleInv, RequestPath, NEW r \in Requests
    PROVE  /\ phase'[r] = "collecting" /\ phase[r] # "collecting" => stage \notin Stopping
           /\ phase[r] \in Idle /\ stage \in Stopping => phase'[r] \in Idle
           /\ phase[r] = "collecting" /\ phase'[r] = "collecting" =>
                handle'[r] = handle[r] /\ (HasAnswer(r) => HasAnswer(r)')
<1> DEFINE Goal ==
       /\ phase'[r] = "collecting" /\ phase[r] # "collecting" => stage \notin Stopping
       /\ phase[r] \in Idle /\ stage \in Stopping => phase'[r] \in Idle
       /\ phase[r] = "collecting" /\ phase'[r] = "collecting" =>
            handle'[r] = handle[r] /\ (HasAnswer(r) => HasAnswer(r)')
<1>1. /\ TypeOK /\ phase \in [Requests -> Phases] /\ SlotsFollowOwners
      /\ handle \in [Requests -> Workers \cup {NoWorker}]
      /\ result_queue \in [Requests -> Seq(Items)]
      /\ executing \in [Workers -> Requests \cup {NoRequest}]
  BY DEF LifecycleInv, OwnerInv, TypeOK, DispatcherTypeOK
<1>2. ASSUME stage \notin Stopping, result_queue'[r] = result_queue[r],
             phase[r] = "collecting" => handle'[r] = handle[r]
      PROVE  Goal
  BY <1>2 DEF HasAnswer
<1>3. ASSUME phase'[r] = phase[r], result_queue'[r] = result_queue[r],
             handle'[r] = handle[r]
      PROVE  Goal
  BY <1>3 DEF HasAnswer
<1> HIDE DEF Goal
<1>4. ASSUME NEW q \in Requests, Assign(q), phase[q] # "collecting"
      PROVE  phase[r] = "collecting" => handle'[r] = handle[r]
  BY <1>1, <1>4 DEF Assign
<1>5. ASSUME NEW q \in Requests, Arrive(q) PROVE Goal
  <2>1. stage \notin Stopping /\ UNCHANGED result_queue
    BY <1>5 DEF Arrive, Stopping, Accept, Refuse, StartLatents, workerVars
  <2>2. phase[r] = "collecting" => handle'[r] = handle[r]
    BY <1>4, <1>5 DEF Arrive, Accept, Refuse, StartLatents, DispatchLatents, dispatcherVars
  <2> QED
    BY <1>2, <2>1, <2>2
<1>6. ASSUME Drain PROVE Goal
  <2>1. stage \notin Stopping /\ UNCHANGED result_queue
    BY <1>6 DEF Drain, Stopping, DrainStep, DrainTake, DrainWake, DrainHandOver, workerVars
  <2>2. phase[r] = "collecting" => handle'[r] = handle[r]
    <3>1. CASE DrainTake
      <4>1. Head(queue) \in Requests /\ phase[Head(queue)] = "queued"
        BY <3>1, QueueHead DEF DrainTake, LifecycleInv, OwnerInv
      <4> QED
        BY <1>4, <3>1, <4>1 DEF DrainTake, Park, DispatchQueued
    <3>2. CASE DrainWake
      <4>1. drain \in Requests /\ phase[drain] = "taken"
        BY <1>1, <3>2, KindsAreRequests DEF DrainWake, SlotsFollowOwners, TypeOK
      <4> QED
        BY <1>4, <3>2, <4>1 DEF DrainWake, Park, DispatchQueued
    <3>3. CASE DrainHandOver
      BY <3>3 DEF DrainHandOver, dispatcherVars
    <3> QED
      BY <1>6, <3>1, <3>2, <3>3 DEF Drain, DrainStep
  <2> QED
    BY <1>2, <2>1, <2>2
<1>7. ASSUME NEW q \in Requests, Put(q) PROVE Goal
  <2>1. /\ phase[q] = "putting" /\ phase' = [phase EXCEPT ![q] = "delivered"]
        /\ UNCHANGED <<handle, result_queue>>
    BY <1>7 DEF Put, ExecutorPut, SetPhase, dispatcherVars
  <2> QED
    BY <1>1, <1>3, <2>1 DEF Goal, Idle
<1>8. ASSUME NEW q \in Requests, Own(q) PROVE Goal
  <2>1. CASE LatentsHandOver(q)
    <3>1. /\ q \in Clones /\ phase[q] = "delivered"
          /\ phase' = [phase EXCEPT ![q] = "collecting"]
          /\ UNCHANGED <<handle, result_queue>>
      BY <2>1 DEF LatentsHandOver, SetPhase, dispatcherVars, workerVars
    <3>2. stage \notin Stopping
      BY <3>1 DEF LifecycleInv, StageInv, ConnectionsClosed, Connected, Idle
    <3> QED
      BY <1>2, <3>1, <3>2
  <2>2. CASE SendChunk(q)
    <3>1. UNCHANGED <<phase, handle>>
      BY <2>2 DEF SendChunk, queueVars, dispatcherVars
    <3>2. CASE q # r
      BY <1>1, <1>3, <2>2, <3>1, <3>2 DEF SendChunk, Read
    <3>3. ASSUME q = r, HasAnswer(r) PROVE HasAnswer(r)'
      <4>1. Read(r) /\ Head(result_queue[r]) = "chunk"
        BY <2>2, <3>3 DEF SendChunk
      <4>2. PICK i \in DOMAIN result_queue[r] : result_queue[r][i] \in FinalItems
        BY <3>3 DEF HasAnswer
      <4>3. /\ DOMAIN result_queue[r] \subseteq Nat \ {0}
            /\ Head(result_queue[r]) = result_queue[r][1]
            /\ \A k \in Nat \ {0} :
                 /\ k \in DOMAIN result_queue'[r] <=> k + 1 \in DOMAIN result_queue[r]
                 /\ k \in DOMAIN result_queue'[r]
                      => result_queue'[r][k] = result_queue[r][k + 1]
        BY <4>1, ReadShifts DEF LifecycleInv
      <4>4. i # 1
        BY <4>1, <4>2, <4>3 DEF FinalItems
      <4>5. i - 1 \in Nat \ {0} /\ (i - 1) + 1 = i
        BY <4>2, <4>3, <4>4
      <4>6. i - 1 \in DOMAIN result_queue'[r] /\ result_queue'[r][i - 1] \in FinalItems
        BY <4>2, <4>3, <4>5
      <4> QED
        BY <4>6 DEF HasAnswer
    <3> QED
      BY <3>1, <3>2, <3>3 DEF Goal
  <2>3. CASE ClientGone(q) \/ ReadFinal(q) \/ Timeout(q) \/ ReadBroken(q)
    <3>1. phase' = [phase EXCEPT ![q] = "done"] /\ phase[q] = "collecting"
      BY <2>3 DEF ClientGone, ReadFinal, Timeout, ReadBroken, Read, End, SetPhase
    <3>2. CASE q = r
      BY <1>1, <3>1, <3>2 DEF Goal, Idle
    <3>3. CASE q # r
      <4>1. handle'[r] = handle[r] /\ result_queue'[r] = result_queue[r]
        BY <1>1, <2>3, <3>3
           DEF ClientGone, ReadFinal, Timeout, ReadBroken, Read, End, Release, workerVars
      <4> QED
        BY <1>1, <1>3, <3>1, <3>3, <4>1
    <3> QED
      BY <3>2, <3>3
  <2> QED
    BY <1>8, <2>1, <2>2, <2>3 DEF Own, OwnerStep, Collect
<1>9. ASSUME NEW w \in Workers, Work(w) PROVE Goal
  <2>1. UNCHANGED <<phase, handle>>
    BY <1>9 DEF Work, WorkerMoves, queueVars, dispatcherVars
  <2>2. HasAnswer(r) => HasAnswer(r)'
    <3>1. CASE WorkerTake(w) \/ WorkerDies(w)
      BY <3>1 DEF WorkerTake, WorkerDies, HasAnswer
    <3>2. CASE WorkerChunk(w) \/ WorkerAnswer(w)
      <4>1. PICK x \in Items :
               result_queue' = [result_queue EXCEPT ![executing[w]] = Append(@, x)]
        BY <3>2 DEF WorkerChunk, WorkerAnswer, Items
      <4>2. result_queue'[r] \in {result_queue[r], Append(result_queue[r], x)}
        BY <1>1, <4>1
      <4>3. \A i \in DOMAIN result_queue[r] :
               i \in DOMAIN result_queue'[r] /\ result_queue'[r][i] = result_queue[r][i]
        <5>1. result_queue[r] \in Seq(Items)
          BY <1>1
        <5> QED
          BY <4>2, <5>1
      <4> QED
        BY <4>3 DEF HasAnswer
    <3> QED
      BY <1>9, <3>1, <3>2 DEF Work, WorkerMoves, WorkerStep
  <2> QED
    BY <2>1, <2>2 DEF Goal
<1> QED
  BY <1>5, <1>6, <1>7, <1>8, <1>9 DEF RequestPath, Goal

LEMMA PathKeepsLifecycle ==
    ASSUME LifecycleInv, RequestPath
    PROVE  LifecycleInv'
<1>1. [Next]_vars /\ UNCHANGED <<stage, told, joined, left, revoked>>
  BY PathIsNext DEF lifecycleVars
<1>2. OwnerInv' /\ WorkInv'
  BY <1>1, OwnerInductive, WorkInductive DEF LifecycleInv
<1>3. LifecycleTypeOK'
  BY <1>1, <1>2 DEF LifecycleInv, LifecycleTypeOK, OwnerInv
<1>4. StageInv'
  <2>1. Connected \subseteq Requests
    BY LifecycleAssumption, QueueManagerAssumption DEF Connected
  <2>2. stage \in Stopping => ConnectionsClosed'
    BY <2>1, PathOwners DEF LifecycleInv, StageInv, ConnectionsClosed
  <2>3. \A w \in left \cup joined : w \in Workers /\ ~alive'[w]
    BY PathQueues DEF LifecycleInv, LifecycleTypeOK, StageInv
  <2> QED
    BY <1>1, <2>2, <2>3 DEF LifecycleInv, StageInv
<1>5. ASSUME NEW r \in Requests, phase'[r] = "collecting", told # {}
      PROVE  phase[r] = "collecting"
  BY <1>5, PathOwners DEF LifecycleInv, StageInv
<1>6. ASSUME NEW w \in Workers, NEW r \in Behind(w)', phase'[r] = "collecting"
      PROVE  FALSE
  <2>1. r \in Behind(w) /\ r \in Requests
    BY <1>6, PathQueues DEF Behind
  <2>2. Sentinel \in Range(request_queue[w])
    BY <2>1 DEF Behind, Range
  <2>3. phase[r] = "collecting"
    BY <1>5, <1>6, <2>1, <2>2 DEF LifecycleInv, SentinelInv
  <2> QED
    BY <2>1, <2>3 DEF LifecycleInv, SentinelInv
<1>7. ASSUME NEW w \in left, NEW r \in Requests, r \in Range(request_queue'[w]),
             phase'[r] = "collecting"
      PROVE  FALSE
  <2>1. w \in Workers /\ stage \in Stopping
    BY DEF LifecycleInv, LifecycleTypeOK, StageInv
  <2>2. phase[r] = "collecting"
    BY <1>7, <2>1, PathOwners
  <2>3. r \in Range(request_queue[w])
    BY <1>7, <2>1, PathQueues
  <2> QED
    BY <2>2, <2>3 DEF LifecycleInv, SentinelInv
<1>8. SentinelInv'
  BY <1>1, <1>6, <1>7, PathQueues DEF LifecycleInv, SentinelInv
<1>9. LeftNothingUnanswered'
  <2> SUFFICES ASSUME NEW w \in left, NEW r \in Requests,
                      stage # "stopped", handle'[r] = w, phase'[r] = "collecting"
               PROVE  HasAnswer(r)'
    BY <1>1 DEF LeftNothingUnanswered, HasAnswer
  <2>1. stage \in Stopping
    BY DEF LifecycleInv, StageInv
  <2>2. phase[r] = "collecting"
    BY <2>1, PathOwners
  <2>3. handle[r] = w /\ (HasAnswer(r) => HasAnswer(r)')
    BY <2>2, PathOwners
  <2>4. HasAnswer(r)
    BY <2>2, <2>3 DEF LifecycleInv, LeftNothingUnanswered, HasAnswer
  <2> QED
    BY <2>3, <2>4
<1> QED
  BY <1>2, <1>3, <1>4, <1>8, <1>9 DEF LifecycleInv

-----------------------------------------------------------------------------
(* The shutdown itself. *)

\* Owners and slots do not depend on what is in the queues of the workers.
LEMMA OwnersIgnoreWorkers ==
    ASSUME OwnerInv, UNCHANGED <<queueVars, dispatcherVars>>,
           request_queue' \in [Workers -> Seq(Requests \cup {Sentinel})],
           executing' \in [Workers -> Requests \cup {NoRequest}],
           alive' \in [Workers -> BOOLEAN],
           result_queue' \in [Requests -> Seq(Items)]
    PROVE  OwnerInv'
BY DEF OwnerInv, TypeOK, DispatcherTypeOK, WaitingOnce, SlotsFollowOwners,
       queueVars, dispatcherVars

LEMMA StageSteps ==
    ASSUME LifecycleInv, Stop \/ CancelDrain \/ UNCHANGED allVars
    PROVE  LifecycleInv'
<1>1. UNCHANGED vars /\ UNCHANGED <<told, joined, left>>
  BY DEF Stop, CancelDrain, allVars, lifecycleVars
<1>2. OwnerInv' /\ WorkInv'
  BY <1>1, OwnerInductive, WorkInductive DEF LifecycleInv
<1>3. UNCHANGED <<request_queue, alive, result_queue, phase, handle>>
  BY <1>1 DEF vars, queueVars, dispatcherVars, workerVars
<1>4. LifecycleTypeOK'
  BY <1>1, <1>2
     DEF LifecycleInv, LifecycleTypeOK, OwnerInv, Stop, CancelDrain, allVars, lifecycleVars
<1>5. StageInv'
  BY <1>1, <1>3 DEF LifecycleInv, StageInv, ConnectionsClosed, Stopping,
                    Stop, CancelDrain, allVars, lifecycleVars
<1>6. \A w : Behind(w)' = Behind(w)
  BY <1>3, BehindStays
<1>7. SentinelInv'
  BY <1>1, <1>3, <1>6 DEF LifecycleInv, SentinelInv
<1>8. LeftNothingUnanswered'
  BY <1>1, <1>3 DEF LifecycleInv, LeftNothingUnanswered, StageInv, Stopping,
                    Stop, CancelDrain, allVars, lifecycleVars
<1> QED
  BY <1>2, <1>4, <1>5, <1>7, <1>8 DEF LifecycleInv

LEMMA TellStep ==
    ASSUME LifecycleInv, NEW w \in Workers, TellWorker(w)
    PROVE  LifecycleInv'
<1>1. /\ TypeOK /\ stage = "stopping" /\ w \notin told
      /\ told' = told \cup {w}
      /\ request_queue' = [request_queue EXCEPT ![w] = Append(@, Sentinel)]
      /\ UNCHANGED <<queueVars, dispatcherVars, executing, alive, result_queue>>
      /\ UNCHANGED <<stage, joined, left, revoked>>
  BY DEF TellWorker, IsNext, LifecycleInv, OwnerInv
<1>2. UNCHANGED <<phase, answer, handle>>
  BY <1>1 DEF queueVars, dispatcherVars
<1>3. /\ \A v \in Workers : Behind(v)' \subseteq Behind(v) \cup {Sentinel}
      /\ \A v \in Workers : v # w => request_queue'[v] = request_queue[v]
      /\ Range(request_queue'[w]) = Range(request_queue[w]) \cup {Sentinel}
  BY <1>1, BehindAppend
<1>4. request_queue \in [Workers -> Seq(Requests \cup {Sentinel})]
  BY <1>1 DEF TypeOK
<1>5. OwnerInv'
  <2>1. request_queue' \in [Workers -> Seq(Requests \cup {Sentinel})]
    BY <1>1, <1>4
  <2> QED
    BY <1>1, <2>1, OwnersIgnoreWorkers DEF LifecycleInv, TypeOK
<1>6. \A r \in Requests, v \in Workers :
         r \in Range(request_queue'[v]) <=> r \in Range(request_queue[v])
  BY <1>3, WorkerAssumption
<1>7. WorkInv'
  <2>1. IsInjective(request_queue'[w])
    <3>1. request_queue[w] \in Seq(Requests \cup {Sentinel}) /\ IsInjective(request_queue[w])
      BY <1>4 DEF LifecycleInv, WorkInv
    <3>2. Sentinel \notin Range(request_queue[w])
      BY <1>1 DEF LifecycleInv, SentinelInv
    <3> QED
      BY <1>1, <1>4, <3>1, <3>2, AppendNew
  <2>2. \A v \in Workers : IsInjective(request_queue'[v])
    BY <1>3, <2>1 DEF LifecycleInv, WorkInv
  <2>3. ASSUME NEW r \in Requests PROVE OneWork(r)'
    <3>1. Places(r)' = Places(r)
      BY <1>1, <1>2, <1>6, PlacesStay
    <3> QED
      BY <1>1, <1>2, <3>1, Undisturbed DEF LifecycleInv, WorkInv
  <2> QED
    BY <2>2, <2>3 DEF WorkInv
<1>8. LifecycleTypeOK'
  BY <1>1, <1>5 DEF LifecycleInv, LifecycleTypeOK, OwnerInv
<1>9. StageInv'
  BY <1>1, <1>2 DEF LifecycleInv, StageInv, ConnectionsClosed, Stopping
<1>10. SentinelInv'
  <2>1. \A v \in Workers : Sentinel \in Range(request_queue'[v]) => v \in told'
    BY <1>1, <1>3 DEF LifecycleInv, SentinelInv
  <2>2. ASSUME NEW v \in Workers, NEW r \in Behind(v)' PROVE phase'[r] # "collecting"
    <3>1. r \in Requests
      BY DEF Behind
    <3>2. r \in Behind(v)
      BY <1>3, <3>1, WorkerAssumption
    <3> QED
      BY <1>2, <3>2 DEF LifecycleInv, SentinelInv
  <2>3. left' \subseteq Workers
    BY <1>8 DEF LifecycleTypeOK
  <2>4. ASSUME NEW v \in left', NEW r \in Requests, r \in Range(request_queue'[v])
        PROVE  phase'[r] # "collecting"
    BY <1>1, <1>2, <1>6, <2>3, <2>4 DEF LifecycleInv, SentinelInv
  <2> QED
    BY <2>1, <2>2, <2>4 DEF SentinelInv
<1>11. LeftNothingUnanswered'
  BY <1>1, <1>2 DEF LifecycleInv, LeftNothingUnanswered
<1> QED
  BY <1>5, <1>7, <1>8, <1>9, <1>10, <1>11 DEF LifecycleInv

\* The worker reads its sentinel.  A request whose owner reads and whose answer
\* is not there would be at this worker, and it is neither under way nor behind
\* the sentinel.
LEMMA LeaveStep ==
    ASSUME LifecycleInv, NEW w \in Workers, Leave(w)
    PROVE  LifecycleInv'
<1>1. /\ TypeOK /\ alive[w] /\ executing[w] = NoRequest
      /\ request_queue[w] # <<>> /\ Head(request_queue[w]) = Sentinel
      /\ request_queue' = [request_queue EXCEPT ![w] = Tail(@)]
      /\ alive' = [alive EXCEPT ![w] = FALSE]
      /\ left' = left \cup {w}
      /\ UNCHANGED <<executing, result_queue, queueVars, dispatcherVars>>
      /\ UNCHANGED <<stage, told, joined, revoked>>
  BY DEF Leave, WorkerLeaves, LifecycleInv, OwnerInv
<1>2. UNCHANGED <<phase, answer, handle>>
  BY <1>1 DEF queueVars, dispatcherVars
<1>3. /\ \A v \in Workers : Behind(v)' \subseteq Behind(v)
      /\ \A v \in Workers : Range(request_queue'[v]) \subseteq Range(request_queue[v])
      /\ \A r \in Requests : r \in Range(request_queue'[w]) => r \in Behind(w)
  BY <1>1, BehindTail
<1>4. /\ request_queue \in [Workers -> Seq(Requests \cup {Sentinel})]
      /\ alive \in [Workers -> BOOLEAN]
  BY <1>1 DEF TypeOK
<1>5. /\ Tail(request_queue[w]) \in Seq(Requests \cup {Sentinel})
      /\ IsInjective(Tail(request_queue[w]))
      /\ Sentinel \in Range(request_queue[w])
      /\ Range(Tail(request_queue[w])) = Range(request_queue[w]) \ {Sentinel}
  <2>1. request_queue[w] \in Seq(Requests \cup {Sentinel}) /\ IsInjective(request_queue[w])
    BY <1>4 DEF LifecycleInv, WorkInv
  <2> QED
    BY <1>1, <2>1, TakeFirst
<1>6. OwnerInv'
  <2>1. /\ request_queue' \in [Workers -> Seq(Requests \cup {Sentinel})]
        /\ alive' \in [Workers -> BOOLEAN]
    BY <1>1, <1>4, <1>5
  <2> QED
    BY <1>1, <2>1, OwnersIgnoreWorkers DEF LifecycleInv, TypeOK
<1>7. \A r \in Requests, v \in Workers :
         r \in Range(request_queue'[v]) <=> r \in Range(request_queue[v])
  BY <1>1, <1>4, <1>5, WorkerAssumption
<1>8. \A v \in Workers : alive'[v] => alive[v] /\ v # w
  BY <1>1, <1>4
<1>9. WorkInv'
  <2>1. \A v \in Workers : IsInjective(request_queue'[v])
    BY <1>1, <1>4, <1>5 DEF LifecycleInv, WorkInv
  <2>2. ASSUME NEW r \in Requests PROVE OneWork(r)'
    <3>1. Places(r)' = Places(r)
      BY <1>1, <1>2, <1>7, PlacesStay
    <3>2. alive'[handle[r]] => alive[handle[r]]
      BY <1>1, <1>4
    <3> QED
      BY <1>2, <3>1, <3>2, Undisturbed DEF LifecycleInv, WorkInv
  <2> QED
    BY <2>1, <2>2 DEF WorkInv
<1>10. LifecycleTypeOK'
  BY <1>1, <1>6 DEF LifecycleInv, LifecycleTypeOK, OwnerInv
<1>11. stage \in Stopping
  BY <1>5 DEF LifecycleInv, SentinelInv, StageInv
<1>12. StageInv'
  <2>1. \A v \in left' \cup joined' : ~alive'[v]
    BY <1>1, <1>8 DEF LifecycleInv, LifecycleTypeOK, StageInv
  <2> QED
    BY <1>1, <1>2, <1>11, <2>1 DEF LifecycleInv, StageInv, ConnectionsClosed
<1>13. SentinelInv'
  <2>1. \A v \in Workers : Sentinel \in Range(request_queue'[v]) => v \in told'
    BY <1>1, <1>3 DEF LifecycleInv, SentinelInv
  <2>2. \A v \in Workers : \A r \in Behind(v)' : phase'[r] # "collecting"
    BY <1>2, <1>3 DEF LifecycleInv, SentinelInv
  <2>3. ASSUME NEW v \in left', NEW r \in Requests, r \in Range(request_queue'[v])
        PROVE  phase'[r] # "collecting"
    <3>1. CASE v = w
      BY <1>2, <1>3, <2>3, <3>1 DEF LifecycleInv, SentinelInv
    <3>2. CASE v \in left
      BY <1>2, <1>7, <2>3, <3>2 DEF LifecycleInv, LifecycleTypeOK, SentinelInv
    <3> QED
      BY <1>1, <3>1, <3>2
  <2> QED
    BY <2>1, <2>2, <2>3 DEF SentinelInv
<1>14. ASSUME NEW r \in Requests, handle[r] = w, phase[r] = "collecting"
       PROVE  HasAnswer(r)
  <2>1. OneWork(r)
    BY DEF LifecycleInv, WorkInv
  <2>2. PICK p \in Places(r) : TRUE
    BY <1>1, <1>14, <2>1 DEF OneWork, Waits
  <2>3. ASSUME NEW v \in Workers, p = <<"to do", v>>, r \in Range(request_queue[v])
        PROVE  FALSE
    <3>1. v = w
      BY <1>14, <2>1, <2>2, <2>3 DEF OneWork, AtWorker, Waits
    <3>2. r \in Behind(w)
      BY <1>3, <1>7, <2>3, <3>1
    <3> QED
      BY <1>14, <3>2 DEF LifecycleInv, SentinelInv
  <2>4. ASSUME NEW v \in Workers, p = <<"under way", v>>, executing[v] = r
        PROVE  FALSE
    <3>1. v = w
      BY <1>14, <2>1, <2>2, <2>4 DEF OneWork, AtWorker, Waits
    <3> QED
      BY <1>1, <2>4, <3>1, WorkerAssumption
  <2>5. answer[r] \notin FinalItems
    <3>1. answer[r] \in FinalItems => <<"read", answer[r]>> \in Places(r)
      BY PlacesOf
    <3> QED
      BY <1>14, <2>1, <3>1 DEF OneWork
  <2> QED
    BY <2>2, <2>3, <2>4, <2>5, PlaceKinds DEF HasAnswer
<1>15. LeftNothingUnanswered'
  BY <1>1, <1>2, <1>14 DEF LifecycleInv, LeftNothingUnanswered, HasAnswer
<1> QED
  BY <1>6, <1>9, <1>10, <1>12, <1>13, <1>15 DEF LifecycleInv

LEMMA JoinStep ==
    ASSUME LifecycleInv, NEW w \in Workers, Join(w)
    PROVE  LifecycleInv'
<1>1. /\ TypeOK /\ stage = "stopping"
      /\ joined' = joined \cup {w}
      /\ alive' = [alive EXCEPT ![w] = FALSE]
      /\ executing' = [executing EXCEPT ![w] = NoRequest]
      /\ UNCHANGED <<request_queue, result_queue, queueVars, dispatcherVars>>
      /\ UNCHANGED <<stage, told, left, revoked>>
  BY DEF Join, LifecycleInv, OwnerInv
<1>2. UNCHANGED <<phase, answer, handle>>
  BY <1>1 DEF queueVars, dispatcherVars
<1>3. alive \in [Workers -> BOOLEAN] /\ executing \in [Workers -> Requests \cup {NoRequest}]
  BY <1>1 DEF TypeOK
<1>4. OwnerInv'
  BY <1>1, <1>3, OwnersIgnoreWorkers DEF LifecycleInv, TypeOK
<1>5. WorkInv'
  BY <1>1, DeathOfWork DEF LifecycleInv
<1>6. LifecycleTypeOK'
  BY <1>1, <1>4 DEF LifecycleInv, LifecycleTypeOK, OwnerInv
<1>7. StageInv'
  BY <1>1, <1>2, <1>3 DEF LifecycleInv, LifecycleTypeOK, StageInv, ConnectionsClosed, Stopping
<1>8. \A v : Behind(v)' = Behind(v)
  BY <1>1, BehindStays
<1>9. SentinelInv'
  BY <1>1, <1>2, <1>8 DEF LifecycleInv, SentinelInv
<1>10. LeftNothingUnanswered'
  BY <1>1, <1>2 DEF LifecycleInv, LeftNothingUnanswered
<1> QED
  BY <1>4, <1>5, <1>6, <1>7, <1>9, <1>10 DEF LifecycleInv

\* With every worker gone, losing the result queues loses no work that counts.
LEMMA ManagerStep ==
    ASSUME LifecycleInv, StopManager
    PROVE  LifecycleInv'
<1>1. /\ TypeOK /\ stage = "stopping" /\ joined = Workers /\ stage' = "stopped"
      /\ result_queue' = [r \in Requests |-> <<>>]
      /\ UNCHANGED <<request_queue, executing, alive, queueVars, dispatcherVars>>
      /\ UNCHANGED <<told, joined, left, revoked>>
  BY DEF StopManager, LifecycleInv, OwnerInv
<1>2. UNCHANGED <<phase, answer, handle>>
  BY <1>1 DEF queueVars, dispatcherVars
<1>3. OwnerInv'
  BY <1>1, OwnersIgnoreWorkers DEF LifecycleInv, TypeOK
<1>4. WorkInv'
  <2>1. ASSUME NEW r \in Requests PROVE OneWork(r)'
    <3>1. OneWork(r)
      BY DEF LifecycleInv, WorkInv
    <3>2. Places(r)' \subseteq Places(r)
      <4>1. \A i \in DOMAIN result_queue'[r] : FALSE
        BY <1>1
      <4> QED
        BY <1>1, <1>2, <4>1 DEF Places
    <3>3. phase[r] \in Waits => ~alive'[handle'[r]]
      <4>1. phase[r] \in Waits => handle[r] \in Workers
        BY DEF LifecycleInv, OwnerInv, SlotsFollowOwners, InFlight, Waits, TypeOK, DispatcherTypeOK
      <4> QED
        BY <1>1, <1>2, <4>1 DEF LifecycleInv, StageInv
    <3> QED
      BY <1>2, <3>1, <3>2, <3>3 DEF OneWork, AtWorker
  <2> QED
    BY <1>1, <2>1 DEF LifecycleInv, WorkInv
<1>5. LifecycleTypeOK'
  BY <1>1, <1>3 DEF LifecycleInv, LifecycleTypeOK, OwnerInv
<1>6. StageInv'
  BY <1>1, <1>2 DEF LifecycleInv, StageInv, ConnectionsClosed, Stopping
<1>7. \A v : Behind(v)' = Behind(v)
  BY <1>1, BehindStays
<1>8. SentinelInv'
  BY <1>1, <1>2, <1>7 DEF LifecycleInv, SentinelInv
<1>9. LeftNothingUnanswered'
  BY <1>1 DEF LeftNothingUnanswered
<1> QED
  BY <1>3, <1>4, <1>5, <1>6, <1>8, <1>9 DEF LifecycleInv

LEMMA LifecycleStarts == LifecycleInit => LifecycleInv
<1> SUFFICES ASSUME LifecycleInit PROVE LifecycleInv
  OBVIOUS
<1>1. /\ Init /\ stage = "serving" /\ told = {} /\ joined = {} /\ left = {}
      /\ revoked = FALSE
  BY DEF LifecycleInit
<1>2. OwnerInv /\ WorkInv
  BY <1>1, OwnerInit, WorkInit
<1>3. LifecycleTypeOK /\ StageInv /\ LeftNothingUnanswered
  BY <1>1, <1>2 DEF LifecycleTypeOK, OwnerInv, StageInv, Stopping, LeftNothingUnanswered
<1>4. SentinelInv
  <2>1. \A w \in Workers : Range(request_queue[w]) = {} /\ Behind(w) = {}
    BY <1>1 DEF Init, WorkerInit, Range, Behind
  <2> QED
    BY <1>1, <2>1 DEF SentinelInv
<1> QED
  BY <1>2, <1>3, <1>4 DEF LifecycleInv

LEMMA LifecycleInvariant == LifecycleSpec => []LifecycleInv
<1>1. LifecycleInv /\ [LifecycleNext]_allVars => LifecycleInv'
  <2> SUFFICES ASSUME LifecycleInv, [LifecycleNext]_allVars PROVE LifecycleInv'
    OBVIOUS
  <2>1. CASE RequestPath
    BY <2>1, PathKeepsLifecycle
  <2>2. CASE Stop \/ CancelDrain \/ UNCHANGED allVars
    BY <2>2, StageSteps
  <2>3. CASE \E w \in Workers : Leave(w) \/ TellWorker(w) \/ Join(w)
    BY <2>3, LeaveStep, TellStep, JoinStep
  <2>4. CASE StopManager
    BY <2>4, ManagerStep
  <2> QED
    BY <2>1, <2>2, <2>3, <2>4 DEF LifecycleNext, ShutdownStep, RequestPath
<1> QED
  BY LifecycleStarts, <1>1, PTL DEF LifecycleSpec

\* The types, before, during and after the shutdown.
THEOREM LifecycleTypeCorrect == LifecycleSpec => []LifecycleTypeOK
<1>1. LifecycleInv => LifecycleTypeOK
  BY DEF LifecycleInv
<1> QED
  BY <1>1, LifecycleInvariant, PTL

\* Whoever reads when a worker reaches its sentinel finds his answer: the order
\* of the shutdown leaves nothing with an owner behind a sentinel.
THEOREM LeftNothingUnansweredHolds == LifecycleSpec => []LeftNothingUnanswered
<1>1. LifecycleInv => LeftNothingUnanswered
  BY DEF LifecycleInv
<1> QED
  BY <1>1, LifecycleInvariant, PTL

\* A shutdown that cuts the drain loop and the workers short at any point still
\* leaks no slot and has no work done or answered twice.
THEOREM ShutdownKeepsOrder == LifecycleSpec => [](SlotsFollowOwners /\ ExactlyOnce)
<1>1. LifecycleInv => SlotsFollowOwners /\ ExactlyOnce
  BY DEF LifecycleInv, OwnerInv, WorkInv, OneWork, ExactlyOnce, Early, Waits
<1> QED
  BY <1>1, LifecycleInvariant, PTL

-----------------------------------------------------------------------------
(* The shutdown as the dispatcher and the endpoints see it: not at all.     *)

\* Outside the request path nothing happens to queue, owners and slots.
LEMMA ShutdownOnlyTouchesWorkers ==
    ASSUME [LifecycleNext]_allVars, ~RequestPath
    PROVE  UNCHANGED <<queueVars, dispatcherVars>>
<1>1. CASE UNCHANGED allVars
  BY <1>1 DEF allVars, vars
<1>2. ASSUME NEW w \in Workers, Leave(w) \/ TellWorker(w) \/ Join(w)
      PROVE  UNCHANGED <<queueVars, dispatcherVars>>
  BY <1>2 DEF Leave, TellWorker, Join
<1>3. CASE Stop \/ CancelDrain \/ StopManager
  BY <1>3 DEF Stop, CancelDrain, StopManager, vars
<1> QED
  BY <1>1, <1>2, <1>3 DEF LifecycleNext, ShutdownStep, RequestPath

\* A shutdown at any time is, for the dispatcher, no step at all: its counters and
\* its Condition never see a state they do not see while the server serves.
THEOREM ShutdownRefinesDispatcher == LifecycleSpec => ImplementsDispatcher
<1>1. LifecycleInit => DispatcherInit
  BY DEF LifecycleInit, Init
<1>2. LifecycleInv /\ [LifecycleNext]_allVars => [DispatcherNext]_dispatcherVars
  <2> SUFFICES ASSUME LifecycleInv, [LifecycleNext]_allVars
               PROVE  [DispatcherNext]_dispatcherVars
    OBVIOUS
  <2>1. CASE RequestPath
    BY <2>1, PathIsNext, StepIsDispatcherStep DEF LifecycleInv, OwnerInv
  <2>2. CASE ~RequestPath
    BY <2>2, ShutdownOnlyTouchesWorkers
  <2> QED
    BY <2>1, <2>2
<1> QED
  BY <1>1, <1>2, LifecycleInvariant, PTL
     DEF LifecycleSpec, ImplementsDispatcher, DispatcherSpec

\* So the account of the slots stays balanced through a shutdown, and the drain
\* loop, as long as it runs, is not asleep while a worker is free.
THEOREM ShutdownKeepsAccount ==
    ASSUME UniqueIds
    PROVE  LifecycleSpec => [](SlotAccounting /\ NoLostWakeup)
BY ShutdownRefinesDispatcher, SlotAccountingHolds, NoLostWakeupHolds, PTL
   DEF ImplementsDispatcher

\* Seen from the endpoints the server is a bounded first-come first-served queue
\* up to its end: a shutdown ends no request, starts none and drops none out of
\* its place; it only stops serving the queue.
THEOREM ShutdownRefinesRequestQueue == LifecycleSpec => ImplementsRequestQueue
<1>1. LifecycleInit => Submission!RequestQueueInit
  BY QueueStartsEmpty DEF LifecycleInit
<1>2. LifecycleInv /\ [LifecycleNext]_allVars
        => [Submission!RequestQueueNext]_(Submission!requestQueueVars)
  <2> SUFFICES ASSUME LifecycleInv, [LifecycleNext]_allVars
               PROVE  [Submission!RequestQueueNext]_(Submission!requestQueueVars)
    OBVIOUS
  <2>1. CASE RequestPath
    BY <2>1, PathIsNext, StepIsQueueStep DEF LifecycleInv
  <2>2. CASE ~RequestPath
    BY <2>2, ShutdownOnlyTouchesWorkers
       DEF queueVars, Stage, Submission!requestQueueVars
  <2> QED
    BY <2>1, <2>2
<1> QED
  BY <1>1, <1>2, LifecycleInvariant, PTL
     DEF LifecycleSpec, ImplementsRequestQueue, Submission!RequestQueueSpec

\* Sentinels, terminated workers and the end of the manager lose work, and bring
\* none back.
LEMMA ShutdownLosesWork ==
    ASSUME LifecycleInv, [LifecycleNext]_allVars, ~RequestPath, NEW r \in Requests
    PROVE  WorkStage(r) <= WorkStage(r)'
<1>1. TypeOK /\ UNCHANGED phase /\ r # NoRequest /\ r # Sentinel
  BY ShutdownOnlyTouchesWorkers, WorkerAssumption DEF queueVars, LifecycleInv, OwnerInv
<1>2. \A w \in Workers : r \in Range(request_queue'[w]) => r \in Range(request_queue[w])
  <2>1. ASSUME NEW w \in Workers, TellWorker(w)
        PROVE  \A v \in Workers :
                  r \in Range(request_queue'[v]) => r \in Range(request_queue[v])
    <3>1. \A v \in Workers :
             Range(request_queue'[v]) \subseteq Range(request_queue[v]) \cup {Sentinel}
      BY <1>1, <2>1, BehindAppend DEF TellWorker
    <3> QED
      BY <1>1, <3>1
  <2>2. ASSUME NEW w \in Workers, Leave(w)
        PROVE  \A v \in Workers :
                  r \in Range(request_queue'[v]) => r \in Range(request_queue[v])
    BY <1>1, <2>2, BehindTail DEF Leave, WorkerLeaves
  <2>3. CASE ~(\E w \in Workers : TellWorker(w) \/ Leave(w))
    BY <2>3 DEF RequestPath, LifecycleNext, ShutdownStep, Stop, CancelDrain, Join,
                StopManager, allVars, vars, workerVars
  <2> QED
    BY <2>1, <2>2, <2>3
<1>3. \A w \in Workers : executing'[w] = r => executing[w] = r
  <2>1. executing' = executing \/ \E w \in Workers : executing' = [executing EXCEPT ![w] = NoRequest]
    BY DEF RequestPath, LifecycleNext, ShutdownStep, Stop, CancelDrain, TellWorker, Leave,
           WorkerLeaves, Join, StopManager, allVars, vars, workerVars
  <2> QED
    BY <1>1, <2>1 DEF TypeOK
<1>4. Answered(r)' => Answered(r)
  <2>1. CASE StopManager
    <3>1. \A i \in DOMAIN result_queue'[r] : FALSE
      BY <2>1 DEF StopManager
    <3> QED
      BY <3>1 DEF Answered
  <2>2. CASE ~StopManager
    <3>1. UNCHANGED result_queue
      BY <2>2 DEF RequestPath, LifecycleNext, ShutdownStep, Stop, CancelDrain, TellWorker,
                  Leave, WorkerLeaves, Join, allVars, vars, workerVars
    <3> QED
      BY <3>1 DEF Answered
  <2> QED
    BY <2>1, <2>2
<1> QED
  BY <1>1, <1>2, <1>3, <1>4, StagesCompared DEF InQueue, InHands

\* No worker begins a request a second time, through a shutdown either.
THEOREM ShutdownRepeatsNothing == LifecycleSpec => WorkOnlyMovesOn
<1> DEFINE MovesOn == \A r \in Requests : WorkStage(r) <= WorkStage(r)'
<1>1. ASSUME LifecycleInv, LifecycleNext, NEW r \in Requests
      PROVE  WorkStage(r) <= WorkStage(r)'
  <2>1. CASE RequestPath
    BY <1>1, <2>1, PathIsNext, OwnersOnlyMoveOn, WorkersOnlyMoveOn DEF LifecycleInv, Next
  <2>2. CASE ~RequestPath
    BY <1>1, <2>2, ShutdownLosesWork
  <2> QED
    BY <2>1, <2>2
<1>2. LifecycleInv /\ [LifecycleNext]_allVars => [MovesOn]_vars
  BY <1>1 DEF allVars
<1> QED
  BY <1>2, LifecycleInvariant, PTL DEF LifecycleSpec, WorkOnlyMovesOn

\* While anybody waits on a connection the drain loop runs, no sentinel is in a
\* queue and no worker was terminated: a shutdown drops jobs and nothing else.
THEOREM OnlyJobsAreDropped ==
    LifecycleSpec =>
        [](\A r \in Connected :
              phase[r] \notin Idle =>
                 /\ stage \in {"serving", "closing"} /\ joined = {} /\ left = {}
                 /\ \A w \in Workers : Sentinel \notin Range(request_queue[w]))
<1> DEFINE Served ==
      \A r \in Connected :
         phase[r] \notin Idle =>
            /\ stage \in {"serving", "closing"} /\ joined = {} /\ left = {}
            /\ \A w \in Workers : Sentinel \notin Range(request_queue[w])
<1>1. LifecycleInv => Served
  BY DEF LifecycleInv, LifecycleTypeOK, StageInv, SentinelInv, ConnectionsClosed, Stopping
<1> QED
  BY <1>1, LifecycleInvariant, PTL
=============================================================================
