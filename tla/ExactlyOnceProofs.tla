-------------------------- MODULE ExactlyOnceProofs ---------------------------
(***************************************************************************)
(* Proof that the work for a request is never in two places, on its way    *)
(* from the OS queue through the worker and the result queue to its owner. *)
(***************************************************************************)
EXTENDS QueueManagerProofs

-----------------------------------------------------------------------------
(* The invariant of one request, in terms of its places alone. *)

Early == {"new", "refused", "queued", "taken", "putting"}
Waits == {"delivered", "collecting"}

AtWorker(r, w) == <<"to do", w>> \in Places(r) \/ <<"under way", w>> \in Places(r)

(* What ExactlyOnce says of r, and where the work is while its owner waits: *)
(* with the worker whose slot the owner holds, and not read yet.  Without   *)
(* the former, the death of another worker could take the work along.      *)
OneWork(r) ==
    /\ \A p, q \in Places(r) : p = q
    /\ phase[r] \in Waits /\ alive[handle[r]] => Places(r) # {}
    /\ phase[r] \in Early => Places(r) = {}
    /\ \A a \in FinalItems : <<"read", a>> \in Places(r) => phase[r] = "done"
    /\ phase[r] \in Waits => \A w \in Workers : AtWorker(r, w) => handle[r] = w

WorkInv ==
    /\ \A w \in Workers : IsInjective(request_queue[w])
    /\ \A r \in Requests : OneWork(r)

\* The four kinds of places are different.
LEMMA PlaceKinds ==
    ASSUME NEW r, NEW p
    PROVE  p \in Places(r) <=>
              \/ \E w \in Workers : p = <<"to do", w>> /\ r \in Range(request_queue[w])
              \/ \E w \in Workers : p = <<"under way", w>> /\ executing[w] = r
              \/ \E i \in DOMAIN result_queue[r] :
                    p = <<"answered", i>> /\ result_queue[r][i] \in FinalItems
              \/ answer[r] \in FinalItems /\ p = <<"read", answer[r]>>
BY DEF Places

LEMMA PlaceTags ==
    /\ \A v, w : <<"to do", v>> = <<"to do", w>> => v = w
    /\ \A v, w : <<"under way", v>> = <<"under way", w>> => v = w
    /\ \A i, j : <<"answered", i>> = <<"answered", j>> => i = j
    /\ \A v, w : <<"to do", v>> # <<"under way", w>>
    /\ \A v, i : <<"to do", v>> # <<"answered", i>>
    /\ \A v, a : <<"to do", v>> # <<"read", a>>
    /\ \A v, i : <<"under way", v>> # <<"answered", i>>
    /\ \A v, a : <<"under way", v>> # <<"read", a>>
    /\ \A i, a : <<"answered", i>> # <<"read", a>>
OBVIOUS

LEMMA PlacesOf ==
    ASSUME NEW r
    PROVE  /\ \A w : <<"to do", w>> \in Places(r)
                        <=> w \in Workers /\ r \in Range(request_queue[w])
           /\ \A w : <<"under way", w>> \in Places(r)
                        <=> w \in Workers /\ executing[w] = r
           /\ \A i : <<"answered", i>> \in Places(r)
                        <=> i \in DOMAIN result_queue[r] /\ result_queue[r][i] \in FinalItems
           /\ \A a : <<"read", a>> \in Places(r) <=> a \in FinalItems /\ answer[r] = a
BY DEF Places

\* A step that moves none of the work for r.
LEMMA PlacesStay ==
    ASSUME NEW r,
           \A w \in Workers : r \in Range(request_queue'[w]) <=> r \in Range(request_queue[w]),
           \A w \in Workers : executing'[w] = r <=> executing[w] = r,
           result_queue'[r] = result_queue[r],
           \/ answer'[r] = answer[r]
           \/ answer[r] \notin FinalItems /\ answer'[r] \notin FinalItems
    PROVE  Places(r)' = Places(r)
<1>1. {v \in Workers : r \in Range(request_queue'[v])} = {v \in Workers : r \in Range(request_queue[v])}
  OBVIOUS
<1>2. {v \in Workers : executing'[v] = r} = {v \in Workers : executing[v] = r}
  OBVIOUS
<1>3. {answer'[r]} \cap FinalItems = {answer[r]} \cap FinalItems
  OBVIOUS
<1> QED
  BY <1>1, <1>2, <1>3 DEF Places

\* A step that moves neither r nor its work.
LEMMA Undisturbed ==
    ASSUME NEW r \in Requests, OneWork(r), Places(r)' = Places(r),
           phase'[r] = phase[r], handle'[r] = handle[r],
           alive'[handle[r]] => alive[handle[r]]
    PROVE  OneWork(r)'
BY DEF OneWork, AtWorker

(* Steps that leave workers and result queues alone. *)
LEMMA OwnersMove ==
    ASSUME WorkInv, UNCHANGED <<workerVars, answer>>,
           \A q \in Requests :
              \/ phase'[q] = phase[q] /\ handle'[q] = handle[q]
              \/ phase[q] \in Early /\ phase'[q] \in Early
              \/ /\ phase[q] = "delivered" /\ phase'[q] = "collecting"
                 /\ handle'[q] = handle[q]
    PROVE  WorkInv'
<1>1. UNCHANGED <<request_queue, executing, alive, result_queue, answer>>
  BY DEF workerVars
<1>2. ASSUME NEW q \in Requests PROVE Places(q)' = Places(q)
  BY <1>1, PlacesStay
<1>3. ASSUME NEW q \in Requests PROVE OneWork(q)'
  <2>1. OneWork(q) /\ Places(q)' = Places(q)
    BY <1>2 DEF WorkInv
  <2>2. CASE phase'[q] = phase[q] /\ handle'[q] = handle[q]
    BY <1>1, <2>1, <2>2, Undisturbed
  <2>3. CASE phase[q] \in Early /\ phase'[q] \in Early
    BY <2>1, <2>3 DEF OneWork, AtWorker, Early, Waits
  <2>4. CASE /\ phase[q] = "delivered" /\ phase'[q] = "collecting"
             /\ handle'[q] = handle[q]
    BY <1>1, <2>1, <2>4 DEF OneWork, AtWorker, Early, Waits
  <2> QED
    BY <2>2, <2>3, <2>4
<1>4. \A w \in Workers : IsInjective(request_queue'[w])
  BY <1>1 DEF WorkInv
<1> QED
  BY <1>3, <1>4 DEF WorkInv

\* Submission and the drain loop do.
LEMMA EarlySteps ==
    ASSUME OwnerInv, WorkInv, NEW r \in Requests,
           \/ Accept(r) \/ Refuse(r) \/ StartLatents(r)
           \/ LatentsHandOver(r) \/ DrainStep
    PROVE  WorkInv'
<1>1. TypeOK /\ DispatcherTypeOK /\ SlotsFollowOwners /\ WaitingOnce
  BY DEF OwnerInv, TypeOK
<1>2. phase \in [Requests -> Phases] /\ handle \in [Requests -> Workers \cup {NoWorker}]
  BY <1>1 DEF TypeOK, DispatcherTypeOK
<1>3. CASE Accept(r) \/ Refuse(r)
  <2>1. /\ UNCHANGED <<workerVars, answer, handle>> /\ phase[r] = "new"
        /\ \E p \in Early : phase' = [phase EXCEPT ![r] = p]
    BY <1>3 DEF Accept, Refuse, SetPhase, dispatcherVars, Early
  <2> QED
    BY <1>2, <2>1, OwnersMove DEF Early
<1>4. ASSUME NEW q \in Requests, phase[q] \in Early, phase' = [phase EXCEPT ![q] = "putting"],
             Assign(q), UNCHANGED <<workerVars, answer>>
      PROVE  WorkInv'
  <2>1. \A o \in Requests : o # q => handle'[o] = handle[o]
    BY <1>2, <1>4 DEF Assign
  <2> QED
    BY <1>2, <1>4, <2>1, OwnersMove DEF Early
<1>5. CASE StartLatents(r)
  BY <1>4, <1>5 DEF StartLatents, DispatchLatents, SetPhase, Early
<1>6. ASSUME NEW q \in Requests, phase[q] = "delivered",
             phase' = [phase EXCEPT ![q] = "collecting"],
             UNCHANGED <<workerVars, answer, handle>>
      PROVE  WorkInv'
  BY <1>2, <1>6, OwnersMove
<1>7. CASE LatentsHandOver(r)
  BY <1>6, <1>7 DEF LatentsHandOver, SetPhase, dispatcherVars
<1>8. CASE DrainTake
  <2> DEFINE q == Head(queue)
  <2>1. q \in Requests /\ phase[q] = "queued"
    BY <1>1, <1>8, QueueHead DEF DrainTake
  <2>2. UNCHANGED <<workerVars, answer>>
    BY <1>8 DEF DrainTake
  <2>3. CASE Park /\ SetPhase(q, "taken")
    <3>1. UNCHANGED handle /\ phase' = [phase EXCEPT ![q] = "taken"]
      BY <2>3 DEF Park, SetPhase
    <3> QED
      BY <1>2, <2>1, <2>2, <3>1, OwnersMove DEF Early
  <2>4. CASE DispatchQueued(q) /\ SetPhase(q, "putting")
    BY <1>4, <2>1, <2>2, <2>4 DEF DispatchQueued, SetPhase, Early
  <2> QED
    BY <1>8, <2>3, <2>4 DEF DrainTake
<1>9. CASE DrainWake
  <2>1. drain \in Requests /\ phase[drain] = "taken"
    BY <1>1, <1>9, KindsAreRequests DEF DrainWake, SlotsFollowOwners, TypeOK
  <2>2. UNCHANGED <<workerVars, answer>>
    BY <1>9 DEF DrainWake
  <2>3. CASE Park /\ UNCHANGED phase
    BY <2>2, <2>3, OwnersMove DEF Park
  <2>4. CASE DispatchQueued(drain) /\ SetPhase(drain, "putting")
    BY <1>4, <2>1, <2>2, <2>4 DEF DispatchQueued, SetPhase, Early
  <2> QED
    BY <1>9, <2>3, <2>4 DEF DrainWake
<1>10. CASE DrainHandOver
  <2>1. drain \in Requests
    BY <1>1, <1>10, KindsAreRequests DEF DrainHandOver, TypeOK
  <2> QED
    BY <1>6, <1>10, <2>1 DEF DrainHandOver, SetPhase, dispatcherVars
<1> QED
  BY <1>3, <1>5, <1>7, <1>8, <1>9, <1>10 DEF DrainStep

-----------------------------------------------------------------------------
(* The work moves on. *)

\* An executor thread puts r into the queue of the worker it was given.
LEMMA PutWork ==
    ASSUME OwnerInv, WorkInv, NEW r \in Requests, ExecutorPut(r)
    PROVE  WorkInv'
<1> DEFINE v == handle[r]
<1>1. /\ phase \in [Requests -> Phases] /\ phase[r] = "putting"
      /\ phase' = [phase EXCEPT ![r] = "delivered"]
      /\ request_queue \in [Workers -> Seq(Requests \cup {Sentinel})]
      /\ request_queue' = [request_queue EXCEPT ![v] = Append(@, r)]
      /\ UNCHANGED <<answer, handle, executing, alive, result_queue>>
  BY DEF ExecutorPut, SetPhase, OwnerInv, TypeOK, dispatcherVars
<1>2. v \in Workers
  BY <1>1 DEF OwnerInv, SlotsFollowOwners, InFlight, TypeOK, DispatcherTypeOK
<1> HIDE DEF v
<1>3. OneWork(r) /\ Places(r) = {}
  BY <1>1 DEF WorkInv, OneWork, Early
<1>4. \A w \in Workers : r \notin Range(request_queue[w])
  BY <1>3, PlacesOf
<1>5. /\ IsInjective(request_queue'[v])
      /\ Range(request_queue'[v]) = Range(request_queue[v]) \cup {r}
      /\ \A w \in Workers : w # v => request_queue'[w] = request_queue[w]
  <2>1. request_queue[v] \in Seq(Requests \cup {Sentinel}) /\ IsInjective(request_queue[v])
    BY <1>1, <1>2 DEF WorkInv
  <2>2. /\ IsInjective(Append(request_queue[v], r))
        /\ Range(Append(request_queue[v], r)) = Range(request_queue[v]) \cup {r}
    BY <1>2, <1>4, <2>1, AppendNew
  <2> QED
    BY <1>1, <1>2, <2>2
<1>6. \A w \in Workers : IsInjective(request_queue'[w])
  BY <1>5 DEF WorkInv
<1>7. OneWork(r)'
  <2>1. Places(r)' = {<<"to do", v>>}
    <3>1. \A w \in Workers : r \in Range(request_queue'[w]) <=> w = v
      BY <1>2, <1>4, <1>5
    <3>2. /\ \A w \in Workers : executing'[w] # r
          /\ \A i \in DOMAIN result_queue'[r] : result_queue'[r][i] \notin FinalItems
          /\ answer'[r] \notin FinalItems
      BY <1>1, <1>3, PlacesOf
    <3> QED
      BY <1>2, <3>1, <3>2 DEF Places
  <2>2. phase'[r] = "delivered" /\ handle'[r] = v
    BY <1>1 DEF v
  <2>3. ASSUME NEW w \in Workers, AtWorker(r, w)' PROVE w = v
    <3>1. <<"to do", w>> = <<"to do", v>> \/ <<"under way", w>> = <<"to do", v>>
      BY <2>1, <2>3 DEF AtWorker
    <3> QED
      BY <3>1, PlaceTags
  <2>4. \A a : <<"read", a>> \notin Places(r)'
    BY <2>1, PlaceTags
  <2>5. Places(r)' # {} /\ \A x, y \in Places(r)' : x = y
    BY <2>1
  <2> QED
    BY <2>2, <2>3, <2>4, <2>5 DEF OneWork, Early, Waits
<1>8. ASSUME NEW q \in Requests, q # r PROVE OneWork(q)'
  <2>1. \A w \in Workers : q \in Range(request_queue'[w]) <=> q \in Range(request_queue[w])
    BY <1>5, <1>8
  <2>2. Places(q)' = Places(q)
    BY <1>1, <2>1, PlacesStay
  <2> QED
    BY <1>1, <1>8, <2>2, Undisturbed DEF WorkInv
<1> QED
  BY <1>6, <1>7, <1>8 DEF WorkInv

\* An owner reads the item at the head of its result queue.
LEMMA ReadShifts ==
    ASSUME OwnerInv, NEW r \in Requests, Read(r)
    PROVE  /\ phase[r] = "collecting"
           /\ UNCHANGED <<request_queue, executing, alive>>
           /\ result_queue' = [result_queue EXCEPT ![r] = Tail(@)]
           /\ DOMAIN result_queue[r] \subseteq Nat \ {0}
           /\ 1 \in DOMAIN result_queue[r] /\ Head(result_queue[r]) = result_queue[r][1]
           /\ \A i \in Nat \ {0} :
                /\ i \in DOMAIN result_queue'[r] <=> i + 1 \in DOMAIN result_queue[r]
                /\ i \in DOMAIN result_queue'[r] => result_queue'[r][i] = result_queue[r][i + 1]
           /\ DOMAIN result_queue'[r] \subseteq Nat \ {0}
<1>1. result_queue \in [Requests -> Seq(Items)] /\ result_queue[r] # <<>>
  BY DEF Read, OwnerInv, TypeOK
<1>2. result_queue' = [result_queue EXCEPT ![r] = Tail(@)]
  BY DEF Read
<1>3. result_queue[r] \in Seq(Items) /\ result_queue'[r] = Tail(result_queue[r])
  BY <1>1, <1>2
<1>4. /\ Len(result_queue[r]) \in Nat \ {0}
      /\ DOMAIN result_queue[r] = 1 .. Len(result_queue[r])
      /\ DOMAIN result_queue'[r] = 1 .. (Len(result_queue[r]) - 1)
      /\ \A i \in 1 .. (Len(result_queue[r]) - 1) :
            result_queue'[r][i] = result_queue[r][i + 1]
      /\ Head(result_queue[r]) = result_queue[r][1]
  BY <1>1, <1>3
<1> QED
  BY <1>2, <1>4 DEF Read

\* The places of r when the owner reads on with no final item read.
LEMMA ChunkRead ==
    ASSUME OwnerInv, NEW r \in Requests, OneWork(r), Read(r),
           Head(result_queue[r]) = "chunk", answer'[r] \notin FinalItems
    PROVE  /\ \A p, q \in Places(r)' : p = q
           /\ Places(r) # {} => Places(r)' # {}
           /\ \A w \in Workers : AtWorker(r, w)' <=> AtWorker(r, w)
<1>1. /\ UNCHANGED <<request_queue, executing>>
      /\ \A i \in Nat \ {0} :
           /\ i \in DOMAIN result_queue'[r] <=> i + 1 \in DOMAIN result_queue[r]
           /\ i \in DOMAIN result_queue'[r] => result_queue'[r][i] = result_queue[r][i + 1]
      /\ DOMAIN result_queue'[r] \subseteq Nat \ {0}
      /\ DOMAIN result_queue[r] \subseteq Nat \ {0}
      /\ result_queue[r][1] = "chunk" /\ phase[r] = "collecting"
  BY ReadShifts
<1>2. answer[r] \notin FinalItems
  BY <1>1, PlacesOf DEF OneWork
<1>3. \A w : /\ <<"to do", w>> \in Places(r)' <=> <<"to do", w>> \in Places(r)
             /\ <<"under way", w>> \in Places(r)' <=> <<"under way", w>> \in Places(r)
  BY <1>1, PlacesOf DEF Places
<1>4. \A i \in Nat \ {0} :
         <<"answered", i>> \in Places(r)' <=> <<"answered", i + 1>> \in Places(r)
  BY <1>1, PlacesOf DEF Places
<1>5. \A p \in Places(r)' :
         \/ \E w \in Workers : p = <<"to do", w>>
         \/ \E w \in Workers : p = <<"under way", w>>
         \/ \E i \in Nat \ {0} : p = <<"answered", i>>
  BY <1>1 DEF Places
<1>6. \A p \in Places(r) :
         \/ \E w \in Workers : p = <<"to do", w>>
         \/ \E w \in Workers : p = <<"under way", w>>
         \/ \E i \in Nat \ {0} : p = <<"answered", i + 1>>
  <2>1. "chunk" \notin FinalItems
    BY DEF FinalItems
  <2>2. ASSUME NEW i \in DOMAIN result_queue[r], result_queue[r][i] \in FinalItems
        PROVE  \E j \in Nat \ {0} : i = j + 1
    <3>1. i - 1 \in Nat \ {0} /\ i = (i - 1) + 1
      BY <1>1, <2>1, <2>2
    <3> QED
      BY <3>1
  <2> SUFFICES ASSUME NEW p \in Places(r),
                      NEW i \in DOMAIN result_queue[r], p = <<"answered", i>>,
                      result_queue[r][i] \in FinalItems
               PROVE  \E j \in Nat \ {0} : p = <<"answered", j + 1>>
    BY <1>2, PlaceKinds
  <2> QED
    BY <2>2
<1>7. \A p, q \in Places(r)' : p = q
  <2> SUFFICES ASSUME NEW p \in Places(r)', NEW q \in Places(r)' PROVE p = q
    OBVIOUS
  <2>1. \A x, y \in Places(r) : x = y
    BY DEF OneWork
  <2>2. ASSUME NEW i \in Nat \ {0}, p = <<"answered", i>> PROVE p = q
    <3>1. <<"answered", i + 1>> \in Places(r)
      BY <1>4, <2>2
    <3>2. PICK j \in Nat \ {0} : q = <<"answered", j>>
      BY <1>3, <1>5, <2>1, <3>1
    <3>3. <<"answered", j + 1>> \in Places(r)
      BY <1>4, <3>2
    <3>4. i + 1 = j + 1
      BY <2>1, <3>1, <3>3
    <3> QED
      BY <2>2, <3>2, <3>4
  <2>3. ASSUME p \in Places(r) PROVE p = q
    <3>1. CASE q \in Places(r)
      BY <2>1, <2>3, <3>1
    <3>2. CASE q \notin Places(r)
      <4>1. PICK j \in Nat \ {0} : q = <<"answered", j>>
        BY <1>3, <1>5, <3>2
      <4>2. <<"answered", j + 1>> \in Places(r)
        BY <1>4, <4>1
      <4>3. p = <<"answered", j + 1>>
        BY <2>1, <2>3, <4>2
      <4> QED
        BY <2>2, <4>3
    <3> QED
      BY <3>1, <3>2
  <2> QED
    BY <1>3, <1>5, <2>2, <2>3
<1>8. Places(r) # {} => Places(r)' # {}
  BY <1>3, <1>4, <1>6
<1>9. \A w \in Workers : AtWorker(r, w)' <=> AtWorker(r, w)
  BY <1>3 DEF AtWorker
<1> QED
  BY <1>7, <1>8, <1>9

\* The other requests do not notice.
LEMMA OthersStay ==
    ASSUME WorkInv, NEW r \in Requests, NEW q \in Requests, q # r,
           UNCHANGED <<request_queue, executing, alive>>,
           result_queue'[q] = result_queue[q], answer'[q] = answer[q],
           phase'[q] = phase[q], handle'[q] = handle[q]
    PROVE  OneWork(q)'
<1>1. Places(q)' = Places(q)
  BY PlacesStay
<1> QED
  BY <1>1, Undisturbed DEF WorkInv

LEMMA DoneIsDone ==
    ASSUME NEW r \in Requests, phase'[r] = "done", \A p, q \in Places(r)' : p = q
    PROVE  OneWork(r)'
BY DEF OneWork, Early, Waits

LEMMA OwnerStepWork ==
    ASSUME OwnerInv, WorkInv, NEW r \in Requests, OwnerStep(r)
    PROVE  WorkInv'
<1>1. /\ phase \in [Requests -> Phases] /\ answer \in [Requests -> Answers]
      /\ handle \in [Requests -> Workers \cup {NoWorker}]
      /\ result_queue \in [Requests -> Seq(Items)]
  BY DEF OwnerInv, TypeOK, DispatcherTypeOK
<1>2. OneWork(r) /\ \A w \in Workers : IsInjective(request_queue[w])
  BY DEF WorkInv
<1>3. ASSUME UNCHANGED <<request_queue, executing, alive>>,
             \A q \in Requests : q # r =>
                /\ result_queue'[q] = result_queue[q] /\ answer'[q] = answer[q]
                /\ phase'[q] = phase[q] /\ handle'[q] = handle[q],
             OneWork(r)'
      PROVE  WorkInv'
  BY <1>2, <1>3, OthersStay DEF WorkInv
<1>4. ASSUME NEW outcome, End(r, outcome)
      PROVE  /\ phase'[r] = "done" /\ answer'[r] = outcome
             /\ \A q \in Requests : q # r =>
                  /\ phase'[q] = phase[q] /\ handle'[q] = handle[q]
                  /\ answer'[q] = answer[q]
  BY <1>1, <1>4 DEF End, Release, SetPhase
<1>5. CASE SendChunk(r)
  <2>1. Read(r) /\ Head(result_queue[r]) = "chunk" /\ UNCHANGED <<phase, answer, handle>>
    BY <1>5 DEF SendChunk, queueVars, dispatcherVars
  <2>2. /\ phase[r] = "collecting" /\ UNCHANGED <<request_queue, executing, alive>>
        /\ result_queue' = [result_queue EXCEPT ![r] = Tail(@)]
    BY <2>1 DEF Read
  <2>3. answer[r] \notin FinalItems
    BY <1>2, <2>2, PlacesOf DEF OneWork
  <2>4. /\ \A p, q \in Places(r)' : p = q
        /\ Places(r) # {} => Places(r)' # {}
        /\ \A w \in Workers : AtWorker(r, w)' <=> AtWorker(r, w)
    BY <1>2, <2>1, <2>3, ChunkRead
  <2>5. \A a \in FinalItems : <<"read", a>> \notin Places(r)'
    BY <2>1, <2>3, PlacesOf DEF Places
  <2>6. OneWork(r)'
    BY <1>2, <2>1, <2>2, <2>4, <2>5 DEF OneWork, Early, Waits
  <2> QED
    BY <1>1, <1>3, <2>1, <2>2, <2>6
<1>6. CASE ClientGone(r)
  <2>1. Read(r) /\ Head(result_queue[r]) = "chunk" /\ End(r, "gone")
    BY <1>6 DEF ClientGone
  <2>2. /\ UNCHANGED <<request_queue, executing, alive>>
        /\ result_queue' = [result_queue EXCEPT ![r] = Tail(@)]
    BY <2>1 DEF Read
  <2>3. answer'[r] \notin FinalItems
    BY <1>4, <2>1 DEF FinalItems
  <2>4. OneWork(r)'
    BY <1>2, <1>4, <2>1, <2>3, ChunkRead, DoneIsDone
  <2> QED
    BY <1>1, <1>3, <1>4, <2>1, <2>2, <2>4
<1>7. CASE ReadFinal(r)
  <2> DEFINE a == Head(result_queue[r])
  <2>1. Read(r) /\ a \in FinalItems /\ End(r, a)
    BY <1>7 DEF ReadFinal
  <2>2. /\ UNCHANGED <<request_queue, executing, alive>>
        /\ result_queue' = [result_queue EXCEPT ![r] = Tail(@)]
        /\ 1 \in DOMAIN result_queue[r] /\ result_queue[r][1] = a
        /\ \A i \in DOMAIN result_queue'[r] :
              /\ i \in Nat \ {0} /\ i + 1 \in DOMAIN result_queue[r]
              /\ result_queue'[r][i] = result_queue[r][i + 1]
    BY <2>1, ReadShifts
  <2> HIDE DEF a
  <2>3. <<"answered", 1>> \in Places(r)
    BY <2>1, <2>2, PlacesOf
  <2>4. \A p \in Places(r) : p = <<"answered", 1>>
    BY <1>2, <2>3 DEF OneWork
  <2>5. \A w \in Workers : r \notin Range(request_queue'[w]) /\ executing'[w] # r
    <3>1. \A w : <<"to do", w>> \notin Places(r) /\ <<"under way", w>> \notin Places(r)
      BY <2>4, PlaceTags
    <3> QED
      BY <2>2, <3>1, PlacesOf
  <2>6. ASSUME NEW i \in DOMAIN result_queue'[r] PROVE result_queue'[r][i] \notin FinalItems
    <3>1. i \in Nat \ {0} /\ i + 1 # 1
      BY <2>2
    <3>2. <<"answered", i + 1>> \notin Places(r)
      BY <2>4, <3>1, PlaceTags
    <3> QED
      BY <2>2, <3>2, PlacesOf
  <2>7. Places(r)' = {<<"read", answer'[r]>>} \/ Places(r)' = {}
    BY <2>5, <2>6 DEF Places
  <2>8. OneWork(r)'
    BY <1>4, <2>1, <2>7, DoneIsDone
  <2> QED
    BY <1>1, <1>3, <1>4, <2>1, <2>2, <2>8
<1>8. CASE Timeout(r) \/ ReadBroken(r)
  <2>1. PICK outcome \in {"timeout", "broken"} : End(r, outcome)
    BY <1>8 DEF Timeout, ReadBroken
  <2>2. phase[r] = "collecting" /\ UNCHANGED <<request_queue, executing, alive, result_queue>>
    BY <1>8 DEF Timeout, ReadBroken, workerVars
  <2>3. answer[r] \notin FinalItems /\ answer'[r] \notin FinalItems
    <3>1. answer[r] \notin FinalItems
      BY <1>2, <2>2, PlacesOf DEF OneWork
    <3> QED
      BY <1>4, <2>1, <3>1 DEF FinalItems
  <2>4. Places(r)' = Places(r)
    BY <2>2, <2>3, PlacesStay
  <2>5. OneWork(r)'
    BY <1>2, <1>4, <2>1, <2>4, DoneIsDone DEF OneWork
  <2> QED
    BY <1>3, <1>4, <2>1, <2>2, <2>5
<1> QED
  BY <1>5, <1>6, <1>7, <1>8 DEF OwnerStep, Collect

(* What it means that the work is with a worker. *)

LEMMA OnlyToDo ==
    ASSUME NEW r, NEW w \in Workers, <<"to do", w>> \in Places(r),
           \A p, q \in Places(r) : p = q
    PROVE  /\ \A v \in Workers : r \in Range(request_queue[v]) => v = w
           /\ \A v \in Workers : executing[v] # r
           /\ \A i \in DOMAIN result_queue[r] : result_queue[r][i] \notin FinalItems
           /\ answer[r] \notin FinalItems
<1>1. \A p \in Places(r) : p = <<"to do", w>>
  OBVIOUS
<1>2. ASSUME NEW v \in Workers, r \in Range(request_queue[v]) PROVE v = w
  BY <1>1, <1>2, PlacesOf, PlaceTags
<1>3. ASSUME NEW v \in Workers, executing[v] = r PROVE FALSE
  BY <1>1, <1>3, PlacesOf, PlaceTags
<1>4. ASSUME NEW i \in DOMAIN result_queue[r], result_queue[r][i] \in FinalItems
      PROVE  FALSE
  <2>1. <<"answered", i>> \in Places(r)
    BY <1>4, PlacesOf
  <2> QED
    BY <1>1, <2>1, PlaceTags
<1>5. ASSUME answer[r] \in FinalItems PROVE FALSE
  <2>1. <<"read", answer[r]>> \in Places(r)
    BY <1>5, PlacesOf
  <2> QED
    BY <1>1, <2>1, PlaceTags
<1> QED
  BY <1>2, <1>3, <1>4, <1>5

LEMMA OnlyUnderWay ==
    ASSUME NEW r, NEW w \in Workers, <<"under way", w>> \in Places(r),
           \A p, q \in Places(r) : p = q
    PROVE  /\ \A v \in Workers : r \notin Range(request_queue[v])
           /\ \A v \in Workers : executing[v] = r => v = w
           /\ \A i \in DOMAIN result_queue[r] : result_queue[r][i] \notin FinalItems
           /\ answer[r] \notin FinalItems
<1>1. \A p \in Places(r) : p = <<"under way", w>>
  OBVIOUS
<1>2. ASSUME NEW v \in Workers, r \in Range(request_queue[v]) PROVE FALSE
  BY <1>1, <1>2, PlacesOf, PlaceTags
<1>3. ASSUME NEW v \in Workers, executing[v] = r PROVE v = w
  BY <1>1, <1>3, PlacesOf, PlaceTags
<1>4. ASSUME NEW i \in DOMAIN result_queue[r], result_queue[r][i] \in FinalItems
      PROVE  FALSE
  <2>1. <<"answered", i>> \in Places(r)
    BY <1>4, PlacesOf
  <2> QED
    BY <1>1, <2>1, PlaceTags
<1>5. ASSUME answer[r] \in FinalItems PROVE FALSE
  <2>1. <<"read", answer[r]>> \in Places(r)
    BY <1>5, PlacesOf
  <2> QED
    BY <1>1, <2>1, PlaceTags
<1> QED
  BY <1>2, <1>3, <1>4, <1>5

\* The worker takes the first request of its queue.
LEMMA TakeWork ==
    ASSUME OwnerInv, WorkInv, NEW w \in Workers,
           WorkerTake(w), UNCHANGED <<queueVars, dispatcherVars>>
    PROVE  WorkInv'
<1>0. Head(request_queue[w]) \in Requests
  BY DEF WorkerTake, OwnerInv, TypeOK
<1> SUFFICES ASSUME NEW r \in Requests, r = Head(request_queue[w])
             PROVE  WorkInv'
  BY <1>0
<1>1. /\ request_queue \in [Workers -> Seq(Requests \cup {Sentinel})]
      /\ executing \in [Workers -> Requests \cup {NoRequest}]
      /\ request_queue[w] # <<>> /\ r # Sentinel /\ executing[w] = NoRequest
      /\ executing' = [executing EXCEPT ![w] = r]
      /\ request_queue' = [request_queue EXCEPT ![w] = Tail(@)]
      /\ UNCHANGED <<alive, result_queue, phase, answer, handle>>
  BY DEF WorkerTake, OwnerInv, TypeOK, queueVars, dispatcherVars
<1>2. /\ IsInjective(Tail(request_queue[w]))
      /\ r \in Range(request_queue[w]) /\ r \in Requests
      /\ Range(Tail(request_queue[w])) = Range(request_queue[w]) \ {r}
  <2>1. request_queue[w] \in Seq(Requests \cup {Sentinel}) /\ IsInjective(request_queue[w])
    BY <1>1 DEF WorkInv
  <2> QED
    BY <1>1, <2>1, TakeFirst
<1>3. \A v \in Workers : IsInjective(request_queue'[v])
  BY <1>1, <1>2 DEF WorkInv
<1>4. OneWork(r)'
  <2>1. OneWork(r) /\ <<"to do", w>> \in Places(r)
    BY <1>2, PlacesOf DEF WorkInv
  <2>3. /\ \A v \in Workers : r \in Range(request_queue[v]) => v = w
        /\ \A v \in Workers : executing[v] # r
        /\ \A i \in DOMAIN result_queue[r] : result_queue[r][i] \notin FinalItems
        /\ answer[r] \notin FinalItems
    BY <2>1, OnlyToDo DEF OneWork
  <2>4. /\ \A v \in Workers : r \notin Range(request_queue'[v])
        /\ \A v \in Workers : executing'[v] = r <=> v = w
    BY <1>1, <1>2, <2>3
  <2>5. Places(r)' = {<<"under way", w>>}
    <3>1. /\ {v \in Workers : r \in Range(request_queue'[v])} = {}
          /\ {v \in Workers : executing'[v] = r} = {w}
          /\ {i \in DOMAIN result_queue'[r] : result_queue'[r][i] \in FinalItems} = {}
          /\ {answer'[r]} \cap FinalItems = {}
      BY <1>1, <2>3, <2>4
    <3> QED
      BY <3>1 DEF Places
  <2>6. phase[r] \notin Early /\ (phase[r] \in Waits => handle[r] = w)
    BY <2>1 DEF OneWork, AtWorker
  <2>7. ASSUME NEW v \in Workers, AtWorker(r, v)' PROVE v = w
    <3>1. <<"to do", v>> = <<"under way", w>> \/ <<"under way", v>> = <<"under way", w>>
      BY <2>5, <2>7 DEF AtWorker
    <3> QED
      BY <3>1, PlaceTags
  <2>8. \A a : <<"read", a>> \notin Places(r)'
    BY <2>5, PlaceTags
  <2> QED
    BY <1>1, <2>5, <2>6, <2>7, <2>8 DEF OneWork
<1>5. ASSUME NEW q \in Requests, q # r PROVE OneWork(q)'
  <2>1. \A v \in Workers : q \in Range(request_queue'[v]) <=> q \in Range(request_queue[v])
    BY <1>1, <1>2, <1>5
  <2>2. \A v \in Workers : executing'[v] = q <=> executing[v] = q
    BY <1>1, <1>5, WorkerAssumption
  <2>3. Places(q)' = Places(q)
    BY <1>1, <2>1, <2>2, PlacesStay
  <2> QED
    BY <1>1, <2>3, Undisturbed DEF WorkInv
<1> QED
  BY <1>3, <1>4, <1>5 DEF WorkInv

\* It answers.
LEMMA AnswerWork ==
    ASSUME OwnerInv, WorkInv, NEW w \in Workers,
           WorkerAnswer(w), UNCHANGED <<queueVars, dispatcherVars>>
    PROVE  WorkInv'
<1>0. executing[w] \in Requests
  BY DEF WorkerAnswer, OwnerInv, TypeOK
<1> SUFFICES ASSUME NEW r \in Requests, r = executing[w]
             PROVE  WorkInv'
  BY <1>0
<1> DEFINE n == Len(result_queue[r])
<1>1. /\ result_queue \in [Requests -> Seq(Items)]
      /\ executing \in [Workers -> Requests \cup {NoRequest}]
      /\ executing' = [executing EXCEPT ![w] = NoRequest]
      /\ UNCHANGED <<request_queue, alive, phase, answer, handle>>
  BY DEF WorkerAnswer, OwnerInv, TypeOK, queueVars, dispatcherVars
<1>2. PICK item \in FinalItems :
         result_queue' = [result_queue EXCEPT ![r] = Append(@, item)]
  BY DEF WorkerAnswer
<1>3. /\ n \in Nat /\ DOMAIN result_queue[r] = 1 .. n
      /\ DOMAIN result_queue'[r] = 1 .. (n + 1)
      /\ \A i \in 1 .. n : result_queue'[r][i] = result_queue[r][i]
      /\ result_queue'[r][n + 1] = item
  <2>1. result_queue[r] \in Seq(Items) /\ result_queue'[r] = Append(result_queue[r], item)
    BY <1>1, <1>2
  <2> QED
    BY <2>1 DEF Items
<1> HIDE DEF n
<1>5. OneWork(r)'
  <2>1. OneWork(r) /\ <<"under way", w>> \in Places(r)
    BY PlacesOf DEF WorkInv
  <2>3. /\ \A v \in Workers : r \notin Range(request_queue[v])
        /\ \A v \in Workers : executing[v] = r => v = w
        /\ \A i \in DOMAIN result_queue[r] : result_queue[r][i] \notin FinalItems
        /\ answer[r] \notin FinalItems
    BY <2>1, OnlyUnderWay DEF OneWork
  <2>4. /\ \A v \in Workers : executing'[v] # r
        /\ \A i : i \in DOMAIN result_queue'[r] /\ result_queue'[r][i] \in FinalItems <=> i = n + 1
    <3>1. \A i \in 1 .. (n + 1) : i \in 1 .. n \/ i = n + 1
      BY <1>3
    <3>2. n + 1 \in 1 .. (n + 1) /\ n + 1 \notin 1 .. n
      BY <1>3
    <3> QED
      BY <1>1, <1>3, <2>3, <3>1, <3>2, WorkerAssumption
  <2>5. Places(r)' = {<<"answered", n + 1>>}
    <3>1. /\ {v \in Workers : r \in Range(request_queue'[v])} = {}
          /\ {v \in Workers : executing'[v] = r} = {}
          /\ {answer'[r]} \cap FinalItems = {}
      BY <1>1, <2>3, <2>4
    <3>2. {i \in DOMAIN result_queue'[r] : result_queue'[r][i] \in FinalItems} = {n + 1}
      BY <2>4
    <3> QED
      BY <3>1, <3>2 DEF Places
  <2>6. phase[r] \notin Early
    BY <2>1 DEF OneWork
  <2>7. \A v : <<"to do", v>> \notin Places(r)' /\ <<"under way", v>> \notin Places(r)'
    BY <2>5, PlaceTags
  <2>8. \A a : <<"read", a>> \notin Places(r)'
    BY <2>5, PlaceTags
  <2> QED
    BY <1>1, <2>5, <2>6, <2>7, <2>8 DEF OneWork, AtWorker
<1>6. ASSUME NEW q \in Requests, q # r PROVE OneWork(q)'
  <2>1. \A v \in Workers : executing'[v] = q <=> executing[v] = q
    BY <1>1, <1>6, WorkerAssumption
  <2>2. Places(q)' = Places(q)
    BY <1>1, <1>2, <1>6, <2>1, PlacesStay
  <2> QED
    BY <1>1, <2>2, Undisturbed DEF WorkInv
<1> QED
  BY <1>1, <1>5, <1>6 DEF WorkInv

\* Its chunks are not the answer.
LEMMA ChunkIsNoWork ==
    ASSUME OwnerInv, WorkInv, NEW w \in Workers,
           WorkerChunk(w), UNCHANGED <<queueVars, dispatcherVars>>
    PROVE  WorkInv'
<1>0. executing[w] \in Requests
  BY QueueManagerAssumption DEF WorkerChunk
<1> SUFFICES ASSUME NEW r \in Requests, r = executing[w]
             PROVE  WorkInv'
  BY <1>0
<1>1. /\ result_queue \in [Requests -> Seq(Items)]
      /\ result_queue' = [result_queue EXCEPT ![r] = Append(@, "chunk")]
      /\ UNCHANGED <<request_queue, executing, alive, phase, answer, handle>>
  BY DEF WorkerChunk, OwnerInv, TypeOK, queueVars, dispatcherVars
<1>2. \A i : i \in DOMAIN result_queue'[r] /\ result_queue'[r][i] \in FinalItems
              <=> i \in DOMAIN result_queue[r] /\ result_queue[r][i] \in FinalItems
  <2>1. result_queue[r] \in Seq(Items) /\ result_queue'[r] = Append(result_queue[r], "chunk")
    BY <1>1
  <2>2. "chunk" \in Items /\ "chunk" \notin FinalItems
    BY DEF Items, FinalItems
  <2> DEFINE n == Len(result_queue[r])
  <2>3. /\ n \in Nat /\ DOMAIN result_queue[r] = 1 .. n
        /\ DOMAIN result_queue'[r] = 1 .. (n + 1)
        /\ \A i \in 1 .. n : result_queue'[r][i] = result_queue[r][i]
        /\ result_queue'[r][n + 1] = "chunk"
    BY <2>1, <2>2
  <2> HIDE DEF n
  <2>4. /\ \A i \in 1 .. (n + 1) : i \in 1 .. n \/ i = n + 1
        /\ \A i \in 1 .. n : i \in 1 .. (n + 1)
    BY <2>3
  <2> QED
    BY <2>2, <2>3, <2>4
<1>3. ASSUME NEW q \in Requests PROVE Places(q)' = Places(q)
  <2>1. CASE q = r
    <3>1. {i \in DOMAIN result_queue'[r] : result_queue'[r][i] \in FinalItems}
             = {i \in DOMAIN result_queue[r] : result_queue[r][i] \in FinalItems}
      BY <1>2
    <3> QED
      BY <1>1, <2>1, <3>1 DEF Places
  <2>2. CASE q # r
    BY <1>1, <2>2, PlacesStay
  <2> QED
    BY <2>1, <2>2
<1>4. ASSUME NEW q \in Requests PROVE OneWork(q)'
  BY <1>1, <1>3, Undisturbed DEF WorkInv
<1> QED
  BY <1>1, <1>4 DEF WorkInv

\* A dying worker takes along what it had in its hands, and no work of others.
LEMMA DeathOfWork ==
    ASSUME OwnerInv, WorkInv, NEW w \in Workers,
           alive' = [alive EXCEPT ![w] = FALSE],
           executing' = [executing EXCEPT ![w] = NoRequest],
           UNCHANGED <<request_queue, result_queue, queueVars, dispatcherVars>>
    PROVE  WorkInv'
<1>1. /\ executing \in [Workers -> Requests \cup {NoRequest}]
      /\ alive \in [Workers -> BOOLEAN]
      /\ UNCHANGED <<phase, answer, handle>>
  BY DEF OwnerInv, TypeOK, queueVars, dispatcherVars
<1>2. ASSUME NEW q \in Requests, executing[w] # q PROVE OneWork(q)'
  <2>1. \A v \in Workers : executing'[v] = q <=> executing[v] = q
    BY <1>1, <1>2, WorkerAssumption
  <2>2. Places(q)' = Places(q)
    BY <1>1, <2>1, PlacesStay
  <2>3. alive'[handle[q]] => alive[handle[q]]
    BY <1>1
  <2> QED
    BY <1>1, <2>2, <2>3, Undisturbed DEF WorkInv
<1>3. ASSUME NEW q \in Requests, executing[w] = q PROVE OneWork(q)'
  <2>1. OneWork(q) /\ <<"under way", w>> \in Places(q)
    BY <1>3, PlacesOf DEF WorkInv
  <2>3. /\ \A v \in Workers : q \notin Range(request_queue[v])
        /\ \A v \in Workers : executing[v] = q => v = w
        /\ \A i \in DOMAIN result_queue[q] : result_queue[q][i] \notin FinalItems
        /\ answer[q] \notin FinalItems
    BY <2>1, OnlyUnderWay DEF OneWork
  <2>4. \A v \in Workers : executing'[v] # q
    BY <1>1, <1>3, <2>3, WorkerAssumption
  <2>5. Places(q)' = {}
    BY <1>1, <2>3, <2>4 DEF Places
  <2>6. phase[q] \notin Early /\ (phase[q] \in Waits => handle[q] = w)
    BY <2>1 DEF OneWork, AtWorker
  <2>7. ~alive'[w]
    BY <1>1
  <2> QED
    BY <1>1, <2>5, <2>6, <2>7 DEF OneWork, AtWorker
<1> QED
  BY <1>2, <1>3 DEF WorkInv

LEMMA WorkerWork ==
    ASSUME OwnerInv, WorkInv, NEW w \in Workers, WorkerMoves(w)
    PROVE  WorkInv'
BY TakeWork, ChunkIsNoWork, AnswerWork, DeathOfWork
   DEF WorkerMoves, WorkerStep, WorkerDies

LEMMA WorkInit == Init => WorkInv
<1> SUFFICES ASSUME Init PROVE WorkInv
  OBVIOUS
<1>1. \A w \in Workers : IsInjective(request_queue[w]) /\ Range(request_queue[w]) = {}
  BY DEF Init, WorkerInit, IsInjective, Range
<1>2. ASSUME NEW r \in Requests PROVE Places(r) = {} /\ phase[r] = "new"
  <2>1. \A w \in Workers : executing[w] # r
    BY WorkerAssumption DEF Init, WorkerInit
  <2>2. result_queue[r] = <<>> /\ answer[r] \notin FinalItems /\ phase[r] = "new"
    BY DEF Init, WorkerInit, FinalItems
  <2>3. \A i \in DOMAIN result_queue[r] : FALSE
    BY <2>2
  <2>4. \A p : p \notin Places(r)
    BY <1>1, <2>1, <2>2, <2>3, PlaceKinds
  <2> QED
    BY <2>2, <2>4
<1> QED
  BY <1>1, <1>2 DEF WorkInv, OneWork, AtWorker, Early, Waits

LEMMA WorkInductive ==
    ASSUME OwnerInv, WorkInv, [Next]_vars
    PROVE  WorkInv'
<1>1. CASE UNCHANGED vars
  <2>1. UNCHANGED <<workerVars, answer, phase, handle>>
    BY <1>1 DEF vars, queueVars, dispatcherVars
  <2> QED
    BY <2>1, OwnersMove
<1>2. ASSUME DrainStep PROVE WorkInv'
  <2>1. CASE DrainTake
    BY <1>2, <2>1, QueueHead, EarlySteps DEF DrainTake, OwnerInv
  <2>2. CASE DrainWake \/ DrainHandOver
    <3>1. drain \in Requests
      BY <2>2, KindsAreRequests
         DEF DrainWake, DrainHandOver, OwnerInv, SlotsFollowOwners, TypeOK
    <3> QED
      BY <1>2, <3>1, EarlySteps
  <2> QED
    BY <1>2, <2>1, <2>2 DEF DrainStep
<1> QED
  BY <1>1, <1>2, EarlySteps, PutWork, OwnerStepWork, WorkerWork DEF Next

LEMMA WorkInvariant == Spec => [](OwnerInv /\ WorkInv)
<1>1. Init => OwnerInv /\ WorkInv
  BY OwnerInit, WorkInit
<1>2. OwnerInv /\ WorkInv /\ [Next]_vars => (OwnerInv /\ WorkInv)'
  BY OwnerInductive, WorkInductive
<1> QED
  BY <1>1, <1>2, PTL DEF Spec

LEMMA WorkGivesExactlyOnce == WorkInv => ExactlyOnce
BY DEF WorkInv, OneWork, ExactlyOnce, Early, Waits

\* A request is never worked on twice and never answered twice, whatever times
\* out, dies or leaves; and while its owner waits for a worker that is alive,
\* its work is in exactly one place.
THEOREM ExactlyOnceHolds == Spec => []ExactlyOnce
BY WorkInvariant, WorkGivesExactlyOnce, PTL

-----------------------------------------------------------------------------
(* The work has one direction.  Stages are compared through the places they *)
(* stand for: none that is behind the stage of the work comes into being.   *)

LEMMA StagesCompared ==
    ASSUME NEW r,
           phase'[r] \in Early => phase[r] \in Early,
           InQueue(r)' => phase[r] \in Early \/ InQueue(r),
           InHands(r)' => phase[r] \in Early \/ InQueue(r) \/ InHands(r),
           Answered(r)' => phase[r] \in Early \/ InQueue(r) \/ InHands(r) \/ Answered(r)
    PROVE  WorkStage(r) <= WorkStage(r)'
BY DEF WorkStage, Early

\* Where no worker acts the OS queues change by the put alone, and only what is
\* read leaves a result queue.
LEMMA OwnersOnlyMoveOn ==
    ASSUME OwnerInv, NEW r \in Requests, NEW o \in Requests,
           \/ Accept(o) \/ Refuse(o) \/ StartLatents(o) \/ ExecutorPut(o)
           \/ LatentsHandOver(o) \/ OwnerStep(o) \/ DrainStep
    PROVE  WorkStage(r) <= WorkStage(r)'
<1>1. phase \in [Requests -> Phases]
  BY DEF OwnerInv, TypeOK
<1>2. UNCHANGED executing
  BY DEF Accept, Refuse, StartLatents, ExecutorPut, LatentsHandOver, OwnerStep, Collect,
         SendChunk, ClientGone, ReadFinal, Timeout, ReadBroken, Read,
         DrainStep, DrainTake, DrainWake, DrainHandOver, workerVars
<1>3. phase'[r] \in Early => phase[r] \in Early
  <2>1. CASE DrainStep
    <3>1. DrainTake => Head(queue) \in Requests /\ phase[Head(queue)] = "queued"
      BY QueueHead DEF OwnerInv, DrainTake
    <3>2. DrainWake => phase[drain] = "taken"
      BY DEF OwnerInv, SlotsFollowOwners, DrainWake
    <3> QED
      BY <1>1, <2>1, <3>1, <3>2
         DEF DrainStep, DrainTake, DrainWake, DrainHandOver, SetPhase, Early
  <2>2. CASE ~DrainStep
    BY <1>1, <2>2 DEF Accept, Refuse, StartLatents, ExecutorPut, LatentsHandOver, OwnerStep,
         Collect, SendChunk, ClientGone, ReadFinal, Timeout, ReadBroken, End, SetPhase,
         queueVars, Early
  <2> QED
    BY <2>1, <2>2
<1>4. InQueue(r)' => phase[r] \in Early \/ InQueue(r)
  <2>1. CASE ExecutorPut(o)
    <3> DEFINE v == handle[o]
    <3>1. /\ v \in Workers /\ phase[o] \in Early
          /\ request_queue \in [Workers -> Seq(Requests \cup {Sentinel})]
          /\ request_queue' = [request_queue EXCEPT ![v] = Append(@, o)]
      BY <2>1 DEF ExecutorPut, OwnerInv, SlotsFollowOwners, InFlight, TypeOK,
                  DispatcherTypeOK, Early
    <3> HIDE DEF v
    <3>2. Range(request_queue'[v]) = Range(request_queue[v]) \cup {o}
      <4>1. request_queue[v] \in Seq(Requests \cup {Sentinel})
            /\ request_queue'[v] = Append(request_queue[v], o)
        BY <3>1
      <4> DEFINE s == request_queue[v]
      <4>2. /\ DOMAIN s = 1 .. Len(s) /\ Len(s) \in Nat
            /\ DOMAIN Append(s, o) = 1 .. (Len(s) + 1)
            /\ \A i \in 1 .. Len(s) : Append(s, o)[i] = s[i]
            /\ Append(s, o)[Len(s) + 1] = o
        BY <4>1
      <4>3. \A i \in 1 .. (Len(s) + 1) : i \in 1 .. Len(s) \/ i = Len(s) + 1
        BY <4>2
      <4>4. Len(s) + 1 \in 1 .. (Len(s) + 1) /\ \A i \in 1 .. Len(s) : i \in 1 .. (Len(s) + 1)
        BY <4>2
      <4> QED
        BY <4>1, <4>2, <4>3, <4>4 DEF Range
    <3> QED
      BY <3>1, <3>2 DEF InQueue
  <2>2. CASE ~ExecutorPut(o)
    <3>1. UNCHANGED request_queue
      BY <2>2 DEF Accept, Refuse, StartLatents, LatentsHandOver, OwnerStep, Collect,
           SendChunk, ClientGone, ReadFinal, Timeout, ReadBroken, Read,
           DrainStep, DrainTake, DrainWake, DrainHandOver, workerVars
    <3> QED
      BY <3>1 DEF InQueue
  <2> QED
    BY <2>1, <2>2
<1>5. Answered(r)' => Answered(r)
  <2>1. CASE Read(o)
    <3>1. /\ result_queue' = [result_queue EXCEPT ![o] = Tail(@)]
          /\ DOMAIN result_queue'[o] \subseteq Nat \ {0}
          /\ \A i \in Nat \ {0} : i \in DOMAIN result_queue'[o] =>
                /\ i + 1 \in DOMAIN result_queue[o]
                /\ result_queue'[o][i] = result_queue[o][i + 1]
      BY <2>1, ReadShifts
    <3>2. result_queue \in [Requests -> Seq(Items)]
      BY DEF OwnerInv, TypeOK
    <3>3. CASE r = o
      BY <3>1, <3>3 DEF Answered
    <3>4. CASE r # o
      BY <3>1, <3>2, <3>4 DEF Answered
    <3> QED
      BY <3>3, <3>4
  <2>2. CASE ~Read(o)
    <3>1. UNCHANGED result_queue
      BY <2>2 DEF Accept, Refuse, StartLatents, ExecutorPut, LatentsHandOver, OwnerStep,
           Collect, SendChunk, ClientGone, ReadFinal, Timeout, ReadBroken,
           DrainStep, DrainTake, DrainWake, DrainHandOver, workerVars
    <3> QED
      BY <3>1 DEF Answered
  <2> QED
    BY <2>1, <2>2
<1>6. InHands(r)' => InHands(r)
  BY <1>2 DEF InHands
<1> QED
  BY <1>3, <1>4, <1>5, <1>6, StagesCompared

\* A worker takes from its queue, and answers what it has in its hands.
LEMMA WorkersOnlyMoveOn ==
    ASSUME OwnerInv, NEW r \in Requests, NEW w \in Workers, WorkerMoves(w)
    PROVE  WorkStage(r) <= WorkStage(r)'
<1>1. /\ UNCHANGED phase
      /\ request_queue \in [Workers -> Seq(Requests \cup {Sentinel})]
      /\ executing \in [Workers -> Requests \cup {NoRequest}]
      /\ result_queue \in [Requests -> Seq(Items)]
      /\ r # NoRequest
  BY WorkerAssumption DEF WorkerMoves, queueVars, OwnerInv, TypeOK
<1>2. CASE WorkerTake(w)
  <2> DEFINE s == request_queue[w]
  <2>1. /\ s \in Seq(Requests \cup {Sentinel}) /\ s # <<>>
        /\ request_queue' = [request_queue EXCEPT ![w] = Tail(s)]
        /\ executing' = [executing EXCEPT ![w] = Head(s)]
        /\ UNCHANGED result_queue
    BY <1>1, <1>2 DEF WorkerTake
  <2>2. Head(s) \in Range(s) /\ Range(Tail(s)) \subseteq Range(s)
    <3>1. /\ DOMAIN s = 1 .. Len(s) /\ Len(s) \in Nat \ {0}
          /\ Head(s) = s[1]
          /\ DOMAIN Tail(s) = 1 .. (Len(s) - 1)
          /\ \A i \in 1 .. (Len(s) - 1) : Tail(s)[i] = s[i + 1] /\ i + 1 \in 1 .. Len(s)
      BY <2>1
    <3>2. 1 \in DOMAIN s
      BY <3>1
    <3> QED
      BY <3>1, <3>2 DEF Range
  <2> HIDE DEF s
  <2>3. s = request_queue[w]
    BY DEF s
  <2>4. InQueue(r)' => InQueue(r)
    BY <1>1, <2>1, <2>2, <2>3 DEF InQueue
  <2>5. InHands(r)' => InQueue(r) \/ InHands(r)
    BY <1>1, <2>1, <2>2, <2>3 DEF InQueue, InHands
  <2>6. Answered(r)' => Answered(r)
    BY <2>1 DEF Answered
  <2> QED
    BY <1>1, <2>4, <2>5, <2>6, StagesCompared
<1>3. CASE WorkerChunk(w) \/ WorkerAnswer(w)
  <2> DEFINE e == executing[w]
  <2>1. /\ e \in Requests
        /\ UNCHANGED request_queue
        /\ executing' = executing \/ executing' = [executing EXCEPT ![w] = NoRequest]
    BY <1>1, <1>3, QueueManagerAssumption DEF WorkerChunk, WorkerAnswer
  <2>2. InQueue(r)' => InQueue(r)
    BY <2>1 DEF InQueue
  <2>3. InHands(r)' => InHands(r)
    BY <1>1, <2>1 DEF InHands
  <2>4. Answered(r)' => InHands(r) \/ Answered(r)
    <3>1. CASE r = e
      BY <3>1 DEF InHands
    <3>2. CASE r # e
      <4>1. result_queue'[r] = result_queue[r]
        BY <1>1, <1>3, <2>1, <3>2 DEF WorkerChunk, WorkerAnswer
      <4> QED
        BY <4>1 DEF Answered
    <3> QED
      BY <3>1, <3>2
  <2> QED
    BY <1>1, <2>2, <2>3, <2>4, StagesCompared
<1>4. CASE WorkerDies(w)
  <2>1. /\ UNCHANGED <<request_queue, result_queue>>
        /\ executing' = [executing EXCEPT ![w] = NoRequest]
    BY <1>4 DEF WorkerDies
  <2>2. InHands(r)' => InHands(r)
    BY <1>1, <2>1 DEF InHands
  <2>3. (InQueue(r)' => InQueue(r)) /\ (Answered(r)' => Answered(r))
    BY <2>1 DEF InQueue, Answered
  <2> QED
    BY <1>1, <2>2, <2>3, StagesCompared
<1> QED
  BY <1>2, <1>3, <1>4 DEF WorkerMoves, WorkerStep

\* No request is handed to a worker, begun or answered a second time in the
\* whole life of the server, for any number of workers, deaths and timeouts.
THEOREM WorkOnlyMovesOnHolds == Spec => WorkOnlyMovesOn
<1> DEFINE MovesOn == \A r \in Requests : WorkStage(r) <= WorkStage(r)'
<1>1. ASSUME OwnerInv, Next, NEW r \in Requests PROVE WorkStage(r) <= WorkStage(r)'
  BY <1>1, OwnersOnlyMoveOn, WorkersOnlyMoveOn DEF Next
<1>2. OwnerInv /\ [Next]_vars => [MovesOn]_vars
  BY <1>1
<1> QED
  BY <1>2, WorkInvariant, PTL DEF Spec, WorkOnlyMovesOn

-----------------------------------------------------------------------------
(* What a request from the queue meets in its worker. *)

\* Work that is with a worker whose slot its owner does not hold has no owner.
LEMMA WorkWithoutOwner ==
    ASSUME OwnerInv, WorkInv, NEW q \in Requests, NEW w \in Workers,
           q \in Range(request_queue[w]) \/ executing[w] = q,
           handle[q] # w
    PROVE  Abandoned(q)
<1>1. OneWork(q) /\ AtWorker(q, w)
  BY PlacesOf DEF WorkInv, AtWorker
<1>2. phase[q] \notin Early /\ phase[q] \notin Waits
  BY <1>1 DEF OneWork, AtWorker
<1>3. phase[q] = "done"
  BY <1>2 DEF OwnerInv, TypeOK, Phases, InFlight, Early, Waits
<1>4. ASSUME answer[q] \in FinalItems PROVE FALSE
  <2>1. <<"read", answer[q]>> \in Places(q)
    BY <1>4, PlacesOf
  <2> QED
    BY <1>1, <2>1, PlaceTags DEF OneWork, AtWorker
<1> QED
  BY <1>3, <1>4 DEF Abandoned

\* On one GPU a request from the queue may land behind other work in an OS
\* queue, but only behind work whose owner gave it up: what a timeout, a broken
\* read or a lost client left there.
THEOREM QueuedMeetsAbandonedWorkHolds ==
    ASSUME Len(WorkersPerGpu) = 1
    PROVE  Spec => QueuedMeetsAbandonedWork
<1> DEFINE Meets(r, w) ==
      GetsWorker(r, w) =>
         \A q \in Requests :
            q \in Range(request_queue[w]) \/ executing[w] = q => Abandoned(q)
<1>1. ASSUME OwnerInv, WorkInv, SlotAccounting, Next,
             NEW r \in Queued, NEW w \in Workers, GetsWorker(r, w),
             NEW q \in Requests, q \in Range(request_queue[w]) \/ executing[w] = q
      PROVE  Abandoned(q)
  <2>1. active_requests[w] = 0
    BY <1>1, LandsOnFreeWorker DEF OwnerInv
  <2>2. Holders(w) = {}
    BY <1>1, <2>1, HoldersFinite, FS_EmptySet DEF SlotAccounting
  <2>3. handle[q] # w
    BY <2>2 DEF Holders
  <2> QED
    BY <1>1, <2>3, WorkWithoutOwner
<1>2. OwnerInv /\ WorkInv /\ SlotAccounting /\ [Next]_vars
        => [\A r \in Queued, w \in Workers : Meets(r, w)]_vars
  BY <1>1
<1>3. Spec => []SlotAccounting
  BY OneGpuGivesUniqueIds, SlotAccountingInServer
<1> QED
  BY <1>2, <1>3, WorkInvariant, PTL DEF Spec, QueuedMeetsAbandonedWork
=============================================================================
