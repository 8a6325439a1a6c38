--------------------------- MODULE DispatcherProofs --------------------------
(***************************************************************************)
(* Proofs about Dispatcher for every topology and every set of requests.   *)
(***************************************************************************)
EXTENDS Dispatcher, FiniteSetTheorems, TLAPS

-----------------------------------------------------------------------------
(* The topology. *)

\* A worker is a pair of positive numbers.
LEMMA WorkerPair ==
    ASSUME NEW w \in Workers
    PROVE  /\ w = <<w[1], w[2]>>
           /\ w[1] \in Nat
           /\ w[2] \in Nat
<1>1. PICK g \in Gpus : w \in {g} \X (1 .. WorkersPerGpu[g])
  BY DEF Workers
<1>2. PICK s \in 1 .. WorkersPerGpu[g] : w = <<g, s>>
  BY <1>1
<1>3. g \in Nat /\ WorkersPerGpu[g] \in Nat
  BY TopologyAssumption DEF Gpus
<1> QED
  BY <1>2, <1>3

\* With CUDA the names of the workers are unique.
THEOREM CudaGivesUniqueIds == CudaAvailable => UniqueIds
BY TopologyAssumption DEF UniqueIds, WorkerId

\* With one entry in WORKERS_PER_GPU they are unique even without CUDA.
THEOREM OneGpuGivesUniqueIds == Len(WorkersPerGpu) = 1 => UniqueIds
<1> SUFFICES ASSUME Len(WorkersPerGpu) = 1,
                    NEW v \in Workers, NEW w \in Workers,
                    WorkerId(v) = WorkerId(w)
             PROVE  v = w
  BY DEF UniqueIds
<1>1. Gpus = {1}
  BY TopologyAssumption DEF Gpus
<1>2. v[1] = 1 /\ w[1] = 1
  BY <1>1 DEF Workers
<1>3. v = <<v[1], v[2]>> /\ w = <<w[1], w[2]>>
  BY WorkerPair
<1>4. v[2] = w[2]
  BY DEF WorkerId
<1> QED
  BY <1>2, <1>3, <1>4

\* release() then reaches the very worker its caller was given.
LEMMA ReleaseReachesItsWorker ==
    ASSUME UniqueIds, NEW v \in Workers, NEW w \in Workers
    PROVE  IsFirstWithId(w, WorkerId(v)) <=> w = v
<1>1. ~SpawnedBefore(v, v)
  BY WorkerPair DEF SpawnedBefore
<1> QED
  BY <1>1 DEF IsFirstWithId, UniqueIds

-----------------------------------------------------------------------------
(* Type correctness. *)

\* Every step keeps the types.
LEMMA DispatcherTypeInductive ==
    ASSUME DispatcherTypeOK, [DispatcherNext]_dispatcherVars
    PROVE  DispatcherTypeOK'
<1> USE DispatcherAssumption DEF DispatcherTypeOK
<1>1. ASSUME NEW r \in Clones, DispatchLatents(r) PROVE DispatcherTypeOK'
  BY <1>1 DEF DispatchLatents, Assign
<1>2. ASSUME NEW r \in Requests \ Clones, DispatchQueued(r) PROVE DispatcherTypeOK'
  BY <1>2 DEF DispatchQueued, Assign
<1>3. ASSUME NEW r \in Requests, Release(r) PROVE DispatcherTypeOK'
  BY <1>3 DEF Release, Notified
<1>4. CASE Park
  BY <1>4 DEF Park
<1>5. CASE UNCHANGED dispatcherVars
  BY <1>5 DEF dispatcherVars
<1> QED
  BY <1>1, <1>2, <1>3, <1>4, <1>5 DEF DispatcherNext

\* The counters stay natural numbers, the handles stay workers of the server.
THEOREM DispatcherTypeCorrect == DispatcherSpec => []DispatcherTypeOK
<1>1. DispatcherInit => DispatcherTypeOK
  BY DEF DispatcherInit, DispatcherTypeOK
<1>2. DispatcherTypeOK /\ [DispatcherNext]_dispatcherVars => DispatcherTypeOK'
  BY DispatcherTypeInductive
<1> QED
  BY <1>1, <1>2, PTL DEF DispatcherSpec

-----------------------------------------------------------------------------
(* Slot accounting.  It is inductive together with the types; only the      *)
(* step of release() needs the names to be unique.                          *)

AccountInv == DispatcherTypeOK /\ SlotAccounting

\* The callers that owe a release are finitely many.
LEMMA HoldersFinite ==
    \A w \in Workers : /\ IsFiniteSet(Holders(w))
                      /\ Cardinality(Holders(w)) \in Nat
BY DispatcherAssumption, FS_Subset, FS_CardinalityType DEF Holders

\* A step that leaves the handles and the counters alone keeps the account.
LEMMA AccountStutter ==
    ASSUME SlotAccounting,
           UNCHANGED <<active_requests, active_jobs, handle>>
    PROVE  SlotAccounting'
BY DEF SlotAccounting, Holders

\* dispatch() counts exactly the handle it returns.
LEMMA AssignKeepsAccount ==
    ASSUME AccountInv, NEW r \in Requests, Assign(r)
    PROVE  SlotAccounting'
<1> USE DEF AccountInv
<1>1. PICK w \in Workers :
        /\ active_requests' = [active_requests EXCEPT ![w] = @ + 1]
        /\ active_jobs' = [active_jobs EXCEPT ![w] = @ \cup {r}]
        /\ handle' = [handle EXCEPT ![r] = w]
  BY DEF Assign
<1>2. handle[r] = NoWorker /\ NoWorker \notin Workers
  BY DispatcherAssumption DEF Assign
<1>3. Holders(w)' = Holders(w) \cup {r} /\ r \notin Holders(w)
  BY <1>1, <1>2 DEF Holders, DispatcherTypeOK
<1>4. Cardinality(Holders(w)') = Cardinality(Holders(w)) + 1
  BY <1>3, HoldersFinite, FS_AddElement
<1>5. ASSUME NEW v \in Workers, v # w PROVE Holders(v)' = Holders(v)
  BY <1>1, <1>2, <1>5 DEF Holders, DispatcherTypeOK
<1> SUFFICES ASSUME NEW v \in Workers
             PROVE  /\ active_requests'[v] = Cardinality(Holders(v)')
                    /\ active_jobs'[v] = Holders(v)'
  BY DEF SlotAccounting
<1>6. CASE v = w
  <2>1. active_requests'[w] = active_requests[w] + 1
        /\ active_jobs'[w] = active_jobs[w] \cup {r}
    BY <1>1 DEF DispatcherTypeOK
  <2> QED
    BY <1>6, <2>1, <1>3, <1>4 DEF SlotAccounting
<1>7. CASE v # w
  BY <1>1, <1>5, <1>7 DEF SlotAccounting, DispatcherTypeOK
<1> QED
  BY <1>6, <1>7

\* With unique names release() takes back exactly the handle it is given.
LEMMA ReleaseKeepsAccount ==
    ASSUME UniqueIds, AccountInv, NEW r \in Requests, Release(r)
    PROVE  /\ SlotAccounting'
           /\ r \in Holders(handle[r])
           /\ \A v \in Workers : Holders(v)' = Holders(v) \ {r}
<1> USE DEF AccountInv
<1>1. PICK w \in Workers : w = handle[r] /\ r \in Holders(w)
  BY DEF Release, DispatcherTypeOK, Holders
<1>2. /\ active_requests' = [active_requests EXCEPT ![w] = IF @ = 0 THEN 0 ELSE @ - 1]
      /\ active_jobs' = [active_jobs EXCEPT ![w] = @ \ {r}]
      /\ handle' = [handle EXCEPT ![r] = NoWorker]
  BY <1>1, ReleaseReachesItsWorker DEF Release
<1>3. \A v \in Workers : Holders(v)' = Holders(v) \ {r}
  BY <1>2, DispatcherAssumption DEF Holders, DispatcherTypeOK
<1>4. /\ Cardinality(Holders(w)') = Cardinality(Holders(w)) - 1
      /\ Cardinality(Holders(w)) > 0
  <2>1. /\ Cardinality(Holders(w) \ {r}) = Cardinality(Holders(w)) - 1
        /\ IsFiniteSet(Holders(w) \ {r})
    BY <1>1, HoldersFinite, FS_RemoveElement
  <2>2. Cardinality(Holders(w) \ {r}) \in Nat
    BY <2>1, FS_CardinalityType
  <2> QED
    BY <2>1, <2>2, <1>1, <1>3, HoldersFinite
<1>5. ASSUME NEW v \in Workers
      PROVE  /\ active_requests'[v] = Cardinality(Holders(v)')
             /\ active_jobs'[v] = Holders(v)'
  <2>1. CASE v = w
    <3>1. active_requests'[w] = active_requests[w] - 1
          /\ active_jobs'[w] = active_jobs[w] \ {r}
      BY <1>1, <1>2, <1>4 DEF DispatcherTypeOK, SlotAccounting
    <3> QED
      BY <2>1, <3>1, <1>1, <1>3, <1>4 DEF SlotAccounting
  <2>2. CASE v # w
    <3>1. Holders(v)' = Holders(v)
      BY <1>1, <1>3, <2>2 DEF Holders
    <3> QED
      BY <1>2, <2>2, <3>1 DEF SlotAccounting, DispatcherTypeOK
  <2> QED
    BY <2>1, <2>2
<1> QED
  BY <1>1, <1>3, <1>5 DEF SlotAccounting

\* Every step keeps the account, when the names of the workers are unique.
LEMMA AccountInductive ==
    ASSUME UniqueIds, AccountInv, [DispatcherNext]_dispatcherVars
    PROVE  SlotAccounting'
<1> USE DEF AccountInv
<1>1. ASSUME NEW r \in Clones, DispatchLatents(r) PROVE SlotAccounting'
  BY <1>1, AssignKeepsAccount, DispatcherAssumption DEF DispatchLatents
<1>2. ASSUME NEW r \in Requests \ Clones, DispatchQueued(r) PROVE SlotAccounting'
  BY <1>2, AssignKeepsAccount DEF DispatchQueued
<1>3. ASSUME NEW r \in Requests, Release(r) PROVE SlotAccounting'
  BY <1>3, ReleaseKeepsAccount
<1>4. CASE Park
  BY <1>4, AccountStutter DEF Park
<1>5. CASE UNCHANGED dispatcherVars
  BY <1>5, AccountStutter DEF dispatcherVars
<1> QED
  BY <1>1, <1>2, <1>3, <1>4, <1>5 DEF DispatcherNext

\* For every topology with unique worker names, active_requests and
\* active_jobs of dispatcher.py always agree with the callers that still owe
\* a release().
THEOREM SlotAccountingHolds ==
    ASSUME UniqueIds
    PROVE  DispatcherSpec => []SlotAccounting
<1>1. DispatcherInit => SlotAccounting
  <2> SUFFICES ASSUME DispatcherInit, NEW w \in Workers
               PROVE  /\ active_requests[w] = Cardinality(Holders(w))
                      /\ active_jobs[w] = Holders(w)
    BY DEF SlotAccounting
  <2>1. Holders(w) = {}
    BY DispatcherAssumption DEF Holders, DispatcherInit
  <2> QED
    BY <2>1, FS_EmptySet DEF DispatcherInit
<1>2. DispatcherTypeOK /\ SlotAccounting /\ [DispatcherNext]_dispatcherVars
        => SlotAccounting'
  BY AccountInductive DEF AccountInv
<1> QED
  BY <1>1, <1>2, DispatcherTypeCorrect, PTL DEF DispatcherSpec

-----------------------------------------------------------------------------
(* The wake-up. *)

\* The drain loop is never left in the wait set of the Condition while a
\* worker is free.  This one needs no assumption about the names.
THEOREM NoLostWakeupHolds == DispatcherSpec => []NoLostWakeup
<1>1. DispatcherInit => NoLostWakeup
  BY DEF DispatcherInit, NoLostWakeup
<1>2. DispatcherTypeOK /\ NoLostWakeup /\ [DispatcherNext]_dispatcherVars
        => NoLostWakeup'
  <2> SUFFICES ASSUME DispatcherTypeOK, NoLostWakeup,
                      [DispatcherNext]_dispatcherVars
               PROVE  NoLostWakeup'
    OBVIOUS
  <2>1. ASSUME NEW r \in Clones, DispatchLatents(r) PROVE NoLostWakeup'
    BY <2>1, DispatcherAssumption DEF DispatchLatents, Assign, NoLostWakeup, AllBusy, DispatcherTypeOK
  <2>2. ASSUME NEW r \in Requests \ Clones, DispatchQueued(r) PROVE NoLostWakeup'
    BY <2>2 DEF DispatchQueued, NoLostWakeup
  <2>3. ASSUME NEW r \in Requests, Release(r) PROVE NoLostWakeup'
    BY <2>3 DEF Release, Notified, NoLostWakeup
  <2>4. CASE Park
    BY <2>4 DEF Park, NoLostWakeup, AllBusy
  <2>5. CASE UNCHANGED dispatcherVars
    BY <2>5 DEF dispatcherVars, NoLostWakeup, AllBusy
  <2> QED
    BY <2>1, <2>2, <2>3, <2>4, <2>5 DEF DispatcherNext
<1> QED
  BY <1>1, <1>2, DispatcherTypeCorrect, PTL DEF DispatcherSpec

-----------------------------------------------------------------------------
(* The choice of a worker. *)

\* On a single GPU _pick_worker() compares the workers' own counters only, and
\* finds the free worker the drain loop waited for.
LEMMA OneGpuPicksFree ==
    ASSUME Len(WorkersPerGpu) = 1, DispatcherTypeOK, ~AllBusy,
           NEW w \in Workers, IsPick(active_requests, w)
    PROVE  active_requests[w] = 0
<1>1. PICK v \in Workers : active_requests[v] = 0
  BY DEF AllBusy, DispatcherTypeOK
<1>2. \A u \in Workers : u[1] = 1
  BY TopologyAssumption DEF Workers, Gpus
<1>3. ASSUME v # w PROVE active_requests[w] <= active_requests[v]
  <2>1. GpuLoad(active_requests, v[1]) = GpuLoad(active_requests, w[1])
    BY <1>2
  <2>2. ~(active_requests[v] < active_requests[w])
        \/ active_requests[w] < active_requests[v]
    BY <1>3, <2>1 DEF IsPick, Lighter
  <2> QED
    BY <2>2 DEF DispatcherTypeOK
<1> QED
  BY <1>1, <1>3 DEF DispatcherTypeOK

-----------------------------------------------------------------------------
(* Refinement. *)

\* What the counters say of a state is what WorkerSlots says of it.
LEMMA SlotView ==
    ASSUME AccountInv
    PROVE  /\ Slots!SlotLoad = active_requests
           /\ Slots!SomeWorkerFree <=> ~AllBusy
           /\ \A r \in Requests : Slots!InService(r) <=> handle[r] # NoWorker
<1> USE DEF AccountInv
<1>1. Slots!SlotLoad = active_requests
  <2>1. \A S : Slots!Cardinality(S) = Cardinality(S)
    BY DEF Slots!Cardinality, Cardinality
  <2> QED
    BY <2>1 DEF Slots!SlotLoad, SlotAccounting, DispatcherTypeOK
<1>2. Slots!SomeWorkerFree <=> ~AllBusy
  <2>1. ASSUME NEW w \in Workers
        PROVE  Holders(w) = {} <=> ~(active_requests[w] >= 1)
    <3>1. Cardinality(Holders(w)) = 0 <=> Holders(w) = {}
      BY HoldersFinite, FS_EmptySet
    <3> QED
      BY <3>1 DEF SlotAccounting, DispatcherTypeOK
  <2> QED
    BY <2>1 DEF Slots!SomeWorkerFree, AllBusy
<1>3. ASSUME NEW r \in Requests
      PROVE  Slots!InService(r) <=> handle[r] # NoWorker
  BY DispatcherAssumption DEF Slots!InService, Holders, DispatcherTypeOK
<1> QED
  BY <1>1, <1>2, <1>3

\* dispatch() is the abstract Give.
LEMMA AssignGives ==
    ASSUME AccountInv, NEW r \in Requests, Assign(r)
    PROVE  Slots!Give(r)
<1> USE DEF AccountInv
<1>1. PICK w \in Workers :
        /\ IsPick(active_requests, w)
        /\ handle' = [handle EXCEPT ![r] = w]
  BY DEF Assign
<1>2. handle[r] = NoWorker /\ NoWorker \notin Workers
  BY DispatcherAssumption DEF Assign
<1>3. \A v \in Workers :
        Holders(v)' = IF v = w THEN Holders(v) \cup {r} ELSE Holders(v)
  BY <1>1, <1>2 DEF Holders, DispatcherTypeOK
<1>4. [v \in Workers |-> Holders(v)]'
        = [[v \in Workers |-> Holders(v)] EXCEPT ![w] = @ \cup {r}]
  BY <1>3
<1> QED
  BY <1>1, <1>2, <1>4, SlotView DEF Slots!Give

\* With unique worker names the dispatcher, counters, names, Condition and
\* all, is an implementation of WorkerSlots: the drain loop's requests are given
\* out only while a worker is free, those of compute_latents() at any time.
THEOREM DispatcherRefinesWorkerSlots ==
    ASSUME UniqueIds
    PROVE  DispatcherSpec => ImplementsWorkerSlots
<1>1. DispatcherInit => Slots!SlotInit
  BY DispatcherAssumption DEF DispatcherInit, Slots!SlotInit, Holders
<1>2. AccountInv /\ [DispatcherNext]_dispatcherVars
        => [Slots!SlotNext]_(Slots!slotVars)
  <2> SUFFICES ASSUME AccountInv, [DispatcherNext]_dispatcherVars
               PROVE  [Slots!SlotNext]_(Slots!slotVars)
    OBVIOUS
  <2> USE DEF Slots!SlotNext
  <2>1. ASSUME NEW r \in Clones, DispatchLatents(r)
        PROVE  Slots!SlotNext
    BY <2>1, AssignGives, DispatcherAssumption DEF DispatchLatents, Slots!DirectGive
  <2>2. ASSUME NEW r \in Requests \ Clones, DispatchQueued(r)
        PROVE  Slots!SlotNext
    <3>1. ~(waiter = "parked") /\ ~(waiter = "parked")'
      BY <2>2 DEF DispatchQueued
    <3> QED
      BY <2>2, <3>1, AssignGives, SlotView DEF DispatchQueued, Slots!DrainGive
  <2>3. ASSUME NEW r \in Requests, Release(r)
        PROVE  Slots!SlotNext
    <3>1. PICK w \in Workers : w = handle[r] /\ r \in Holders(w)
      BY <2>3 DEF Release, AccountInv, DispatcherTypeOK, Holders
    <3>2. \A v \in Workers :
            Holders(v)' = IF v = w THEN Holders(v) \ {r} ELSE Holders(v)
      BY <2>3, <3>1, ReleaseKeepsAccount DEF Holders
    <3>3. [v \in Workers |-> Holders(v)]'
            = [[v \in Workers |-> Holders(v)] EXCEPT ![w] = @ \ {r}]
      BY <3>2
    <3>4. (waiter = "parked")' = FALSE
      BY <2>3 DEF Release, Notified
    <3> QED
      BY <3>1, <3>3, <3>4 DEF Slots!TakeBack
  <2>4. ASSUME Park
        PROVE  Slots!SlotNext
    <3>1. (waiter = "parked") = FALSE /\ (waiter = "parked")' = TRUE
      BY <2>4 DEF Park
    <3>2. UNCHANGED [w \in Workers |-> Holders(w)]
      BY <2>4 DEF Park, Holders
    <3> QED
      BY <2>4, <3>1, <3>2, SlotView DEF Park, Slots!Sleep
  <2>5. CASE UNCHANGED dispatcherVars
    BY <2>5 DEF dispatcherVars, Holders, Slots!slotVars
  <2> QED
    BY <2>1, <2>2, <2>3, <2>4, <2>5 DEF DispatcherNext
<1> QED
  BY <1>1, <1>2, DispatcherTypeCorrect, SlotAccountingHolds, PTL
     DEF DispatcherSpec, ImplementsWorkerSlots, Slots!SlotSpec, AccountInv
=============================================================================
