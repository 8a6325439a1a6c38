--------------------------- MODULE TtsServerProofs ---------------------------
(***************************************************************************)
(* What holds of the jobs for every set of requests, every capacity of the *)
(* queue and every fault.                                                  *)
(***************************************************************************)
EXTENDS TtsServer, SequenceTheorems, TLAPS

\* The jobs and the requests of /audio are what goes through the queue.
LEMMA JobsAreSubmitters ==
    /\ \A id \in JobIds : id \in Submitters /\ id \notin Syncs
    /\ \A r \in Syncs : r \in Submitters /\ r \notin JobIds
    /\ Singles \subseteq JobIds
    /\ \A b \in Batches : b \in Seq(JobIds) /\ b \in Seq(Submitters)
BY TtsServerAssumption

-----------------------------------------------------------------------------
(* Types. *)

JobsTypeOK == jobs \in [JobIds -> Job \cup {NoJob}]

\* The methods of the store turn a dictionary of jobs into one.
LEMMA StoreTypes ==
    ASSUME NEW store \in [JobIds -> Job \cup {NoJob}], NEW id, NEW ids
    PROVE  /\ CreateJobs(store, ids) \in [JobIds -> Job \cup {NoJob}]
           /\ MarkRunning(store, id) \in [JobIds -> Job \cup {NoJob}]
           /\ MarkDone(store, id) \in [JobIds -> Job \cup {NoJob}]
           /\ MarkFailed(store, ids) \in [JobIds -> Job \cup {NoJob}]
           /\ ClearAudioPath(store, id) \in [JobIds -> Job \cup {NoJob}]
<1>1. NewJob \in Job
  BY DEF NewJob, Job, JobStatus
<1>2. CreateJobs(store, ids) \in [JobIds -> Job \cup {NoJob}]
  BY <1>1 DEF CreateJobs
<1>3. ASSUME NEW k \in JobIds, HasJob(store, k)
      PROVE  /\ [store[k] EXCEPT !.status = "running"] \in Job
             /\ [store[k] EXCEPT !.status = "done", !.finished_at = "recent",
                                 !.audio_path = TRUE] \in Job
             /\ [store[k] EXCEPT !.status = "failed", !.finished_at = "recent"] \in Job
             /\ [store[k] EXCEPT !.audio_path = FALSE] \in Job
  BY <1>3 DEF HasJob, Job, JobStatus
<1> QED
  BY <1>2, <1>3 DEF MarkRunning, MarkDone, MarkFailed, ClearAudioPath, Mark

\* The front of a batch is a sequence of requests, and so is the queue with it.
LEMMA FrontOfBatch ==
    ASSUME NEW b \in Batches, NEW n \in Int, n <= Len(b), waiting \in Seq(Submitters)
    PROVE  /\ SubSeq(b, 1, n) \in Seq(JobIds)
           /\ Range(SubSeq(b, 1, n)) \subseteq Range(b)
           /\ waiting \o SubSeq(b, 1, n) \in Seq(Submitters)
<1>1. b \in Seq(JobIds) /\ JobIds \subseteq Submitters
  BY JobsAreSubmitters
<1>2. \A i \in 1 .. n : i \in 1 .. Len(b)
  BY <1>1
<1>3. /\ SubSeq(b, 1, n) \in Seq(JobIds)
      /\ DOMAIN SubSeq(b, 1, n) = 1 .. n
      /\ \A i \in 1 .. n : SubSeq(b, 1, n)[i] = b[i]
  BY <1>1, <1>2
<1>4. Range(SubSeq(b, 1, n)) \subseteq Range(b)
  BY <1>1, <1>2, <1>3 DEF Range
<1>5. SubSeq(b, 1, n) \in Seq(Submitters)
  BY <1>1, <1>3
<1> QED
  BY <1>3, <1>4, <1>5

\* A batch, whatever becomes of it, leaves the types alone.
LEMMA BatchTypes ==
    ASSUME TypeOK, NEW b \in Batches, SubmitBatch(b)
    PROVE  TypeOK'
<1>1. /\ files' = files /\ saving' = saving /\ sync_reply' = sync_reply
      /\ download' = download
  BY DEF SubmitBatch
<1>2. b \in Seq(JobIds) /\ Len(b) \in Nat /\ Capacity \in Nat /\ waiting \in Seq(Submitters)
      /\ JobIds \subseteq Submitters /\ Len(waiting) \in Nat
  BY JobsAreSubmitters, TtsServerAssumption DEF TypeOK
<1>3. jobs \in [JobIds -> Job \cup {NoJob}]
  BY DEF TypeOK
<1>4. CASE BatchAccepted(b)
  <2>1. jobs' \in [JobIds -> Job \cup {NoJob}]
    BY <1>3, <1>4, StoreTypes DEF BatchAccepted
  <2>2. waiting' \in Seq(Submitters)
    BY <1>2, <1>4 DEF BatchAccepted
  <2>3. stage' \in [Submitters -> {"new", "waiting", "started", "refused"} \cup Outcomes]
    BY <1>4 DEF BatchAccepted, TypeOK
  <2> QED
    BY <1>1, <1>4, <2>1, <2>2, <2>3 DEF BatchAccepted, TypeOK
<1>5. CASE BatchRefused(b)
  <2>1. jobs' \in [JobIds -> Job \cup {NoJob}]
    <3>1. jobs' = MarkFailed(CreateJobs(jobs, Range(SubSeq(b, 1, Room + 1))),
                             Range(SubSeq(b, 1, Room + 1)))
      BY <1>5 DEF BatchRefused
    <3> QED
      BY <1>3, <3>1, StoreTypes
  <2>2. waiting' \in Seq(Submitters)
    <3>1. Room \in Int /\ Room <= Len(b)
      BY <1>2, <1>5 DEF Room, BatchRefused, Fits
    <3> QED
      BY <1>2, <1>5, <3>1, FrontOfBatch DEF BatchRefused
  <2>3. stage' \in [Submitters -> {"new", "waiting", "started", "refused"} \cup Outcomes]
    BY <1>5 DEF BatchRefused, TypeOK
  <2> QED
    BY <1>1, <1>5, <2>1, <2>2, <2>3 DEF BatchRefused, TypeOK
<1>6. CASE BatchRaises(b)
  <2>1. PICK k \in DOMAIN b :
          /\ jobs' = CreateJobs(jobs, Range(SubSeq(b, 1, k - 1)) \cup {b[k]})
          /\ waiting' = waiting \o SubSeq(b, 1, k - 1)
          /\ stage' = [r \in Submitters |->
                         IF r \in Range(SubSeq(b, 1, k - 1)) THEN "waiting" ELSE stage[r]]
    BY <1>6 DEF BatchRaises
  <2>2. jobs' \in [JobIds -> Job \cup {NoJob}]
    BY <1>3, <2>1, StoreTypes
  <2>3. waiting' \in Seq(Submitters)
    <3>1. k - 1 \in Int /\ k - 1 <= Len(b)
      BY <1>2
    <3> QED
      BY <1>2, <2>1, <3>1, FrontOfBatch
  <2>4. stage' \in [Submitters -> {"new", "waiting", "started", "refused"} \cup Outcomes]
    BY <2>1 DEF TypeOK
  <2> QED
    BY <1>1, <1>6, <2>2, <2>3, <2>4 DEF BatchRaises, TypeOK
<1> QED
  BY <1>4, <1>5, <1>6 DEF SubmitBatch

\* The queue's own steps keep its types.
LEMMA QueueTypes ==
    ASSUME waiting \in Seq(Submitters), NEW S,
           stage \in [Submitters -> {"new", "waiting", "started", "refused"} \cup S],
           \/ StartNext
           \/ \E r \in Submitters :
                \/ AcceptRequest(r) \/ RefuseRequest(r)
                \/ \E outcome \in S : FinishRequest(r, outcome)
    PROVE  /\ waiting' \in Seq(Submitters)
           /\ stage' \in [Submitters -> {"new", "waiting", "started", "refused"} \cup S]
<1>1. CASE StartNext
  BY <1>1 DEF StartNext
<1>2. ASSUME NEW r \in Submitters, AcceptRequest(r) \/ RefuseRequest(r)
      PROVE  /\ waiting' \in Seq(Submitters)
             /\ stage' \in [Submitters -> {"new", "waiting", "started", "refused"} \cup S]
  BY <1>2 DEF AcceptRequest, RefuseRequest
<1>3. ASSUME NEW r \in Submitters, NEW outcome \in S, FinishRequest(r, outcome)
      PROVE  /\ waiting' \in Seq(Submitters)
             /\ stage' \in [Submitters -> {"new", "waiting", "started", "refused"} \cup S]
  BY <1>3 DEF FinishRequest
<1> QED
  BY <1>1, <1>2, <1>3

\* Every step keeps the types.
LEMMA ServerTypesInductive ==
    ASSUME TypeOK, [Next]_vars
    PROVE  TypeOK'
<1>0. /\ jobs \in [JobIds -> Job \cup {NoJob}]
      /\ waiting \in Seq(Submitters)
      /\ stage \in [Submitters -> {"new", "waiting", "started", "refused"} \cup Outcomes]
  BY DEF TypeOK
<1>1. ASSUME NEW id \in JobIds, SubmitTts(id) PROVE TypeOK'
  <2>1. id \in Submitters
    BY JobsAreSubmitters
  <2>2. jobs' \in [JobIds -> Job \cup {NoJob}]
    <3>1. CreateJobs(jobs, {id}) \in [JobIds -> Job \cup {NoJob}]
      BY <1>0, StoreTypes
    <3>2. MarkFailed(CreateJobs(jobs, {id}), {id}) \in [JobIds -> Job \cup {NoJob}]
      BY <3>1, StoreTypes
    <3> QED
      BY <1>1, <3>1, <3>2 DEF SubmitTts
  <2>3. /\ waiting' \in Seq(Submitters)
        /\ stage' \in [Submitters -> {"new", "waiting", "started", "refused"} \cup Outcomes]
    BY <1>0, <1>1, <2>1, QueueTypes DEF SubmitTts
  <2> QED
    BY <1>1, <2>2, <2>3 DEF SubmitTts, TypeOK, serverVars
<1>2. ASSUME NEW id \in JobIds, SubmitTtsRaises(id) PROVE TypeOK'
  <2>1. jobs' \in [JobIds -> Job \cup {NoJob}]
    BY <1>0, <1>2, StoreTypes DEF SubmitTtsRaises
  <2> QED
    BY <1>2, <2>1 DEF SubmitTtsRaises, TypeOK, serverVars, requestQueueVars
<1>3. ASSUME NEW r \in Syncs, SubmitSync(r) PROVE TypeOK'
  <2>1. r \in Submitters
    BY JobsAreSubmitters
  <2>2. /\ waiting' \in Seq(Submitters)
        /\ stage' \in [Submitters -> {"new", "waiting", "started", "refused"} \cup Outcomes]
    <3>1. CASE UNCHANGED requestQueueVars
      BY <1>0, <3>1 DEF requestQueueVars
    <3>2. CASE AcceptRequest(r) \/ RefuseRequest(r)
      BY <1>0, <2>1, <3>2, QueueTypes
    <3> QED
      BY <1>3, <3>1, <3>2 DEF SubmitSync
  <2> QED
    BY <1>3, <2>2 DEF SubmitSync, TypeOK, storeVars
<1>4. ASSUME NEW r \in Submitters, Complete(r) PROVE TypeOK'
  <2>1. PICK outcome \in Outcomes :
          CompleteFailed(r, outcome) \/ CompleteGood(r, outcome) \/ CompleteSync(r, outcome)
    BY <1>4 DEF Complete
  <2>2. /\ waiting' \in Seq(Submitters)
        /\ stage' \in [Submitters -> {"new", "waiting", "started", "refused"} \cup Outcomes]
    BY <1>0, <2>1, QueueTypes DEF CompleteFailed, CompleteGood, CompleteSync
  <2>3. jobs' \in [JobIds -> Job \cup {NoJob}]
    <3>1. MarkRunning(jobs, r) \in [JobIds -> Job \cup {NoJob}]
      BY <1>0, StoreTypes
    <3>2. MarkFailed(MarkRunning(jobs, r), {r}) \in [JobIds -> Job \cup {NoJob}]
      BY <3>1, StoreTypes
    <3> QED
      BY <1>0, <2>1, <3>1, <3>2 DEF CompleteFailed, CompleteGood, CompleteSync, storeVars
  <2> QED
    BY <2>1, <2>2, <2>3
       DEF CompleteFailed, CompleteGood, CompleteSync, TypeOK, serverVars, storeVars
<1>5. ASSUME NEW id \in JobIds, Save(id) PROVE TypeOK'
  <2>1. jobs' \in [JobIds -> Job \cup {NoJob}]
    <3>1. MarkDone(jobs, id) \in [JobIds -> Job \cup {NoJob}]
      BY <1>0, StoreTypes
    <3> QED
      BY <1>0, <1>5, <3>1 DEF Save, SaveAudio, SaveAudioRaises, AudioSaved, storeVars
  <2> QED
    BY <1>5, <2>1 DEF Save, SaveAudio, SaveAudioRaises, AudioSaved, TypeOK, storeVars,
                      requestQueueVars
<1>6. ASSUME NEW id \in JobIds, Ttl(id) PROVE TypeOK'
  <2>1. jobs' \in [JobIds -> Job \cup {NoJob}]
    BY <1>0, <1>6 DEF Ttl, TtlPasses, HasJob, Job
  <2> QED
    BY <1>6, <2>1 DEF Ttl, TtlPasses, TypeOK, requestQueueVars, serverVars
<1>7. ASSUME Cleanup PROVE TypeOK'
  BY <1>7 DEF Cleanup, EvictExpired, Removed, TypeOK, requestQueueVars, serverVars
<1>8. ASSUME NEW r \in Syncs, ReplySync(r) PROVE TypeOK'
  BY <1>8 DEF ReplySync, TypeOK, storeVars, requestQueueVars
<1>9. ASSUME NEW d \in Downloads, NEW id \in JobIds, GetAudio(d, id) PROVE TypeOK'
  BY <1>9 DEF GetAudio, AudioReply, TypeOK, storeVars, requestQueueVars
<1>10. ASSUME NEW d \in Downloads, OpenAudio(d) PROVE TypeOK'
  BY <1>10 DEF OpenAudio, TypeOK, storeVars, requestQueueVars
<1>11. ASSUME NEW d \in Downloads, DeleteAfterSend(d) PROVE TypeOK'
  <2>1. jobs' \in [JobIds -> Job \cup {NoJob}]
    BY <1>0, <1>11, StoreTypes DEF DeleteAfterSend
  <2> QED
    BY <1>11, <2>1 DEF DeleteAfterSend, Removed, TypeOK, requestQueueVars
<1>12. ASSUME Start PROVE TypeOK'
  <2>1. /\ waiting' \in Seq(Submitters)
        /\ stage' \in [Submitters -> {"new", "waiting", "started", "refused"} \cup Outcomes]
    BY <1>0, <1>12, QueueTypes DEF Start
  <2> QED
    BY <1>12, <2>1 DEF Start, TypeOK, storeVars, serverVars
<1>13. CASE UNCHANGED vars
  BY <1>13 DEF vars, TypeOK, storeVars, requestQueueVars, serverVars
<1> QED
  BY <1>1, <1>2, <1>3, <1>4, <1>5, <1>6, <1>7, <1>8, <1>9, <1>10, <1>11, <1>12, <1>13,
     BatchTypes DEF Next, Serve

\* Every variable of the HTTP side has its type.
THEOREM ServerTypeCorrect == Spec => []TypeOK
<1>1. Init => TypeOK
  BY DEF Init, JobStoreInit, RequestQueueInit, TypeOK
<1>2. TypeOK /\ [Next]_vars => TypeOK'
  BY ServerTypesInductive
<1> QED
  BY <1>1, <1>2, PTL DEF Spec
-----------------------------------------------------------------------------
(* No ghosts, as long as the manager process answers. *)

IsPending(store, id) == HasJob(store, id) /\ store[id].status = "pending"

\* No method but create() makes a job pending, and the marks end it.
LEMMA StorePending ==
    ASSUME NEW store \in [JobIds -> Job \cup {NoJob}], NEW id, NEW ids, NEW k \in JobIds
    PROVE  /\ IsPending(CreateJobs(store, ids), k) => k \in ids \/ IsPending(store, k)
           /\ IsPending(MarkRunning(store, id), k) => k # id /\ IsPending(store, k)
           /\ IsPending(MarkDone(store, id), k) => k # id /\ IsPending(store, k)
           /\ IsPending(MarkFailed(store, ids), k) => k \notin ids /\ IsPending(store, k)
           /\ IsPending(ClearAudioPath(store, id), k) => IsPending(store, k)
<1>1. CASE HasJob(store, k)
  <2>1. store[k] \in Job
    BY <1>1 DEF HasJob
  <2>2. /\ [store[k] EXCEPT !.status = "running"].status = "running"
        /\ [store[k] EXCEPT !.status = "done", !.finished_at = "recent",
                            !.audio_path = TRUE].status = "done"
        /\ [store[k] EXCEPT !.status = "failed", !.finished_at = "recent"].status = "failed"
        /\ [store[k] EXCEPT !.audio_path = FALSE].status = store[k].status
    BY <2>1 DEF Job
  <2> QED
    BY <1>1, <2>1, <2>2
       DEF IsPending, HasJob, CreateJobs, MarkRunning, MarkDone, MarkFailed,
           ClearAudioPath, Mark
<1>2. CASE ~HasJob(store, k)
  BY <1>2 DEF IsPending, HasJob, CreateJobs, MarkRunning, MarkDone, MarkFailed,
              ClearAudioPath, Mark
<1> QED
  BY <1>1, <1>2

\* A refused batch ends in its failed jobs: what was queued, and one more.
LEMMA RefusedFront ==
    ASSUME TypeOK, NEW b \in Batches, ~Fits(b)
    PROVE  LET queued == SubSeq(b, 1, Room)
               made   == SubSeq(b, 1, Room + 1)
           IN  Room >= 0 => /\ Range(queued) \subseteq Range(made)
                            /\ Last(made) \in Range(made) \ Range(queued)
                            /\ Range(made) \subseteq Range(b)
<1>1. b \in Seq(JobIds) /\ Capacity \in Nat /\ Len(waiting) \in Nat
  BY TtsServerAssumption DEF TypeOK
<1>2. Room \in Int /\ Room < Len(b) /\ Len(b) \in Nat
  BY <1>1 DEF Fits, Room
<1>3. SUFFICES ASSUME Room >= 0
               PROVE  /\ Range(SubSeq(b, 1, Room)) \subseteq Range(SubSeq(b, 1, Room + 1))
                      /\ Last(SubSeq(b, 1, Room + 1))
                           \in Range(SubSeq(b, 1, Room + 1)) \ Range(SubSeq(b, 1, Room))
                      /\ Range(SubSeq(b, 1, Room + 1)) \subseteq Range(b)
  OBVIOUS
<1> DEFINE made == SubSeq(b, 1, Room + 1)
           queued == SubSeq(b, 1, Room)
<1>4. \A i \in 1 .. Room + 1 : i \in 1 .. Len(b)
  BY <1>2
<1>5. /\ made \in Seq(JobIds) /\ DOMAIN made = 1 .. Room + 1 /\ Len(made) = Room + 1
      /\ \A i \in 1 .. Room + 1 : made[i] = b[i]
  BY <1>1, <1>2, <1>3, <1>4
<1>6. /\ DOMAIN queued = 1 .. Room
      /\ \A i \in 1 .. Room : queued[i] = b[i]
  BY <1>1, <1>2, <1>3, <1>4
<1> HIDE DEF made, queued
<1>7. Range(queued) \subseteq Range(made)
  BY <1>2, <1>5, <1>6 DEF Range
<1>8. Last(made) \in Range(made) \ Range(queued)
  <2>1. Last(made) = b[Room + 1] /\ Last(made) \in Range(made)
    BY <1>2, <1>3, <1>5 DEF Last, Range
  <2>2. \A i \in 1 .. Room : b[i] # b[Room + 1]
    <3>1. \A i, j \in DOMAIN b : b[i] = b[j] => i = j
      BY TtsServerAssumption DEF IsInjective
    <3> QED
      BY <1>1, <1>2, <1>3, <3>1
  <2> QED
    BY <1>6, <2>1, <2>2 DEF Range
<1>9. Range(made) \subseteq Range(b)
  BY <1>1, <1>4, <1>5 DEF Range
<1> QED
  BY <1>7, <1>8, <1>9 DEF made, queued

-----------------------------------------------------------------------------
(* The queue never holds more than its capacity, so a batch that is refused *)
(* is refused at an item of its own: Room is not negative.                  *)

QueueBounded == Capacity > 0 => Len(waiting) <= Capacity

\* A batch that does not fit finds a limited queue with room for fewer.
LEMMA RoomIsNat ==
    ASSUME TypeOK, QueueBounded, NEW b \in Batches, ~Fits(b)
    PROVE  Room \in Nat /\ Room < Len(b) /\ Capacity > 0
<1>1. b \in Seq(JobIds) /\ Capacity \in Nat /\ Len(waiting) \in Nat
  BY TtsServerAssumption DEF TypeOK
<1> QED
  BY <1>1 DEF Fits, Room, QueueBounded

\* How much longer a batch makes the queue.
LEMMA FrontLength ==
    ASSUME NEW b \in Batches, NEW n \in Nat, n <= Len(b), waiting \in Seq(Submitters)
    PROVE  Len(waiting \o SubSeq(b, 1, n)) = Len(waiting) + n
<1>1. b \in Seq(Submitters)
  BY JobsAreSubmitters
<1>2. \A i \in 1 .. n : i \in 1 .. Len(b)
  BY <1>1
<1>3. SubSeq(b, 1, n) \in Seq(Submitters) /\ Len(SubSeq(b, 1, n)) = n
  BY <1>1, <1>2
<1> QED
  BY <1>3

\* No endpoint puts more into the queue than its capacity.
LEMMA QueueBoundedInductive ==
    ASSUME TypeOK, QueueBounded, [Next]_vars
    PROVE  QueueBounded'
<1>0. /\ Capacity \in Nat /\ Len(waiting) \in Nat /\ waiting \in Seq(Submitters)
  BY TtsServerAssumption DEF TypeOK
<1>1. CASE waiting' = waiting
  BY <1>1 DEF QueueBounded
<1>2. ASSUME NEW r \in Submitters, AcceptRequest(r) PROVE QueueBounded'
  BY <1>0, <1>2 DEF AcceptRequest, IsFull, QueueBounded
<1>3. CASE StartNext
  <2>1. Len(Tail(waiting)) <= Len(waiting)
    BY <1>0, <1>3 DEF StartNext
  <2> QED
    BY <1>0, <1>3, <2>1 DEF StartNext, QueueBounded
<1>4. ASSUME NEW b \in Batches, SubmitBatch(b) PROVE QueueBounded'
  <2>0. b \in Seq(JobIds) /\ Len(b) \in Nat /\ JobIds \subseteq Submitters
    BY JobsAreSubmitters
  <2>1. CASE BatchAccepted(b)
    <3>1. Len(waiting \o b) = Len(waiting) + Len(b)
      BY <1>0, <2>0
    <3> QED
      BY <1>0, <2>0, <2>1, <3>1 DEF BatchAccepted, Fits, Room, QueueBounded
  <2>2. CASE BatchRefused(b)
    <3>1. Room \in Nat /\ Room < Len(b) /\ ~Fits(b)
      BY <2>2, RoomIsNat DEF BatchRefused
    <3>2. Len(waiting') = Len(waiting) + Room
      BY <1>0, <2>0, <2>2, <3>1, FrontLength DEF BatchRefused
    <3> QED
      BY <1>0, <3>1, <3>2 DEF Room, QueueBounded
  <2>3. CASE BatchRaises(b)
    <3>1. PICK k \in DOMAIN b : /\ Fits(SubSeq(b, 1, k - 1))
                                /\ waiting' = waiting \o SubSeq(b, 1, k - 1)
      BY <2>3 DEF BatchRaises
    <3>2. k - 1 \in Nat /\ k - 1 <= Len(b)
      BY <2>0
    <3>3. Len(waiting') = Len(waiting) + (k - 1)
      BY <1>0, <3>1, <3>2, FrontLength
    <3>4. Len(SubSeq(b, 1, k - 1)) = k - 1
      BY <2>0, <3>2
    <3> QED
      BY <1>0, <3>1, <3>2, <3>3, <3>4 DEF Fits, Room, QueueBounded
  <2> QED
    BY <1>4, <2>1, <2>2, <2>3 DEF SubmitBatch
<1>5. ASSUME NEW r \in Submitters, RefuseRequest(r) PROVE QueueBounded'
  BY <1>1, <1>5 DEF RefuseRequest
<1>6. ASSUME NEW id \in JobIds, SubmitTts(id) PROVE QueueBounded'
  <2>1. id \in Submitters
    BY JobsAreSubmitters
  <2> QED
    BY <1>2, <1>5, <1>6, <2>1 DEF SubmitTts
<1>7. ASSUME NEW r \in Syncs, SubmitSync(r) PROVE QueueBounded'
  <2>1. r \in Submitters
    BY JobsAreSubmitters
  <2> QED
    BY <1>1, <1>2, <1>5, <1>7, <2>1 DEF SubmitSync, requestQueueVars
<1>8. ASSUME NEW r \in Submitters, Complete(r) PROVE QueueBounded'
  BY <1>1, <1>8 DEF Complete, CompleteFailed, CompleteGood, CompleteSync, FinishRequest
<1>9. CASE UNCHANGED requestQueueVars
  BY <1>1, <1>9 DEF requestQueueVars
<1> QED
  BY <1>3, <1>4, <1>6, <1>7, <1>8, <1>9
     DEF Next, SubmitTtsRaises, Save, SaveAudio, SaveAudioRaises, AudioSaved, Ttl, Cleanup,
         Serve, OpenAudio, DeleteAfterSend, GetAudio, ReplySync, Start, vars

-----------------------------------------------------------------------------
(* The two invariants of the endpoints. *)

\* No step leaves a pending job outside the queue.
LEMMA GhostInductive ==
    ASSUME TypeOK, QueueBounded, "manager" \notin Faults, NoGhostPending, [Next]_vars
    PROVE  NoGhostPending'
<1>0. /\ jobs \in [JobIds -> Job \cup {NoJob}]
      /\ stage \in [Submitters -> {"new", "waiting", "started", "refused"} \cup Outcomes]
      /\ JobIds \subseteq Submitters
  BY JobsAreSubmitters DEF TypeOK
<1> DEFINE Ghosts(k) == IsPending(jobs', k) /\ stage'[k] \notin {"waiting", "started"}
<1>1. SUFFICES ASSUME NEW k \in JobIds, Ghosts(k) PROVE FALSE
  BY DEF NoGhostPending, IsPending
<1>2. IsPending(jobs, k) => stage[k] \in {"waiting", "started"}
  BY DEF NoGhostPending, IsPending
<1>3. CASE /\ IsPending(jobs', k) => IsPending(jobs, k)
           /\ stage'[k] = stage[k]
  BY <1>1, <1>2, <1>3
<1>4. ASSUME NEW id \in JobIds, SubmitTts(id) PROVE FALSE
  <2>1. CASE AcceptRequest(id) /\ jobs' = CreateJobs(jobs, {id})
    <3>1. k = id \/ IsPending(jobs, k)
      BY <1>0, <1>1, <2>1, StorePending
    <3> QED
      BY <1>0, <1>1, <1>2, <2>1, <3>1 DEF AcceptRequest
  <2>2. CASE RefuseRequest(id) /\ jobs' = MarkFailed(CreateJobs(jobs, {id}), {id})
    <3>1. CreateJobs(jobs, {id}) \in [JobIds -> Job \cup {NoJob}]
      BY <1>0, StoreTypes
    <3>2. k # id /\ IsPending(CreateJobs(jobs, {id}), k)
      BY <1>1, <2>2, <3>1, StorePending
    <3>3. IsPending(jobs, k)
      BY <1>0, <3>2, StorePending
    <3> QED
      BY <1>0, <1>1, <1>2, <2>2, <3>2, <3>3 DEF RefuseRequest
  <2> QED
    BY <1>4, <2>1, <2>2 DEF SubmitTts
<1>5. ASSUME NEW b \in Batches, SubmitBatch(b) PROVE FALSE
  <2>1. CASE BatchAccepted(b)
    <3>1. k \in Range(b) \/ IsPending(jobs, k)
      BY <1>0, <1>1, <2>1, StorePending DEF BatchAccepted
    <3> QED
      BY <1>0, <1>1, <1>2, <2>1, <3>1 DEF BatchAccepted
  <2>2. CASE BatchRefused(b)
    <3> DEFINE made == SubSeq(b, 1, Room + 1)
               queued == SubSeq(b, 1, Room)
    <3>0. ~Fits(b) /\ Room >= 0
      BY <2>2, RoomIsNat DEF BatchRefused
    <3>1. Range(queued) \subseteq Range(made) /\ Last(made) \in Range(made)
      BY <3>0, RefusedFront
    <3>2. /\ jobs' = MarkFailed(CreateJobs(jobs, Range(made)), Range(made))
          /\ k \notin Range(made) => stage'[k] = stage[k]
      <4>1. stage' = [r \in Submitters |-> CASE r \in Range(queued) -> "waiting"
                                             [] r = Last(made) -> "refused"
                                             [] OTHER -> stage[r]]
        BY <2>2 DEF BatchRefused
      <4>2. k \in Submitters
        BY <1>0
      <4> HIDE DEF made, queued
      <4>3. k \notin Range(made) => k \notin Range(queued) /\ k # Last(made)
        BY <3>1
      <4>4. k \notin Range(made) => stage'[k] = stage[k]
        BY <4>1, <4>2, <4>3
      <4> QED
        BY <2>2, <4>4 DEF BatchRefused, made
    <3> HIDE DEF made, queued
    <3>3. CreateJobs(jobs, Range(made)) \in [JobIds -> Job \cup {NoJob}]
      BY <1>0, StoreTypes
    <3>4. k \notin Range(made) /\ IsPending(CreateJobs(jobs, Range(made)), k)
      BY <1>1, <3>2, <3>3, StorePending
    <3>5. IsPending(jobs, k)
      BY <1>0, <3>4, StorePending
    <3> QED
      BY <1>1, <1>2, <3>2, <3>4, <3>5
  <2> QED
    BY <1>5, <2>1, <2>2 DEF SubmitBatch, BatchRaises
<1>6. ASSUME NEW r \in Submitters, Complete(r) PROVE FALSE
  <2>1. PICK outcome \in Outcomes :
          CompleteFailed(r, outcome) \/ CompleteGood(r, outcome) \/ CompleteSync(r, outcome)
    BY <1>6 DEF Complete
  <2>2. CASE CompleteFailed(r, outcome)
    <3>1. MarkRunning(jobs, r) \in [JobIds -> Job \cup {NoJob}]
      BY <1>0, StoreTypes
    <3>2. k # r /\ IsPending(MarkRunning(jobs, r), k)
      BY <1>1, <2>2, <3>1, StorePending DEF CompleteFailed
    <3>3. IsPending(jobs, k)
      BY <1>0, <3>2, StorePending
    <3> QED
      BY <1>0, <1>1, <1>2, <2>2, <3>2, <3>3 DEF CompleteFailed, FinishRequest
  <2>3. CASE CompleteGood(r, outcome)
    <3>1. k # r /\ IsPending(jobs, k)
      BY <1>0, <1>1, <2>3, StorePending DEF CompleteGood
    <3> QED
      BY <1>0, <1>1, <1>2, <2>3, <3>1 DEF CompleteGood, FinishRequest
  <2>4. CASE CompleteSync(r, outcome)
    <3>1. k # r /\ k \in Submitters
      BY <2>4, JobsAreSubmitters DEF CompleteSync
    <3> QED
      BY <1>0, <1>3, <2>4, <3>1 DEF CompleteSync, FinishRequest, storeVars
  <2> QED
    BY <2>1, <2>2, <2>3, <2>4
<1>7. CASE Start
  <2>1. stage'[k] = "started" \/ stage'[k] = stage[k]
    BY <1>0, <1>7 DEF Start, StartNext
  <2> QED
    BY <1>1, <1>2, <1>7, <2>1 DEF Start, storeVars
<1>8. ASSUME NEW id \in JobIds, Save(id) PROVE FALSE
  <2>1. IsPending(MarkDone(jobs, id), k) => IsPending(jobs, k)
    BY <1>0, StorePending
  <2> QED
    BY <1>3, <1>8, <2>1
       DEF Save, SaveAudio, SaveAudioRaises, AudioSaved, storeVars, requestQueueVars
<1>9. ASSUME NEW id \in JobIds, Ttl(id) PROVE FALSE
  <2>1. jobs'[k] = jobs[k] \/ jobs'[k] = [jobs[k] EXCEPT !.finished_at = "expired"]
    BY <1>0, <1>9 DEF Ttl, TtlPasses
  <2>2. CASE HasJob(jobs, k)
    <3>1. jobs[k] \in Job
      BY <1>0, <2>2 DEF HasJob
    <3>2. jobs'[k].status = jobs[k].status
      BY <2>1, <3>1 DEF Job
    <3> QED
      BY <1>3, <1>9, <2>2, <3>2 DEF Ttl, requestQueueVars, IsPending
  <2>3. CASE ~HasJob(jobs, k)
    <3>1. jobs'[k] = jobs[k]
      BY <1>0, <1>9, <2>3 DEF Ttl, TtlPasses, HasJob
    <3> QED
      BY <1>3, <1>9, <3>1 DEF Ttl, requestQueueVars, IsPending, HasJob
  <2> QED
    BY <2>2, <2>3
<1>10. CASE Cleanup
  <2>1. jobs'[k] = jobs[k] \/ jobs'[k] = NoJob
    BY <1>0, <1>10 DEF Cleanup, EvictExpired
  <2> QED
    BY <1>3, <1>10, <2>1 DEF Cleanup, requestQueueVars, IsPending, HasJob
<1>11. ASSUME NEW d \in Downloads, DeleteAfterSend(d) PROVE FALSE
  <2>1. IsPending(ClearAudioPath(jobs, download[d].job), k) => IsPending(jobs, k)
    BY <1>0, StorePending
  <2> QED
    BY <1>3, <1>11, <2>1 DEF DeleteAfterSend, requestQueueVars
<1>12. ASSUME NEW r \in Syncs, SubmitSync(r) PROVE FALSE
  <2>1. k # r /\ k \in Submitters
    BY <1>12, JobsAreSubmitters
  <2> QED
    BY <1>0, <1>3, <1>12, <2>1
       DEF SubmitSync, AcceptRequest, RefuseRequest, requestQueueVars, storeVars
<1>13. CASE UNCHANGED <<jobs, stage>>
  BY <1>3, <1>13
<1> QED
  BY <1>4, <1>5, <1>6, <1>7, <1>8, <1>9, <1>10, <1>11, <1>12, <1>13
     DEF Next, SubmitTtsRaises, Serve, OpenAudio, GetAudio, ReplySync, vars, storeVars,
         requestQueueVars

\* "The store does not accumulate ghosts": while queues can be made, a pending
\* job is in the queue or taken out of it, whatever is submitted.
THEOREM NoGhosts ==
    ASSUME "manager" \notin Faults
    PROVE  Spec => []NoGhostPending
<1>1. Init => TypeOK /\ QueueBounded /\ NoGhostPending
  BY TtsServerAssumption
     DEF Init, JobStoreInit, RequestQueueInit, TypeOK, QueueBounded, NoGhostPending, HasJob
<1>2. TypeOK /\ QueueBounded /\ NoGhostPending /\ [Next]_vars
        => TypeOK' /\ QueueBounded' /\ NoGhostPending'
  BY ServerTypesInductive, QueueBoundedInductive, GhostInductive
<1> QED
  BY <1>1, <1>2, PTL DEF Spec

-----------------------------------------------------------------------------
(* The audio of a done job is on disk.                                     *)
(*                                                                         *)
(* Two things delete a file: the cleanup, with the record, and the end of  *)
(* a download, which clears the path.  Neither may hit the callback between*)
(* its save and its mark_done(): there the file is on disk and nobody can  *)
(* ask for it.  A request completes once, so the callback runs once.       *)

\* What lets somebody delete the file of a job: its path is in the record, or
\* a download has passed the check of the path.
HeldIn(store, id) == HasJob(store, id) /\ store[id].audio_path
Held(id) == HeldIn(jobs, id)
Asked(id) == \E d \in Downloads :
                download[d].job = id /\ download[d].at \in {"opening", "sending"}

\* Who is in the queue is there once, and has not been started.
QueueInOrder ==
    /\ \A i \in 1 .. Len(waiting) : stage[waiting[i]] = "waiting"
    /\ \A i, j \in 1 .. Len(waiting) : waiting[i] = waiting[j] => i = j

\* The items of a batch that was not posted have never been submitted.
UnpostedIsNew ==
    \A b \in Batches : batch_reply[b] = "none" => \A id \in Range(b) : stage[id] = "new"

\* Nobody can ask for the audio of a request that has not ended.
UnfinishedIsPrivate ==
    \A id \in JobIds :
        stage[id] \notin Outcomes => saving[id] = "no" /\ ~Held(id) /\ ~Asked(id)

\* Nor for audio the callback is saving, and what it has saved is on disk.
SavingIsPrivate ==
    \A id \in JobIds :
        /\ saving[id] \in {"saving", "saved"} =>
              stage[id] \in Outcomes /\ ~Held(id) /\ ~Asked(id)
        /\ saving[id] = "saved" => id \in files

QueueInv == QueueInOrder /\ UnpostedIsNew
AudioInv == UnfinishedIsPrivate /\ SavingIsPrivate /\ DoneHasAudio

\* Requests that come new into the queue, behind the others, keep its order.
LEMMA Enqueued ==
    ASSUME QueueInOrder, waiting \in Seq(Submitters),
           NEW s \in Seq(Submitters),
           waiting' = waiting \o s,
           \A i \in 1 .. Len(s) : stage[s[i]] = "new" /\ stage'[s[i]] = "waiting",
           \A i, j \in 1 .. Len(s) : s[i] = s[j] => i = j,
           \A r \in Submitters : stage[r] = "waiting" => stage'[r] = "waiting"
    PROVE  QueueInOrder'
<1>1. /\ Len(waiting') = Len(waiting) + Len(s)
      /\ \A i \in 1 .. Len(waiting') :
           \/ i \in 1 .. Len(waiting) /\ waiting'[i] = waiting[i]
           \/ i - Len(waiting) \in 1 .. Len(s) /\ waiting'[i] = s[i - Len(waiting)]
  OBVIOUS
<1>2. \A i \in 1 .. Len(waiting) : waiting[i] \in Submitters
  OBVIOUS
<1>3. ASSUME NEW i \in 1 .. Len(waiting') PROVE stage'[waiting'[i]] = "waiting"
  BY <1>1, <1>2 DEF QueueInOrder
<1>4. ASSUME NEW i \in 1 .. Len(waiting'), NEW j \in 1 .. Len(waiting'),
             waiting'[i] = waiting'[j]
      PROVE  i = j
  <2>1. CASE i \in 1 .. Len(waiting) /\ j \in 1 .. Len(waiting)
    BY <1>1, <1>4, <2>1 DEF QueueInOrder
  <2>2. CASE i - Len(waiting) \in 1 .. Len(s) /\ j - Len(waiting) \in 1 .. Len(s)
    <3>1. waiting'[i] = s[i - Len(waiting)] /\ waiting'[j] = s[j - Len(waiting)]
      BY <1>1, <2>2
    <3>2. i - Len(waiting) = j - Len(waiting)
      BY <1>4, <2>2, <3>1
    <3> QED
      BY <3>2
  <2>3. ASSUME NEW m \in 1 .. Len(waiting), NEW n \in 1 .. Len(s), waiting[m] = s[n]
        PROVE  FALSE
    BY <2>3 DEF QueueInOrder
  <2> QED
    BY <1>1, <1>4, <2>1, <2>2, <2>3
<1> QED
  BY <1>3, <1>4 DEF QueueInOrder

\* A step of a request that does not wait leaves the queue in order.
LEMMA OrderStays ==
    ASSUME QueueInOrder, waiting \in Seq(Submitters), waiting' = waiting,
           \A r \in Submitters : stage[r] = "waiting" => stage'[r] = "waiting"
    PROVE  QueueInOrder'
<1>1. \A i \in 1 .. Len(waiting) : waiting[i] \in Submitters
  OBVIOUS
<1> QED
  BY <1>1 DEF QueueInOrder

\* The front of a batch that was not posted can go into the queue.
LEMMA FrontIsNew ==
    ASSUME TypeOK, UnpostedIsNew, NEW b \in Batches, batch_reply[b] = "none",
           NEW n \in Nat, n <= Len(b)
    PROVE  LET s == SubSeq(b, 1, n)
           IN  /\ s \in Seq(Submitters) /\ Len(s) = n
               /\ \A i \in 1 .. n : s[i] \in Range(s) /\ stage[s[i]] = "new"
               /\ \A i, j \in 1 .. n : s[i] = s[j] => i = j
<1>1. b \in Seq(Submitters)
  BY JobsAreSubmitters
<1>2. \A i \in 1 .. n : i \in DOMAIN b
  BY <1>1
<1>3. \A i, j \in DOMAIN b : b[i] = b[j] => i = j
  BY TtsServerAssumption DEF IsInjective
<1>4. \A i \in DOMAIN b : stage[b[i]] = "new"
  BY DEF UnpostedIsNew, Range
<1> DEFINE s == SubSeq(b, 1, n)
<1>5. /\ s \in Seq(Submitters) /\ Len(s) = n /\ DOMAIN s = 1 .. n
      /\ \A i \in 1 .. n : s[i] = b[i]
  BY <1>1, <1>2
<1> HIDE DEF s
<1>6. \A i \in 1 .. n : s[i] \in Range(s)
  BY <1>5 DEF Range
<1> QED
  BY <1>2, <1>3, <1>4, <1>5, <1>6 DEF s

\* What a batch does to the stages of the requests.
LEMMA BatchStages ==
    ASSUME TypeOK, QueueBounded, UnpostedIsNew, NEW b \in Batches, SubmitBatch(b)
    PROVE  \E n \in Nat :
             /\ n <= Len(b)
             /\ waiting' = waiting \o SubSeq(b, 1, n)
             /\ \A r \in Submitters :
                  IF r \in Range(SubSeq(b, 1, n)) THEN stage'[r] = "waiting"
                  ELSE \/ stage'[r] = stage[r]
                       \/ r \in Range(b) /\ stage[r] = "new" /\ stage'[r] = "refused"
<1>0. /\ b \in Seq(JobIds) /\ Len(b) \in Nat /\ batch_reply[b] = "none"
      /\ \A r \in Range(b) : stage[r] = "new"
  BY JobsAreSubmitters DEF SubmitBatch, UnpostedIsNew
<1>1. CASE BatchAccepted(b)
  <2>1. SubSeq(b, 1, Len(b)) = b
    BY <1>0
  <2>2. \A r \in Submitters :
          IF r \in Range(SubSeq(b, 1, Len(b))) THEN stage'[r] = "waiting"
                                               ELSE stage'[r] = stage[r]
    BY <1>1, <2>1 DEF BatchAccepted
  <2> WITNESS Len(b) \in Nat
  <2> QED
    BY <1>0, <1>1, <2>1, <2>2 DEF BatchAccepted
<1>2. CASE BatchRefused(b)
  <2>1. Room \in Nat /\ Room < Len(b) /\ ~Fits(b)
    BY <1>2, RoomIsNat DEF BatchRefused
  <2> DEFINE queued == SubSeq(b, 1, Room)
             last   == Last(SubSeq(b, 1, Room + 1))
  <2>2. last \in Range(b) /\ last \notin Range(queued)
    <3>1. Room >= 0
      BY <2>1
    <3> QED
      BY <2>1, <3>1, RefusedFront
  <2>3. stage' = [r \in Submitters |-> CASE r \in Range(queued) -> "waiting"
                                         [] r = last -> "refused"
                                         [] OTHER -> stage[r]]
    BY <1>2 DEF BatchRefused
  <2>4. waiting' = waiting \o queued
    BY <1>2 DEF BatchRefused
  <2> HIDE DEF queued, last
  <2>5. ASSUME NEW r \in Submitters
        PROVE  IF r \in Range(queued) THEN stage'[r] = "waiting"
               ELSE \/ stage'[r] = stage[r]
                    \/ r \in Range(b) /\ stage[r] = "new" /\ stage'[r] = "refused"
    <3>1. CASE r \in Range(queued)
      <4>1. stage'[r] = "waiting"
        BY <2>2, <2>3, <3>1
      <4> QED
        BY <3>1, <4>1
    <3>2. CASE r \notin Range(queued) /\ r = last
      <4>1. stage'[r] = "refused"
        BY <2>3, <3>2
      <4> QED
        BY <1>0, <2>2, <3>2, <4>1
    <3>3. CASE r \notin Range(queued) /\ r # last
      <4>1. stage'[r] = stage[r]
        BY <2>3, <3>3
      <4> QED
        BY <3>3, <4>1
    <3> QED
      BY <3>1, <3>2, <3>3
  <2>6. Room \in Nat /\ Room <= Len(b)
    BY <1>0, <2>1
  <2> QED
    BY <2>4, <2>5, <2>6 DEF queued
<1>3. CASE BatchRaises(b)
  <2>1. PICK k \in DOMAIN b :
          /\ waiting' = waiting \o SubSeq(b, 1, k - 1)
          /\ stage' = [r \in Submitters |->
                         IF r \in Range(SubSeq(b, 1, k - 1)) THEN "waiting" ELSE stage[r]]
    BY <1>3 DEF BatchRaises
  <2>2. k - 1 \in Nat /\ k - 1 <= Len(b)
    BY <1>0
  <2>3. \A r \in Submitters :
          IF r \in Range(SubSeq(b, 1, k - 1)) THEN stage'[r] = "waiting"
                                              ELSE stage'[r] = stage[r]
    BY <2>1
  <2> WITNESS k - 1 \in Nat
  <2> QED
    BY <2>1, <2>2, <2>3
<1> QED
  BY <1>1, <1>2, <1>3 DEF SubmitBatch

\* What the queue does to one request of POST /v1/tts or /audio.
LEMMA QueueStepOrder ==
    ASSUME TypeOK, QueueInOrder, NEW r \in Submitters,
           AcceptRequest(r) \/ RefuseRequest(r) \/ StartNext
             \/ \E outcome \in Outcomes : FinishRequest(r, outcome)
    PROVE  QueueInOrder'
<1>0. /\ waiting \in Seq(Submitters)
      /\ stage \in [Submitters -> {"new", "waiting", "started", "refused"} \cup Outcomes]
  BY DEF TypeOK
<1>1. CASE AcceptRequest(r)
  <2>1. /\ <<r>> \in Seq(Submitters) /\ Len(<<r>>) = 1 /\ <<r>>[1] = r
        /\ waiting' = waiting \o <<r>>
    BY <1>0, <1>1, AppendIsConcat DEF AcceptRequest
  <2>2. stage[r] = "new" /\ stage'[r] = "waiting"
    BY <1>0, <1>1 DEF AcceptRequest
  <2>3. \A q \in Submitters : stage[q] = "waiting" => stage'[q] = "waiting"
    BY <1>0, <1>1 DEF AcceptRequest
  <2>4. \A i \in 1 .. Len(<<r>>) : i = 1
    BY <2>1
  <2> QED
    BY <1>0, <2>1, <2>2, <2>3, <2>4, Enqueued
<1>2. CASE RefuseRequest(r) \/ \E outcome \in Outcomes : FinishRequest(r, outcome)
  <2>1. waiting' = waiting /\ \A q \in Submitters : stage[q] = "waiting" => stage'[q] = "waiting"
    BY <1>0, <1>2 DEF RefuseRequest, FinishRequest
  <2> QED
    BY <1>0, <2>1, OrderStays
<1>3. CASE StartNext
  <2>1. /\ waiting' = Tail(waiting) /\ Len(waiting) >= 1 /\ Head(waiting) = waiting[1]
        /\ Len(waiting') = Len(waiting) - 1
        /\ \A i \in 1 .. Len(waiting') : /\ waiting'[i] = waiting[i + 1]
                                         /\ i + 1 \in 1 .. Len(waiting)
                                         /\ waiting[i + 1] \in Submitters
    BY <1>0, <1>3 DEF StartNext
  <2>2. \A i \in 1 .. Len(waiting') : waiting[i + 1] # waiting[1] /\ 1 \in 1 .. Len(waiting)
    BY <1>0, <2>1 DEF QueueInOrder
  <2>3. \A q \in Submitters : q # waiting[1] => stage'[q] = stage[q]
    BY <1>0, <1>3, <2>1 DEF StartNext
  <2>4. \A i \in 1 .. Len(waiting') : stage'[waiting'[i]] = "waiting"
    BY <2>1, <2>2, <2>3 DEF QueueInOrder
  <2>5. ASSUME NEW i \in 1 .. Len(waiting'), NEW j \in 1 .. Len(waiting'),
               waiting'[i] = waiting'[j]
        PROVE  i = j
    <3>1. i + 1 = j + 1
      BY <2>1, <2>5 DEF QueueInOrder
    <3> QED
      BY <1>0, <2>1, <3>1
  <2> QED
    BY <2>4, <2>5 DEF QueueInOrder
<1> QED
  BY <1>1, <1>2, <1>3

\* A batch joins the queue in order, whole or in part.
LEMMA BatchOrder ==
    ASSUME TypeOK, QueueBounded, QueueInv, NEW b \in Batches, SubmitBatch(b)
    PROVE  QueueInOrder'
<1>1. PICK n \in Nat :
        /\ n <= Len(b)
        /\ waiting' = waiting \o SubSeq(b, 1, n)
        /\ \A r \in Submitters :
             IF r \in Range(SubSeq(b, 1, n)) THEN stage'[r] = "waiting"
             ELSE \/ stage'[r] = stage[r]
                  \/ r \in Range(b) /\ stage[r] = "new" /\ stage'[r] = "refused"
  BY BatchStages DEF QueueInv
<1> DEFINE s == SubSeq(b, 1, n)
<1>2. /\ s \in Seq(Submitters) /\ Len(s) = n
      /\ \A i \in 1 .. n : s[i] \in Range(s) /\ stage[s[i]] = "new"
      /\ \A i, j \in 1 .. n : s[i] = s[j] => i = j
  BY <1>1, FrontIsNew DEF QueueInv, SubmitBatch
<1> HIDE DEF s
<1>3. \A i \in 1 .. n : s[i] \in Submitters
  BY <1>2
<1>4. \A i \in 1 .. n : stage'[s[i]] = "waiting"
  BY <1>1, <1>2, <1>3 DEF s
<1>5. \A r \in Submitters : stage[r] = "waiting" => stage'[r] = "waiting"
  BY <1>1
<1>6. waiting \in Seq(Submitters) /\ waiting' = waiting \o s
  BY <1>1 DEF TypeOK, s
<1> QED
  BY <1>2, <1>4, <1>5, <1>6, Enqueued DEF QueueInv

\* Every step keeps the order of the queue and leaves unposted batches alone.
LEMMA QueueInvInductive ==
    ASSUME TypeOK, QueueBounded, QueueInv, [Next]_vars
    PROVE  QueueInv'
<1>0. /\ waiting \in Seq(Submitters)
      /\ stage \in [Submitters -> {"new", "waiting", "started", "refused"} \cup Outcomes]
      /\ batch_reply \in [Batches -> {"none", "202", "500", "503"}]
      /\ QueueInOrder /\ UnpostedIsNew
  BY DEF TypeOK, QueueInv
<1>1. \A b \in Batches : \A k \in Range(b) :
        k \in JobIds /\ k \in Submitters /\ k \notin Singles /\ k \notin Syncs
  <2>1. \A b \in Batches : \A k \in Range(b) : k \in JobIds
    BY JobsAreSubmitters DEF Range
  <2>2. \A b \in Batches : \A k \in Range(b) : k \in BatchJobs
    BY DEF BatchJobs
  <2> QED
    BY <2>1, <2>2, TtsServerAssumption
<1>2. ASSUME \A b \in Batches :
               batch_reply'[b] = "none" =>
                 /\ batch_reply[b] = "none"
                 /\ \A k \in Range(b) : stage[k] = "new" => stage'[k] = "new"
      PROVE  UnpostedIsNew'
  BY <1>0, <1>2 DEF UnpostedIsNew
<1>3. ASSUME UNCHANGED <<waiting, stage, batch_reply>> PROVE QueueInv'
  BY <1>0, <1>3 DEF QueueInv, QueueInOrder, UnpostedIsNew
<1>4. ASSUME NEW r \in Submitters,
             AcceptRequest(r) \/ RefuseRequest(r) => r \in Singles \cup Syncs,
             AcceptRequest(r) \/ RefuseRequest(r) \/ StartNext
               \/ \E outcome \in Outcomes : FinishRequest(r, outcome),
             batch_reply' = batch_reply
      PROVE  QueueInv'
  <2>1. QueueInOrder'
    BY <1>0, <1>4, QueueStepOrder
  <2>2. CASE AcceptRequest(r) \/ RefuseRequest(r)
    <3>1. \A b \in Batches : \A k \in Range(b) : k # r
      BY <1>1, <1>4, <2>2
    <3>2. \A k \in Submitters : k # r => stage'[k] = stage[k]
      BY <1>0, <2>2 DEF AcceptRequest, RefuseRequest
    <3> QED
      BY <1>1, <1>2, <1>4, <2>1, <3>1, <3>2 DEF QueueInv
  <2>3. CASE StartNext
    <3>1. stage[Head(waiting)] = "waiting"
      <4>1. 1 \in 1 .. Len(waiting) /\ Head(waiting) = waiting[1]
        BY <1>0, <2>3 DEF StartNext
      <4> QED
        BY <1>0, <4>1 DEF QueueInOrder
    <3>2. \A k \in Submitters : stage[k] = "new" => stage'[k] = "new"
      BY <1>0, <2>3, <3>1 DEF StartNext
    <3> QED
      BY <1>1, <1>2, <1>4, <2>1, <3>2 DEF QueueInv
  <2>4. CASE \E outcome \in Outcomes : FinishRequest(r, outcome)
    <3>1. \A k \in Submitters : stage[k] = "new" => stage'[k] = "new"
      BY <1>0, <2>4 DEF FinishRequest
    <3> QED
      BY <1>1, <1>2, <1>4, <2>1, <3>1 DEF QueueInv
  <2> QED
    BY <1>4, <2>2, <2>3, <2>4
<1>5. ASSUME NEW b \in Batches, SubmitBatch(b) PROVE QueueInv'
  <2>1. QueueInOrder'
    BY <1>5, BatchOrder
  <2>2. PICK n \in Nat :
          /\ n <= Len(b)
          /\ \A r \in Submitters :
               IF r \in Range(SubSeq(b, 1, n)) THEN stage'[r] = "waiting"
               ELSE \/ stage'[r] = stage[r]
                    \/ r \in Range(b) /\ stage[r] = "new" /\ stage'[r] = "refused"
    BY <1>0, <1>5, BatchStages
  <2>3. Range(SubSeq(b, 1, n)) \subseteq Range(b)
    BY <1>0, <2>2, FrontOfBatch
  <2>4. batch_reply'[b] # "none"
    BY <1>0, <1>5 DEF SubmitBatch, BatchAccepted, BatchRefused, BatchRaises
  <2>5. \A c \in Batches : c # b => batch_reply'[c] = batch_reply[c]
    BY <1>0, <1>5 DEF SubmitBatch, BatchAccepted, BatchRefused, BatchRaises
  <2>6. ASSUME NEW c \in Batches, batch_reply'[c] = "none", NEW k \in Range(c),
               stage[k] = "new"
        PROVE  batch_reply[c] = "none" /\ stage'[k] = "new"
    <3>1. c # b
      BY <2>4, <2>6
    <3>2. k \notin Range(b) /\ k \in Submitters
      BY <1>1, <3>1, TtsServerAssumption
    <3> QED
      BY <2>2, <2>3, <2>5, <2>6, <3>1, <3>2
  <2>7. UnpostedIsNew'
    BY <1>0, <2>4, <2>5, <2>6 DEF UnpostedIsNew
  <2> QED
    BY <2>1, <2>7 DEF QueueInv
<1>6. ASSUME NEW id \in JobIds, SubmitTts(id) PROVE QueueInv'
  <2>1. id \in Submitters /\ id \in Singles /\ batch_reply' = batch_reply
        /\ (AcceptRequest(id) \/ RefuseRequest(id))
    BY <1>6, JobsAreSubmitters DEF SubmitTts, serverVars
  <2> QED
    BY <1>4, <2>1
<1>7. ASSUME NEW r \in Syncs, SubmitSync(r) PROVE QueueInv'
  <2>1. r \in Submitters /\ batch_reply' = batch_reply
        /\ (AcceptRequest(r) \/ RefuseRequest(r) \/ UNCHANGED requestQueueVars)
    BY <1>7, JobsAreSubmitters DEF SubmitSync
  <2> QED
    BY <1>3, <1>4, <2>1 DEF requestQueueVars
<1>8. ASSUME NEW r \in Submitters, Complete(r) PROVE QueueInv'
  <2>1. /\ \E outcome \in Outcomes : FinishRequest(r, outcome)
        /\ batch_reply' = batch_reply
    BY <1>8 DEF Complete, CompleteFailed, CompleteGood, CompleteSync, serverVars
  <2>2. stage[r] = "started"
    BY <2>1 DEF FinishRequest
  <2>3. ~AcceptRequest(r) /\ ~RefuseRequest(r)
    BY <2>2 DEF AcceptRequest, RefuseRequest
  <2> QED
    BY <1>4, <2>1, <2>3
<1>9. CASE Start
  <2>1. StartNext /\ batch_reply' = batch_reply /\ Head(waiting) \in Submitters
        /\ Len(waiting) >= 1 /\ Head(waiting) = waiting[1]
    BY <1>0, <1>9 DEF Start, StartNext, serverVars
  <2>2. stage[Head(waiting)] = "waiting"
    BY <1>0, <2>1 DEF QueueInOrder
  <2>3. ~AcceptRequest(Head(waiting)) /\ ~RefuseRequest(Head(waiting))
    BY <2>2 DEF AcceptRequest, RefuseRequest
  <2> QED
    BY <1>4, <2>1, <2>3
<1> QED
  BY <1>3, <1>5, <1>6, <1>7, <1>8, <1>9
     DEF Next, SubmitTtsRaises, Save, SaveAudio, SaveAudioRaises, AudioSaved, Ttl, Cleanup,
         Serve, OpenAudio, DeleteAfterSend, GetAudio, ReplySync, vars, serverVars,
         requestQueueVars

\* Only mark_done() hands the audio of a job out.
LEMMA StoreHeld ==
    ASSUME NEW store \in [JobIds -> Job \cup {NoJob}], NEW id, NEW ids, NEW k \in JobIds
    PROVE  /\ HeldIn(CreateJobs(store, ids), k) => k \notin ids /\ HeldIn(store, k)
           /\ HeldIn(MarkRunning(store, id), k) => HeldIn(store, k)
           /\ HeldIn(MarkDone(store, id), k) => k = id \/ HeldIn(store, k)
           /\ HeldIn(MarkFailed(store, ids), k) => HeldIn(store, k)
           /\ HeldIn(ClearAudioPath(store, id), k) => k # id /\ HeldIn(store, k)
<1>1. CASE HasJob(store, k)
  <2>1. store[k] \in Job
    BY <1>1 DEF HasJob
  <2>2. /\ NewJob.audio_path = FALSE
        /\ [store[k] EXCEPT !.status = "running"].audio_path = store[k].audio_path
        /\ [store[k] EXCEPT !.status = "failed",
                            !.finished_at = "recent"].audio_path = store[k].audio_path
        /\ [store[k] EXCEPT !.audio_path = FALSE].audio_path = FALSE
    BY <2>1 DEF Job, NewJob
  <2> QED
    BY <1>1, <2>1, <2>2
       DEF HeldIn, HasJob, CreateJobs, MarkRunning, MarkDone, MarkFailed,
           ClearAudioPath, Mark
<1>2. CASE ~HasJob(store, k)
  <2>1. NewJob.audio_path = FALSE
    BY DEF NewJob
  <2> QED
    BY <1>2, <2>1 DEF HeldIn, HasJob, CreateJobs, MarkRunning, MarkDone, MarkFailed,
                      ClearAudioPath, Mark
<1> QED
  BY <1>1, <1>2

\* A step that hands nothing out and takes nothing from the disk.
LEMMA AudioStays ==
    ASSUME AudioInv, UNCHANGED <<saving, files, download>>,
           \A k \in JobIds : HeldIn(jobs', k) => HeldIn(jobs, k),
           \A k \in JobIds : stage[k] \in Outcomes => stage'[k] \in Outcomes
    PROVE  AudioInv'
<1>1. \A k \in JobIds : (Asked(k))' <=> Asked(k)
  BY DEF Asked
<1>2. \A k \in JobIds : (Held(k))' => Held(k)
  BY DEF Held
<1>3. UnfinishedIsPrivate'
  BY <1>1, <1>2 DEF AudioInv, UnfinishedIsPrivate
<1>4. SavingIsPrivate'
  BY <1>1, <1>2 DEF AudioInv, SavingIsPrivate
<1>5. DoneHasAudio'
  BY <1>2 DEF AudioInv, DoneHasAudio, Held, HeldIn
<1> QED
  BY <1>3, <1>4, <1>5 DEF AudioInv

\* The endpoints that create jobs, and the queue.
LEMMA AudioSubmitted ==
    ASSUME TypeOK, QueueBounded, QueueInv, AudioInv,
           \/ \E id \in JobIds : SubmitTts(id) \/ SubmitTtsRaises(id)
           \/ \E r \in Syncs : SubmitSync(r)
           \/ \E b \in Batches : SubmitBatch(b)
           \/ Start
    PROVE  AudioInv'
<1>0. /\ jobs \in [JobIds -> Job \cup {NoJob}]
      /\ stage \in [Submitters -> {"new", "waiting", "started", "refused"} \cup Outcomes]
      /\ waiting \in Seq(Submitters)
      /\ JobIds \subseteq Submitters
      /\ {"new", "waiting", "started", "refused"} \cap Outcomes = {}
  BY JobsAreSubmitters, TtsServerAssumption DEF TypeOK
<1>1. UNCHANGED <<saving, files, download>>
  BY DEF SubmitTts, SubmitTtsRaises, SubmitSync, SubmitBatch, Start, serverVars, storeVars
<1>2. ASSUME NEW r \in Submitters, AcceptRequest(r) \/ RefuseRequest(r), NEW k \in JobIds,
             stage[k] \in Outcomes
      PROVE  stage'[k] \in Outcomes
  BY <1>0, <1>2 DEF AcceptRequest, RefuseRequest
<1>3. ASSUME NEW id \in JobIds, SubmitTts(id) PROVE AudioInv'
  <2>1. CreateJobs(jobs, {id}) \in [JobIds -> Job \cup {NoJob}]
    BY <1>0, StoreTypes
  <2>2. ASSUME NEW k \in JobIds, HeldIn(jobs', k) PROVE HeldIn(jobs, k)
    <3>1. HeldIn(CreateJobs(jobs, {id}), k)
      BY <1>3, <2>1, <2>2, StoreHeld DEF SubmitTts
    <3> QED
      BY <1>0, <3>1, StoreHeld
  <2>3. id \in Submitters /\ (AcceptRequest(id) \/ RefuseRequest(id))
    BY <1>0, <1>3 DEF SubmitTts
  <2> QED
    BY <1>1, <1>2, <2>2, <2>3, AudioStays
<1>4. ASSUME NEW id \in JobIds, SubmitTtsRaises(id) PROVE AudioInv'
  <2>1. ASSUME NEW k \in JobIds, HeldIn(jobs', k) PROVE HeldIn(jobs, k)
    BY <1>0, <1>4, <2>1, StoreHeld DEF SubmitTtsRaises
  <2> QED
    BY <1>1, <1>4, <2>1, AudioStays DEF SubmitTtsRaises, requestQueueVars
<1>5. ASSUME NEW r \in Syncs, SubmitSync(r) PROVE AudioInv'
  <2>1. r \in Submitters /\ jobs' = jobs
        /\ (AcceptRequest(r) \/ RefuseRequest(r) \/ UNCHANGED requestQueueVars)
    BY <1>5, JobsAreSubmitters DEF SubmitSync, storeVars
  <2> QED
    BY <1>1, <1>2, <2>1, AudioStays DEF requestQueueVars
<1>6. ASSUME NEW b \in Batches, SubmitBatch(b) PROVE AudioInv'
  <2>1. ASSUME NEW k \in JobIds, HeldIn(jobs', k) PROVE HeldIn(jobs, k)
    <3>1. PICK ids : \/ jobs' = CreateJobs(jobs, ids)
                     \/ jobs' = MarkFailed(CreateJobs(jobs, ids), ids)
      BY <1>6 DEF SubmitBatch, BatchAccepted, BatchRefused, BatchRaises
    <3>2. CreateJobs(jobs, ids) \in [JobIds -> Job \cup {NoJob}]
      BY <1>0, StoreTypes
    <3>3. HeldIn(CreateJobs(jobs, ids), k)
      BY <2>1, <3>1, <3>2, StoreHeld
    <3> QED
      BY <1>0, <3>3, StoreHeld
  <2>2. PICK n \in Nat :
          /\ n <= Len(b)
          /\ \A r \in Submitters :
               IF r \in Range(SubSeq(b, 1, n)) THEN stage'[r] = "waiting"
               ELSE \/ stage'[r] = stage[r]
                    \/ r \in Range(b) /\ stage[r] = "new" /\ stage'[r] = "refused"
    BY <1>6, BatchStages DEF QueueInv
  <2>3. \A r \in Range(b) : stage[r] = "new"
    BY <1>6 DEF QueueInv, UnpostedIsNew, SubmitBatch
  <2>4. Range(SubSeq(b, 1, n)) \subseteq Range(b)
    BY <1>0, <2>2, FrontOfBatch
  <2>5. ASSUME NEW k \in JobIds, stage[k] \in Outcomes PROVE stage'[k] \in Outcomes
    <3>1. k \notin Range(b)
      BY <1>0, <2>3, <2>5
    <3> QED
      BY <1>0, <2>2, <2>4, <2>5, <3>1
  <2> QED
    BY <1>1, <2>1, <2>5, AudioStays
<1>7. CASE Start
  <2>1. stage[Head(waiting)] = "waiting"
    <3>1. 1 \in 1 .. Len(waiting) /\ Head(waiting) = waiting[1]
      BY <1>0, <1>7 DEF Start, StartNext
    <3> QED
      BY <1>0, <3>1 DEF QueueInv, QueueInOrder
  <2>2. \A k \in JobIds : stage[k] \in Outcomes => stage'[k] \in Outcomes
    BY <1>0, <1>7, <2>1 DEF Start, StartNext
  <2> QED
    BY <1>1, <1>7, <2>2, AudioStays DEF Start, storeVars
<1> QED
  BY <1>3, <1>4, <1>5, <1>6, <1>7

\* A request ends, and the callback of a job runs up to its save.
LEMMA AudioCompleted ==
    ASSUME TypeOK, AudioInv, NEW r \in Submitters, Complete(r)
    PROVE  AudioInv'
<1>0. /\ jobs \in [JobIds -> Job \cup {NoJob}]
      /\ stage \in [Submitters -> {"new", "waiting", "started", "refused"} \cup Outcomes]
      /\ saving \in [JobIds -> {"no", "saving", "saved", "raised"}]
      /\ JobIds \subseteq Submitters
      /\ {"new", "waiting", "started", "refused"} \cap Outcomes = {}
  BY JobsAreSubmitters, TtsServerAssumption DEF TypeOK
<1>1. PICK outcome \in Outcomes :
        CompleteFailed(r, outcome) \/ CompleteGood(r, outcome) \/ CompleteSync(r, outcome)
  BY DEF Complete
<1>2. stage[r] = "started" /\ stage' = [stage EXCEPT ![r] = outcome]
  BY <1>1 DEF CompleteFailed, CompleteGood, CompleteSync, FinishRequest
<1>3. \A k \in JobIds : /\ stage[k] \in Outcomes => stage'[k] \in Outcomes
                        /\ k # r => stage'[k] = stage[k]
  BY <1>0, <1>2
<1>4. CASE CompleteFailed(r, outcome)
  <2>1. MarkRunning(jobs, r) \in [JobIds -> Job \cup {NoJob}]
    BY <1>0, StoreTypes
  <2>2. ASSUME NEW k \in JobIds, HeldIn(jobs', k) PROVE HeldIn(jobs, k)
    <3>1. HeldIn(MarkRunning(jobs, r), k)
      BY <1>4, <2>1, <2>2, StoreHeld DEF CompleteFailed
    <3> QED
      BY <1>0, <3>1, StoreHeld
  <2> QED
    BY <1>3, <1>4, <2>2, AudioStays DEF CompleteFailed, serverVars
<1>5. CASE CompleteSync(r, outcome)
  BY <1>3, <1>5, AudioStays DEF CompleteSync, serverVars, storeVars
<1>6. CASE CompleteGood(r, outcome)
  <2>1. /\ r \in JobIds /\ files' = files /\ download' = download
        /\ saving' = [saving EXCEPT ![r] = "saving"]
        /\ jobs' = MarkRunning(jobs, r)
    BY <1>6 DEF CompleteGood
  <2>2. \A k \in JobIds : (Held(k))' => Held(k)
    BY <1>0, <2>1, StoreHeld DEF Held
  <2>3. \A k \in JobIds : (Asked(k))' <=> Asked(k)
    BY <2>1 DEF Asked
  <2>4. /\ ~Held(r) /\ ~Asked(r) /\ stage'[r] \in Outcomes /\ saving'[r] = "saving"
        /\ \A k \in JobIds : k # r => saving'[k] = saving[k]
    BY <1>0, <1>2, <2>1 DEF AudioInv, UnfinishedIsPrivate
  <2>5. UnfinishedIsPrivate'
    BY <1>3, <2>2, <2>3, <2>4 DEF AudioInv, UnfinishedIsPrivate
  <2>6. SavingIsPrivate'
    BY <1>3, <2>1, <2>2, <2>3, <2>4 DEF AudioInv, SavingIsPrivate
  <2>7. DoneHasAudio'
    BY <2>1, <2>2 DEF AudioInv, DoneHasAudio, Held, HeldIn
  <2> QED
    BY <2>5, <2>6, <2>7 DEF AudioInv
<1> QED
  BY <1>1, <1>4, <1>5, <1>6

\* The callback saves the audio, and then marks the job done.
LEMMA AudioKept ==
    ASSUME TypeOK, AudioInv, NEW id \in JobIds, Save(id)
    PROVE  AudioInv'
<1>0. /\ jobs \in [JobIds -> Job \cup {NoJob}]
      /\ saving \in [JobIds -> {"no", "saving", "saved", "raised"}]
      /\ stage' = stage /\ download' = download
  BY DEF TypeOK, Save, SaveAudio, SaveAudioRaises, AudioSaved, requestQueueVars
<1>1. \A k \in JobIds : (Asked(k))' <=> Asked(k)
  BY <1>0 DEF Asked
<1>2. CASE SaveAudio(id) \/ SaveAudioRaises(id)
  <2>1. /\ jobs' = jobs /\ files \subseteq files' /\ saving[id] = "saving"
        /\ \A k \in JobIds : k # id => saving'[k] = saving[k]
        /\ (saving'[id] = "saved" /\ id \in files') \/ saving'[id] = "raised"
    BY <1>0, <1>2 DEF SaveAudio, SaveAudioRaises, storeVars
  <2>2. \A k \in JobIds : (Held(k))' <=> Held(k)
    BY <2>1 DEF Held
  <2>3. stage[id] \in Outcomes /\ ~Held(id) /\ ~Asked(id)
    BY <2>1 DEF AudioInv, SavingIsPrivate
  <2>4. UnfinishedIsPrivate'
    BY <1>0, <1>1, <2>1, <2>2, <2>3 DEF AudioInv, UnfinishedIsPrivate
  <2>5. SavingIsPrivate'
    BY <1>0, <1>1, <2>1, <2>2, <2>3 DEF AudioInv, SavingIsPrivate
  <2>6. DoneHasAudio'
    BY <2>1 DEF AudioInv, DoneHasAudio
  <2> QED
    BY <2>4, <2>5, <2>6 DEF AudioInv
<1>3. CASE AudioSaved(id)
  <2>1. /\ jobs' = MarkDone(jobs, id) /\ files' = files
        /\ saving[id] = "saved" /\ saving'[id] = "no"
        /\ \A k \in JobIds : k # id => saving'[k] = saving[k]
    BY <1>0, <1>3 DEF AudioSaved
  <2>2. \A k \in JobIds : (Held(k))' => k = id \/ Held(k)
    BY <1>0, <2>1, StoreHeld DEF Held
  <2>3. stage[id] \in Outcomes /\ id \in files
    BY <2>1 DEF AudioInv, SavingIsPrivate
  <2>4. UnfinishedIsPrivate'
    BY <1>0, <1>1, <2>1, <2>2, <2>3 DEF AudioInv, UnfinishedIsPrivate
  <2>5. SavingIsPrivate'
    BY <1>0, <1>1, <2>1, <2>2, <2>3 DEF AudioInv, SavingIsPrivate
  <2>6. DoneHasAudio'
    BY <2>1, <2>2, <2>3 DEF AudioInv, DoneHasAudio, Held, HeldIn
  <2> QED
    BY <2>4, <2>5, <2>6 DEF AudioInv
<1> QED
  BY <1>2, <1>3 DEF Save

\* The cleanup deletes the files of records that go with them.
LEMMA AudioEvicted ==
    ASSUME TypeOK, AudioInv, Cleanup
    PROVE  AudioInv'
<1>0. stage' = stage /\ saving' = saving /\ download' = download
  BY DEF Cleanup, requestQueueVars, serverVars
<1> DEFINE victims == {id \in Evictable \cap files : jobs[id].audio_path}
<1>1. jobs' = [id \in JobIds |-> IF id \in Evictable THEN NoJob ELSE jobs[id]]
  BY DEF Cleanup, EvictExpired
<1>2. \A k \in JobIds : (Held(k))' => Held(k) /\ k \notin Evictable
  BY <1>1 DEF Held, HeldIn, HasJob
<1>3. \A k \in JobIds : (Asked(k))' <=> Asked(k)
  BY <1>0 DEF Asked
<1>4. \A k \in JobIds : k \in files => k \in files' \/ (Held(k) /\ k \in Evictable)
  <2>1. PICK kept \in SUBSET files : files' = (files \ victims) \cup kept
    BY DEF Cleanup, EvictExpired, Removed
  <2>2. \A k \in victims : k \in Evictable /\ HasJob(jobs, k) /\ jobs[k].audio_path
    BY DEF Evictable
  <2>3. \A k \in victims : k \in Evictable /\ Held(k)
    BY <2>2 DEF Held, HeldIn
  <2> HIDE DEF victims
  <2> QED
    BY <2>1, <2>3
<1>5. UnfinishedIsPrivate'
  BY <1>0, <1>2, <1>3 DEF AudioInv, UnfinishedIsPrivate
<1>6. SavingIsPrivate'
  BY <1>0, <1>2, <1>3, <1>4 DEF AudioInv, SavingIsPrivate
<1>7. DoneHasAudio'
  <2>1. \A k \in JobIds : Held(k) => k \in files
    BY DEF AudioInv, DoneHasAudio, Held, HeldIn
  <2>2. \A k \in JobIds : (Held(k))' => k \in files'
    BY <1>2, <1>4, <2>1
  <2> QED
    BY <2>2 DEF DoneHasAudio, Held, HeldIn
<1> QED
  BY <1>5, <1>6, <1>7 DEF AudioInv

\* A download is let in when the path is set, and takes path and file away.
LEMMA AudioServed ==
    ASSUME TypeOK, AudioInv, NEW d \in Downloads,
           Serve(d) \/ \E id \in JobIds : GetAudio(d, id)
    PROVE  AudioInv'
<1>0. /\ jobs \in [JobIds -> Job \cup {NoJob}]
      /\ download \in [Downloads ->
           [job : JobIds \cup {NoJob},
            at  : {"start", "opening", "sending", "200", "404", "409", "410", "500"}]]
      /\ stage' = stage /\ saving' = saving
  BY DEF TypeOK, Serve, GetAudio, OpenAudio, DeleteAfterSend, requestQueueVars
<1>1. CASE OpenAudio(d)
  <2>1. /\ download[d].at = "opening" /\ jobs' = jobs /\ files' = files
        /\ download'[d].job = download[d].job
        /\ \A e \in Downloads : e # d => download'[e] = download[e]
    BY <1>0, <1>1 DEF OpenAudio, storeVars
  <2>2. \A k \in JobIds : (Asked(k))' => Asked(k)
    BY <2>1 DEF Asked
  <2>3. \A k \in JobIds : (Held(k))' <=> Held(k)
    BY <2>1 DEF Held
  <2>4. UnfinishedIsPrivate' /\ SavingIsPrivate'
    BY <1>0, <2>1, <2>2, <2>3 DEF AudioInv, UnfinishedIsPrivate, SavingIsPrivate
  <2>5. DoneHasAudio'
    BY <2>1 DEF AudioInv, DoneHasAudio
  <2> QED
    BY <2>4, <2>5 DEF AudioInv
<1>2. CASE DeleteAfterSend(d)
  <2> DEFINE id == download[d].job
  <2>1. /\ download[d].at = "sending" /\ jobs' = ClearAudioPath(jobs, id)
        /\ \A k \in files : k # id => k \in files'
        /\ download'[d].at = "200"
        /\ \A e \in Downloads : e # d => download'[e] = download[e]
    BY <1>0, <1>2 DEF DeleteAfterSend, Removed
  <2> HIDE DEF id
  <2>2. \A k \in JobIds : (Held(k))' => k # id /\ Held(k)
    BY <1>0, <2>1, StoreHeld DEF Held
  <2>3. \A k \in JobIds : (Asked(k))' => Asked(k)
    BY <2>1 DEF Asked
  <2>4. id \in JobIds => Asked(id)
    BY <2>1 DEF Asked, id
  <2>5. UnfinishedIsPrivate'
    BY <1>0, <2>2, <2>3 DEF AudioInv, UnfinishedIsPrivate
  <2>6. SavingIsPrivate'
    BY <1>0, <2>1, <2>2, <2>3, <2>4 DEF AudioInv, SavingIsPrivate
  <2>7. DoneHasAudio'
    <3>1. \A k \in JobIds : (Held(k))' => k \in files'
      BY <2>1, <2>2 DEF AudioInv, DoneHasAudio, Held, HeldIn
    <3> QED
      BY <3>1 DEF DoneHasAudio, Held, HeldIn
  <2> QED
    BY <2>5, <2>6, <2>7 DEF AudioInv
<1>3. ASSUME NEW id \in JobIds, GetAudio(d, id) PROVE AudioInv'
  <2>1. /\ jobs' = jobs /\ files' = files
        /\ download'[d] = [job |-> id, at |-> AudioReply(id)]
        /\ \A e \in Downloads : e # d => download'[e] = download[e]
    BY <1>0, <1>3 DEF GetAudio, storeVars
  <2>2. AudioReply(id) \in {"opening", "sending"} => Held(id)
    <3>1. CASE ~HasJob(jobs, id)
      BY <3>1 DEF AudioReply
    <3>2. CASE HasJob(jobs, id)
      <4>1. jobs[id] \in Job
        BY <1>0, <3>2 DEF HasJob
      <4>2. jobs[id].status \in {"pending", "running", "done", "failed"}
        BY <4>1 DEF Job, JobStatus
      <4>3. CASE jobs[id].status = "failed"
        BY <3>2, <4>3 DEF AudioReply
      <4>4. CASE jobs[id].status \in {"pending", "running"}
        BY <3>2, <4>4 DEF AudioReply
      <4>5. CASE jobs[id].status = "done" /\ ~jobs[id].audio_path
        BY <3>2, <4>5 DEF AudioReply
      <4>6. CASE jobs[id].audio_path
        BY <3>2, <4>6 DEF Held, HeldIn
      <4> QED
        BY <4>2, <4>3, <4>4, <4>5, <4>6
    <3> QED
      BY <3>1, <3>2
  <2>3. ASSUME NEW k \in JobIds, (Asked(k))' PROVE Asked(k) \/ (k = id /\ Held(id))
    <3>1. PICK e \in Downloads :
            download'[e].job = k /\ download'[e].at \in {"opening", "sending"}
      BY <2>3 DEF Asked
    <3>2. CASE e = d
      <4>1. download'[d].job = id /\ download'[d].at = AudioReply(id)
        BY <2>1
      <4> QED
        BY <2>2, <3>1, <3>2, <4>1
    <3>3. CASE e # d
      BY <2>1, <3>1, <3>3 DEF Asked
    <3> QED
      BY <3>2, <3>3
  <2>4. \A k \in JobIds : (Held(k))' <=> Held(k)
    BY <2>1 DEF Held
  <2>5. UnfinishedIsPrivate' /\ SavingIsPrivate'
    BY <1>0, <2>1, <2>3, <2>4 DEF AudioInv, UnfinishedIsPrivate, SavingIsPrivate
  <2>6. DoneHasAudio'
    BY <2>1 DEF AudioInv, DoneHasAudio
  <2> QED
    BY <2>5, <2>6 DEF AudioInv
<1> QED
  BY <1>1, <1>2, <1>3 DEF Serve

\* No step takes the file of a job whose path is set.
LEMMA AudioInductive ==
    ASSUME TypeOK, QueueBounded, QueueInv, AudioInv, [Next]_vars
    PROVE  AudioInv'
<1>0. jobs \in [JobIds -> Job \cup {NoJob}]
  BY DEF TypeOK
<1>1. ASSUME NEW id \in JobIds, Ttl(id) PROVE AudioInv'
  <2>1. ASSUME NEW k \in JobIds, HeldIn(jobs', k) PROVE HeldIn(jobs, k)
    <3>1. CASE k = id
      <4>1. jobs'[k] = [jobs[k] EXCEPT !.finished_at = "expired"] /\ jobs[k] \in Job
        BY <1>0, <1>1, <3>1 DEF Ttl, TtlPasses, HasJob
      <4>2. jobs'[k].audio_path = jobs[k].audio_path
        BY <4>1 DEF Job
      <4> QED
        BY <1>1, <2>1, <3>1, <4>2 DEF HeldIn, Ttl, TtlPasses
    <3>2. CASE k # id
      <4>1. jobs'[k] = jobs[k]
        BY <1>0, <1>1, <3>2 DEF Ttl, TtlPasses
      <4> QED
        BY <2>1, <4>1 DEF HeldIn, HasJob
    <3> QED
      BY <3>1, <3>2
  <2> QED
    BY <1>1, <2>1, AudioStays DEF Ttl, TtlPasses, serverVars, requestQueueVars
<1>2. ASSUME UNCHANGED <<jobs, stage, saving, files, download>> PROVE AudioInv'
  BY <1>2, AudioStays
<1> QED
  BY <1>1, <1>2, AudioSubmitted, AudioCompleted, AudioKept, AudioEvicted, AudioServed
     DEF Next, ReplySync, vars, storeVars, serverVars, requestQueueVars

\* The types, the order of the queue and the audio hold together.
ServerInv == TypeOK /\ QueueBounded /\ QueueInv /\ AudioInv

LEMMA ServerInvariant == (Init => ServerInv) /\ (ServerInv /\ [Next]_vars => ServerInv')
<1>1. Init => ServerInv
  <2> SUFFICES ASSUME Init PROVE TypeOK /\ QueueBounded /\ QueueInv /\ AudioInv
    BY DEF ServerInv
  <2>1. TypeOK /\ QueueBounded
    BY TtsServerAssumption
       DEF Init, JobStoreInit, RequestQueueInit, TypeOK, QueueBounded
  <2>2. QueueInOrder
    BY DEF Init, RequestQueueInit, QueueInOrder
  <2>3. UnpostedIsNew
    <3>1. \A b \in Batches : \A k \in Range(b) : k \in Submitters
      BY JobsAreSubmitters DEF Range
    <3> QED
      BY <3>1 DEF Init, RequestQueueInit, UnpostedIsNew
  <2>4. \A id \in JobIds : ~Held(id) /\ ~Asked(id) /\ saving[id] = "no"
    BY DEF Init, JobStoreInit, Held, HeldIn, HasJob, Asked
  <2>5. UnfinishedIsPrivate /\ SavingIsPrivate /\ DoneHasAudio
    BY <2>4 DEF UnfinishedIsPrivate, SavingIsPrivate, DoneHasAudio, Held, HeldIn
  <2> QED
    BY <2>1, <2>2, <2>3, <2>5 DEF QueueInv, AudioInv
<1>2. ServerInv /\ [Next]_vars => ServerInv'
  BY ServerTypesInductive, QueueBoundedInductive, QueueInvInductive, AudioInductive
     DEF ServerInv
<1> QED
  BY <1>1, <1>2

\* A job whose path is set has its file on disk, whatever downloads, cleanups
\* and saves of other jobs come between, and whatever fails.
THEOREM DoneJobsHaveAudio == Spec => []DoneHasAudio
<1>1. ServerInv => DoneHasAudio
  BY DEF ServerInv, AudioInv
<1> QED
  BY <1>1, ServerInvariant, PTL DEF Spec

-----------------------------------------------------------------------------
(* The endpoints use the queue as its users may.                           *)

\* The first n items of batch b enter the queue one after the other, each of them
\* new and finding room in its turn; the next one may be refused, by a full queue.
InTurn(b, n) ==
    /\ \A i \in 1 .. n :
         stage[b[i]] = "new" /\ (Capacity > 0 => Len(waiting) + (i - 1) < Capacity)
    /\ waiting' = waiting \o SubSeq(b, 1, n)
    /\ \A r \in Submitters :
         IF \E i \in 1 .. n : r = b[i] THEN stage'[r] = "waiting"
         ELSE \/ stage'[r] = stage[r]
              \/ /\ stage[r] = "new" /\ stage'[r] = "refused"
                 /\ n < Len(b) /\ r = b[n + 1]
                 /\ Capacity > 0 /\ Len(waiting) + n >= Capacity

\* The front of a batch, item by item.
LEMMA FrontItems ==
    ASSUME NEW b \in Batches, NEW n \in Nat, n <= Len(b)
    PROVE  \A r : r \in Range(SubSeq(b, 1, n)) <=> \E i \in 1 .. n : r = b[i]
<1>1. b \in Seq(JobIds)
  BY JobsAreSubmitters
<1> DEFINE s == SubSeq(b, 1, n)
<1>2. DOMAIN s = 1 .. n /\ \A i \in 1 .. n : s[i] = b[i]
  BY <1>1
<1> HIDE DEF s
<1>3. \A r : r \in Range(s) <=> \E i \in 1 .. n : r = b[i]
  BY <1>2 DEF Range
<1> QED
  BY <1>3 DEF s

\* Whatever becomes of a batch, its items were submitted in turn.
LEMMA BatchInTurn ==
    ASSUME TypeOK, QueueBounded, UnpostedIsNew, NEW b \in Batches, SubmitBatch(b)
    PROVE  \E n \in Nat : n <= Len(b) /\ InTurn(b, n)
<1>0. /\ b \in Seq(JobIds) /\ Len(b) \in Nat /\ Capacity \in Nat /\ Len(waiting) \in Nat
      /\ \A i \in 1 .. Len(b) : stage[b[i]] = "new"
  <2>1. b \in Seq(JobIds) /\ batch_reply[b] = "none"
    BY JobsAreSubmitters DEF SubmitBatch
  <2>2. \A i \in 1 .. Len(b) : b[i] \in Range(b)
    BY <2>1 DEF Range
  <2> QED
    BY <2>1, <2>2, TtsServerAssumption DEF UnpostedIsNew, TypeOK
<1>1. CASE BatchAccepted(b)
  <2>1. SubSeq(b, 1, Len(b)) = b
    BY <1>0
  <2>2. \A i \in 1 .. Len(b) : Capacity > 0 => Len(waiting) + (i - 1) < Capacity
    BY <1>0, <1>1 DEF BatchAccepted, Fits, Room
  <2>3. \A r \in Submitters : IF \E i \in 1 .. Len(b) : r = b[i] THEN stage'[r] = "waiting"
                                                                 ELSE stage'[r] = stage[r]
    <3>1. \A r : r \in Range(b) <=> \E i \in 1 .. Len(b) : r = b[i]
      BY <1>0 DEF Range
    <3>2. \A r \in Submitters : stage'[r] = IF r \in Range(b) THEN "waiting" ELSE stage[r]
      BY <1>1 DEF BatchAccepted
    <3> QED
      BY <3>1, <3>2
  <2>4. waiting' = waiting \o SubSeq(b, 1, Len(b))
    BY <1>1, <2>1 DEF BatchAccepted
  <2>5. InTurn(b, Len(b))
    BY <1>0, <2>2, <2>3, <2>4, Zenon DEF InTurn
  <2> QED
    BY <1>0, <2>5
<1>2. CASE BatchRefused(b)
  <2>1. Room \in Nat /\ Room < Len(b) /\ Capacity > 0 /\ ~Fits(b)
    BY <1>2, RoomIsNat DEF BatchRefused
  <2>2. Last(SubSeq(b, 1, Room + 1)) = b[Room + 1]
    <3>1. \A i \in 1 .. Room + 1 : i \in 1 .. Len(b)
      BY <1>0, <2>1
    <3>2. Len(SubSeq(b, 1, Room + 1)) = Room + 1 /\ SubSeq(b, 1, Room + 1)[Room + 1] = b[Room + 1]
      BY <1>0, <2>1, <3>1
    <3> QED
      BY <3>2 DEF Last
  <2>3. \A i \in 1 .. Room : Len(waiting) + (i - 1) < Capacity
    BY <1>0, <2>1 DEF Room
  <2>4. Len(waiting) + Room >= Capacity
    BY <1>0 DEF Room
  <2>5. stage' = [r \in Submitters |->
                    CASE r \in Range(SubSeq(b, 1, Room)) -> "waiting"
                      [] r = b[Room + 1] -> "refused"
                      [] OTHER -> stage[r]]
    BY <1>2, <2>2 DEF BatchRefused
  <2>6. \A r : r \in Range(SubSeq(b, 1, Room)) <=> \E i \in 1 .. Room : r = b[i]
    BY <2>1, FrontItems
  <2>7. b[Room + 1] \notin Range(SubSeq(b, 1, Room)) /\ stage[b[Room + 1]] = "new"
    <3>1. Room + 1 \in 1 .. Len(b) /\ \A i \in 1 .. Room : i \in 1 .. Len(b) /\ i # Room + 1
      BY <1>0, <2>1
    <3>2. \A i, j \in DOMAIN b : b[i] = b[j] => i = j
      BY TtsServerAssumption DEF IsInjective
    <3> QED
      BY <1>0, <2>6, <3>1, <3>2
  <2>8. waiting' = waiting \o SubSeq(b, 1, Room)
    BY <1>2 DEF BatchRefused
  <2>9. ASSUME NEW r \in Submitters
        PROVE  IF r \in Range(SubSeq(b, 1, Room)) THEN stage'[r] = "waiting"
               ELSE \/ stage'[r] = stage[r]
                    \/ r = b[Room + 1] /\ stage'[r] = "refused"
    BY <2>5, <2>7
  <2>10. \A i \in 1 .. Room : stage[b[i]] = "new"
    BY <1>0, <2>1
  <2> HIDE DEF Room
  <2>11. InTurn(b, Room)
    BY <2>1, <2>3, <2>4, <2>6, <2>7, <2>8, <2>9, <2>10 DEF InTurn
  <2> QED
    BY <1>0, <2>1, <2>11
<1>3. CASE BatchRaises(b)
  <2>1. PICK k \in DOMAIN b :
          /\ Fits(SubSeq(b, 1, k - 1))
          /\ waiting' = waiting \o SubSeq(b, 1, k - 1)
          /\ stage' = [r \in Submitters |->
                         IF r \in Range(SubSeq(b, 1, k - 1)) THEN "waiting" ELSE stage[r]]
    BY <1>3 DEF BatchRaises
  <2>2. k - 1 \in Nat /\ k - 1 <= Len(b) /\ Len(SubSeq(b, 1, k - 1)) = k - 1
    BY <1>0
  <2>3. \A i \in 1 .. k - 1 : Capacity > 0 => Len(waiting) + (i - 1) < Capacity
    <3>1. Capacity = 0 \/ k - 1 <= Capacity - Len(waiting)
      BY <2>1, <2>2, Zenon DEF Fits, Room
    <3> QED
      BY <1>0, <2>2, <3>1
  <2>4. \A r \in Submitters : IF \E i \in 1 .. k - 1 : r = b[i] THEN stage'[r] = "waiting"
                                                                ELSE stage'[r] = stage[r]
    BY <2>1, <2>2, FrontItems
  <2>5. \A i \in 1 .. k - 1 : stage[b[i]] = "new"
    BY <1>0, <2>2
  <2> WITNESS k - 1 \in Nat
  <2> QED
    BY <2>1, <2>2, <2>3, <2>4, <2>5 DEF InTurn
<1> QED
  BY <1>1, <1>2, <1>3 DEF SubmitBatch

\* The endpoints and their callbacks touch the queue only by steps of RequestQueue:
\* a batch by as many of them as it has items queued, and one for the item that is
\* refused, all in one step of the event loop.  So what QueueManager implements is
\* what they were checked with, whatever batches are posted and whatever fails.
THEOREM EndpointsSubmitInTurn ==
    Spec => [][\/ RequestQueueNext
               \/ \E b \in Batches, n \in Nat : n <= Len(b) /\ InTurn(b, n)]_requestQueueVars
<1> DEFINE Batched == \E b \in Batches, n \in Nat : n <= Len(b) /\ InTurn(b, n)
<1>1. ServerInv /\ [Next]_vars => [RequestQueueNext \/ Batched]_requestQueueVars
  <2> SUFFICES ASSUME ServerInv, [Next]_vars
               PROVE  RequestQueueNext \/ Batched \/ UNCHANGED requestQueueVars
    OBVIOUS
  <2>1. ASSUME NEW r \in Submitters, AcceptRequest(r) \/ RefuseRequest(r)
        PROVE  RequestQueueNext
    BY <2>1 DEF RequestQueueNext
  <2>2. ASSUME NEW id \in JobIds, SubmitTts(id) PROVE RequestQueueNext
    BY <2>1, <2>2, JobsAreSubmitters DEF SubmitTts
  <2>3. ASSUME NEW r \in Syncs, SubmitSync(r)
        PROVE  RequestQueueNext \/ UNCHANGED requestQueueVars
    BY <2>1, <2>3, JobsAreSubmitters DEF SubmitSync
  <2>4. ASSUME NEW b \in Batches, SubmitBatch(b) PROVE Batched
    BY <2>4, BatchInTurn DEF ServerInv, QueueInv
  <2>5. ASSUME NEW r \in Submitters, Complete(r) PROVE RequestQueueNext
    BY <2>5 DEF Complete, CompleteFailed, CompleteGood, CompleteSync, RequestQueueNext
  <2>6. Start => RequestQueueNext
    BY DEF Start, RequestQueueNext
  <2> HIDE DEF Batched
  <2> QED
    BY <2>2, <2>3, <2>4, <2>5, <2>6
       DEF Next, SubmitTtsRaises, Save, SaveAudio, SaveAudioRaises, AudioSaved, Ttl, Cleanup,
           Serve, OpenAudio, DeleteAfterSend, GetAudio, ReplySync, vars
<1> QED
  BY <1>1, ServerInvariant, PTL DEF Spec

-----------------------------------------------------------------------------
(* How the status of a job moves.                                          *)

\* What pollers see, where "gone" is a job that is not in the dictionary.
StatusIn(store, id) == IF HasJob(store, id) THEN store[id].status ELSE "gone"
Status(id) == StatusIn(jobs, id)

\* What each method does to the status of a job.
LEMMA StoreStatus ==
    ASSUME NEW store \in [JobIds -> Job \cup {NoJob}], NEW k \in JobIds
    PROVE  /\ \A ids : StatusIn(CreateJobs(store, ids), k)
                = IF k \in ids THEN "pending" ELSE StatusIn(store, k)
           /\ \A id : StatusIn(MarkRunning(store, id), k)
                = IF k = id /\ HasJob(store, k) THEN "running" ELSE StatusIn(store, k)
           /\ \A id : StatusIn(MarkDone(store, id), k)
                = IF k = id /\ HasJob(store, k) THEN "done" ELSE StatusIn(store, k)
           /\ \A ids : StatusIn(MarkFailed(store, ids), k)
                = IF k \in ids /\ HasJob(store, k) THEN "failed" ELSE StatusIn(store, k)
           /\ \A id : StatusIn(ClearAudioPath(store, id), k) = StatusIn(store, k)
<1> SUFFICES ASSUME NEW id, NEW ids
             PROVE  /\ StatusIn(CreateJobs(store, ids), k)
                         = IF k \in ids THEN "pending" ELSE StatusIn(store, k)
                    /\ StatusIn(MarkRunning(store, id), k)
                         = IF k = id /\ HasJob(store, k) THEN "running" ELSE StatusIn(store, k)
                    /\ StatusIn(MarkDone(store, id), k)
                         = IF k = id /\ HasJob(store, k) THEN "done" ELSE StatusIn(store, k)
                    /\ StatusIn(MarkFailed(store, ids), k)
                         = IF k \in ids /\ HasJob(store, k) THEN "failed" ELSE StatusIn(store, k)
                    /\ StatusIn(ClearAudioPath(store, id), k) = StatusIn(store, k)
  OBVIOUS
<1>1. NewJob \in Job /\ NewJob # NoJob /\ NewJob.status = "pending"
  <2>1. NewJob \in Job /\ NewJob.status = "pending"
    BY DEF NewJob, Job, JobStatus
  <2> QED
    BY <2>1, JobStoreAssumption
<1>2. StatusIn(CreateJobs(store, ids), k)
        = IF k \in ids THEN "pending" ELSE StatusIn(store, k)
  BY <1>1 DEF StatusIn, HasJob, CreateJobs
<1>3. CASE HasJob(store, k)
  <2>1. store[k] \in Job
    BY <1>3 DEF HasJob
  <2> DEFINE run == [store[k] EXCEPT !.status = "running"]
             done == [store[k] EXCEPT !.status = "done", !.finished_at = "recent",
                                      !.audio_path = TRUE]
             fail == [store[k] EXCEPT !.status = "failed", !.finished_at = "recent"]
             clear == [store[k] EXCEPT !.audio_path = FALSE]
  <2>2. /\ run \in Job /\ done \in Job /\ fail \in Job /\ clear \in Job
        /\ run.status = "running" /\ done.status = "done" /\ fail.status = "failed"
        /\ clear.status = store[k].status
    BY <2>1 DEF Job, JobStatus
  <2>3. run # NoJob /\ done # NoJob /\ fail # NoJob /\ clear # NoJob
    BY <2>2, JobStoreAssumption
  <2>4. /\ MarkRunning(store, id)[k] = IF k = id THEN run ELSE store[k]
        /\ MarkDone(store, id)[k] = IF k = id THEN done ELSE store[k]
        /\ MarkFailed(store, ids)[k] = IF k \in ids THEN fail ELSE store[k]
        /\ ClearAudioPath(store, id)[k] = IF k = id THEN clear ELSE store[k]
    BY <1>3 DEF MarkRunning, MarkDone, MarkFailed, ClearAudioPath, Mark
  <2> HIDE DEF run, done, fail, clear
  <2> QED
    BY <1>2, <1>3, <2>2, <2>3, <2>4 DEF StatusIn, HasJob
<1>4. CASE ~HasJob(store, k)
  <2>1. /\ MarkRunning(store, id)[k] = store[k]
        /\ MarkDone(store, id)[k] = store[k]
        /\ MarkFailed(store, ids)[k] = store[k]
        /\ ClearAudioPath(store, id)[k] = store[k]
    BY <1>4 DEF MarkRunning, MarkDone, MarkFailed, ClearAudioPath, Mark
  <2> QED
    BY <1>2, <1>4, <2>1 DEF StatusIn, HasJob
<1> QED
  BY <1>3, <1>4

\* The methods that leave the path of a job alone.
LEMMA StorePaths ==
    ASSUME NEW store \in [JobIds -> Job \cup {NoJob}], NEW k \in JobIds
    PROVE  /\ \A ids : k \notin ids => (HeldIn(CreateJobs(store, ids), k) <=> HeldIn(store, k))
           /\ \A id : HeldIn(MarkRunning(store, id), k) <=> HeldIn(store, k)
           /\ \A ids : HeldIn(MarkFailed(store, ids), k) <=> HeldIn(store, k)
           /\ \A id : k # id => (HeldIn(ClearAudioPath(store, id), k) <=> HeldIn(store, k))
           /\ \A id : k # id => (HeldIn(MarkDone(store, id), k) <=> HeldIn(store, k))
           /\ HasJob(store, k) => HeldIn(MarkDone(store, k), k)
           /\ ~HeldIn(ClearAudioPath(store, k), k)
<1> SUFFICES ASSUME NEW id, NEW ids
             PROVE  /\ k \notin ids => (HeldIn(CreateJobs(store, ids), k) <=> HeldIn(store, k))
                    /\ HeldIn(MarkRunning(store, id), k) <=> HeldIn(store, k)
                    /\ HeldIn(MarkFailed(store, ids), k) <=> HeldIn(store, k)
                    /\ k # id => (HeldIn(ClearAudioPath(store, id), k) <=> HeldIn(store, k))
                    /\ k # id => (HeldIn(MarkDone(store, id), k) <=> HeldIn(store, k))
                    /\ HasJob(store, k) => HeldIn(MarkDone(store, k), k)
                    /\ ~HeldIn(ClearAudioPath(store, k), k)
  OBVIOUS
<1>1. CASE HasJob(store, k)
  <2>1. store[k] \in Job
    BY <1>1 DEF HasJob
  <2> DEFINE run == [store[k] EXCEPT !.status = "running"]
             done == [store[k] EXCEPT !.status = "done", !.finished_at = "recent",
                                      !.audio_path = TRUE]
             fail == [store[k] EXCEPT !.status = "failed", !.finished_at = "recent"]
             clear == [store[k] EXCEPT !.audio_path = FALSE]
  <2>2. /\ run \in Job /\ done \in Job /\ fail \in Job /\ clear.audio_path = FALSE
        /\ run.audio_path = store[k].audio_path /\ fail.audio_path = store[k].audio_path
        /\ done.audio_path = TRUE
    BY <2>1 DEF Job, JobStatus
  <2>3. run # NoJob /\ done # NoJob /\ fail # NoJob
    BY <2>2, JobStoreAssumption
  <2>4. /\ MarkRunning(store, id)[k] = IF k = id THEN run ELSE store[k]
        /\ MarkDone(store, id)[k] = IF k = id THEN done ELSE store[k]
        /\ MarkDone(store, k)[k] = done
        /\ MarkFailed(store, ids)[k] = IF k \in ids THEN fail ELSE store[k]
        /\ k # id => ClearAudioPath(store, id)[k] = store[k]
        /\ ClearAudioPath(store, k)[k] = clear
        /\ k \notin ids => CreateJobs(store, ids)[k] = store[k]
    BY <1>1 DEF MarkRunning, MarkDone, MarkFailed, ClearAudioPath, CreateJobs, Mark
  <2> HIDE DEF run, done, fail, clear
  <2> QED
    BY <1>1, <2>2, <2>3, <2>4 DEF HeldIn, HasJob
<1>2. CASE ~HasJob(store, k)
  <2>1. /\ MarkRunning(store, id)[k] = store[k]
        /\ MarkDone(store, id)[k] = store[k]
        /\ MarkFailed(store, ids)[k] = store[k]
        /\ \A n : ClearAudioPath(store, n)[k] = store[k]
        /\ k \notin ids => CreateJobs(store, ids)[k] = store[k]
    BY <1>2 DEF MarkRunning, MarkDone, MarkFailed, ClearAudioPath, CreateJobs, Mark
  <2> QED
    BY <1>2, <2>1 DEF HeldIn, HasJob
<1> QED
  BY <1>1, <1>2

(* What a step can mean for one job. *)

\* It is about another job, or this one moves on without a change of its record.
Kept(k) ==
    /\ Status(k)' = Status(k) /\ (Held(k)' <=> Held(k))
    /\ \/ stage'[k] = stage[k]
       \/ stage[k] = "waiting" /\ stage'[k] = "started"
    /\ \/ saving'[k] = saving[k]
       \/ saving[k] = "saving" /\ saving'[k] = "saved"
       \/ /\ saving[k] = "saving" /\ saving'[k] = "raised" /\ stage'[k] = stage[k]
          /\ "save" \in Faults \/ stage[k] = "broken"

\* Nobody but a refused batch fails a request that is in the queue, and nothing
\* but a fault leaves a pending job outside of it.
Created(k) ==
    /\ stage[k] = "new" /\ stage'[k] \in {"new", "waiting", "refused"}
    /\ saving'[k] = saving[k]
    /\ Status(k)' \in {"pending", "failed"}
    /\ stage'[k] = "waiting" /\ Status(k)' = "failed" => RefusedJob(k)'
    /\ stage'[k] # "waiting" /\ Status(k)' = "pending" =>
          stage'[k] = "new" /\ "manager" \in Faults
    /\ \/ k \in Singles /\ Status(k) = "gone"
       \/ \E b \in Batches :
            k \in Range(b) /\ batch_reply[b] = "none" /\ batch_reply'[b] # "none"

Ended(k) ==
    /\ stage[k] = "started" /\ stage'[k] \in Outcomes
    /\ \/ saving'[k] = saving[k] /\ (Status(k) # "gone" => Status(k)' = "failed")
       \/ saving'[k] = "saving" /\ (Status(k) # "gone" => Status(k)' = "running")
    /\ Status(k) = "gone" => Status(k)' = "gone"

Finished(k) ==
    /\ saving[k] = "saved" /\ saving'[k] = "no" /\ stage'[k] = stage[k]
    /\ Status(k) # "gone" => Status(k)' = "done" /\ Held(k)'
    /\ Status(k) = "gone" => Status(k)' = "gone"

Evicted(k) ==
    /\ Cleanup /\ k \in Evictable
    /\ Status(k) \in Terminal /\ Status(k)' = "gone"
    /\ stage'[k] = stage[k] /\ saving'[k] = saving[k]

Emptied(k) ==
    /\ \E d \in Downloads : DeleteAfterSend(d) /\ download[d].job = k
    /\ Status(k)' = Status(k) /\ ~Held(k)'
    /\ stage'[k] = stage[k] /\ saving'[k] = saving[k]

Moves(k) == Kept(k) \/ Created(k) \/ Ended(k) \/ Finished(k) \/ Evicted(k) \/ Emptied(k)

\* A batch creates its items, or some of them.
LEMMA BatchMoves ==
    ASSUME TypeOK, QueueBounded, QueueInv, NEW b \in Batches, SubmitBatch(b), NEW k \in JobIds
    PROVE  Kept(k) \/ Created(k)
<1>0. /\ jobs \in [JobIds -> Job \cup {NoJob}]
      /\ k \in Submitters /\ Capacity \in Nat /\ b \in Seq(JobIds)
      /\ stage \in [Submitters -> {"new", "waiting", "started", "refused"} \cup Outcomes]
      /\ batch_reply \in [Batches -> {"none", "202", "500", "503"}]
      /\ saving' = saving /\ batch_reply[b] = "none"
  BY JobsAreSubmitters, TtsServerAssumption DEF TypeOK, SubmitBatch
<1>1. batch_reply'[b] # "none"
  BY <1>0 DEF SubmitBatch, BatchAccepted, BatchRefused, BatchRaises
<1>2. k \in Range(b) => stage[k] = "new"
  BY <1>0 DEF QueueInv, UnpostedIsNew
<1>3. ASSUME k \in Range(b), stage'[k] \in {"new", "waiting", "refused"},
             \/ /\ Status(k)' = "pending"
                /\ stage'[k] = "waiting" \/ (stage'[k] = "new" /\ "manager" \in Faults)
             \/ Status(k)' = "failed" /\ batch_reply'[b] = "503"
      PROVE  Created(k)
  <2>1. batch_reply'[b] = "503" => RefusedJob(k)'
    BY <1>3 DEF RefusedJob
  <2> QED
    BY <1>0, <1>1, <1>2, <1>3, <2>1 DEF Created
<1>4. ASSUME Status(k)' = Status(k), Held(k)' <=> Held(k), stage'[k] = stage[k]
      PROVE  Kept(k)
  <2>1. saving'[k] = saving[k]
    BY <1>0
  <2> QED
    BY <1>4, <2>1, Zenon DEF Kept
<1>5. CASE BatchAccepted(b)
  <2>1. jobs' = CreateJobs(jobs, Range(b))
    BY <1>5 DEF BatchAccepted
  <2>2. Status(k)' = IF k \in Range(b) THEN "pending" ELSE Status(k)
    BY <1>0, <2>1, StoreStatus DEF Status
  <2>3. k \notin Range(b) => (Held(k)' <=> Held(k))
    BY <1>0, <2>1, StorePaths DEF Held
  <2>4. stage'[k] = IF k \in Range(b) THEN "waiting" ELSE stage[k]
    BY <1>0, <1>5 DEF BatchAccepted
  <2> QED
    BY <1>3, <1>4, <2>2, <2>3, <2>4
<1>6. CASE BatchRefused(b)
  <2> DEFINE made == SubSeq(b, 1, Room + 1)
             queued == SubSeq(b, 1, Room)
  <2>1. ~Fits(b) /\ Room >= 0
    BY <1>6, RoomIsNat DEF BatchRefused
  <2>2. /\ Range(queued) \subseteq Range(made)
        /\ Last(made) \in Range(made) \ Range(queued)
        /\ Range(made) \subseteq Range(b)
    BY <2>1, RefusedFront
  <2>3. /\ jobs' = MarkFailed(CreateJobs(jobs, Range(made)), Range(made))
        /\ stage' = [r \in Submitters |-> CASE r \in Range(queued) -> "waiting"
                                            [] r = Last(made) -> "refused"
                                            [] OTHER -> stage[r]]
    BY <1>6 DEF BatchRefused
  <2> HIDE DEF made, queued
  <2>4. batch_reply'[b] = "503"
    BY <1>0, <1>6 DEF BatchRefused
  <2>5. CreateJobs(jobs, Range(made)) \in [JobIds -> Job \cup {NoJob}]
    BY <1>0, StoreTypes
  <2>6. stage'[k] = CASE k \in Range(queued) -> "waiting"
                      [] k = Last(made) -> "refused"
                      [] OTHER -> stage[k]
    BY <1>0, <2>3
  <2>7. CASE k \in Range(made)
    <3>1. StatusIn(CreateJobs(jobs, Range(made)), k) = "pending"
      BY <1>0, <2>7, StoreStatus
    <3>2. HasJob(CreateJobs(jobs, Range(made)), k)
      BY <3>1 DEF StatusIn
    <3>3. Status(k)' = "failed"
      BY <2>3, <2>5, <2>7, <3>2, StoreStatus DEF Status
    <3>4. stage'[k] \in {"new", "waiting", "refused"}
      BY <1>2, <2>2, <2>6, <2>7
    <3> QED
      BY <1>3, <2>2, <2>4, <2>7, <3>3, <3>4
  <2>8. CASE k \notin Range(made)
    <3>1. Status(k)' = StatusIn(CreateJobs(jobs, Range(made)), k)
      BY <2>3, <2>5, <2>8, StoreStatus DEF Status
    <3>2. Status(k)' = Status(k)
      BY <1>0, <2>8, <3>1, StoreStatus DEF Status
    <3>3. Held(k)' <=> HeldIn(CreateJobs(jobs, Range(made)), k)
      BY <2>3, <2>5, StorePaths DEF Held
    <3>4. Held(k)' <=> Held(k)
      BY <1>0, <2>8, <3>3, StorePaths DEF Held
    <3>5. stage'[k] = stage[k]
      BY <2>2, <2>6, <2>8
    <3> QED
      BY <1>4, <3>2, <3>4, <3>5
  <2> QED
    BY <2>7, <2>8
<1>7. CASE BatchRaises(b)
  <2>1. PICK n \in DOMAIN b :
          /\ jobs' = CreateJobs(jobs, Range(SubSeq(b, 1, n - 1)) \cup {b[n]})
          /\ stage' = [r \in Submitters |->
                         IF r \in Range(SubSeq(b, 1, n - 1)) THEN "waiting" ELSE stage[r]]
    BY <1>7 DEF BatchRaises
  <2> DEFINE queued == SubSeq(b, 1, n - 1)
             ids == Range(queued) \cup {b[n]}
  <2>2. n - 1 \in Int /\ n - 1 <= Len(b) /\ waiting \in Seq(Submitters)
    BY <1>0 DEF TypeOK
  <2>3. Range(queued) \subseteq Range(b)
    BY <2>2, FrontOfBatch
  <2>4. ids \subseteq Range(b)
    BY <2>3 DEF Range
  <2>5. stage'[k] = IF k \in Range(queued) THEN "waiting" ELSE stage[k]
    BY <1>0, <2>1
  <2>6. jobs' = CreateJobs(jobs, ids) /\ Range(queued) \subseteq ids
    BY <2>1
  <2> HIDE DEF ids, queued
  <2>7. Status(k)' = IF k \in ids THEN "pending" ELSE Status(k)
    BY <1>0, <2>6, StoreStatus DEF Status
  <2>8. k \notin ids => (Held(k)' <=> Held(k))
    BY <1>0, <2>6, StorePaths DEF Held
  <2>9. CASE k \in ids
    <3>1. "manager" \in Faults
      BY <1>7 DEF BatchRaises
    <3> QED
      BY <1>2, <1>3, <2>4, <2>5, <2>7, <2>9, <3>1
  <2>10. CASE k \notin ids
    BY <1>4, <2>5, <2>6, <2>7, <2>8, <2>10
  <2> QED
    BY <2>9, <2>10
<1> QED
  BY <1>5, <1>6, <1>7 DEF SubmitBatch

\* Every step is one of these for every job.
LEMMA JobMoves ==
    ASSUME TypeOK, QueueBounded, QueueInv, [Next]_vars, NEW k \in JobIds
    PROVE  Moves(k)
<1>0. /\ jobs \in [JobIds -> Job \cup {NoJob}]
      /\ k \in Submitters /\ JobIds \subseteq Submitters
      /\ waiting \in Seq(Submitters)
      /\ stage \in [Submitters -> {"new", "waiting", "started", "refused"} \cup Outcomes]
      /\ saving \in [JobIds -> {"no", "saving", "saved", "raised"}]
  BY JobsAreSubmitters DEF TypeOK
<1>14. Status(k) = "gone" <=> ~HasJob(jobs, k)
  <2>1. HasJob(jobs, k) => jobs[k] \in Job
    BY <1>0 DEF HasJob
  <2>2. HasJob(jobs, k) => jobs[k].status # "gone"
    BY <2>1 DEF Job, JobStatus
  <2> QED
    BY <2>2 DEF Status, StatusIn
<1>1. ASSUME Status(k)' = Status(k), Held(k)' <=> Held(k), stage'[k] = stage[k],
             saving'[k] = saving[k]
      PROVE  Moves(k)
  BY <1>1 DEF Kept, Moves
<1>2. ASSUME UNCHANGED jobs, stage'[k] = stage[k], saving'[k] = saving[k] PROVE Moves(k)
  <2>1. Status(k)' = Status(k) /\ (Held(k)' <=> Held(k))
    BY <1>2 DEF Status, Held
  <2> QED
    BY <1>1, <1>2, <2>1
<1>3. ASSUME NEW id \in JobIds, SubmitTts(id) PROVE Moves(k)
  <2> DEFINE ids == {id}
             created == CreateJobs(jobs, ids)
  <2>1. /\ saving' = saving /\ id \in Singles /\ id \in Submitters
        /\ created \in [JobIds -> Job \cup {NoJob}]
        /\ \/ AcceptRequest(id) /\ jobs' = created
           \/ RefuseRequest(id) /\ jobs' = MarkFailed(created, ids)
        /\ k \in ids <=> k = id
    BY <1>0, <1>3, StoreTypes DEF SubmitTts, serverVars
  <2> HIDE DEF ids, created
  <2>2. StatusIn(created, k) = IF k = id THEN "pending" ELSE Status(k)
    BY <1>0, <2>1, StoreStatus DEF Status, created
  <2>3. \/ Status(k)' = StatusIn(created, k)
        \/ k = id /\ Status(k)' = "failed"
    BY <2>1, StoreStatus DEF Status
  <2>4. CASE k = id
    <3>1. /\ stage[k] = "new" /\ Status(k) = "gone"
          /\ (AcceptRequest(k) /\ jobs' = created) \/ RefuseRequest(k)
      BY <1>3, <2>1, <2>4 DEF SubmitTts, AcceptRequest, RefuseRequest, Status, StatusIn
    <3>2. CASE AcceptRequest(k) /\ jobs' = created
      <4>1. stage'[k] = "waiting" /\ Status(k)' = "pending"
        BY <1>0, <2>2, <2>4, <3>2 DEF AcceptRequest, Status
      <4> QED
        BY <2>1, <2>4, <3>1, <4>1 DEF Created, Moves
    <3>3. CASE RefuseRequest(k)
      <4>1. stage'[k] = "refused"
        BY <1>0, <3>3 DEF RefuseRequest
      <4>2. jobs' = MarkFailed(created, ids)
        BY <1>0, <2>1, <2>4, <4>1 DEF AcceptRequest
      <4>3. HasJob(created, k)
        BY <2>2, <2>4 DEF StatusIn
      <4>4. Status(k)' = "failed"
        BY <2>1, <2>4, <4>2, <4>3, StoreStatus DEF Status
      <4> QED
        BY <2>1, <2>4, <3>1, <4>1, <4>4 DEF Created, Moves
    <3> QED
      BY <3>1, <3>2, <3>3
  <2>5. CASE k # id
    <3>1. HeldIn(created, k) <=> Held(k)
      BY <1>0, <2>1, <2>5, StorePaths DEF Held, created
    <3>2. HeldIn(MarkFailed(created, ids), k) <=> HeldIn(created, k)
      BY <2>1, StorePaths
    <3>3. Held(k)' <=> Held(k)
      BY <2>1, <3>1, <3>2 DEF Held
    <3>4. stage'[k] = stage[k]
      BY <1>0, <1>3, <2>5 DEF SubmitTts, AcceptRequest, RefuseRequest
    <3> QED
      BY <1>1, <2>1, <2>2, <2>3, <2>5, <3>3, <3>4
  <2> QED
    BY <2>4, <2>5
<1>4. ASSUME NEW id \in JobIds, SubmitTtsRaises(id) PROVE Moves(k)
  <2>1. /\ saving' = saving /\ stage' = stage /\ id \in Singles /\ stage[id] = "new"
        /\ jobs' = CreateJobs(jobs, {id}) /\ StatusIn(jobs, id) = "gone"
        /\ "manager" \in Faults
    BY <1>4 DEF SubmitTtsRaises, serverVars, requestQueueVars, StatusIn
  <2>2. Status(k)' = IF k = id THEN "pending" ELSE Status(k)
    <3>1. StatusIn(CreateJobs(jobs, {id}), k)
            = IF k \in {id} THEN "pending" ELSE StatusIn(jobs, k)
      BY <1>0, StoreStatus
    <3> QED
      BY <2>1, <3>1 DEF Status
  <2>3. CASE k = id
    BY <2>1, <2>2, <2>3 DEF Created, Moves, Status
  <2>4. CASE k # id
    <3>1. Held(k)' <=> Held(k)
      BY <1>0, <2>1, <2>4, StorePaths DEF Held
    <3> QED
      BY <1>1, <2>1, <2>2, <2>4, <3>1
  <2> QED
    BY <2>3, <2>4
<1>5. ASSUME NEW r \in Syncs, SubmitSync(r) PROVE Moves(k)
  <2>1. k # r
    BY <1>5, JobsAreSubmitters
  <2>2. stage'[k] = stage[k]
    BY <1>0, <1>5, <2>1 DEF SubmitSync, AcceptRequest, RefuseRequest, requestQueueVars
  <2> QED
    BY <1>2, <1>5, <2>2 DEF SubmitSync, storeVars
<1>6. ASSUME NEW b \in Batches, SubmitBatch(b) PROVE Moves(k)
  BY <1>6, BatchMoves DEF Moves
<1>7. ASSUME NEW r \in Submitters, Complete(r) PROVE Moves(k)
  <2>1. PICK outcome \in Outcomes :
          CompleteFailed(r, outcome) \/ CompleteGood(r, outcome) \/ CompleteSync(r, outcome)
    BY <1>7 DEF Complete
  <2>2. stage[r] = "started" /\ stage' = [stage EXCEPT ![r] = outcome]
    BY <2>1 DEF CompleteFailed, CompleteGood, CompleteSync, FinishRequest
  <2>3. /\ k = r => stage[k] = "started" /\ stage'[k] \in Outcomes
        /\ k # r => stage'[k] = stage[k]
    BY <1>0, <2>2
  <2>4. /\ MarkRunning(jobs, r) \in [JobIds -> Job \cup {NoJob}]
        /\ StatusIn(MarkRunning(jobs, r), k)
             = IF k = r /\ HasJob(jobs, k) THEN "running" ELSE Status(k)
        /\ HeldIn(MarkRunning(jobs, r), k) <=> Held(k)
    BY <1>0, StoreTypes, StoreStatus, StorePaths DEF Status, Held
  <2>5. Status(k) # "gone" => HasJob(jobs, k)
    BY DEF Status, StatusIn
  <2>6. CASE CompleteFailed(r, outcome)
    <3>1. jobs' = MarkFailed(MarkRunning(jobs, r), {r}) /\ saving' = saving
      BY <2>6 DEF CompleteFailed, serverVars
    <3>2. Held(k)' <=> Held(k)
      BY <2>4, <3>1, StorePaths DEF Held
    <3>3. CASE k = r
      <4>1. Status(k) # "gone" => HasJob(MarkRunning(jobs, r), k)
        <5>1. Status(k) # "gone" => StatusIn(MarkRunning(jobs, r), k) = "running"
          BY <2>4, <2>5, <3>3
        <5> QED
          BY <5>1 DEF StatusIn
      <4>2. Status(k) # "gone" => Status(k)' = "failed"
        BY <2>4, <3>1, <3>3, <4>1, StoreStatus DEF Status
      <4>3. Status(k) = "gone" => Status(k)' = "gone"
        <5>1. Status(k) = "gone" => StatusIn(MarkRunning(jobs, r), k) = "gone"
          BY <1>14, <2>4
        <5>2. Status(k) = "gone" => ~HasJob(MarkRunning(jobs, r), k)
          BY <1>14 DEF MarkRunning, Mark, HasJob
        <5> QED
          BY <2>4, <3>1, <5>1, <5>2, StoreStatus DEF Status
      <4> QED
        BY <2>3, <3>1, <3>3, <4>2, <4>3 DEF Ended, Moves
    <3>4. CASE k # r
      <4>1. Status(k)' = StatusIn(MarkRunning(jobs, r), k)
        BY <2>4, <3>1, <3>4, StoreStatus DEF Status
      <4> QED
        BY <1>1, <2>3, <2>4, <3>1, <3>2, <3>4, <4>1
    <3> QED
      BY <3>3, <3>4
  <2>7. CASE CompleteGood(r, outcome)
    <3>1. jobs' = MarkRunning(jobs, r) /\ saving' = [saving EXCEPT ![r] = "saving"]
      BY <2>7 DEF CompleteGood
    <3>2. /\ k = r => saving'[k] = "saving"
          /\ k # r => saving'[k] = saving[k]
      BY <1>0, <3>1
    <3>3. Status(k)' = StatusIn(MarkRunning(jobs, r), k) /\ (Held(k)' <=> Held(k))
      BY <2>4, <3>1 DEF Status, Held
    <3>4. CASE k = r
      BY <1>14, <2>3, <2>4, <2>5, <3>2, <3>3, <3>4 DEF Ended, Moves
    <3>5. CASE k # r
      BY <1>1, <2>3, <2>4, <3>2, <3>3, <3>5
    <3> QED
      BY <3>4, <3>5
  <2>8. CASE CompleteSync(r, outcome)
    <3>1. k # r
      BY <2>8, JobsAreSubmitters DEF CompleteSync
    <3> QED
      BY <1>2, <2>3, <2>8, <3>1 DEF CompleteSync, storeVars, serverVars
  <2> QED
    BY <2>1, <2>6, <2>7, <2>8
<1>8. ASSUME NEW id \in JobIds, Save(id) PROVE Moves(k)
  <2>1. stage' = stage
    BY <1>8 DEF Save, SaveAudio, SaveAudioRaises, AudioSaved, requestQueueVars
  <2>2. k # id => saving'[k] = saving[k]
    BY <1>0, <1>8 DEF Save, SaveAudio, SaveAudioRaises, AudioSaved
  <2>3. CASE SaveAudio(id) \/ SaveAudioRaises(id)
    <3>1. jobs' = jobs
      BY <2>3 DEF SaveAudio, SaveAudioRaises, storeVars
    <3>2. Status(k)' = Status(k) /\ (Held(k)' <=> Held(k))
      BY <3>1 DEF Status, Held
    <3>3. k = id => /\ saving[k] = "saving"
                    /\ \/ saving'[k] = "saved"
                       \/ /\ saving'[k] = "raised"
                          /\ "save" \in Faults \/ stage[k] = "broken"
      BY <1>0, <2>3 DEF SaveAudio, SaveAudioRaises
    <3> QED
      BY <2>1, <2>2, <3>2, <3>3 DEF Kept, Moves
  <2>4. CASE AudioSaved(id)
    <3>1. jobs' = MarkDone(jobs, id) /\ saving[id] = "saved" /\ saving'[id] = "no"
      BY <1>0, <2>4 DEF AudioSaved
    <3>2. Status(k)' = IF k = id /\ HasJob(jobs, k) THEN "done" ELSE Status(k)
      BY <1>0, <3>1, StoreStatus DEF Status
    <3>3. k # id => (Held(k)' <=> Held(k))
      BY <1>0, <3>1, StorePaths DEF Held
    <3>4. k = id /\ HasJob(jobs, k) => Held(k)'
      BY <1>0, <3>1, StorePaths DEF Held
    <3>5. CASE k = id
      <4>1. Status(k) # "gone" => HasJob(jobs, k)
        BY DEF Status, StatusIn
      <4> QED
        BY <1>14, <2>1, <3>1, <3>2, <3>4, <3>5, <4>1 DEF Finished, Moves
    <3>6. CASE k # id
      BY <1>1, <2>1, <2>2, <3>2, <3>3, <3>6
    <3> QED
      BY <3>5, <3>6
  <2> QED
    BY <1>8, <2>3, <2>4 DEF Save
<1>9. ASSUME NEW id \in JobIds, Ttl(id) PROVE Moves(k)
  <2>1. stage' = stage /\ saving' = saving
    BY <1>9 DEF Ttl, requestQueueVars, serverVars
  <2>2. HasJob(jobs, id) /\ jobs' = [jobs EXCEPT ![id].finished_at = "expired"]
    BY <1>9 DEF Ttl, TtlPasses
  <2>3. CASE k = id
    <3>1. jobs[k] \in Job /\ jobs'[k] = [jobs[k] EXCEPT !.finished_at = "expired"]
      BY <1>0, <2>2, <2>3 DEF HasJob
    <3>2. /\ jobs'[k] \in Job /\ jobs'[k].status = jobs[k].status
          /\ jobs'[k].audio_path = jobs[k].audio_path
      BY <3>1 DEF Job
    <3>3. jobs[k] # NoJob /\ jobs'[k] # NoJob
      BY <3>1, <3>2, JobStoreAssumption
    <3> QED
      BY <1>1, <2>1, <3>2, <3>3 DEF Status, StatusIn, Held, HeldIn, HasJob
  <2>4. CASE k # id
    <3>1. jobs'[k] = jobs[k]
      BY <1>0, <2>2, <2>4
    <3> QED
      BY <1>1, <2>1, <3>1 DEF Status, StatusIn, Held, HeldIn, HasJob
  <2> QED
    BY <2>3, <2>4
<1>10. CASE Cleanup
  <2>1. /\ stage' = stage /\ saving' = saving
        /\ jobs' = [id \in JobIds |-> IF id \in Evictable THEN NoJob ELSE jobs[id]]
    BY <1>10 DEF Cleanup, EvictExpired, requestQueueVars, serverVars
  <2>2. CASE k \in Evictable
    <3>1. Status(k) \in Terminal
      BY <2>2 DEF Evictable, Status, StatusIn
    <3>2. Status(k)' = "gone"
      BY <2>1, <2>2 DEF Status, StatusIn, HasJob
    <3> QED
      BY <1>10, <2>1, <2>2, <3>1, <3>2 DEF Evicted, Moves
  <2>3. CASE k \notin Evictable
    <3>1. jobs'[k] = jobs[k]
      BY <2>1, <2>3
    <3> QED
      BY <1>1, <2>1, <3>1 DEF Status, StatusIn, Held, HeldIn, HasJob
  <2> QED
    BY <2>2, <2>3
<1>11. ASSUME NEW d \in Downloads, DeleteAfterSend(d) PROVE Moves(k)
  <2>1. /\ stage' = stage /\ saving' = saving
        /\ jobs' = ClearAudioPath(jobs, download[d].job)
    BY <1>11 DEF DeleteAfterSend, requestQueueVars
  <2>2. Status(k)' = Status(k)
    BY <1>0, <2>1, StoreStatus DEF Status
  <2>3. CASE k = download[d].job
    <3>1. ~Held(k)'
      BY <1>0, <2>1, <2>3, StorePaths DEF Held
    <3> QED
      BY <1>11, <2>1, <2>2, <2>3, <3>1 DEF Emptied, Moves
  <2>4. CASE k # download[d].job
    <3>1. Held(k)' <=> Held(k)
      BY <1>0, <2>1, <2>4, StorePaths DEF Held
    <3> QED
      BY <1>1, <2>1, <2>2, <3>1
  <2> QED
    BY <2>3, <2>4
<1>12. CASE Start
  <2>1. stage[Head(waiting)] = "waiting"
    <3>1. 1 \in 1 .. Len(waiting) /\ Head(waiting) = waiting[1]
      BY <1>0, <1>12 DEF Start, StartNext
    <3> QED
      BY <3>1 DEF QueueInv, QueueInOrder
  <2>2. stage'[k] = stage[k] \/ (stage[k] = "waiting" /\ stage'[k] = "started")
    BY <1>0, <1>12, <2>1 DEF Start, StartNext
  <2>3. jobs' = jobs /\ saving' = saving
    BY <1>12 DEF Start, storeVars, serverVars
  <2>4. Status(k)' = Status(k) /\ (Held(k)' <=> Held(k))
    BY <2>3 DEF Status, Held
  <2> QED
    BY <2>2, <2>3, <2>4 DEF Kept, Moves
<1>13. CASE UNCHANGED <<jobs, stage, saving>>
  BY <1>2, <1>13
<1> QED
  BY <1>3, <1>4, <1>5, <1>6, <1>7, <1>8, <1>9, <1>10, <1>11, <1>12, <1>13
     DEF Next, Serve, OpenAudio, GetAudio, ReplySync, vars, storeVars, serverVars,
         requestQueueVars

-----------------------------------------------------------------------------
(* Statuses move forward, and every file has an owner, for every job that   *)
(* is not an item of a refused batch: its status goes with the stage of its *)
(* request, and its record outlives the callback.  (A refused batch fails   *)
(* jobs that run all the same: run refused_batch.)                          *)

\* The items of a batch that was not posted are not in the dictionary.
UnpostedIsUnmade ==
    \A b \in Batches : batch_reply[b] = "none" => \A k \in Range(b) : Status(k) = "gone"

\* A job is pending as long as its request has not ended, and running for as
\* long as its callback is not through.
StatusFollowsStage ==
    \A k \in JobIds : ~RefusedJob(k) =>
        /\ stage[k] \in {"waiting", "started"} => Status(k) = "pending"
        /\ saving[k] \in {"saving", "saved"} => Status(k) = "running"

\* It takes a limit on the queue to refuse a batch.
RefusedByLimit == \A b \in Batches : batch_reply[b] = "503" => Capacity > 0

StatusInv == UnpostedIsUnmade /\ StatusFollowsStage /\ RefusedByLimit

\* A batch has one reply.
LEMMA RepliesStay ==
    ASSUME TypeOK, [Next]_vars, NEW b \in Batches
    PROVE  /\ batch_reply'[b] = batch_reply[b] \/ batch_reply[b] = "none"
           /\ batch_reply'[b] = "503" => batch_reply[b] = "503" \/ Capacity > 0
<1> DEFINE OneReply ==
      /\ batch_reply'[b] = batch_reply[b] \/ batch_reply[b] = "none"
      /\ batch_reply'[b] = "503" => batch_reply[b] = "503" \/ Capacity > 0
<1>0. batch_reply \in [Batches -> {"none", "202", "500", "503"}]
  BY DEF TypeOK
<1>1. ASSUME NEW c \in Batches, SubmitBatch(c) PROVE OneReply
  <2>1. batch_reply[c] = "none" /\ \E reply \in {"202", "500", "503"} :
          /\ batch_reply' = [batch_reply EXCEPT ![c] = reply]
          /\ reply = "503" => ~Fits(c)
    BY <1>1 DEF SubmitBatch, BatchAccepted, BatchRefused, BatchRaises
  <2>2. ~Fits(c) => Capacity > 0
    BY TtsServerAssumption DEF Fits
  <2> QED
    BY <1>0, <2>1, <2>2
<1>2. ASSUME NEW r \in Submitters, Complete(r) PROVE OneReply
  <2>1. batch_reply' = batch_reply
    BY <1>2 DEF Complete, CompleteFailed, CompleteGood, CompleteSync, serverVars
  <2> QED
    BY <2>1
<1>3. CASE batch_reply' = batch_reply
  BY <1>3
<1> QED
  BY <1>1, <1>2, <1>3
     DEF Next, SubmitTts, SubmitTtsRaises, SubmitSync, Start, Save, SaveAudio,
         SaveAudioRaises, AudioSaved, Ttl, Cleanup, Serve, OpenAudio, DeleteAfterSend,
         GetAudio, ReplySync, vars, serverVars

\* An item of a refused batch stays one.
LEMMA RefusedStays ==
    ASSUME TypeOK, [Next]_vars, NEW k, RefusedJob(k)
    PROVE  RefusedJob(k)'
<1>1. PICK b \in Batches : k \in Range(b) /\ batch_reply[b] = "503"
  BY DEF RefusedJob
<1>2. batch_reply'[b] = "503"
  BY <1>1, RepliesStay
<1> QED
  BY <1>1, <1>2 DEF RefusedJob

\* A refused batch is what it takes to part the two.
LEMMA StatusInductive ==
    ASSUME TypeOK, QueueBounded, QueueInv, AudioInv, StatusInv, [Next]_vars
    PROVE  StatusInv'
<1>0. {"new", "waiting", "started", "refused"} \cap Outcomes = {}
  BY TtsServerAssumption
<1>1. ASSUME NEW b \in Batches, batch_reply'[b] = "none", NEW k \in Range(b)
      PROVE  Status(k)' = "gone"
  <2>1. k \in JobIds /\ k \notin Singles
    <3>1. k \in BatchJobs
      BY DEF BatchJobs
    <3> QED
      BY <3>1, TtsServerAssumption
  <2>2. batch_reply[b] = "none" /\ QueueInv'
    BY <1>1, RepliesStay, QueueInvInductive
  <2>3. Status(k) = "gone" /\ stage[k] = "new" /\ stage'[k] = "new"
    BY <1>1, <2>2 DEF StatusInv, UnpostedIsUnmade, QueueInv, UnpostedIsNew
  <2>4. saving[k] = "no"
    BY <1>0, <2>1, <2>3 DEF AudioInv, UnfinishedIsPrivate
  <2>5. ~Created(k)
    <3>1. ASSUME NEW c \in Batches, k \in Range(c), batch_reply'[c] # "none" PROVE FALSE
      BY <1>1, <3>1, TtsServerAssumption
    <3> QED
      BY <2>1, <3>1 DEF Created
  <2>6. ~Ended(k) /\ ~Finished(k) /\ ~Evicted(k)
    BY <2>3, <2>4 DEF Ended, Finished, Evicted, Terminal
  <2> QED
    BY <2>1, <2>3, <2>5, <2>6, JobMoves DEF Moves, Kept, Emptied
<1>2. ASSUME NEW k \in JobIds, ~RefusedJob(k)'
      PROVE  /\ stage'[k] \in {"waiting", "started"} => Status(k)' = "pending"
             /\ saving'[k] \in {"saving", "saved"} => Status(k)' = "running"
  <2>1. /\ stage[k] \in {"waiting", "started"} => Status(k) = "pending"
        /\ saving[k] \in {"saving", "saved"} => Status(k) = "running"
        /\ saving[k] \in {"saving", "saved"} => stage[k] \in Outcomes
        /\ stage[k] \notin Outcomes => saving[k] = "no"
    <3>1. ~RefusedJob(k)
      BY <1>2, RefusedStays
    <3> QED
      BY <3>1 DEF StatusInv, StatusFollowsStage, AudioInv, SavingIsPrivate,
                  UnfinishedIsPrivate
  <2>2. CASE Kept(k)
    BY <2>1, <2>2 DEF Kept
  <2>3. CASE Created(k)
    BY <1>0, <1>2, <2>1, <2>3 DEF Created
  <2>4. CASE Ended(k)
    <3>1. stage[k] = "started" /\ stage'[k] \notin {"waiting", "started"} /\ saving[k] = "no"
          /\ Status(k) # "gone"
      BY <1>0, <2>1, <2>4 DEF Ended
    <3> QED
      BY <2>4, <3>1 DEF Ended
  <2>5. CASE Finished(k)
    <3>1. stage[k] \in Outcomes /\ stage'[k] = stage[k] /\ saving'[k] = "no"
      BY <2>1, <2>5 DEF Finished
    <3> QED
      BY <1>0, <3>1
  <2>6. CASE Evicted(k)
    BY <2>1, <2>6 DEF Evicted, Terminal
  <2>7. CASE Emptied(k)
    BY <2>1, <2>7 DEF Emptied
  <2> QED
    BY <2>2, <2>3, <2>4, <2>5, <2>6, <2>7, JobMoves DEF Moves
<1>3. RefusedByLimit'
  BY RepliesStay DEF StatusInv, RefusedByLimit
<1> QED
  BY <1>1, <1>2, <1>3 DEF StatusInv, UnpostedIsUnmade, StatusFollowsStage

\* At first there are no jobs.
LEMMA StatusStarts == Init => StatusInv
<1> SUFFICES ASSUME Init PROVE StatusInv
  OBVIOUS
<1>1. \A k \in JobIds : Status(k) = "gone" /\ stage[k] = "new" /\ saving[k] = "no"
  BY JobsAreSubmitters
     DEF Init, JobStoreInit, RequestQueueInit, Status, StatusIn, HasJob
<1>2. \A b \in Batches : \A k \in Range(b) : k \in JobIds
  BY JobsAreSubmitters DEF Range
<1>3. \A b \in Batches : batch_reply[b] = "none"
  BY DEF Init
<1> QED
  BY <1>1, <1>2, <1>3 DEF StatusInv, UnpostedIsUnmade, StatusFollowsStage, RefusedByLimit

StatusInvariant == ServerInv /\ StatusInv

\* The invariant of the statuses, for every queue and every batch.
LEMMA StatusInvariantHolds == Spec => []StatusInvariant
<1>1. Init => StatusInvariant
  BY ServerInvariant, StatusStarts DEF StatusInvariant
<1>2. StatusInvariant /\ [Next]_vars => StatusInvariant'
  BY ServerInvariant, StatusInductive DEF ServerInv, StatusInvariant
<1> QED
  BY <1>1, <1>2, PTL DEF Spec

\* What pollers see of a job only moves forward, whatever is refused, fails or
\* is evicted around it, unless the job is an item of a batch that was answered
\* with a 503.
THEOREM StatusOnlyForwardHolds == Spec => StatusOnlyForward
<1> DEFINE Forward ==
             \A id \in JobIds :
               ~RefusedJob(id) /\ HasJob(jobs, id) /\ HasJob(jobs', id)
                 /\ jobs'[id].status # jobs[id].status
                   => StatusRank(jobs[id].status) < StatusRank(jobs'[id].status)
<1>1. ServerInv /\ StatusInv /\ [Next]_vars => Forward
  <2> SUFFICES ASSUME ServerInv, StatusInv, [Next]_vars, NEW k \in JobIds,
                      HasJob(jobs, k), HasJob(jobs', k),
                      jobs'[k].status # jobs[k].status,
                      ~RefusedJob(k)
               PROVE  StatusRank(jobs[k].status) < StatusRank(jobs'[k].status)
    OBVIOUS
  <2>1. Status(k) = jobs[k].status /\ Status(k)' = jobs'[k].status
    BY DEF Status, StatusIn
  <2>2. Status(k) \in JobStatus /\ Status(k)' \in JobStatus
    <3>1. jobs[k] \in Job /\ TypeOK'
      BY ServerInvariant DEF ServerInv, TypeOK, HasJob
    <3>2. jobs'[k] \in Job
      BY <3>1 DEF TypeOK, HasJob
    <3> QED
      BY <2>1, <3>1, <3>2 DEF Job
  <2>3. "gone" \notin JobStatus
    BY DEF JobStatus
  <2>4. Moves(k)
    BY JobMoves DEF ServerInv
  <2>5. /\ stage[k] = "started" => Status(k) = "pending"
        /\ saving[k] = "saved" => Status(k) = "running"
    BY DEF StatusInv, StatusFollowsStage
  <2>6. CASE Created(k)
    <3>1. Status(k) = "gone"
      BY <2>6 DEF Created, StatusInv, UnpostedIsUnmade
    <3> QED
      BY <2>2, <2>3, <3>1
  <2>7. CASE Ended(k)
    <3>1. Status(k) = "pending" /\ Status(k)' \in {"running", "failed"}
      BY <2>5, <2>7 DEF Ended
    <3> QED
      BY <2>1, <3>1 DEF StatusRank
  <2>8. CASE Finished(k)
    <3>1. Status(k) = "running" /\ Status(k)' = "done"
      BY <2>5, <2>8 DEF Finished
    <3> QED
      BY <2>1, <3>1 DEF StatusRank
  <2> QED
    BY <2>1, <2>2, <2>3, <2>4, <2>6, <2>7, <2>8 DEF Moves, Kept, Evicted, Emptied
<1> QED
  BY <1>1, StatusInvariantHolds, PTL DEF Spec, StatusInvariant, StatusOnlyForward

(* Who ends a job that is not finished. *)

\* Every step hands the job on to the next one who owes it an ending.
LEMMA OwedInductive ==
    ASSUME TypeOK, QueueBounded, QueueInv, AudioInv, UnfinishedIsOwed, [Next]_vars
    PROVE  UnfinishedIsOwed'
<1>0. {"new", "waiting", "started", "refused"} \cap Outcomes = {}
  BY TtsServerAssumption
<1>1. SUFFICES ASSUME NEW k \in JobIds
               PROVE  /\ Status(k)' = "pending" =>
                            \/ stage'[k] \in {"waiting", "started"}
                            \/ "manager" \in Faults /\ stage'[k] = "new"
                      /\ Status(k)' = "running" =>
                            \/ saving'[k] \in {"saving", "saved"}
                            \/ /\ saving'[k] = "raised"
                               /\ "save" \in Faults \/ stage'[k] = "broken"
  BY DEF UnfinishedIsOwed, Status, StatusIn
<1>2. /\ Status(k) = "pending" =>
            \/ stage[k] \in {"waiting", "started"}
            \/ "manager" \in Faults /\ stage[k] = "new"
      /\ Status(k) = "running" =>
            \/ saving[k] \in {"saving", "saved"}
            \/ /\ saving[k] = "raised"
               /\ "save" \in Faults \/ stage[k] = "broken"
  BY DEF UnfinishedIsOwed, Status, StatusIn
<1>3. /\ saving[k] # "no" => stage[k] \in Outcomes
      /\ saving[k] \in {"saving", "saved"} => stage[k] \in Outcomes
  BY DEF AudioInv, SavingIsPrivate, UnfinishedIsPrivate
<1>4. CASE Kept(k)
  <2>1. stage[k] = "waiting" => saving[k] = "no"
    BY <1>0, <1>3
  <2> QED
    BY <1>2, <1>4, <2>1 DEF Kept
<1>5. CASE Created(k)
  BY <1>5 DEF Created
<1>6. CASE Ended(k)
  <2>1. saving[k] = "no"
    BY <1>0, <1>3, <1>6 DEF Ended
  <2> QED
    BY <1>6, <2>1 DEF Ended
<1>7. CASE Finished(k)
  BY <1>7 DEF Finished
<1>8. CASE Evicted(k)
  BY <1>8 DEF Evicted
<1>9. CASE Emptied(k)
  BY <1>2, <1>9 DEF Emptied
<1> QED
  BY <1>4, <1>5, <1>6, <1>7, <1>8, <1>9, JobMoves DEF Moves

\* A job that pollers see pending or running is owed an ending by the queue or
\* by its callback, whatever was refused, evicted or downloaded in between.  It
\* has been forgotten only where the manager process failed behind create(), or
\* the save behind mark_running().
THEOREM UnfinishedIsOwedHolds == Spec => []UnfinishedIsOwed
<1>1. Init => ServerInv /\ UnfinishedIsOwed
  <2>1. Init => UnfinishedIsOwed
    BY DEF Init, JobStoreInit, UnfinishedIsOwed, HasJob
  <2> QED
    BY <2>1, ServerInvariant
<1>2. ServerInv /\ UnfinishedIsOwed /\ [Next]_vars => ServerInv' /\ UnfinishedIsOwed'
  BY ServerInvariant, OwedInductive DEF ServerInv
<1> QED
  BY <1>1, <1>2, PTL DEF Spec

(* What is finished can be evicted. *)

\* The cleanup goes by finished_at: a finished record without it would stay.
StampedIn(store) ==
    \A id \in JobIds :
        HasJob(store, id) /\ store[id].status \in Terminal => store[id].finished_at # "none"

FinishedIsStamped == StampedIn(jobs)

\* Whatever method finishes a job, or touches a finished one, leaves it stamped.
LEMMA StoreStamps ==
    ASSUME NEW store \in [JobIds -> Job \cup {NoJob}], StampedIn(store), NEW id, NEW ids
    PROVE  /\ StampedIn(CreateJobs(store, ids))
           /\ StampedIn(MarkRunning(store, id))
           /\ StampedIn(MarkDone(store, id))
           /\ StampedIn(MarkFailed(store, ids))
           /\ StampedIn(ClearAudioPath(store, id))
<1>1. StampedIn(CreateJobs(store, ids))
  BY DEF StampedIn, CreateJobs, NewJob, HasJob, Terminal
<1>2. ASSUME NEW k \in JobIds, HasJob(store, k)
      PROVE  /\ [store[k] EXCEPT !.status = "running"].status \notin Terminal
             /\ [store[k] EXCEPT !.status = "done", !.finished_at = "recent",
                                 !.audio_path = TRUE].finished_at = "recent"
             /\ [store[k] EXCEPT !.status = "failed",
                                 !.finished_at = "recent"].finished_at = "recent"
             /\ [store[k] EXCEPT !.audio_path = FALSE].status \in Terminal
                  => [store[k] EXCEPT !.audio_path = FALSE].finished_at # "none"
  <2>1. store[k] \in Job
    BY <1>2 DEF HasJob
  <2> QED
    BY <1>2, <2>1 DEF StampedIn, Terminal, Job
<1>3. StampedIn(MarkRunning(store, id))
  BY <1>2 DEF StampedIn, MarkRunning, Mark, HasJob
<1>4. StampedIn(MarkDone(store, id))
  BY <1>2 DEF StampedIn, MarkDone, Mark, HasJob
<1>5. StampedIn(MarkFailed(store, ids))
  BY <1>2 DEF StampedIn, MarkFailed, Mark, HasJob
<1>6. StampedIn(ClearAudioPath(store, id))
  BY <1>2 DEF StampedIn, ClearAudioPath, Mark, HasJob
<1> QED
  BY <1>1, <1>3, <1>4, <1>5, <1>6

\* Every step goes through these methods, or leaves the records to time.
LEMMA StampsInductive ==
    ASSUME TypeOK, FinishedIsStamped, [Next]_vars
    PROVE  FinishedIsStamped'
<1>0. jobs \in [JobIds -> Job \cup {NoJob}] /\ StampedIn(jobs)
  BY DEF TypeOK, FinishedIsStamped
<1>1. SUFFICES StampedIn(jobs')
  BY DEF FinishedIsStamped, StampedIn, HasJob
<1>2. ASSUME NEW ids PROVE StampedIn(CreateJobs(jobs, ids))
                           /\ StampedIn(MarkFailed(CreateJobs(jobs, ids), ids))
  <2>1. CreateJobs(jobs, ids) \in [JobIds -> Job \cup {NoJob}]
    BY <1>0, StoreTypes
  <2> QED
    BY <1>0, <2>1, StoreStamps
<1>3. ASSUME NEW id \in JobIds, SubmitTts(id) \/ SubmitTtsRaises(id) PROVE StampedIn(jobs')
  BY <1>2, <1>3 DEF SubmitTts, SubmitTtsRaises
<1>4. ASSUME NEW b \in Batches, SubmitBatch(b) PROVE StampedIn(jobs')
  BY <1>2, <1>4 DEF SubmitBatch, BatchAccepted, BatchRefused, BatchRaises
<1>5. ASSUME NEW r \in Submitters, Complete(r) PROVE StampedIn(jobs')
  <2>1. /\ MarkRunning(jobs, r) \in [JobIds -> Job \cup {NoJob}]
        /\ StampedIn(MarkRunning(jobs, r))
    BY <1>0, StoreTypes, StoreStamps
  <2>2. StampedIn(MarkFailed(MarkRunning(jobs, r), {r}))
    BY <2>1, StoreStamps
  <2> QED
    BY <1>0, <1>5, <2>1, <2>2
       DEF Complete, CompleteFailed, CompleteGood, CompleteSync, storeVars
<1>6. ASSUME NEW id \in JobIds, Save(id) PROVE StampedIn(jobs')
  <2>1. StampedIn(MarkDone(jobs, id))
    BY <1>0, StoreStamps
  <2> QED
    BY <1>0, <1>6, <2>1 DEF Save, SaveAudio, SaveAudioRaises, AudioSaved
<1>7. ASSUME NEW id \in JobIds, Ttl(id) PROVE StampedIn(jobs')
  <2>1. jobs' = [jobs EXCEPT ![id].finished_at = "expired"] /\ HasJob(jobs, id)
    BY <1>7 DEF Ttl, TtlPasses
  <2>2. jobs[id] \in Job
    BY <1>0, <2>1 DEF HasJob
  <2>3. jobs'[id].finished_at = "expired"
    BY <1>0, <2>1, <2>2 DEF Job
  <2>4. \A k \in JobIds : k # id => jobs'[k] = jobs[k]
    BY <1>0, <2>1
  <2> QED
    BY <1>0, <2>3, <2>4 DEF StampedIn, HasJob
<1>8. CASE Cleanup
  BY <1>0, <1>8 DEF Cleanup, EvictExpired, StampedIn, HasJob
<1>9. ASSUME NEW d \in Downloads, DeleteAfterSend(d) PROVE StampedIn(jobs')
  BY <1>0, <1>9, StoreStamps DEF DeleteAfterSend
<1>10. CASE UNCHANGED jobs
  BY <1>0, <1>10
<1> QED
  BY <1>3, <1>4, <1>5, <1>6, <1>7, <1>8, <1>9, <1>10
     DEF Next, SubmitSync, Start, Serve, OpenAudio, GetAudio, ReplySync, vars, storeVars

\* A finished job can be evicted once its TTL is over, whatever finished it: no
\* batch, fault or second run after a refusal takes its finished_at.
THEOREM FinishedCanBeEvicted == Spec => []FinishedIsStamped
<1>1. Init => FinishedIsStamped
  BY DEF Init, JobStoreInit, FinishedIsStamped, StampedIn, HasJob
<1>2. TypeOK /\ FinishedIsStamped /\ [Next]_vars => FinishedIsStamped'
  BY StampsInductive
<1> QED
  BY <1>1, <1>2, ServerTypeCorrect, PTL DEF Spec

\* A file that is new on disk is one the callback has just saved, if no save
\* fails half-way.
LEMMA FilesGrow ==
    ASSUME TypeOK, "save" \notin Faults, [Next]_vars, NEW k \in files', k \notin files
    PROVE  saving'[k] = "saved"
<1>0. saving \in [JobIds -> {"no", "saving", "saved", "raised"}]
  BY DEF TypeOK
<1>1. ASSUME NEW id \in JobIds, Save(id) PROVE saving'[k] = "saved"
  BY <1>0, <1>1 DEF Save, SaveAudio, SaveAudioRaises, AudioSaved, storeVars
<1>2. CASE files' \subseteq files
  BY <1>2
<1>3. CASE Cleanup
  BY <1>3 DEF Cleanup, EvictExpired, Removed
<1>4. ASSUME NEW d \in Downloads, DeleteAfterSend(d) PROVE FALSE
  BY <1>4 DEF DeleteAfterSend, Removed
<1>5. ASSUME NEW b \in Batches, SubmitBatch(b) PROVE FALSE
  BY <1>5 DEF SubmitBatch
<1>6. ASSUME NEW r \in Submitters, Complete(r) PROVE FALSE
  BY <1>6 DEF Complete, CompleteFailed, CompleteGood, CompleteSync, storeVars
<1> QED
  BY <1>1, <1>2, <1>3, <1>4, <1>5, <1>6
     DEF Next, SubmitTts, SubmitTtsRaises, SubmitSync, Start, Ttl, TtlPasses, Serve,
         OpenAudio, GetAudio, ReplySync, vars, storeVars

\* A file whose path goes is deleted, if files can be deleted.
LEMMA FilesGo ==
    ASSUME TypeOK, "remove" \notin Faults, NEW k \in files,
           \/ Evicted(k) /\ Held(k)
           \/ Emptied(k)
    PROVE  k \notin files'
<1>1. CASE Evicted(k) /\ Held(k)
  <2> DEFINE victims == {id \in Evictable \cap files : jobs[id].audio_path}
  <2>1. k \in victims
    BY <1>1 DEF Evicted, Held, HeldIn
  <2>2. \E kept \in SUBSET files : Removed(kept, victims)
    BY <1>1 DEF Evicted, Cleanup, EvictExpired
  <2> HIDE DEF victims
  <2> QED
    BY <2>1, <2>2 DEF Removed
<1>2. CASE Emptied(k)
  <2>1. PICK d \in Downloads : DeleteAfterSend(d) /\ download[d].job = k
    BY <1>2 DEF Emptied
  <2>2. PICK kept \in SUBSET files : Removed(kept, {k} \cap files)
    BY <2>1 DEF DeleteAfterSend
  <2> QED
    BY <2>2 DEF Removed
<1> QED
  BY <1>1, <1>2

\* NoOrphanFile, but for the items of refused batches.
FilesHaveOwners ==
    \A id \in files :
        \/ saving[id] = "saved"
        \/ Status(id) = "done" /\ Held(id)
        \/ RefusedJob(id)

\* The path goes only with the file, and not while the callback is at work.
LEMMA OwnersInductive ==
    ASSUME Faults \cap {"save", "remove"} = {},
           ServerInv, StatusInv, FilesHaveOwners, [Next]_vars
    PROVE  FilesHaveOwners'
<1>0. TypeOK /\ QueueBounded /\ QueueInv /\ AudioInv /\ ServerInv'
  BY ServerInvariant DEF ServerInv
<1>1. SUFFICES ASSUME NEW k \in files', ~RefusedJob(k)'
               PROVE  saving'[k] = "saved" \/ (Status(k)' = "done" /\ Held(k)')
  BY DEF FilesHaveOwners
<1>2. k \in JobIds
  BY <1>0 DEF ServerInv, TypeOK
<1>3. CASE k \notin files
  BY <1>0, <1>3, FilesGrow
<1>4. CASE k \in files
  <2>0. ~RefusedJob(k)
    BY <1>0, <1>1, RefusedStays
  <2>1. saving[k] = "saved" \/ (Status(k) = "done" /\ Held(k))
    BY <1>4, <2>0 DEF FilesHaveOwners
  <2>2. /\ stage[k] \in Outcomes
        /\ saving[k] = "saved" => Status(k) = "running"
        /\ Held(k) => saving[k] \notin {"saving", "saved"}
    BY <1>0, <1>2, <2>0, <2>1
       DEF AudioInv, UnfinishedIsPrivate, SavingIsPrivate, StatusInv, StatusFollowsStage
  <2>3. ~Created(k) /\ ~Ended(k)
    <3>1. stage[k] \notin {"new", "started"}
      BY <2>2, TtsServerAssumption
    <3> QED
      BY <3>1 DEF Created, Ended
  <2>4. CASE Kept(k)
    BY <2>1, <2>4 DEF Kept
  <2>5. CASE Finished(k)
    BY <2>2, <2>5 DEF Finished
  <2>6. CASE Evicted(k)
    <3>1. ~Held(k)
      BY <1>0, <1>4, <2>6, FilesGo
    <3> QED
      BY <2>1, <2>2, <2>6, <3>1 DEF Evicted, Terminal
  <2>7. CASE Emptied(k)
    BY <1>0, <1>4, <2>7, FilesGo
  <2> QED
    BY <1>0, <1>2, <2>3, <2>4, <2>5, <2>6, <2>7, JobMoves DEF Moves
<1> QED
  BY <1>3, <1>4

\* As long as files can be written and deleted, every file is somebody's to
\* delete, through any number of jobs, batches and downloads.  Only the audio of
\* an item that ran although its batch was refused can be nobody's.
THEOREM OnlyRefusedFilesAreOrphans ==
    ASSUME Faults \cap {"save", "remove"} = {}
    PROVE  Spec => []FilesHaveOwners
<1>1. Init => ServerInv /\ StatusInv /\ FilesHaveOwners
  <2>1. Init => FilesHaveOwners
    BY DEF Init, JobStoreInit, FilesHaveOwners
  <2> QED
    BY <2>1, ServerInvariant, StatusStarts
<1>2. ServerInv /\ StatusInv /\ FilesHaveOwners /\ [Next]_vars
        => ServerInv' /\ StatusInv' /\ FilesHaveOwners'
  BY ServerInvariant, StatusInductive, OwnersInductive DEF ServerInv
<1> QED
  BY <1>1, <1>2, PTL DEF Spec

\* So no file is, where batches are not posted or the queue has no limit.
THEOREM EveryFileHasAnOwner ==
    ASSUME Capacity = 0 \/ Batches = {}, Faults \cap {"save", "remove"} = {}
    PROVE  Spec => []NoOrphanFile
<1>1. StatusInvariant /\ FilesHaveOwners => NoOrphanFile
  <2>1. Capacity = 0 => ~(Capacity > 0)
    BY TtsServerAssumption
  <2>2. StatusInvariant => \A k : ~RefusedJob(k)
    BY <2>1 DEF StatusInvariant, StatusInv, RefusedByLimit, RefusedJob
  <2> QED
    BY <2>2 DEF FilesHaveOwners, NoOrphanFile, Status, StatusIn, Held, HeldIn
<1> QED
  BY <1>1, OnlyRefusedFilesAreOrphans, StatusInvariantHolds, PTL

-----------------------------------------------------------------------------
(* A served file is gone for later downloads, whatever else happens. *)

Served(id) == \E d \in Downloads : download[d].job = id /\ download[d].at = "200"

\* A download that passed the check, or is over, is of a job that stays done.
TakenIsDone ==
    \A k \in JobIds :
        /\ Asked(k) \/ Served(k) =>
              /\ stage[k] \in Outcomes
              /\ saving[k] \notin {"saving", "saved"}
              /\ Status(k) \in {"done", "gone"}
        /\ Served(k) => ~Held(k)

\* What get_audio() goes by.
LEMMA RepliesByRecord ==
    ASSUME TypeOK, NEW k \in JobIds
    PROVE  /\ AudioReply(k) = "opening" => Status(k) = "done" /\ Held(k)
           /\ Status(k) \in {"done", "gone"} /\ ~Held(k) => AudioReply(k) \in {"404", "410"}
           /\ AudioReply(k) \notin {"sending", "200"}
<1>1. CASE ~HasJob(jobs, k)
  BY <1>1 DEF AudioReply, Status, StatusIn
<1>2. CASE HasJob(jobs, k)
  <2>1. jobs[k] \in Job
    BY <1>2 DEF TypeOK, HasJob
  <2>2. jobs[k].status \in {"pending", "running", "done", "failed"}
    BY <2>1 DEF Job, JobStatus
  <2>3. Status(k) = jobs[k].status /\ (Held(k) <=> jobs[k].audio_path)
    BY <1>2 DEF Status, StatusIn, Held, HeldIn
  <2>4. CASE jobs[k].status = "failed"
    BY <1>2, <2>3, <2>4 DEF AudioReply
  <2>5. CASE jobs[k].status \in {"pending", "running"}
    BY <1>2, <2>3, <2>5 DEF AudioReply
  <2>6. CASE jobs[k].status = "done" /\ ~jobs[k].audio_path
    BY <1>2, <2>3, <2>6 DEF AudioReply
  <2>7. CASE jobs[k].status = "done" /\ jobs[k].audio_path
    BY <1>2, <2>3, <2>7 DEF AudioReply
  <2> QED
    BY <2>2, <2>4, <2>5, <2>6, <2>7
<1> QED
  BY <1>1, <1>2

\* Who downloads: a step asks for one job, or takes one download further.
LEMMA DownloadMoves ==
    ASSUME TypeOK, [Next]_vars, NEW d \in Downloads, download'[d] # download[d]
    PROVE  \/ \E id \in JobIds : /\ download[d].at = "start"
                                 /\ download'[d] = [job |-> id, at |-> AudioReply(id)]
                                 /\ UNCHANGED <<jobs, stage, saving>>
           \/ /\ download[d].at = "opening" /\ download'[d].at \in {"sending", "500"}
              /\ download'[d].job = download[d].job
              /\ UNCHANGED <<jobs, stage, saving>>
           \/ /\ download[d].at = "sending" /\ download'[d].at = "200"
              /\ download'[d].job = download[d].job
              /\ jobs' = ClearAudioPath(jobs, download[d].job)
<1>0. download \in [Downloads ->
         [job : JobIds \cup {NoJob},
          at  : {"start", "opening", "sending", "200", "404", "409", "410", "500"}]]
  BY DEF TypeOK
<1>1. ASSUME NEW e \in Downloads, NEW id \in JobIds, GetAudio(e, id)
      PROVE  /\ e = d /\ download[d].at = "start"
             /\ download'[d] = [job |-> id, at |-> AudioReply(id)]
             /\ UNCHANGED <<jobs, stage, saving>>
  BY <1>0, <1>1 DEF GetAudio, storeVars, requestQueueVars
<1>2. ASSUME NEW e \in Downloads, OpenAudio(e)
      PROVE  /\ download[d].at = "opening" /\ download'[d].at \in {"sending", "500"}
             /\ download'[d].job = download[d].job
             /\ UNCHANGED <<jobs, stage, saving>>
  BY <1>0, <1>2 DEF OpenAudio, storeVars, requestQueueVars
<1>3. ASSUME NEW e \in Downloads, DeleteAfterSend(e)
      PROVE  /\ download[d].at = "sending" /\ download'[d].at = "200"
             /\ download'[d].job = download[d].job
             /\ jobs' = ClearAudioPath(jobs, download[d].job)
  BY <1>0, <1>3 DEF DeleteAfterSend
<1>4. CASE UNCHANGED download
  BY <1>4
<1>5. ASSUME NEW b \in Batches, SubmitBatch(b) PROVE FALSE
  BY <1>5 DEF SubmitBatch
<1>6. ASSUME NEW r \in Submitters, Complete(r) PROVE FALSE
  BY <1>6 DEF Complete, CompleteFailed, CompleteGood, CompleteSync, serverVars
<1> QED
  BY <1>1, <1>2, <1>3, <1>4, <1>5, <1>6
     DEF Next, SubmitTts, SubmitTtsRaises, SubmitSync, Start, Save, SaveAudio,
         SaveAudioRaises, AudioSaved, Ttl, Cleanup, Serve, ReplySync, vars, serverVars

\* No callback, batch or cleanup makes a served job available again.
LEMMA TakenInductive ==
    ASSUME ServerInv, TakenIsDone, [Next]_vars
    PROVE  TakenIsDone'
<1>0. TypeOK /\ QueueBounded /\ QueueInv /\ AudioInv
  BY DEF ServerInv
<1>1. SUFFICES ASSUME NEW k \in JobIds
               PROVE  /\ Asked(k)' \/ Served(k)' =>
                            /\ stage'[k] \in Outcomes
                            /\ saving'[k] \notin {"saving", "saved"}
                            /\ Status(k)' \in {"done", "gone"}
                      /\ Served(k)' => ~Held(k)'
  BY DEF TakenIsDone
<1>2. ASSUME Asked(k) \/ Served(k)
      PROVE  /\ stage'[k] \in Outcomes
             /\ saving'[k] \notin {"saving", "saved"}
             /\ Status(k)' \in {"done", "gone"}
             /\ Held(k)' => Held(k)
  <2>1. /\ stage[k] \in Outcomes /\ saving[k] \notin {"saving", "saved"}
        /\ Status(k) \in {"done", "gone"}
    BY <1>2 DEF TakenIsDone
  <2>2. stage[k] \notin {"new", "waiting", "started"}
    BY <2>1, TtsServerAssumption
  <2>3. Kept(k) \/ Evicted(k) \/ Emptied(k)
    BY <1>0, <2>1, <2>2, JobMoves DEF Moves, Created, Ended, Finished
  <2>4. Status(k)' = "gone" => ~Held(k)'
    <3>1. \A id \in JobIds : TypeOK' => (HasJob(jobs, id)' => Status(id)' # "gone")
      BY DEF Status, StatusIn, HasJob, TypeOK, Job, JobStatus
    <3> QED
      BY <1>0, <3>1, ServerInvariant DEF ServerInv, Held, HeldIn
  <2> QED
    BY <2>1, <2>2, <2>3, <2>4 DEF Kept, Evicted, Emptied
<1>3. ASSUME NEW d \in Downloads, download'[d].job = k,
             download'[d].at \in {"opening", "sending"}
      PROVE  \/ Asked(k)
             \/ Status(k) = "done" /\ Held(k) /\ UNCHANGED <<jobs, stage, saving>>
  <2>1. CASE download'[d] = download[d]
    BY <1>3, <2>1 DEF Asked
  <2>2. CASE download'[d] # download[d]
    <3>1. CASE download[d].at = "opening" /\ download'[d].job = download[d].job
      BY <1>3, <3>1 DEF Asked
    <3>2. ASSUME NEW id \in JobIds, download'[d] = [job |-> id, at |-> AudioReply(id)],
                 UNCHANGED <<jobs, stage, saving>>
          PROVE  Status(k) = "done" /\ Held(k) /\ UNCHANGED <<jobs, stage, saving>>
      <4>1. id = k /\ AudioReply(k) \in {"opening", "sending"}
        BY <1>3, <3>2
      <4> QED
        BY <1>0, <3>2, <4>1, RepliesByRecord
    <3> QED
      BY <1>0, <1>3, <2>2, <3>1, <3>2, DownloadMoves
  <2> QED
    BY <2>1, <2>2
<1>4. ASSUME NEW d \in Downloads, download'[d].job = k, download'[d].at = "200"
      PROVE  Served(k) \/ (Asked(k) /\ jobs' = ClearAudioPath(jobs, k))
  <2>1. CASE download'[d] = download[d]
    BY <1>4, <2>1 DEF Served
  <2>2. CASE download'[d] # download[d]
    <3>1. ASSUME NEW id \in JobIds, download'[d] = [job |-> id, at |-> AudioReply(id)]
          PROVE  FALSE
      <4>1. AudioReply(id) = "200"
        BY <1>4, <3>1
      <4> QED
        BY <1>0, <4>1, RepliesByRecord
    <3>2. CASE /\ download[d].at = "sending" /\ download'[d].job = download[d].job
               /\ jobs' = ClearAudioPath(jobs, download[d].job)
      BY <1>4, <3>2 DEF Asked
    <3> QED
      BY <1>0, <1>4, <2>2, <3>1, <3>2, DownloadMoves
  <2> QED
    BY <2>1, <2>2
<1>5. ASSUME Asked(k)' \/ Served(k)'
      PROVE  /\ stage'[k] \in Outcomes
             /\ saving'[k] \notin {"saving", "saved"}
             /\ Status(k)' \in {"done", "gone"}
  <2>1. \/ Asked(k) \/ Served(k)
        \/ Status(k) = "done" /\ Held(k) /\ UNCHANGED <<jobs, stage, saving>>
    <3>1. CASE Asked(k)'
      <4>1. PICK d \in Downloads :
              download'[d].job = k /\ download'[d].at \in {"opening", "sending"}
        BY <3>1 DEF Asked
      <4> QED
        BY <1>3, <4>1
    <3>2. CASE Served(k)'
      <4>1. PICK d \in Downloads : download'[d].job = k /\ download'[d].at = "200"
        BY <3>2 DEF Served
      <4> QED
        BY <1>4, <4>1
    <3> QED
      BY <1>5, <3>1, <3>2
  <2>2. ASSUME Status(k) = "done", Held(k), UNCHANGED <<jobs, stage, saving>>
        PROVE  /\ stage'[k] \in Outcomes
               /\ saving'[k] \notin {"saving", "saved"}
               /\ Status(k)' \in {"done", "gone"}
    BY <1>0, <2>2 DEF AudioInv, UnfinishedIsPrivate, SavingIsPrivate, Status
  <2> QED
    BY <1>2, <2>1, <2>2
<1>6. ASSUME Served(k)' PROVE ~Held(k)'
  <2>1. Served(k) \/ (Asked(k) /\ jobs' = ClearAudioPath(jobs, k))
    BY <1>4, <1>6 DEF Served
  <2>2. CASE Served(k)
    BY <1>2, <2>2 DEF TakenIsDone
  <2>3. CASE jobs' = ClearAudioPath(jobs, k)
    <3>1. jobs \in [JobIds -> Job \cup {NoJob}]
      BY <1>0 DEF TypeOK
    <3> QED
      BY <2>3, <3>1, StorePaths DEF Held
  <2> QED
    BY <2>1, <2>2, <2>3
<1> QED
  BY <1>2, <1>5, <1>6

\* "second download returns 410", or 404 when the record has gone: for every
\* set of jobs, batches and downloads, and with every fault.
THEOREM LaterDownloadRefusedHolds == Spec => LaterDownloadRefused
<1> DEFINE Refused ==
             \A d, e \in Downloads :
               download[e].at = "200" /\ download[d].at = "start"
                 /\ download'[d].job = download[e].job
                   => download'[d].at \in {"start", "410", "404"}
<1>1. ServerInv /\ TakenIsDone /\ [Next]_vars => Refused
  <2> SUFFICES ASSUME ServerInv, TakenIsDone, [Next]_vars,
                      NEW d \in Downloads, NEW e \in Downloads,
                      download[e].at = "200", download[d].at = "start",
                      download'[d].job = download[e].job
               PROVE  download'[d].at \in {"start", "410", "404"}
    OBVIOUS
  <2>1. CASE download'[d] = download[d]
    BY <2>1
  <2>2. CASE download'[d] # download[d]
    <3>1. PICK id \in JobIds : download'[d] = [job |-> id, at |-> AudioReply(id)]
      BY <2>2, DownloadMoves DEF ServerInv
    <3>2. Served(id)
      BY <3>1 DEF Served
    <3>3. Status(id) \in {"done", "gone"} /\ ~Held(id)
      BY <3>2 DEF TakenIsDone
    <3>4. AudioReply(id) \in {"404", "410"}
      BY <3>3, RepliesByRecord DEF ServerInv
    <3> QED
      BY <3>1, <3>4
  <2> QED
    BY <2>1, <2>2
<1>2. ServerInv /\ TakenIsDone /\ [Next]_vars => ServerInv' /\ TakenIsDone'
  BY ServerInvariant, TakenInductive
<1>3. Init => ServerInv /\ TakenIsDone
  <2>1. Init => \A k \in JobIds : ~Asked(k) /\ ~Served(k)
    BY DEF Init, Asked, Served
  <2> QED
    BY <2>1, ServerInvariant DEF TakenIsDone
<1> QED
  BY <1>1, <1>2, <1>3, PTL DEF Spec, LaterDownloadRefused
=============================================================================
