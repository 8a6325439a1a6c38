------------------------------ MODULE TtsServer ------------------------------
(***************************************************************************)
(* The HTTP side of the server: the endpoints that create jobs             *)
(* (routers/tts.py, routers/batch.py), the synchronous /audio endpoints,   *)
(* the on_complete callbacks, the download of the audio, and the job store.*)
(* Workers, dispatcher and drain loop are the RequestQueue they implement. *)
(*                                                                         *)
(* An endpoint runs from its first store access to the end of submit_job() *)
(* without suspending: POST /v1/tts is one step, and so is a whole batch.  *)
(***************************************************************************)
EXTENDS JobStore, RequestQueue, SequencesExt

CONSTANTS
    Singles,        \* jobs of POST /v1/tts
    Batches,        \* the batches clients post, each a sequence of job ids
    Syncs,          \* requests of POST /audio/speech and /audio/speech-file
    Downloads       \* requests of GET /v1/tts/{job_id}/audio

BatchJobs == UNION {Range(b) : b \in Batches}

ASSUME TtsServerAssumption ==
    /\ JobIds = Singles \cup BatchJobs
    /\ Submitters = JobIds \cup Syncs
    /\ JobIds \cap Syncs = {} /\ Singles \cap BatchJobs = {}
    /\ \A b \in Batches : b \in Seq(JobIds) /\ b # <<>> /\ IsInjective(b)
    /\ \A b, c \in Batches : b # c => Range(b) \cap Range(c) = {}
    /\ Capacity \in Nat
    /\ Outcomes \subseteq {"ok", "error", "timeout", "broken"}

VARIABLES
    saving,         \* saving[id]: on_complete between its two suspensions
    batch_reply,    \* batch_reply[b]: the status of the response to batch b
    sync_reply,     \* sync_reply[r]: the response to the /audio request r
    download        \* download[d]: the job d asks for and how far it got

serverVars == <<saving, batch_reply, sync_reply, download>>
vars == <<storeVars, requestQueueVars, serverVars>>

Init ==
    /\ JobStoreInit
    /\ RequestQueueInit
    /\ saving = [id \in JobIds |-> "no"]
    /\ batch_reply = [b \in Batches |-> "none"]
    /\ sync_reply = [r \in Syncs |-> "none"]
    /\ download = [d \in Downloads |-> [job |-> NoJob, at |-> "start"]]

-----------------------------------------------------------------------------
(* Submission *)

\* Slip: the 503 is sent and the job left as it was created.
SubmitTtsGhost(id) ==
    /\ id \in Singles /\ ~HasJob(jobs, id)
    /\ AcceptRequest(id) \/ RefuseRequest(id)
    /\ jobs' = CreateJobs(jobs, {id})
    /\ UNCHANGED <<files, serverVars>>

\* submit_tts(): the job is created, then enqueued, or failed with a 503.
SubmitTts(id) ==
    /\ id \in Singles /\ ~HasJob(jobs, id)
    /\ \/ AcceptRequest(id) /\ jobs' = CreateJobs(jobs, {id})
       \/ RefuseRequest(id) /\ jobs' = MarkFailed(CreateJobs(jobs, {id}), {id})
    /\ UNCHANGED <<files, serverVars>>

\* make_queue() raises between the two: the client gets a 500.
SubmitTtsRaises(id) ==
    /\ "manager" \in Faults
    /\ id \in Singles /\ ~HasJob(jobs, id) /\ stage[id] = "new"
    /\ jobs' = CreateJobs(jobs, {id})
    /\ UNCHANGED <<files, requestQueueVars, serverVars>>

\* _run_synthesis(): the same, with a future instead of a job record.
SubmitSync(r) ==
    /\ r \in Syncs /\ sync_reply[r] = "none"
    /\ \/ AcceptRequest(r) /\ UNCHANGED sync_reply
       \/ RefuseRequest(r) /\ sync_reply' = [sync_reply EXCEPT ![r] = "503"]
       \/ /\ "manager" \in Faults /\ stage[r] = "new"
          /\ sync_reply' = [sync_reply EXCEPT ![r] = "500"]
          /\ UNCHANGED requestQueueVars
    /\ UNCHANGED <<storeVars, saving, batch_reply, download>>

\* How many more requests fit into a queue with a limit.
Room == Capacity - Len(waiting)

Fits(items) == Capacity = 0 \/ Len(items) <= Room

\* submit_batch(): item after item, in one step of the event loop.
BatchAccepted(b) ==
    /\ Fits(b)
    /\ jobs' = CreateJobs(jobs, Range(b))
    /\ waiting' = waiting \o b
    /\ stage' = [r \in Submitters |-> IF r \in Range(b) THEN "waiting" ELSE stage[r]]
    /\ batch_reply' = [batch_reply EXCEPT ![b] = "202"]

\* The queue fills up at item Room + 1: every job created so far is marked
\* failed, the items already in the queue stay there, the rest is dropped.
BatchRefused(b) ==
    LET queued == SubSeq(b, 1, Room)
        made   == SubSeq(b, 1, Room + 1)
    IN  /\ ~Fits(b)
        /\ jobs' = MarkFailed(CreateJobs(jobs, Range(made)), Range(made))
        /\ waiting' = waiting \o queued
        /\ stage' = [r \in Submitters |->
                       CASE r \in Range(queued) -> "waiting"
                         [] r = Last(made) -> "refused"
                         [] OTHER -> stage[r]]
        /\ batch_reply' = [batch_reply EXCEPT ![b] = "503"]

\* Slip: the jobs created so far are marked failed, as for a full queue.
BatchRaisesAndFails(b) ==
    /\ "manager" \in Faults
    /\ \E k \in DOMAIN b :
         LET queued == SubSeq(b, 1, k - 1)
             made   == Range(queued) \cup {b[k]} IN
         /\ Fits(queued)
         /\ jobs' = MarkFailed(CreateJobs(jobs, made), made)
         /\ waiting' = waiting \o queued
         /\ stage' = [r \in Submitters |->
                        IF r \in Range(queued) THEN "waiting" ELSE stage[r]]
    /\ batch_reply' = [batch_reply EXCEPT ![b] = "500"]

\* make_queue() raises for item k: it is created, and nobody fails the others.
BatchRaises(b) ==
    /\ "manager" \in Faults
    /\ \E k \in DOMAIN b :
         LET queued == SubSeq(b, 1, k - 1) IN
         /\ Fits(queued)
         /\ jobs' = CreateJobs(jobs, Range(queued) \cup {b[k]})
         /\ waiting' = waiting \o queued
         /\ stage' = [r \in Submitters |->
                        IF r \in Range(queued) THEN "waiting" ELSE stage[r]]
    /\ batch_reply' = [batch_reply EXCEPT ![b] = "500"]

SubmitBatch(b) ==
    /\ batch_reply[b] = "none"
    /\ BatchAccepted(b) \/ BatchRefused(b) \/ BatchRaises(b)
    /\ UNCHANGED <<files, saving, sync_reply, download>>

(* Completion: the collector of a request calls its on_complete *)

\* What the callback sees of a result: result.error is falsy for a good one,
\* and also when the exception that broke the get() has an empty message.
LooksGood(outcome) == outcome \in {"ok", "broken"}
LooksBad(outcome) == outcome # "ok"

\* Slip: a bad result is only logged.
CompleteUnmarked(id, outcome) ==
    /\ id \in JobIds
    /\ LooksBad(outcome)
    /\ FinishRequest(id, outcome)
    /\ jobs' = MarkRunning(jobs, id)
    /\ UNCHANGED <<files, serverVars>>

\* mark_running(), and mark_failed() in the same breath.
CompleteFailed(id, outcome) ==
    /\ id \in JobIds
    /\ LooksBad(outcome)
    /\ FinishRequest(id, outcome)
    /\ jobs' = MarkFailed(MarkRunning(jobs, id), {id})
    /\ UNCHANGED <<files, serverVars>>

\* Slip: mark_done() before the file is written.
CompleteTooEarly(id, outcome) ==
    /\ id \in JobIds
    /\ LooksGood(outcome)
    /\ FinishRequest(id, outcome)
    /\ jobs' = MarkDone(jobs, id)
    /\ saving' = [saving EXCEPT ![id] = "saving"]
    /\ UNCHANGED <<files, batch_reply, sync_reply, download>>

\* mark_running(), then save_audio() goes to an executor thread.
CompleteGood(id, outcome) ==
    /\ id \in JobIds
    /\ LooksGood(outcome)
    /\ FinishRequest(id, outcome)
    /\ jobs' = MarkRunning(jobs, id)
    /\ saving' = [saving EXCEPT ![id] = "saving"]
    /\ UNCHANGED <<files, batch_reply, sync_reply, download>>

\* save_audio() writes the file.  It has no audio to write in a broken result.
SaveAudio(id) ==
    /\ saving[id] = "saving"
    /\ stage[id] = "ok"
    /\ files' = files \cup {id}
    /\ saving' = [saving EXCEPT ![id] = "saved"]
    /\ UNCHANGED <<jobs, requestQueueVars, batch_reply, sync_reply, download>>

\* save_audio() raises: nobody catches it, the collector task is over.  It
\* encodes first, which a broken result does not survive, and writes in place:
\* when the disk fails it, the file may be there, empty or in part.
SaveAudioRaises(id) ==
    /\ saving[id] = "saving"
    /\ \/ stage[id] = "broken" /\ UNCHANGED files
       \/ "save" \in Faults /\ stage[id] = "ok" /\ files' \in {files, files \cup {id}}
    /\ saving' = [saving EXCEPT ![id] = "raised"]
    /\ UNCHANGED <<jobs, requestQueueVars, batch_reply, sync_reply, download>>

\* The callback resumes after the save.
AudioSaved(id) ==
    /\ saving[id] = "saved"
    /\ jobs' = MarkDone(jobs, id)
    /\ saving' = [saving EXCEPT ![id] = "no"]
    /\ UNCHANGED <<files, requestQueueVars, batch_reply, sync_reply, download>>

\* The future of an /audio request is resolved; its handler encodes the audio
\* and responds, with a 500 for a bad result.
CompleteSync(r, outcome) ==
    /\ r \in Syncs
    /\ FinishRequest(r, outcome)
    /\ UNCHANGED <<storeVars, serverVars>>

\* Slip: the future is resolved for a good result only.
ReplySyncIfGood(r) ==
    /\ stage[r] = "ok"
    /\ sync_reply[r] = "none"
    /\ sync_reply' = [sync_reply EXCEPT ![r] = "200"]
    /\ UNCHANGED <<storeVars, requestQueueVars, saving, batch_reply, download>>

ReplySync(r) ==
    /\ stage[r] \in Outcomes
    /\ sync_reply[r] = "none"
    /\ sync_reply' = [sync_reply EXCEPT ![r] = IF stage[r] = "ok" THEN "200" ELSE "500"]
    /\ UNCHANGED <<storeVars, requestQueueVars, saving, batch_reply, download>>

(* Download *)

\* Slip: no case for a path that was cleared.
AudioReplyNever410(id) ==
    IF ~HasJob(jobs, id) THEN "404"
    ELSE CASE jobs[id].status = "failed"                -> "500"
           [] jobs[id].status \in {"pending", "running"} -> "409"
           [] OTHER -> IF id \in files THEN "opening" ELSE "500"

\* Slip: a job that is not done yet gets the status of an accepted request.
AudioReplyTooEarly(id) ==
    IF ~HasJob(jobs, id) THEN "404"
    ELSE CASE jobs[id].status \in {"pending", "running"} -> "202"
           [] OTHER -> IF id \in files THEN "opening" ELSE "410"

\* What get_audio() answers to a request for this job now.
AudioReply(id) ==
    IF ~HasJob(jobs, id) THEN "404"
    ELSE CASE jobs[id].status = "failed"                -> "500"
           [] jobs[id].status \in {"pending", "running"} -> "409"
           [] jobs[id].status = "done" /\ ~jobs[id].audio_path -> "410"
           [] OTHER -> IF id \in files THEN "opening" ELSE "500"

GetAudio(d, id) ==
    /\ download[d].at = "start"
    /\ download' = [download EXCEPT ![d] = [job |-> id, at |-> AudioReply(id)]]
    /\ UNCHANGED <<storeVars, requestQueueVars, saving, batch_reply, sync_reply>>

\* The FileResponse opens the file when it starts to send, a step later.
OpenAudio(d) ==
    /\ download[d].at = "opening"
    /\ download' = [download EXCEPT ![d].at =
                      IF download[d].job \in files THEN "sending" ELSE "500"]
    /\ UNCHANGED <<storeVars, requestQueueVars, saving, batch_reply, sync_reply>>

\* The body is sent; the background task deletes the file and clears the path.
DeleteAfterSend(d) ==
    LET id == download[d].job IN
    /\ download[d].at = "sending"
    /\ \E kept \in SUBSET files : Removed(kept, {id} \cap files)
    /\ jobs' = ClearAudioPath(jobs, id)
    /\ download' = [download EXCEPT ![d].at = "200"]
    /\ UNCHANGED <<requestQueueVars, saving, batch_reply, sync_reply>>

-----------------------------------------------------------------------------
Start == StartNext /\ UNCHANGED <<storeVars, serverVars>>

Complete(r) ==
    \E outcome \in Outcomes :
        CompleteFailed(r, outcome) \/ CompleteGood(r, outcome) \/ CompleteSync(r, outcome)

Save(id) == SaveAudio(id) \/ SaveAudioRaises(id) \/ AudioSaved(id)

Ttl(id) == TtlPasses(id) /\ UNCHANGED <<requestQueueVars, serverVars>>

Cleanup == EvictExpired /\ UNCHANGED <<requestQueueVars, serverVars>>

Serve(d) == OpenAudio(d) \/ DeleteAfterSend(d)

Next ==
    \/ \E id \in JobIds : SubmitTts(id) \/ SubmitTtsRaises(id) \/ Save(id) \/ Ttl(id)
    \/ \E r \in Syncs : SubmitSync(r) \/ ReplySync(r)
    \/ \E b \in Batches : SubmitBatch(b)
    \/ \E r \in Submitters : Complete(r)
    \/ \E d \in Downloads : Serve(d) \/ \E id \in JobIds : GetAudio(d, id)
    \/ Start
    \/ Cleanup

Spec == Init /\ [][Next]_vars

\* QueueManager shows that what was accepted starts and ends; the event loop
\* and the executor run what can run; time passes.  No client has to act.
Fairness ==
    /\ WF_vars(Start) /\ WF_vars(Cleanup)
    /\ \A r \in Submitters : WF_vars(Complete(r))
    /\ \A r \in Syncs : WF_vars(ReplySync(r))
    /\ \A id \in JobIds : WF_vars(Save(id)) /\ WF_vars(Ttl(id))
    /\ \A d \in Downloads : WF_vars(Serve(d))

FairSpec == Spec /\ Fairness

-----------------------------------------------------------------------------
(* Properties *)

\* Every field has its type.
TypeOK ==
    /\ jobs \in [JobIds -> Job \cup {NoJob}]
    /\ files \subseteq JobIds
    /\ waiting \in Seq(Submitters)
    /\ stage \in [Submitters -> {"new", "waiting", "started", "refused"} \cup Outcomes]
    /\ saving \in [JobIds -> {"no", "saving", "saved", "raised"}]
    /\ batch_reply \in [Batches -> {"none", "202", "500", "503"}]
    /\ sync_reply \in [Syncs -> {"none", "200", "500", "503"}]
    /\ download \in [Downloads ->
          [job : JobIds \cup {NoJob},
           at  : {"start", "opening", "sending", "200", "404", "409", "410", "500"}]]

\* The store accumulates no ghosts: a job that is pending is in the queue or
\* has been taken out of it and is still going to be completed.
NoGhostPending ==
    \A id \in JobIds :
        HasJob(jobs, id) /\ jobs[id].status = "pending"
            => stage[id] \in {"waiting", "started"}

\* A job that its pollers see unfinished is owed an ending: a pending one by the
\* queue, a running one by its callback.  It is left alone for ever only where
\* make_queue() raised behind create(), or the save raised behind mark_running().
UnfinishedIsOwed ==
    \A id \in JobIds :
        HasJob(jobs, id) =>
            /\ jobs[id].status = "pending" =>
                  \/ stage[id] \in {"waiting", "started"}
                  \/ "manager" \in Faults /\ stage[id] = "new"
            /\ jobs[id].status = "running" =>
                  \/ saving[id] \in {"saving", "saved"}
                  \/ /\ saving[id] = "raised"
                     /\ "save" \in Faults \/ stage[id] = "broken"

\* The audio of a job that can be downloaded is on disk.
DoneHasAudio ==
    \A id \in JobIds :
        HasJob(jobs, id) /\ jobs[id].audio_path => id \in files

\* Every file on disk has an owner that will delete it: the record of a
\* finished job, or the callback that has just saved it.
NoOrphanFile ==
    \A id \in files :
        \/ saving[id] = "saved"
        \/ HasJob(jobs, id) /\ jobs[id].status = "done" /\ jobs[id].audio_path

\* The order in which a job goes through its statuses.
StatusRank(status) ==
    CASE status = "pending" -> 0 [] status = "running" -> 1 [] OTHER -> 2

\* id is an item of a batch that was answered with a 503.
RefusedJob(id) == \E b \in Batches : id \in Range(b) /\ batch_reply[b] = "503"

\* What the pollers of a job see only moves forward, and a final answer is
\* final until the record is evicted, whatever is refused, raises or fails around
\* the job: only an item of a refused batch can turn from failed to running.
StatusOnlyForward ==
    [][\A id \in JobIds :
         ~RefusedJob(id) /\ HasJob(jobs, id) /\ HasJob(jobs', id)
           /\ jobs'[id].status # jobs[id].status
             => StatusRank(jobs[id].status) < StatusRank(jobs'[id].status)]_vars

\* "deletes the file immediately after serving; second download returns 410":
\* a download that starts after another one of that job was completed gets
\* no audio, whatever saves, evictions and other downloads come between.
LaterDownloadRefused ==
    [][\A d, e \in Downloads :
         download[e].at = "200" /\ download[d].at = "start"
           /\ download'[d].job = download[e].job
             => download'[d].at \in {"start", "410", "404"}]_vars

\* "Partial success within a batch is explicitly avoided": a batch that was
\* answered with a 503 leaves nothing but failed jobs.
RefusedBatchFails ==
    \A b \in Batches :
        batch_reply[b] = "503" =>
            \A id \in Range(b) : HasJob(jobs, id) => jobs[id].status = "failed"

\* "Clients should poll until status is done or failed": every job gets there
\* or is evicted after it got there.
JobsSettle ==
    \A id \in JobIds :
        HasJob(jobs, id)
            ~> (~HasJob(jobs, id) \/ jobs[id].status \in Terminal)

\* The store does not grow without end: every record is evicted at last.
RecordsAreEvicted == \A id \in JobIds : HasJob(jobs, id) ~> ~HasJob(jobs, id)

\* A client of the synchronous endpoints gets its response.
SyncsAreAnswered ==
    \A r \in Syncs : stage[r] = "waiting" ~> sync_reply[r] # "none"
=============================================================================
