# A TLA+ model of the XTTS-v2 API server

The server turns text into speech. One process runs a FastAPI application on
one asyncio event loop; it spawns one process per model instance ("worker") and
talks to them over multiprocessing queues. Everything a client can wait for goes
through a bounded queue, a *drain loop*, a *dispatcher* that counts who works for
whom, and a *collector* that waits for the answer. Around that are an in-memory
job store with output files on disk, and a speaker store that is cached in memory
and kept on disk. The model is about that control: who holds which slot, what is
waited for, what is on disk, and what is left when something stops half-way. Text,
audio, tensors and logging are abstracted to nothing.

Paths below are relative to `src/`; Python modules without a directory are in
`src/xtts_server/`.

## Inventory

### Dispatcher (`dispatcher.py`)
* **State**: the list of `WorkerHandle`s (id, GPU, OS request queue,
  `active_requests`, `active_jobs`), one `asyncio.Condition`.
* **Operations**: `dispatch()` (choose, count, put into the OS queue in an executor
  thread), `release()` (count down, `notify_all`), `wait_for_free_worker()`,
  `compute_latents()` (dispatch, wait, release, in one), `shutdown()` (a sentinel for
  every worker, `join(15)`, `terminate()`).
* **Interactions**: called by the drain loop, by collectors, WebSocket handlers and
  the clone endpoint; puts into the workers' queues.
* **Hard**: lost wake-ups; slots released twice, never, or on the wrong worker; the
  choice is made by GPU totals while the waiting is by worker; clones take slots
  between the wake-up of the drain loop and its next turn.
* **Correct means**: the counters are exactly the requests in flight; the drain loop
  does not sleep next to a free worker; a queued request lands on a free worker.

### Queue manager (`queue_manager.py`)
* **State**: an `asyncio.Queue` with at most `MAX_QUEUE_SIZE` items, the item the
  drain loop holds, one collector task per dispatched job.
* **Operations**: `submit_job()`, `submit_stream()`, `_drain_loop()`,
  `_collect_result()`, `shutdown()`.
* **Hard**: the result races its timeout; a dead worker never answers; every queued
  request depends on one loop; `shutdown()` cancels that loop with an item in its hands;
  every blocking call takes a thread of one pool.
* **Correct means**: first come first served, at most `MAX_QUEUE_SIZE` waiting, every
  accepted request ends and ends once.

### Workers (`worker.py`)
* **State**: an OS queue, the request under way; nothing survives a worker's death
  and nothing restarts one.
* **Operations**: take, stream a chunk, answer (with audio or with an error), leave at a
  sentinel, die.
* **Hard**: a worker does not know that nobody waits any more.
* **Correct means**: each request is worked on at most once and answered at most once.

### WebSocket streaming (`ws/stream.py`)
* **State**: the future that resolves to the worker, the per-request result queue, what
  has been sent.
* **Hard**: the client leaves while its request waits or the worker produces; timeouts
  between chunks; the `finally` block owes the release on each of these paths, and an
  exception goes through it to the outer handler, which tells the client.
* **Correct means**: the chunks in order, then one final frame, then the close; "done"
  only after every chunk; the slot always comes back.

### Jobs over HTTP (`routers/tts.py`, `routers/batch.py`, `job_store.py`)
* **State**: `JobStore._jobs` (status, `finished_at`, `audio_path`), the files in
  `OUTPUTS_DIR`, futures of the synchronous endpoints.
* **Operations**: submit one job or a batch, the `on_complete` callback, download
  (serve, then delete the file and clear the path), the cleanup round.
* **Hard**: the queue fills in the middle of a batch; saving and deleting files may
  fail; callback, download and cleanup interleave.
* **Correct means**: no ghost jobs, a path only for a file that exists, no file
  without an owner, statuses that only move forward, every job settles and is
  evicted.

### Speakers (`speakers.py`, `routers/clone.py`, `routers/speakers.py`, `seed_studio_speakers.py`)
* **State**: three files per speaker on disk, a cache of records, uploads in `.tmp/`.
* **Operations**: clone (check, compute, check again, register), get, delete,
  `preload_all()` at the start; the seed script writes the same directories from
  another process.
* **Hard**: `register()` writes three files one after the other, in place, without a lock,
  and may stop anywhere; two clones of one name; a second process that checks and then
  writes the same files, while the server may have them open.
* **Correct means**: the cache is what is on disk; a clone that was answered with success
  is on disk as a whole; a registered speaker stays as it was registered until it is
  deleted; a file is left half-written by a fault only.

### Lifespan and threads (`main.py`)
* **State**: how far the start or the shutdown got; the default `ThreadPoolExecutor` of
  the event loop, which every blocking call shares.
* **Operations**: start the store, the queue manager and the workers; on a signal, shut
  them down in the opposite order, one after the other.
* **Hard**: requests are in flight at that time; a worker may hang or be dead; a call that
  waits for a worker holds the thread that another one needs.
* **Correct means**: the server stops whatever its workers do, nobody with an open
  connection is left waiting, and the pool does not jam however few threads it has.

### The rest
`config.py` (settings), `audio.py`
(conversions), `routers/jobs.py` and `routers/system.py` (reads),
`logging_config.py`, the start and install scripts. `PROJECT.json` says of each
whether it is modelled and why not.

## Modules

| module | models | extends / instantiates |
|---|---|---|
| `WorkerTopology` | which workers exist, their ids, the key of `_pick_worker()` | |
| `WorkerSlots` | *abstract*: what the dispatcher promises, without counters | |
| `Dispatcher` | counters, `Condition`, dispatch, release, waiting | `WorkerTopology`; refines `WorkerSlots` |
| `Worker` | the worker processes and their queues | `WorkerTopology` |
| `RequestQueue` | *abstract*: what an endpoint may rely on after submitting | |
| `QueueManager` | submission, drain loop, executor puts, collectors, WebSocket readers, latents | `Dispatcher`, `Worker`; refines `RequestQueue` and `Dispatcher` |
| `Lifecycle` | the shutdown of `main.py` around requests in flight, sentinels | `QueueManager` |
| `ExecutorPool` | the thread pool under the request path | `QueueManager`; refines it |
| `StreamProtocol` | *abstract*: the frames a streaming client is promised | |
| `StreamSession` | `stream_tts()` from the accept to its last `finally` | refines `StreamProtocol` |
| `JobStore` | the dictionary of jobs and the output files | |
| `TtsServer` | the HTTP endpoints, callbacks, downloads, cleanup | `JobStore`, `RequestQueue` |
| `SpeakerStore` | speakers on disk and in the cache, clones, seed script | |
| `*Proofs` | the theorems about the module of that name; `ExactlyOnceProofs` is about `QueueManager` | |
| `MC*` | values for TLC | |

The composition is in two layers. `QueueManager` puts dispatcher and workers
together and is shown to implement `RequestQueue`; `TtsServer` is then built on
`RequestQueue` in its place, so that the jobs need not be checked against all
interleavings of the workers. `Lifecycle` and `ExecutorPool` extend `QueueManager` and
wrap its actions: the one says when they may still happen, the other which of them wait
for a thread.

### From code to state and steps

**What is one step.** The server is one event loop. A coroutine runs undisturbed from
one real suspension to the next, so an action is such a stretch. `async with lock`
does not suspend where no holder of that lock suspends, which is the case for the
`Condition` (apart from `wait()`) and the job store's lock: a critical section with
the code up to the next suspension is one action. `put_nowait()` does not suspend,
hence `POST /v1/tts` (create, enqueue, fail on `QueueFullError`) is one action and so
is a whole batch. What *does* suspend is `cond.wait()`, every `run_in_executor()` (put
into an OS queue, `result_queue.get()`, `save_audio()`), every WebSocket send, the
await of a future and the sending of a response body.

**Dispatcher.** `active_requests`, `active_jobs` are the fields of `WorkerHandle`;
`waiter` is the drain loop with respect to the `Condition`; `handle[r]` is the local
variable in which the caller keeps the handle it must release. `release()` finds the
worker by its *name*, `IsFirstWithId`, and names are not unique on every machine. In
`WorkerSlots` the requests are of two kinds: those of the drain loop are given out only
while it is awake and a worker is free, the `Direct` ones (here `Clones`, the requests of
`compute_latents()`) at any time. A drain loop that dispatched on a stale `all_busy()`
would not implement it.

**QueueManager.** `phase[r]` is the program counter of the coroutine that owns request
`r`: `queued`, `taken` (the drain loop holds it and waits), `putting` (the executor
puts it into the OS queue; the slot is taken already), `delivered`, `collecting`,
`done`. `answer[r]` is what its owner ended with. A read from the result queue, what
the owner sends on, and the release after it are one step, at the time the send ends:
until then the item counts as unread and the slot as held. Each executor call has a
thread of its own here; `ExecutorPool` gives them a shared one.
The collector task is fire-and-forget (`queue_manager.py:192-198`); the pending executor
future keeps it reachable, so it is taken to run to its end.

**Workers.** A death takes the request under way with it; the OS queue still accepts
items. `MaxUnread` caps the unread chunks of a stream.

**Lifecycle.** `stage` is how far the lifespan got: `serving`, `closing` (a signal came,
uvicorn waits for open connections, on which a request may still be submitted),
`stopping` (from `queue_manager.shutdown()` on), `stopped` (the manager process is gone;
the end of the interpreter, which joins its executor threads, is outside). Only jobs have
no connection that is waited for; the requests of `/audio`, clones and streams have. A
WebSocket uvicorn closes itself at a shutdown, which for its handler is a client that
leaves (`ClientGone`); the run has no streams. A cancelled coroutine takes no
more steps, but a put it waits for goes on in its thread if it has begun; `revoked` says
that it had not. `told`, `joined` and `left` are the workers that got a sentinel, that
`join()` returned for, and that ended at their sentinel.

**ExecutorPool.** `backlog` holds the calls no thread has begun, first come first served,
`running` the others. A coroutine submits its calls one after the other; `Ask` is the
first `get()` of a collector or a WebSocket handler, which may come at any time after
the drain loop handed the request over. The time-out of a `get()` can only pass in a
thread (`Expire`).

**StreamSession.** `handler` is the `await` at which `stream_tts()` stands, `inner` that it
is inside the try block whose `finally` releases. Each action ends one `await`. Leaving
goes through `Leave`: the release if `inner`, whatever the reason. `owed` counts
dispatches without their release. The client's leaving is noticed where the handler
reads or sends, not where it waits for its worker.

**TtsServer.** `saving[id]` is `on_complete` between its suspensions; `download[d]` is a
`GET .../audio` request: the check, the moment the response opens the file, and the
background task that deletes it. `finished_at` is kept relative to the TTL
(`recent`, `expired`). `Faults` says what may fail: `save` and `remove` of a file
(`save_audio()` writes in place, so a failed save may leave a file behind), and
`manager`, the process behind the result queues (then `make_queue()` raises). The
outcome `broken` is a `get()` that raises something other than `queue.Empty`: its
message may be empty, and `if result.error` then takes the result for a good one
without audio, so both branches are possible.

**SpeakerStore.** `files[n][f]` is who wrote file `f` of speaker `n`. None of the writes is
atomic: `np.savez()`, `copy2()` and `open(.., "w")` empty the file (`RegisterOpens`,
`SeedOpens`), which is `Torn` until the writer closes it (`RegisterCloses`, `SeedCloses`).
The store's methods do not suspend, so inside the server `register()` and `delete()` run
from their first to their last step without another handler (`Idle`), but the steps are
interleaved with those of the seed script, which is another process, with errors
(`RegisterRaises`, `DeleteRaises`, `SeedRaises`) and with the end of the process
(`ProcessEnds`). When both processes have one file open at the same time (`shared`), it
ends up with the bytes of either or of both, `Mixed`. When `rmtree()` removes a file the
script has open (`unlinked`), the script writes on to a file without a name; when it removed
the directory, the script's next `open()` raises. A load (`Get`, `Preload`) is one step: it
returns what is on disk at that moment or raises; that `np.load()` may read two members of
the archive at two moments is not modelled, the archive's checksums stand for it. It is the
process that ends, not the machine: what was written stays. `preload_all()` raises on a file
that does not load (`PreloadRaises`), and the server is down again. With `--dry-run` the
script writes nothing, which is `Seeded = {}`.

## Runs

"Distinct states" are rounded.

| run | module / cfg | states | what it shows |
|---|---|---|---|
| `queue` | `MCQueueManager` | 1 700 000 | slot ownership, exactly-once, accounting, no lost wake-up, that queued requests land on a free worker of one GPU, and that what they find in it was given up |
| `queue_fair` | `MCQueueManager` / `MCQueueFair` | 144 000 | refinements to `WorkerSlots` (nothing of the queue is dispatched while all workers are held) and `RequestQueue`; work only moves on; every accepted job and stream ends |
| `pool` | `MCExecutorPool` | 44 000 | the request path with fewer threads than requests: refinement, order of puts and gets, that somebody can always go on, no jam without deaths (clones included), and that timeouts free the pool with them |
| `lifecycle` | `MCLifecycle` | 50 000 | a shutdown at any time: it is carried out, connected clients are answered, no worker leaves a request behind that somebody waits for |
| `stream` | `StreamSession` / `MCStreamSession` | 740 | one session frame by frame: protocol, completeness, slot, end |
| `server` | `MCTtsServer` | 143 000 | without faults jobs, files and answers agree; records are evicted, `/audio` is answered |
| `server_batch` | `MCTtsServer` / `MCTtsBatch` | 1 840 000 | a batch with all three kinds of faults: audio of finished jobs, which unfinished jobs are forgotten, and whose status can go back |
| `speakers` | `MCSpeakerStore` | 1 840 000 | cache, disk, concurrent clones and the seed script, file by file, with two faults |
| `queue_backlog` | `MCQueueManager` / `MCQueueBacklog` | | *violation*: requests pile up behind a timed-out one |
| `refused_batch` | `MCTtsServer` / `MCTtsRefusedBatch` | | *violation*: a refused batch is synthesised in part |
| `stuck_job` | `MCTtsServer` / `MCTtsStuck` | | *violation*: a job whose audio cannot be saved never settles |
| `speaker_torn` | `MCSpeakerStore` / `MCSpeakerTorn` | | *violation*: a torn `latents.npz` counts as a speaker |

### Bounds, and why they are enough

* `queue`: two jobs, a stream and a clone on two workers, a queue of two. All three kinds
  of owner compete; three requests can be in flight on two workers (the clone is not
  held back), so the drain loop parks, is woken, and finds the slot gone again; a
  job is refused while two requests wait; a second request lands behind a timed-out one.
  The jobs are interchangeable, hence the symmetry set.
* `queue_fair`: one request of each kind, two workers, a queue of one: the smallest
  instance in which the drain loop has to park while a stream and a clone hold the
  workers and either worker may die. No symmetry, since liveness is checked.
* `pool`: a job, a stream and a clone on one worker share one thread, the smallest pool
  there is: every order in which puts, gets and saves can stand in its backlog occurs, and
  a `get` of each kind may hold the only thread while another's put waits. (Two workers,
  where `get`s of both can hold two threads, were checked once in four minutes with
  358 000 states and agree; for any number of threads see the proofs.)
* `lifecycle`: two jobs, one of them behind `/audio`, a clone and one worker with a queue
  of one: the drain loop may be cancelled idle, parked with an item, or with a put that
  has or has not begun, a job may be behind the sentinel or in front of it, and the
  worker may hang, die or leave. Joins of several workers come one after the other and do
  not depend on each other.
* `stream`: `MaxChunks = 3` chunks, so that one can be sent, one in hand and one unread.
* `server`: two jobs on a queue of one (so that one is refused), two downloads (so that
  they overlap or follow each other), one `/audio` request.
* `server_batch`: a batch of two with a queue of two that a job and an `/audio` request
  share: the batch fits, fits in part, or does not fit at all.
* `speakers`: two clones of one name, one of the two names the seed script registers, so
  that the script can come before, between and in the middle of both; the other name is the
  script's alone, and is loaded, deleted and preloaded next to the first. Two faults, so
  that the end of a process can follow an error.
* `MaxUnread = 1` bounds unread chunks: a chunk is either there or not, for all an owner
  can tell. `MaxFaults = 2` bounds the errors and the ends of a process in `SpeakerStore`. Request and
  job ids are used once.

`CHECK_DEADLOCK FALSE` is in the runs whose system really rests: when all requests are
answered and all records evicted, nothing is left to do (and a server that cannot start
because of a torn file stays down).

### Fairness

`QueueManager!Fairness` is weak fairness of the drain loop, of each executor put, of
each owner's `Collect` (the loop runs every coroutine that is ready; a blocked `get`
ends with an item or with its timeout) and of a *live* worker taking its next request
and ending its synthesis. There is none on `ClientGone`, `ReadBroken`, `WorkerDies`,
`WorkerChunk` or on any client's submission: none of these has to happen. Sending on a
WebSocket is assumed to end; a peer that neither reads nor disconnects would hold a
slot for as long as the transport lets it, which the code does not bound.

`ExecutorPool!PoolFairness` makes the loop run coroutines that can go on and free threads
begin calls, and live workers work; it leaves timeouts out, since `NoJam` claims that none
is needed while no worker dies. `TimeoutsFreeThePool` adds them.

`Lifecycle!LifecycleFairness` assumes nothing of the workers, which may hang for ever: what
ends is a timeout of `get()`, `join(15)` and what the event loop and the threads run by
themselves. No signal has to come.

`StreamSession!FairSpec` assumes that a send ends or raises (the pings of the WebSocket
server see to that), that timeouts pass, and that the drain loop reaches the request
(`AcceptedRequestsEnd`). Nothing is assumed of the worker and of the client, and no `get()`
has to raise.

`TtsServer!Fairness` takes over from `RequestQueue` that accepted requests start and end
(`AcceptedRequestsEnd` of run `queue_fair` is that fact), and adds the callbacks, the
file operations, the cleanup loop and the passing of time. No client has to download.

## Findings

The four violation runs are disagreements between the code and what its own comments
or documents say; `PROJECT.json` quotes each. More were met on the way and are
recorded here without a run:

* Without CUDA the workers are called `cpu-w0`, `cpu-w1`, ... for each entry of
  `WORKERS_PER_GPU` anew: with `NUM_GPUS=2` set on such a machine two workers share a name,
  and `release()`, which looks a worker up by name (`dispatcher.py:255-262`), gives the slot
  back to the first of them. `SlotAccounting` needs `UniqueIds`, and is proved under it.
* `_pick_worker()` compares the totals of the GPUs first (`dispatcher.py:365`), the drain loop
  waits for any single free worker (`queue_manager.py:182`): with `WORKERS_PER_GPU=1,3` a
  queued request may be put behind another one on the first GPU although a worker of the
  second is free. `QueuedLandsOnFreeWorker` is therefore stated for one GPU.
* `job_store.py:7` has jobs `running` when a worker picks them up; `mark_running()` is called
  in `on_complete` (`routers/tts.py:238`), when the synthesis is over.
* `MAX_QUEUE_SIZE=0` passes the validation and makes the `asyncio.Queue` unbounded
  (`QueueBounded` is proved for positive sizes only).
* The torn `latents.npz` of run `speaker_torn` is not the file `clone.py:187-189` speaks of:
  the comment is about the copy of `ref.wav`, which is whole in the trace. The call it
  stands at writes the other two files as well.
* The seed script and a `register()` that are at work on one name at the same time can spoil its
  files without any fault (`SoundDiskLoads` excludes `Contested` names): nothing locks the
  directory between the two processes.
* When `os.remove()` of the upload fails, the client gets a 500 although its speaker was
  registered (`clone.py:201-202`, second half of `RegisterEnds`).
* Two downloads that overlap are both served: the path is tested at the start and cleared
  at the end (`LaterDownloadRefused` speaks of downloads that follow one another).
* When `make_queue()` raises, the job that was just created stays `pending` for ever
  (`NoGhostPending` is therefore a property of run `server`, without that fault). With every
  fault `UnfinishedIsOwed` says which jobs can be forgotten: those, and the ones whose save
  raised (run `stuck_job`); no others.
* `list_speakers()` goes by `meta.json`, everybody else by `latents.npz`: a registration
  cut off between the two leaves a speaker that works and is not listed.

## Proofs

TLAPS checks the following for every value of the constants. Assumptions are only the
named ones in the modules (`TopologyAssumption`, `DispatcherAssumption`,
`QueueManagerAssumption`, `JobStoreAssumption`, `TtsServerAssumption`,
`SpeakerStoreAssumption`, `LifecycleAssumption`, `PoolAssumption`, `MaxChunksAssumption`),
which TLC evaluates in the runs, and those a theorem states.

* **Topology**: `CudaGivesUniqueIds`, `OneGpuGivesUniqueIds`: when the ids of the workers
  are unique. `UniqueIds` is what the accounting needs; what happens without it is among the
  findings.
* **Dispatcher**: `DispatcherTypeCorrect`; `SlotAccountingHolds` (given `UniqueIds`);
  `NoLostWakeupHolds` (needs nothing); `DispatcherRefinesWorkerSlots`. The accounting is
  inductive together with the types; its core is that `dispatch()` adds one element
  to the finite set of holders of one worker and `release()` removes one. By it "some
  counter is 0" is "some worker is held by nobody" (`SlotView`), so that the check of
  `all_busy()` is the guard of `DrainGive`, the only way `WorkerSlots` has for a request
  that is not `Direct`.
* **Request path**: the inductive invariant is

      OwnerInv == TypeOK /\ WaitingOnce /\ SlotsFollowOwners

  None of the three is inductive alone: that the drain loop dispatches a *request* after a
  notify follows from the ownership (the waiter is parked only with an item in its
  hands), and that the item it takes from the queue has no slot yet follows from what
  the queue contains. From it: `TypeCorrect`, `SlotsFollowOwnersHolds`,
  `WaitingOnceHolds`, `QueueBoundedHolds` (`MaxQueueSize > 0`),
  `QueuedLandsOnFreeWorkerHolds` (one GPU: the first component of the key is the same for
  all workers, so the pick is a worker with the least count, and one has 0).
* **Refinement**: `StepIsDispatcherStep` shows that a step of the whole system is a step of
  `Dispatcher` or leaves its variables alone, hence `RefinesDispatcher`, and through it
  `SlotAccountingInServer` and `NoLostWakeupInServer` without a second proof. (With the
  theorem there is no run for `ImplementsDispatcher`, nor for `WaitingOnce`.)
  `RefinesRequestQueue` maps each step to one of `RequestQueue` or to a stutter.
* **Exactly once**: `ExactlyOnce` says that the work for a request is in at most one of four
  kinds of places: in an OS queue, under way, answered and unread, read. Counting the
  places leads nowhere in a proof; `Places(r)` is the set of them, and the property that
  any two are equal. It is not inductive: that the work is nowhere before the put, and
  still somewhere while the owner waits, needs to be known, and also *with whom* it is,
  or the death of another worker could take it along:

      OneWork(r) == at most one place /\ none before the put
                    /\ some place while the owner waits for a live worker
                    /\ read only if the owner is done
                    /\ at a worker only if the owner holds that worker's slot

  `ExactlyOnceHolds` follows from that for all requests, together with `OwnerInv` and with
  OS queues that hold nothing twice. Two results about steps rest on the same invariant.
  `WorkOnlyMovesOnHolds` compares the `WorkStage` of a request before and after a step: as the
  work is in one place, a step that takes it out of a queue or a pair of hands can only bring
  it to the next stage, and an owner that gives up moves none. `QueuedMeetsAbandonedWorkHolds`
  (one GPU) adds `WorkWithoutOwner`: the worker that is picked has no active request, so what
  is in it belongs to nobody who still waits, and what was read is not in a worker.
* **Shutdown**: `LeftNothingUnansweredHolds`. The invariant is `OwnerInv` and `WorkInv`, which
  the shutdown does not disturb (`ShutdownKeepsOrder`), with

      StageInv    == sentinels and joins belong to the stage; connections are closed by then
      SentinelInv == behind a sentinel there is no request whose owner reads

  The second one is where the order of the shutdowns matters: a put that was under way
  when the drain loop was cancelled may end behind the sentinel, but its coroutine is gone
  and nobody will ever collect it. The refinements carry over. `ShutdownOnlyTouchesWorkers`
  says that a step of the shutdown proper leaves counters and owners alone, which gives
  `ShutdownRefinesDispatcher` (hence `ShutdownKeepsAccount`, given `UniqueIds`) and
  `ShutdownRefinesRequestQueue`; and since sentinels and terminated workers only lose work,
  `ShutdownRepeatsNothing`. `OnlyJobsAreDropped`: while a request of a connection is under way
  no worker is told to leave.
* **Threads**: `RefinesQueueManager` shows that every behaviour on the pool is one of
  `QueueManager`, so all that is proved there holds with any number of threads.
  `GetsFollowPutsHolds` is the fact behind `NoJam`: a pending `put` is of a request that is
  being put, a pending `get` of one that has been, by `OwnerInv` and "a call is in one
  place". `PoolTypeCorrect`. `PoolKeepsExactlyOnce` and `PoolRefinesRequestQueue` are the
  corollaries that matter most.

  `NeverStuckHolds` (given `UniqueIds`) is the safety side of progress: as long as a request is
  unfinished, the drain loop, a thread, an owner or a worker can take a step that is not the
  timeout of a living worker, or a thread waits for a worker that died. The proof assumes that
  none of them can (`Halted`) and draws the conclusions in turn: each `get` that has begun has
  its work in its worker, who would be busy, so no call is running, and with a free thread none
  is waiting (`HaltedPoolIsEmpty`); then no request holds a slot, since its owner would be in a
  call or could ask for one (`HaltedHoldsNoSlot`); then by the accounting all workers are free,
  and by `NoLostWakeup` the drain loop is awake (`HaltedDrainIsAwake`); then it holds nothing
  and its queue is empty (`HaltedIsOver`). That needs almost every invariant of the request
  path at once, and two more (`NextActor`): what the drain loop holds is what its phase says,
  and OS queues hold requests only, so that a worker can take what is at the head.
* **Streams**: `StreamTypeCorrect`, `EndedOwesNothingHolds`, `DoneIsWholeHolds` and
  `RefinesStreamProtocol`, from

      StreamInv == TypeInv /\ ChunksInOrder /\ HandsInOrder /\ FramesInOrder /\ DoneIsWhole

  `TypeInv` relates `inner` to `owed`, which makes each exit release once. `ChunksInOrder`
  says that what was sent, what is in hand and what is unread are together the chunks
  made, in order: true only while the handler reads, since it leaves them lying when it
  stops.
* **Jobs**: `ServerTypeCorrect`; `NoGhosts` (while the manager process answers), inductive
  with the types and with "the queue is within its capacity", without which a refused
  batch might be refused before its first item.
  `DoneJobsHaveAudio` needs more. Deleting a file is the cleanup's and the downloads'
  business, and both go by the path in the record; the danger is the callback that has
  saved the file and has not yet set the path, or the file of a job that runs a second
  time. The strengthening is

      QueueInv == QueueInOrder /\ UnpostedIsNew
      AudioInv == UnfinishedIsPrivate /\ SavingIsPrivate /\ DoneHasAudio

  A request is in the queue once and nowhere else, and the items of a batch that was not
  posted are new, hence a request ends once and its callback runs once; until then, and
  between the save and `mark_done()`, no path is set and no download has passed its
  check. This holds with every fault: a file that cannot be deleted, or is
  written in part, breaks `NoOrphanFile`, never `DoneHasAudio`.
* **Statuses and files**: `JobMoves` says what a step can mean for one job (it is created, its
  request ends, its callback finishes, it is evicted, its file is served, or none of
  these), and the results on statuses and files use it. `LaterDownloadRefusedHolds` needs
  nothing but `TakenIsDone`: a job of which a download passed the check stays done. The others
  rest on

      StatusInv == UnpostedIsUnmade /\ StatusFollowsStage /\ RefusedByLimit

  where `StatusFollowsStage` says that a job is pending while its request waits or is served
  and running while its callback is between its suspensions, *but for the items of a batch
  that was answered with a 503* (`RefusedJob`): these are failed and run all the same, and
  the cleanup may even evict them first. With that exception the invariant holds for all batches
  and faults, and what it gives is stated job by job: `StatusOnlyForwardHolds` and
  `OnlyRefusedFilesAreOrphans` (files can be written and deleted). `RefusedByLimit` says that
  it takes a limit on the queue to refuse a batch, so that `EveryFileHasAnOwner` follows for
  `Capacity = 0 \/ Batches = {}`; the code does no better: run `refused_batch` and the hazards
  at `routers/tts.py:248` and `job_store.py:253` are what happens without it.
* **Composition**: `QueueManager` implements `RequestQueue` (above), and
  `EndpointsSubmitInTurn` is the other half: the endpoints and callbacks touch the queue by
  its steps only. A batch takes several in one step of the event loop; `InTurn` spells out
  that each item is new and finds room when its turn comes, and that only a full queue refuses
  one. It needs the bound of the queue and `UnpostedIsNew`.
* **Settling**: that a job settles is liveness, but what it can fail on is not.
  `UnfinishedIsOwedHolds`, with every fault and any batches: a pending job is in the queue or
  in progress, a running one has its callback at work, and the only ones left alone are
  those `make_queue()` raised for behind `create()` and those whose save raised behind
  `mark_running()`. `FinishedCanBeEvicted`: a finished record has its `finished_at`, without
  which the cleanup would pass it by for ever.
* **Speakers**: the inductive invariant is

      Sound == TypeOK /\ Alone /\ OneAtATime /\ RemovedOpen /\ Contention /\ WritesItsOwn

  `Alone`: inside the server `register()` and `delete()` exclude each other and themselves, and
  the name they are at work on is not cached. `OneAtATime`, `RemovedOpen`: the same for the
  script. `Contention`: a file of two writers is on a `Contested` name, one that the script and
  a `register()` both came to write. `WritesItsOwn`: how far the files are while `register()`
  writes them. From it `SpeakerTypeCorrect`, `CacheMatchesDiskHolds` (the record is cached in the
  step after the last file, and evicted in the step before the first one goes),
  `WholeWhenAnsweredHolds` and `RegisteredStaysHolds`. `TornCostsAFaultHolds` counts: a file
  is torn while somebody has it open, and a step that leaves one torn for good adds to
  `faults`, at most one for each process that stops. `SoundDiskLoads` is the case without
  faults: what does not load is being written, or is contested. What run `speaker_torn`
  shows therefore needs a fault.

Only model-checked: the liveness properties, which need fairness and `ENABLED`
(`AcceptedRequestsEnd`, `RecordsAreEvicted`, `SyncsAreAnswered`, `NoJam`,
`TimeoutsFreeThePool`, `StopIsCarriedOut`, `WaitingClientsAnswered`, `SessionEnds`,
`SlotComesBack`). For two of them the safety core is proved, `NeverStuck` for `NoJam` and
`FinishedIsStamped` for `RecordsAreEvicted`: that nothing stands in the way of the next step,
not that it is taken. `JobsSettle` has only the run that violates it, `stuck_job`; that it
fails in no other way is `UnfinishedIsOwed`. Every safety property the passing runs check is
also a theorem.

## Not modelled, and why

* A start that fails half-way: nothing is served yet, and the process ends.
* What a restart finds in `OUTPUTS_DIR`: jobs are kept in memory only, so files of an
  earlier process stay for ever. The code makes no claim about them.
* uvicorn, Starlette and the WebSocket server: external. Of them the model takes that the
  lifespan ends after the connections, that a background task runs after the body, and
  that a dead connection is noticed in the end.
* The encoding of a chunk before it is sent: part of the send.
* Request validation, authentication and conversions (`audio.py`, `config.py` apart from
  `WORKERS_PER_GPU`): stateless.
* `routers/jobs.py` and `routers/system.py`: they only read, in one step each.
* The model (Xtts), CUDA and the operating system's scheduler: arbitrary outcomes.
* Loss of power: files written are taken to be on disk.
* Two members of one archive read at two moments by `np.load()`, and a seed script run twice.

## Plan

Done, in this order: `WorkerTopology`, `WorkerSlots`, `Dispatcher`; `Worker`, `RequestQueue`,
`QueueManager`; `JobStore`, `TtsServer`; `SpeakerStore`; `Lifecycle`, `ExecutorPool`,
`StreamProtocol`, `StreamSession`; each with its runs and its proofs. Every safety property of
the runs is proved; what the shutdown and the pool leave intact of the request path is too.
Left, most important
first:

1. `TtsServer` over `QueueManager` itself on a small instance: the composition is proved
   for steps, a run would check the fairness that is handed over as well.
2. `StreamSession` in place of the `Streams` of `QueueManager`, by a refinement.
