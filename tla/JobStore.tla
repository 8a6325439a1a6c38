------------------------------- MODULE JobStore ------------------------------
(***************************************************************************)
(* job_store.py: the in-memory dictionary of jobs and the audio files its  *)
(* records own.                                                            *)
(*                                                                         *)
(* Every method takes the lock and never suspends while it holds it, so a  *)
(* method is one step of the event loop; a caller that makes several calls *)
(* in a row without suspending makes them in one step.  The writing        *)
(* methods are therefore functions from a dictionary to the next one.      *)
(***************************************************************************)
EXTENDS Naturals, FiniteSets

CONSTANTS
    JobIds,     \* the ids create() can hand out
    NoJob,      \* "not in the dictionary"
    Faults      \* what may fail: "save" and "remove" of a file on disk, and
                \* "manager", the process that holds the result queues

\* finished_at is kept relative to the TTL: unset, set, or older than the
\* cutoff of the next cleanup round.
JobStatus == {"pending", "running", "done", "failed"}
Job == [status      : JobStatus,
        finished_at : {"none", "recent", "expired"},
        audio_path  : BOOLEAN]      \* whether the path of the file is set

ASSUME JobStoreAssumption ==
    /\ NoJob \notin Job
    /\ Faults \subseteq {"save", "remove", "manager"}

VARIABLES
    jobs,       \* the dictionary _jobs
    files       \* the jobs whose output file is on disk

storeVars == <<jobs, files>>

Terminal == {"done", "failed"}

HasJob(store, id) == store[id] # NoJob

-----------------------------------------------------------------------------
JobStoreInit ==
    /\ jobs = [id \in JobIds |-> NoJob]
    /\ files = {}

NewJob == [status |-> "pending", finished_at |-> "none", audio_path |-> FALSE]

CreateJobs(store, ids) == [id \in JobIds |-> IF id \in ids THEN NewJob ELSE store[id]]

\* The marking methods log a warning and return when the job is gone.
Mark(store, ids, Change(_)) ==
    [id \in JobIds |-> IF id \in ids /\ HasJob(store, id) THEN Change(store[id])
                                                         ELSE store[id]]

MarkRunning(store, id) ==
    Mark(store, {id}, LAMBDA job : [job EXCEPT !.status = "running"])

MarkDone(store, id) ==
    Mark(store, {id}, LAMBDA job : [job EXCEPT !.status = "done",
                                               !.finished_at = "recent",
                                               !.audio_path = TRUE])

\* Slip: mark_failed() without its finished_at.
MarkFailedForEver(store, ids) ==
    Mark(store, ids, LAMBDA job : [job EXCEPT !.status = "failed"])

MarkFailed(store, ids) ==
    Mark(store, ids, LAMBDA job : [job EXCEPT !.status = "failed",
                                              !.finished_at = "recent"])

ClearAudioPath(store, id) ==
    Mark(store, {id}, LAMBDA job : [job EXCEPT !.audio_path = FALSE])

\* The TTL of a job that has a finished_at runs out.
TtlPasses(id) ==
    /\ HasJob(jobs, id)
    /\ jobs[id].finished_at = "recent"
    /\ jobs' = [jobs EXCEPT ![id].finished_at = "expired"]
    /\ UNCHANGED files

\* What os.remove() leaves behind of the files it is asked to delete.
Removed(kept, victims) ==
    /\ kept \subseteq victims
    /\ "remove" \in Faults \/ kept = {}
    /\ files' = (files \ victims) \cup kept

\* _evict_expired(): one round of the cleanup loop.  A file that cannot be
\* deleted stays; its record goes all the same.
Evictable ==
    {id \in JobIds : HasJob(jobs, id) /\ jobs[id].status \in Terminal
                                      /\ jobs[id].finished_at = "expired"}

\* Slip: the record goes, the file stays.
EvictRecords ==
    /\ Evictable # {}
    /\ jobs' = [id \in JobIds |-> IF id \in Evictable THEN NoJob ELSE jobs[id]]
    /\ UNCHANGED files

EvictExpired ==
    /\ Evictable # {}
    /\ jobs' = [id \in JobIds |-> IF id \in Evictable THEN NoJob ELSE jobs[id]]
    /\ \E kept \in SUBSET files :
         Removed(kept, {id \in Evictable \cap files : jobs[id].audio_path})
=============================================================================
