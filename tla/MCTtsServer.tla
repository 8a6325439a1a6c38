---------------------------- MODULE MCTtsServer ------------------------------
(* Clients for TtsServer. *)
EXTENDS TtsServer

CONSTANTS j1, j2, j3

NoBatches == {}
BatchOfTwo == {<<j1, j2>>}

AllJobIds == Singles \cup BatchJobs
AllSubmitters == AllJobIds \cup Syncs

\* What the requests of jobs and of /audio can end with in QueueManager.
UsualOutcomes == {"ok", "error", "timeout"}
AllOutcomes == UsualOutcomes \cup {"broken"}
=============================================================================
