--------------------------- MODULE MCQueueManager ----------------------------
(* Requests and topologies for QueueManager. *)
EXTENDS QueueManager, TLC

AllRequests == Jobs \cup Streams \cup Clones

\* WORKERS_PER_GPU="2" on one GPU
OneGpuOfTwo == <<2>>

\* WORKERS_PER_GPU="1" on one GPU
Single == <<1>>

\* Requests of one kind are interchangeable.
Symmetry == Permutations(Jobs) \cup Permutations(Streams) \cup Permutations(Clones)
=============================================================================
