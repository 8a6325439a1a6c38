--------------------------- MODULE MCExecutorPool ----------------------------
(* Requests and a topology for ExecutorPool. *)
EXTENDS ExecutorPool

AllRequests == Jobs \cup Streams \cup Clones

Single == <<1>>
=============================================================================
