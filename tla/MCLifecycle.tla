---------------------------- MODULE MCLifecycle ------------------------------
(* Requests and topologies for Lifecycle. *)
EXTENDS Lifecycle

AllRequests == Jobs \cup Streams \cup Clones

Single == <<1>>
=============================================================================
