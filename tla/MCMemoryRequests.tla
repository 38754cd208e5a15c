-------------------------- MODULE MCMemoryRequests --------------------------
(* Symmetry for the runs of MemoryRequests.  Requests and contents are     *)
(* interchangeable; the safety runs use it, the liveness run does not.     *)
EXTENDS MemoryRequestsInvariant, TLC

Symmetry == Permutations(Requests) \cup Permutations(Contents)
=============================================================================
