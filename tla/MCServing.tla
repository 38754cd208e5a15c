----------------------------- MODULE MCServing -----------------------------
(* Who calls what: one client reads statistics or remembers, another       *)
(* replaces and a third ingests or forgets.  The clients are told apart,   *)
(* so no symmetry has to be given up for the liveness property.            *)
EXTENDS ServingInvariant

CONSTANTS c1, c2, c3

Roles == [c \in Clients |->
  CASE c = c1 -> {"stats", "remember"}
    [] c = c2 -> {"replace"}
    [] c = c3 -> {"ingest", "forget"}]
=============================================================================
