-------------------------- MODULE ServingInvariant --------------------------
(***************************************************************************)
(* Why Serving keeps its promises: the invariant of the proofs, stronger   *)
(* than what it is for.  TLC checks it beside the properties.              *)
(***************************************************************************)
EXTENDS Serving

(* Where the request of an operation can stand, and where it still has not *)
(* issued a statement.                                                     *)
Route(op) ==
  CASE op = "ingest" -> {"embed", "write", "commit"}
    [] op = "remember" -> {"embed", "search", "rerank", "write", "commit"}
    [] op = "replace" -> {"select", "embed", "write", "commit"}
    [] op = "forget" -> {"select", "write", "commit"}
    [] op = "stats" -> {"total", "types", "statuses", "commit"}
    [] OTHER -> {}
Undrawn(op) ==
  CASE op = "ingest" -> {"embed", "write"}
    [] op = "remember" -> {"embed", "search"}
    [] op \in {"replace", "forget"} -> {"select"}
    [] OTHER -> {"total"}

(* Past its first statement a request has a connection, until it ends.     *)
Routed ==
  \A c \in Clients : stage[c] \in Working =>
    /\ stage[c] \in Route(call[c].op)
    /\ stage[c] \notin Undrawn(call[c].op) => held[c] # "none"

(* Only a client that never called has no call.                            *)
Called == \A c \in Clients : stage[c] # "new" => call[c].op # "none"

(* The pool keeps no more than it may, and clocks never run ahead.         *)
Pooled == Free <= PoolSize /\ \A c \in Clients : since[c] <= outages

(* A client that stored nothing yet is told by where it stands: one that   *)
(* remembers found no memory of its own among all there are, one that      *)
(* replaces found its target active.  While the connection lives, its      *)
(* commit is to come.                                                      *)
Unstored ==
  \A c \in Clients :
    /\ stage[c] = "new" => Authored(c) = {}
    /\ call[c].op = "remember" /\ stage[c] \in {"rerank", "write", "commit"}
       /\ held[c] = "live" /\ aim[c] = NoId /\ Cardinality(Known) <= DedupTopK => Own(c) = {}
    /\ call[c].op = "replace" /\ stage[c] = "select" => aim[c] = NoId
    /\ call[c].op = "replace" /\ stage[c] \in Working /\ held[c] = "live" /\ aim[c] # NoId
       => aim[c] = call[c].target /\ Authored(c) = {}

(* One that replaces and has stored has retired its target for good.       *)
Settled ==
  \A c \in Clients :
    call[c].op = "replace" /\ Authored(c) # {} =>
      call[c].target \in Ids /\ life[call[c].target] \in Corpus!Gone

(* What memory_stats counted so far lies between the corpus at its start   *)
(* and the corpus now.                                                     *)
Counted ==
  \A c \in Clients :
    call[c].op = "stats" /\ stage[c] \in Working =>
      LET n == counts[c]
          later(stages) == stage[c] \in stages
      IN
      /\ before[c].known \subseteq Known /\ before[c].gone \subseteq Gone
      /\ later({"types", "statuses", "commit"}) =>
           Cardinality(before[c].known) <= n.total /\ n.total <= Cardinality(Known)
      /\ later({"statuses", "commit"}) =>
           n.total <= n.types /\ n.types <= Cardinality(Known)
      /\ later({"commit"}) =>
           /\ n.types <= n.active + n.gone /\ n.active + n.gone <= Cardinality(Known)
           /\ Cardinality(before[c].gone) <= n.gone /\ n.gone <= Cardinality(Gone)

ServingIInv ==
  /\ ServingTypeOK /\ ConnectionsAccounted /\ OutageOverForLater
  /\ RetriesStoreOnce /\ StoredPerOutage
  /\ Called /\ Routed /\ Pooled /\ Unstored /\ Settled /\ Counted
=============================================================================
