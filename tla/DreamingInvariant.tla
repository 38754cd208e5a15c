-------------------------- MODULE DreamingInvariant --------------------------
(***************************************************************************)
(* Why runs of Dreaming and requests go together: the inductive invariant  *)
(* of DreamSpec.  Up to the answer of remember_memory a run is a session   *)
(* as any other, and SessionInv is said of it.  From there to its commit   *)
(* it is closing: what it has flushed is the memory it promoted and, under *)
(* their row locks, batch episodes whose status alone it changes (Closes). *)
(* That no source survives the commit as an active memory needs the locks  *)
(* of those that were active and, for those that were not, that retired    *)
(* memories stay so (Settled).                                             *)
(***************************************************************************)
EXTENDS Dreaming, MemoryRequestsInvariant

(* A run after remember_memory, or one that never called it.               *)
Closing(s) ==
  /\ s \in Dreamers
  /\ \/ pc[s] \in {"consolidate", "complete"}
     \/ (pc[s] = "commit" /\ audit[s] # NoAudit)

(* A flushed row of which a run only changes the status.                   *)
PendingConsolidation(d, i) ==
  /\ Promoted(d)
  /\ i \in dream[d].batch
  /\ corpus[i].status # "absent"
  /\ dirty[d][i].status = "consolidated"
  /\ dirty[d][i].supersededBy = corpus[i].supersededBy
  /\ SameMemory(dirty[d][i], corpus[i])

(* A source that the commit of d leaves retired.                           *)
Settled(d, i) ==
  \/ Retired(i)
  \/ Written(d, i) /\ dirty[d][i].status = "consolidated"

Closes(d) ==
  /\ \A i \in Ids : Written(d, i) =>
       PendingInsert(d, i) \/ PendingAccess(d, i) \/ PendingConsolidation(d, i)
  /\ report[d].outcome = "created" =>
       report[d].id \in Ids /\ Written(d, report[d].id) /\ PendingInsert(d, report[d].id)
  /\ pc[d] = "consolidate" =>
       Promoted(d) /\ want[d] \in dream[d].marking /\ dream[d].marking \subseteq dream[d].batch
  /\ Promoted(d) => \A i \in dream[d].batch :
       Settled(d, i) \/ (pc[d] = "consolidate" /\ i \in dream[d].marking)
  /\ pc[d] = "commit" =>
       /\ audit[d].sources = dream[d].batch
       /\ audit[d].created = IF Promoted(d) THEN {report[d].id} ELSE {}

(* The episodes a run has gathered were active when it came, or later.     *)
Gathers(d) ==
  \A i \in dream[d].queue \cup dream[d].batch :
    i \in KnownIds /\ corpus[i].type = "episode" /\ i \notin goneBefore[d]

(* A run asks for one thing only, and only if it is not a dry one.         *)
Remembers(d) ==
  /\ pc[d] # "select"
  /\ job[d].op \in {"none", "remember"}
  /\ pc[d] \in {"new", "batch", "synthesis"} => job[d].op = "none"
  /\ pc[d] \in {"embed", "vector", "lexical", "rerank", "insert", "update"} =>
       job[d].op = "remember"
  /\ job[d].op = "remember" => ~ dream[d].dryRun
  /\ report[d].outcome \in {"none", "created", "reinforced", "rejected", "inactive"}
  /\ report[d].outcome # "none" => job[d].op = "remember"
  /\ Promoted(d) => report[d].id \in Ids
  /\ report[d].outcome = "reinforced" => report[d].id \in KnownIds
  /\ audit[d] # NoAudit => pc[d] \in {"commit", "done"}

(* What a run rests on.                                                    *)
RunInv(d) == Gathers(d) /\ Remembers(d) /\ (Closing(d) => Closes(d))

(* What any session rests on.                                              *)
AnySession(s) ==
  /\ Closing(s) \/ SessionInv(s)
  /\ Picks(s) /\ Names(s) /\ Waits(s) /\ PicksKnown(s)

(* The invariant: with what the answers, the audits and the corpus say of  *)
(* each other.                                                             *)
DreamInv ==
  /\ DreamTypeOK
  /\ TableInv
  /\ \A s \in Sessions : AnySession(s)
  /\ \A d \in Dreamers : RunInv(d)
  /\ LineageSound
  /\ AcknowledgedWritesHold
  /\ ChangesAccounted
  /\ SourcesRetired
=============================================================================
