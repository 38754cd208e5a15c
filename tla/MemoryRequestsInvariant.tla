----------------------- MODULE MemoryRequestsInvariant -----------------------
(***************************************************************************)
(* Why MemoryRequests is right: the inductive invariant its proofs rest    *)
(* on.  The argument is the row lock.  A row flushed by one session is     *)
(* flushed by no other (Exclusive), so its committed version cannot move   *)
(* before the commit; the flushed version is therefore, still at the       *)
(* commit, that version with the one change the session meant (PendingOf), *)
(* however stale the copy is that the session decided upon.  What a        *)
(* session has flushed at its commit is exactly what it is going to answer *)
(* (Complete).                                                             *)
(***************************************************************************)
EXTENDS MemoryRequests

Idle(r) == \A i \in Ids : ~ Written(r, i)

(* Ids that were not drawn are nowhere.                                    *)
Fresh ==
  \A i \in Ids : i >= nextId =>
    /\ corpus[i].status = "absent"
    /\ \A r \in Sessions : ~ Written(r, i)

(* Row locks, and inserts no other session can see.                        *)
Exclusive ==
  \A p, q \in Sessions, i \in Ids : Written(p, i) /\ Written(q, i) => p = q

SameMemory(new, old) == new.content = old.content /\ new.type = old.type

(* A flushed row that was not there: the memory r is going to report.      *)
PendingInsert(r, i) ==
  /\ report[r].outcome \in {"created", "replaced"}
  /\ report[r].id = i
  /\ corpus[i].status = "absent"
  /\ dirty[r][i].status = "active"
  /\ dirty[r][i].supersededBy = NoId
  /\ SameMemory(dirty[r][i], job[r])

(* A flushed row of which only the bookkeeping changes.                    *)
PendingAccess(r, i) ==
  /\ report[r].outcome \in {"reinforced", "recalled"}
  /\ corpus[i].status # "absent"
  /\ dirty[r][i].status = corpus[i].status
  /\ dirty[r][i].supersededBy = corpus[i].supersededBy
  /\ SameMemory(dirty[r][i], corpus[i])

(* A flushed row that retires the target of the request.                   *)
PendingRetirement(r, i) ==
  /\ i = job[r].target
  /\ corpus[i].status # "absent"
  /\ SameMemory(dirty[r][i], corpus[i])
  /\ \/ /\ report[r].outcome = "forgotten"
        /\ dirty[r][i].status = "deprecated"
        /\ dirty[r][i].supersededBy = corpus[i].supersededBy
     \/ /\ report[r].outcome = "replaced"
        /\ dirty[r][i].status = "superseded"
        /\ dirty[r][i].supersededBy = report[r].id

PendingOf(r) ==
  \A i \in Ids : Written(r, i) =>
    PendingInsert(r, i) \/ PendingAccess(r, i) \/ PendingRetirement(r, i)

(* Where a session stands tells what it has loaded and flushed.            *)
Staged(r) ==
  /\ pc[r] \notin {"update", "commit"} => Idle(r)
  /\ pc[r] \notin {"update", "commit", "done"} => report[r].outcome = "none"
  /\ pc[r] \in {"new", "select"} => loaded[r] = NoRows
  /\ pc[r] = "update" =>
       /\ job[r].op \in {"remember", "forget"} => Idle(r) /\ report[r].outcome = "none"
       /\ job[r].op = "recall" => report[r].outcome = "recalled"
       /\ job[r].op = "replace" => report[r].outcome = "replaced"
  /\ pc[r] \in {"embed", "insert", "update"} /\ job[r].op \in {"replace", "forget"} =>
       /\ job[r].target \in Ids
       /\ loaded[r][job[r].target].status = "active"
       /\ corpus[job[r].target].status # "absent"

(* What is flushed when a session is about to answer.                      *)
Complete(r) ==
  /\ pc[r] \in {"update", "commit"} /\ report[r].outcome = "replaced" =>
       /\ report[r].id \in Ids /\ Written(r, report[r].id)
       /\ job[r].target \in Ids /\ job[r].target < report[r].id
       /\ corpus[job[r].target].status # "absent"
  /\ pc[r] = "commit" /\ report[r].outcome = "created" =>
       report[r].id \in Ids /\ Written(r, report[r].id)
  /\ pc[r] = "commit" /\ report[r].outcome \in {"replaced", "forgotten"} =>
       job[r].target \in Ids /\ Written(r, job[r].target)

(* A session never picks what was retired before its request came.         *)
Picks(r) ==
  /\ pc[r] = "new" => picked[r] = {}
  /\ \A i \in goneBefore[r] : Retired(i) /\ i \notin picked[r]

(* A duplicate a session names was picked.                                 *)
Names(r) ==
  /\ pc[r] = "select" => job[r].op \in {"replace", "forget"}
  /\ report[r].outcome = "reinforced" => job[r].op = "remember"
  /\ job[r].op = "remember" =>
       /\ want[r] \notin goneBefore[r]
       /\ report[r].outcome \in {"reinforced", "inactive"} => report[r].id \notin goneBefore[r]

(* Only a session at an UPDATE needs a row lock.                           *)
Waits(r) == pc[r] \notin {"update", "consolidate"} => want[r] = NoId

(* Only memories that are there are picked, and named as duplicates.       *)
PicksKnown(s) ==
  /\ picked[s] \subseteq KnownIds
  /\ pc[s] = "update" /\ job[s].op \in {"remember", "recall"} => want[s] \in KnownIds

(* What every step of a session rests on: the shared tables, and what is   *)
(* said of that session alone.                                             *)
TableInv == TypeOK /\ Fresh /\ Exclusive
SessionInv(r) == PendingOf(r) /\ Staged(r) /\ Complete(r)

LockInv == TableInv /\ \A r \in Sessions : SessionInv(r)

(* The invariant: with what the answers and the corpus say of each other.  *)
IInv ==
  /\ LockInv
  /\ LineageSound
  /\ AcknowledgedWritesHold
  /\ OnlyAcknowledgedWrites
  /\ \A r \in Sessions : Picks(r) /\ Names(r) /\ Waits(r) /\ PicksKnown(r)

-----------------------------------------------------------------------------
(* Access counts.  A count is flushed under the row lock: of a recall it   *)
(* is the committed one plus one; of a reinforcement it is a loaded one    *)
(* plus one, and that may be stale, but never too high.  So every completed*)
(* request adds at most one, and a recall exactly one.                     *)

(* The completed requests that touched a memory.                           *)
Touches(i) == Cardinality(RecalledBy(i)) + Cardinality(ReinforcedBy(i))

(* What a flushed row does to the count.                                   *)
CountsRecall(r, i) ==
  /\ report[r].outcome = "recalled" /\ i \in picked[r]
  /\ dirty[r][i].accessCount = corpus[i].accessCount + 1

CountsReinforcement(r, i) ==
  /\ report[r].outcome = "reinforced" /\ i = report[r].id
  /\ dirty[r][i].accessCount <= Touches(i) + 1

CountsNothing(r, i) ==
  /\ report[r].outcome # "recalled"
  /\ \/ dirty[r][i].accessCount = corpus[i].accessCount
     \/ corpus[i].status = "absent" /\ dirty[r][i].accessCount = 0

Counted(r) ==
  /\ \A i \in Ids : loaded[r][i].accessCount <= Touches(i)
  /\ \A i \in Ids : Written(r, i) =>
       CountsRecall(r, i) \/ CountsReinforcement(r, i) \/ CountsNothing(r, i)

(* A recall flushes the memories it picked, all of them before it answers. *)
Marks(r) ==
  /\ report[r].outcome = "recalled" => job[r].op = "recall"
  /\ pc[r] = "update" /\ job[r].op = "recall" => want[r] \in picked[r]
  /\ pc[r] = "commit" /\ report[r].outcome = "recalled" =>
       \A i \in picked[r] : Written(r, i)

(* The committed counts, against the completed requests.                   *)
CountsMatch ==
  \A i \in Ids :
    /\ IsFiniteSet(RecalledBy(i)) /\ IsFiniteSet(ReinforcedBy(i))
    /\ corpus[i].accessCount <= Touches(i)
    /\ ReinforcedBy(i) = {} => corpus[i].accessCount >= Cardinality(RecalledBy(i))

AccessInv == CountsMatch /\ \A r \in Sessions : Counted(r) /\ Marks(r)
=============================================================================
