------------------------ MODULE MemoryRequestsProofs ------------------------
(***************************************************************************)
(* Proofs about MemoryRequests, for any sets of requests, contents and     *)
(* types, any number of rows and any search limits.                        *)
(*                                                                         *)
(* Each action is treated in a lemma of its own, for any session r, so     *)
(* that a module that adds sessions with other steps can cite them.        *)
(***************************************************************************)
EXTENDS MemoryRequestsInvariant, TLAPS

-----------------------------------------------------------------------------
(* Data.                                                                   *)

(* Limited selections select.                                              *)
LEMMA LimitedSubset ==
  ASSUME NEW k, NEW S, NEW T \in Limited(k, S)
  PROVE  T \subseteq S
  BY DEF Limited, kSubset

LEMMA AtMostSubset ==
  ASSUME NEW k, NEW S, NEW T \in AtMost(k, S)
  PROVE  T \subseteq S
  BY DEF AtMost

(* NoRow and new rows are rows.                                            *)
LEMMA RowTypes ==
  /\ NoRow \in Row
  /\ NoRows \in [Ids -> Row]
  /\ \A t \in Types, c \in Contents \cup {Blank} : NewRow(t, c) \in Row
  BY DEF NoRow, NoRows, Row, NewRow, Types, DocumentedTypes, NoId

(* The updates of a row keep it a row.                                     *)
LEMMA RowUpdates ==
  ASSUME NEW row \in Row
  PROVE  /\ \A n \in Nat : [row EXCEPT !.accessCount = n] \in Row
         /\ [row EXCEPT !.status = "deprecated"] \in Row
         /\ \A i \in Ids \cup {NoId} :
              [row EXCEPT !.status = "superseded", !.supersededBy = i] \in Row
  BY DEF Row, RetiredStatuses

(* A SELECT loads rows of the right shape.                                 *)
LEMMA LoadType ==
  ASSUME TypeOK, NEW r \in Sessions, NEW S
  PROVE  Load(r, S) \in [Ids -> Row]
  BY DEF TypeOK, Load

(* What clients submit are jobs.                                           *)
LEMMA SubmittableJobs == Submittable \subseteq Job
  BY DEF Submittable, Job, JobOf, AllOps, KnownIds, Types, DocumentedTypes, DurableTypes

(* Requests are sessions.                                                  *)
LEMMA RequestsAreSessions == Requests \subseteq Sessions
  BY DEF Sessions

-----------------------------------------------------------------------------
(* Type correctness.                                                       *)

LEMMA InitType == Init => TypeOK
<1> SUFFICES ASSUME Init PROVE TypeOK
  OBVIOUS
<1>1. corpus \in [Ids -> Row]
  <2>1. PICK types \in [1 .. InitRows -> StoredTypes], contents \in [1 .. InitRows -> Contents] :
          corpus = [i \in Ids |-> IF i <= InitRows THEN NewRow(types[i], contents[i]) ELSE NoRow]
    BY DEF Init
  <2>2. ASSUME NEW i \in Ids, i <= InitRows PROVE NewRow(types[i], contents[i]) \in Row
    <3>1. i \in 1 .. InitRows
      BY <2>2, RequestsBounds DEF Ids
    <3>2. types[i] \in Types /\ contents[i] \in Contents
      BY <3>1 DEF StoredTypes, Types, DocumentedTypes
    <3> QED BY <3>2, RowTypes
  <2> QED BY <2>1, <2>2, RowTypes
<1>2. nextId \in 1 .. (MaxRows + 1)
  BY RequestsBounds DEF Init
<1>3. NoJob \in Job /\ NoReport \in Report
  BY DEF NoJob, Job, NoReport, Report, Result, Types, DocumentedTypes, DurableTypes
<1> QED BY <1>1, <1>2, <1>3, RowTypes DEF Init, TypeOK, Stages, NoId

(* An answer of a known kind about a memory is a report.                   *)
LEMMA AnswerType ==
  ASSUME TypeOK, NEW r \in Sessions, NEW id \in Ids \cup {NoId},
         NEW outcome \in {"none", "created", "reinforced", "replaced", "forgotten",
                          "not_found", "inactive", "rejected", "recalled"},
         Answer(r, outcome, id)
  PROVE  report' \in [Sessions -> Report]
<1>1. Result(outcome, id) \in Report
  BY DEF Result, Report
<1> QED BY <1>1 DEF TypeOK, Answer

LEMMA RollBackType ==
  ASSUME TypeOK, NEW S, RollBack(S) PROVE TypeOK'
<1>1. NoReport \in Report
  BY DEF NoReport, Report, Result
<1> QED BY <1>1, RowTypes DEF TypeOK, RollBack, Stages

LEMMA ArriveType ==
  ASSUME TypeOK, NEW r \in Sessions, Arrive(r) PROVE TypeOK'
<1>1. PICK j \in Submittable :
        /\ job' = [job EXCEPT ![r] = j]
        /\ Goto(r, FirstStage(j))
        /\ IF FirstStage(j) = "commit" THEN Answer(r, "rejected", NoId) ELSE UNCHANGED report
  BY DEF Arrive
<1>2. j \in Job
  BY SubmittableJobs
<1>3. FirstStage(j) \in Stages
  BY DEF FirstStage, Stages
<1>4. report' \in [Sessions -> Report]
  BY <1>1, AnswerType DEF TypeOK, NoId
<1> QED BY <1>1, <1>2, <1>3, <1>4 DEF Arrive, TypeOK, Goto, KnownIds, ActiveIds

LEMMA SelectTargetType ==
  ASSUME TypeOK, NEW r \in Sessions, SelectTarget(r) PROVE TypeOK'
<1>1. job[r].target \in Ids \cup {NoId}
  BY DEF TypeOK, Job
<1>2. Load(r, {job[r].target}) \in [Ids -> Row]
  BY LoadType
<1>3. pc' \in [Sessions -> Stages]
  BY DEF SelectTarget, TypeOK, Goto, Stages
<1>4. loaded' \in [Sessions -> [Ids -> Row]]
  BY <1>2 DEF SelectTarget, TypeOK
<1>5. want' \in [Sessions -> Ids \cup {NoId}]
  BY <1>1 DEF SelectTarget, TypeOK
<1>6. report' \in [Sessions -> Report]
  BY <1>1, AnswerType DEF SelectTarget, TypeOK, NoId
<1> QED BY <1>3, <1>4, <1>5, <1>6 DEF SelectTarget, TypeOK

LEMMA EmbeddedType ==
  ASSUME TypeOK, NEW r \in Sessions, Embedded(r) PROVE TypeOK'
  BY DEF TypeOK, Embedded, Goto, Stages

LEMMA VectorSearchType ==
  ASSUME TypeOK, NEW r \in Sessions, VectorSearch(r) PROVE TypeOK'
<1>1. PICK S \in AtMost(SearchLimit, ActiveIds) :
        /\ loaded' = [loaded EXCEPT ![r] = Load(r, S)]
        /\ picked' = [picked EXCEPT ![r] = S]
  BY DEF VectorSearch
<1>2. S \subseteq Ids
  BY AtMostSubset DEF ActiveIds
<1> QED BY <1>1, <1>2, LoadType DEF VectorSearch, TypeOK, Goto, Stages

LEMMA LexicalSearchType ==
  ASSUME TypeOK, NEW r \in Sessions, LexicalSearch(r) PROVE TypeOK'
<1>1. PICK S \in AtMost(SearchLimit, ActiveIds) :
        /\ loaded' = [loaded EXCEPT ![r] = Load(r, S)]
        /\ picked' = [picked EXCEPT ![r] = @ \cup S]
  BY DEF LexicalSearch
<1>2. S \subseteq Ids
  BY AtMostSubset DEF ActiveIds
<1> QED BY <1>1, <1>2, LoadType DEF LexicalSearch, TypeOK, Goto, Stages

LEMMA RankRecallType ==
  ASSUME TypeOK, NEW r \in Sessions, RankRecall(r) PROVE TypeOK'
<1>1. PICK T \in Limited(RecallTopK, picked[r]) :
        /\ picked' = [picked EXCEPT ![r] = T]
        /\ \/ T = {} /\ Goto(r, "commit") /\ UNCHANGED want
           \/ (\E i \in T : want' = [want EXCEPT ![r] = i]) /\ Goto(r, "update")
  BY DEF RankRecall
<1>2. T \subseteq Ids
  BY LimitedSubset DEF TypeOK
<1>3. report' \in [Sessions -> Report]
  BY AnswerType DEF RankRecall, NoId
<1>4. want' \in [Sessions -> Ids \cup {NoId}] /\ pc' \in [Sessions -> Stages]
  <2>1. want' \in [Sessions -> Ids \cup {NoId}]
    BY <1>1, <1>2 DEF TypeOK
  <2>2. pc' \in [Sessions -> Stages]
    BY <1>1 DEF TypeOK, Goto, Stages
  <2> QED BY <2>1, <2>2
<1> QED BY <1>1, <1>2, <1>3, <1>4 DEF RankRecall, TypeOK

LEMMA RankRememberType ==
  ASSUME TypeOK, NEW r \in Sessions, RankRemember(r) PROVE TypeOK'
<1>1. PICK T \in Limited(DedupTopK, picked[r]) :
        \E high \in SUBSET T : \E d \in Duplicates(r, T, high) :
          /\ want' = [want EXCEPT ![r] = d]
          /\ Goto(r, IF d = NoId THEN "insert" ELSE "update")
  BY DEF RankRemember
<1>. PICK high \in SUBSET T : \E d \in Duplicates(r, T, high) :
          /\ want' = [want EXCEPT ![r] = d]
          /\ Goto(r, IF d = NoId THEN "insert" ELSE "update")
  BY <1>1
<1>4. PICK d \in Duplicates(r, T, high) :
          /\ want' = [want EXCEPT ![r] = d]
          /\ Goto(r, IF d = NoId THEN "insert" ELSE "update")
  OBVIOUS
<1>2. T \subseteq Ids
  BY <1>1, LimitedSubset DEF TypeOK
<1>3. d \in Ids \cup {NoId}
  BY <1>2 DEF Duplicates
<1> QED BY <1>3, <1>4 DEF RankRemember, TypeOK, Goto, Stages

LEMMA InsertType ==
  ASSUME TypeOK, NEW r \in Sessions, Insert(r) PROVE TypeOK'
<1>1. nextId \in Ids /\ nextId' \in 1 .. (MaxRows + 1)
  BY RequestsBounds DEF Insert, TypeOK, Ids
<1>2. NewRow(job[r].type, job[r].content) \in Row
  BY RowTypes DEF TypeOK, Job
<1>3. dirty' \in [Sessions -> [Ids -> Row]]
  BY <1>1, <1>2 DEF Insert, TypeOK
<1>4. report' \in [Sessions -> Report]
  BY <1>1, AnswerType DEF Insert
<1>5. want' \in [Sessions -> Ids \cup {NoId}]
  BY DEF Insert, TypeOK, Job
<1> QED BY <1>1, <1>3, <1>4, <1>5 DEF Insert, TypeOK, Goto, Stages

(* A flush of one row keeps the shape of the flushed rows.                 *)
LEMMA FlushType ==
  ASSUME TypeOK, NEW r \in Sessions, NEW i, NEW row, i \in Ids => row \in Row,
         dirty' = [dirty EXCEPT ![r][i] = row]
  PROVE  dirty' \in [Sessions -> [Ids -> Row]]
  BY DEF TypeOK

LEMMA ReinforceType ==
  ASSUME TypeOK, NEW r \in Sessions, Reinforce(r) PROVE TypeOK'
<1>1. want[r] \in Ids => Reinforced(r, want[r]) \in Row
  <2> SUFFICES ASSUME want[r] \in Ids PROVE Reinforced(r, want[r]) \in Row
    OBVIOUS
  <2>1. corpus[want[r]] \in Row /\ loaded[r][want[r]].accessCount + 1 \in Nat
    BY DEF TypeOK, Row
  <2> QED BY <2>1, RowUpdates DEF Reinforced
<1>2. dirty' \in [Sessions -> [Ids -> Row]]
  <2>1. CASE loaded[r][want[r]].status = "active"
    BY <1>1, <2>1, FlushType DEF Reinforce
  <2>2. CASE loaded[r][want[r]].status # "active"
    BY <2>2 DEF Reinforce, TypeOK
  <2> QED BY <2>1, <2>2
<1>3. report' \in [Sessions -> Report]
  <2>1. want[r] \in Ids \cup {NoId}
    BY DEF TypeOK
  <2> QED BY <2>1, AnswerType DEF Reinforce
<1> QED BY <1>2, <1>3 DEF Reinforce, TypeOK, Goto, Stages

LEMMA MarkAccessedType ==
  ASSUME TypeOK, NEW r \in Sessions, MarkAccessed(r) PROVE TypeOK'
<1>1. want[r] \in Ids => Accessed(want[r]) \in Row
  <2> SUFFICES ASSUME want[r] \in Ids PROVE Accessed(want[r]) \in Row
    OBVIOUS
  <2>1. corpus[want[r]] \in Row /\ corpus[want[r]].accessCount + 1 \in Nat
    BY DEF TypeOK, Row
  <2> QED BY <2>1, RowUpdates DEF Accessed
<1>2. dirty' \in [Sessions -> [Ids -> Row]]
  BY <1>1, FlushType DEF MarkAccessed
<1>3. want' \in [Sessions -> Ids \cup {NoId}]
  BY DEF MarkAccessed, TypeOK
<1> QED BY <1>2, <1>3 DEF MarkAccessed, TypeOK, Goto, Stages

LEMMA RetireType ==
  ASSUME TypeOK, NEW r \in Sessions, Retire(r) PROVE TypeOK'
<1>1. job[r].target \in Ids => RetiredRow(r) \in Row
  <2> SUFFICES ASSUME job[r].target \in Ids PROVE RetiredRow(r) \in Row
    OBVIOUS
  <2>1. corpus[job[r].target] \in Row /\ report[r].id \in Ids \cup {NoId}
    BY DEF TypeOK, Report
  <2> QED BY <2>1, RowUpdates DEF RetiredRow
<1>2. dirty' \in [Sessions -> [Ids -> Row]]
  <2>1. CASE loaded[r][job[r].target].status = "active"
    BY <1>1, <2>1, FlushType DEF Retire
  <2>2. CASE loaded[r][job[r].target].status # "active"
    BY <2>2 DEF Retire, TypeOK
  <2> QED BY <2>1, <2>2
<1>3. report' \in [Sessions -> Report]
  <2>1. job[r].target \in Ids \cup {NoId}
    BY DEF TypeOK, Job
  <2> QED BY <2>1, AnswerType DEF Retire, TypeOK
<1> QED BY <1>2, <1>3 DEF Retire, TypeOK, Goto, Stages

LEMMA CommitType ==
  ASSUME TypeOK, NEW r \in Sessions, Commit(r) PROVE TypeOK'
<1>1. Merged(r) \in [Ids -> Row]
  BY DEF TypeOK, Merged
<1> QED BY <1>1, RowTypes DEF Commit, TypeOK, Goto, Stages

LEMMA StepType ==
  ASSUME TypeOK, NEW r \in Sessions, Step(r) PROVE TypeOK'
  BY SelectTargetType, EmbeddedType, RollBackType, VectorSearchType, LexicalSearchType,
     RankRecallType, RankRememberType, InsertType, ReinforceType, MarkAccessedType,
     RetireType, CommitType
     DEF Step, EmbeddingFails, DeadlockVictim

(* Every variable keeps its type, whatever the instance.                   *)
THEOREM TypeCorrect == Spec => []TypeOK
<1>1. Init => TypeOK
  BY InitType
<1>2. TypeOK /\ [Next]_vars => TypeOK'
  <2> SUFFICES ASSUME TypeOK, [Next]_vars PROVE TypeOK'
    OBVIOUS
  <2>1. ASSUME NEW r \in Requests, Arrive(r) \/ Step(r) PROVE TypeOK'
    BY <2>1, ArriveType, StepType, RequestsAreSessions
  <2>2. CASE Crash
    BY <2>2, RollBackType DEF Crash
  <2>3. CASE UNCHANGED vars
    BY <2>3 DEF vars, TypeOK
  <2> QED BY <2>1, <2>2, <2>3 DEF Next, Served
<1> QED BY <1>1, <1>2, PTL DEF Spec

-----------------------------------------------------------------------------
(* NoRow is not a written row.                                             *)
LEMMA NoRowsIdle ==
  \A i \in Ids : NoRows[i].status = "absent" /\ NoRow.status = "absent"
  BY DEF NoRows, NoRow

(* The lock invariant.  A step of session r moves only r, and changes the  *)
(* committed version of no row but those r has flushed: what the invariant *)
(* says of the other sessions is framed once for all the steps.            *)

OnlyMoves(r) ==
  \A q \in Sessions \ {r} :
    /\ pc'[q] = pc[q] /\ job'[q] = job[q] /\ report'[q] = report[q]
    /\ loaded'[q] = loaded[q] /\ dirty'[q] = dirty[q]

ChangesOwnRows(r) ==
  \A i \in Ids :
    /\ corpus'[i] = corpus[i] \/ Written(r, i)
    /\ corpus[i].status # "absent" => corpus'[i].status # "absent"

(* What a step of r owes to everybody.                                     *)
LockStep(r) == TableInv' /\ OnlyMoves(r) /\ ChangesOwnRows(r)

(* A row that q has flushed is nobody else's to change.                    *)
LEMMA OthersRows ==
  ASSUME TableInv, NEW r \in Sessions, OnlyMoves(r), ChangesOwnRows(r),
         NEW q \in Sessions, q # r
  PROVE  /\ pc'[q] = pc[q] /\ job'[q] = job[q] /\ report'[q] = report[q]
         /\ loaded'[q] = loaded[q] /\ dirty'[q] = dirty[q]
         /\ \A i \in Ids : Written(q, i)' <=> Written(q, i)
         /\ \A i \in Ids : Written(q, i) => corpus'[i] = corpus[i]
         /\ Idle(q)' <=> Idle(q)
<1>1. /\ pc'[q] = pc[q] /\ job'[q] = job[q] /\ report'[q] = report[q]
      /\ loaded'[q] = loaded[q] /\ dirty'[q] = dirty[q]
  BY DEF OnlyMoves
<1>2. \A i \in Ids : Written(q, i)' <=> Written(q, i)
  BY <1>1 DEF Written
<1>3. \A i \in Ids : Written(q, i) => corpus'[i] = corpus[i]
  BY DEF TableInv, Exclusive, ChangesOwnRows
<1>4. Idle(q)' <=> Idle(q)
  BY <1>2 DEF Idle
<1> QED BY <1>1, <1>2, <1>3, <1>4

LEMMA OthersStand ==
  ASSUME TableInv, NEW r \in Sessions, OnlyMoves(r), ChangesOwnRows(r),
         NEW q \in Sessions, q # r, SessionInv(q)
  PROVE  SessionInv(q)'
<1>1. /\ pc'[q] = pc[q] /\ job'[q] = job[q] /\ report'[q] = report[q]
      /\ loaded'[q] = loaded[q] /\ dirty'[q] = dirty[q]
      /\ \A i \in Ids : Written(q, i)' <=> Written(q, i)
      /\ \A i \in Ids : Written(q, i) => corpus'[i] = corpus[i]
      /\ Idle(q)' <=> Idle(q)
  BY OthersRows
<1>2. PendingOf(q)'
  <2> SUFFICES ASSUME NEW i \in Ids, Written(q, i)'
               PROVE  (PendingInsert(q, i) \/ PendingAccess(q, i) \/ PendingRetirement(q, i))'
    BY DEF PendingOf
  <2>1. PendingInsert(q, i) \/ PendingAccess(q, i) \/ PendingRetirement(q, i)
    BY <1>1 DEF SessionInv, PendingOf
  <2>2. corpus'[i] = corpus[i]
    BY <1>1
  <2> QED BY <1>1, <2>1, <2>2 DEF PendingInsert, PendingAccess, PendingRetirement, SameMemory
<1>3. Staged(q)'
  BY <1>1 DEF SessionInv, Staged, ChangesOwnRows
<1>4. Complete(q)'
  BY <1>1 DEF SessionInv, Complete, ChangesOwnRows
<1> QED BY <1>2, <1>3, <1>4 DEF SessionInv

(* A step that flushes and commits nothing.                                *)
LEMMA QuietTables ==
  ASSUME TableInv, TypeOK', NEW r \in Sessions, OnlyMoves(r),
         UNCHANGED <<corpus, nextId, dirty>>
  PROVE  LockStep(r) /\ \A q \in Sessions, i \in Ids : Written(q, i)' <=> Written(q, i)
<1>1. ChangesOwnRows(r)
  BY DEF ChangesOwnRows
<1>2. \A q \in Sessions, i \in Ids : Written(q, i)' <=> Written(q, i)
  BY DEF Written
<1>3. Fresh' /\ Exclusive'
  BY <1>2 DEF TableInv, Fresh, Exclusive
<1> QED BY <1>1, <1>2, <1>3 DEF TableInv, LockStep

(* The same, of a session that has flushed nothing.                        *)
LEMMA QuietStep ==
  ASSUME TableInv, TypeOK', NEW r \in Sessions, OnlyMoves(r),
         UNCHANGED <<corpus, nextId, dirty>>,
         Idle(r), Staged(r)', Complete(r)'
  PROVE  LockStep(r) /\ SessionInv(r)'
<1>1. LockStep(r) /\ \A i \in Ids : Written(r, i)' <=> Written(r, i)
  BY QuietTables
<1>2. PendingOf(r)'
  BY <1>1 DEF PendingOf, Idle
<1> QED BY <1>1, <1>2 DEF SessionInv

(* A step that flushes row i, which no other session has flushed and which *)
(* is committed or newly drawn.                                            *)
LEMMA FlushStep ==
  ASSUME TableInv, TypeOK', NEW r \in Sessions, OnlyMoves(r), NEW i,
         LockFree(r, i),
         corpus' = corpus, nextId' >= nextId,
         i \in Ids /\ i >= nextId' => ~ Written(r, i)',
         \A j \in Ids : j # i => dirty'[r][j] = dirty[r][j]
  PROVE  LockStep(r)
<1>1. ChangesOwnRows(r)
  BY DEF ChangesOwnRows
<1>2. \A q \in Sessions, j \in Ids : Written(q, j)' => Written(q, j) \/ (q = r /\ j = i)
  BY DEF Written, OnlyMoves
<1>3. Fresh'
  <2> SUFFICES ASSUME NEW j \in Ids, j >= nextId'
               PROVE  /\ corpus'[j].status = "absent"
                      /\ \A q \in Sessions : ~ Written(q, j)'
    BY DEF Fresh
  <2>1. j >= nextId
    BY DEF TableInv, TypeOK, Ids
  <2>2. corpus'[j].status = "absent" /\ \A q \in Sessions : ~ Written(q, j)
    BY <2>1 DEF TableInv, Fresh
  <2> QED BY <1>2, <2>2
<1>4. Exclusive'
  BY <1>2 DEF TableInv, Exclusive, LockFree
<1> QED BY <1>1, <1>3, <1>4 DEF TableInv, LockStep

(* A commit: the flushed rows are the corpus, and their locks are free.    *)
LEMMA CommitStep ==
  ASSUME TableInv, TypeOK', NEW r \in Sessions, Commit(r)
  PROVE  LockStep(r) /\ Idle(r)'
<1>1. /\ TypeOK /\ pc[r] = "commit" /\ corpus' = Merged(r)
      /\ UNCHANGED <<nextId, job, report>>
  BY DEF Commit, TableInv
<1>2. OnlyMoves(r) /\ pc'[r] = "done" /\ dirty'[r] = NoRows
  BY <1>1 DEF Commit, TypeOK, OnlyMoves, Goto
<1>3. \A i \in Ids : corpus'[i] = IF Written(r, i) THEN dirty[r][i] ELSE corpus[i]
  BY <1>1 DEF Merged
<1>4. ChangesOwnRows(r)
  BY <1>3 DEF ChangesOwnRows, Written
<1>5. Idle(r)'
  BY <1>1, <1>2, NoRowsIdle DEF Idle, Written
<1>6. \A q \in Sessions, i \in Ids : Written(q, i)' => Written(q, i) /\ q # r
  BY <1>2, <1>5 DEF Written, OnlyMoves, Idle
<1>7. Fresh'
  BY <1>1, <1>3, <1>6 DEF TableInv, Fresh
<1>8. Exclusive'
  BY <1>6 DEF TableInv, Exclusive
<1> QED BY <1>2, <1>4, <1>5, <1>7, <1>8 DEF TableInv, LockStep

-----------------------------------------------------------------------------
(* LockInv, action by action.                                              *)

LEMMA InitLock == Init => LockInv
<1> SUFFICES ASSUME Init PROVE LockInv
  OBVIOUS
<1>1. \A r \in Sessions, i \in Ids : ~ Written(r, i)
  BY NoRowsIdle DEF Init, Written
<1>2. Fresh
  <2>1. PICK types \in [1 .. InitRows -> StoredTypes], contents \in [1 .. InitRows -> Contents] :
          corpus = [i \in Ids |-> IF i <= InitRows THEN NewRow(types[i], contents[i]) ELSE NoRow]
    BY Zenon DEF Init
  <2>2. \A i \in Ids : i >= nextId => ~ (i <= InitRows)
    BY RequestsBounds DEF Init, Ids
  <2> QED BY <1>1, <2>1, <2>2, NoRowsIdle DEF Fresh
<1>3. \A r \in Sessions : Staged(r) /\ Complete(r)
  <2>1. \A r \in Sessions : /\ pc[r] = "new" /\ loaded[r] = NoRows /\ Idle(r)
                            /\ report[r].outcome = "none"
    BY <1>1 DEF Init, Idle, NoReport, Result
  <2> QED BY <2>1 DEF Staged, Complete
<1> QED BY <1>1, <1>2, <1>3, InitType DEF LockInv, TableInv, SessionInv, Exclusive, PendingOf

LEMMA ArriveLock ==
  ASSUME TableInv, NEW r \in Sessions, SessionInv(r), Arrive(r)
  PROVE  LockStep(r) /\ SessionInv(r)'
<1>1. PICK j \in Submittable :
        /\ job' = [job EXCEPT ![r] = j]
        /\ Goto(r, FirstStage(j))
        /\ IF FirstStage(j) = "commit" THEN Answer(r, "rejected", NoId) ELSE UNCHANGED report
  BY DEF Arrive
<1>2. /\ TypeOK /\ TypeOK' /\ Idle(r) /\ pc[r] = "new"
      /\ loaded[r] = NoRows /\ UNCHANGED <<corpus, nextId, loaded, dirty>>
  BY ArriveType DEF Arrive, TableInv, SessionInv, Staged
<1>3. OnlyMoves(r)
  BY <1>1, <1>2 DEF TypeOK, OnlyMoves, Goto, Answer
<1>4. pc'[r] = FirstStage(j) /\ job'[r] = j
  BY <1>1, <1>2 DEF TypeOK, Goto
<1>5. /\ FirstStage(j) \in {"select", "commit", "failed", "embed"}
      /\ FirstStage(j) = "embed" => j.op \notin {"replace", "forget"}
  BY DEF FirstStage
<1>6. FirstStage(j) = "commit" => report'[r].outcome = "rejected"
  BY <1>1, <1>2 DEF TypeOK, Answer, Result
<1>7. Idle(r)'
  BY <1>2 DEF Idle, Written
<1>8. FirstStage(j) # "commit" => report'[r].outcome = "none"
  BY <1>1, <1>2 DEF TableInv, SessionInv, Staged
<1>9. Staged(r)' /\ Complete(r)'
  BY <1>2, <1>4, <1>5, <1>6, <1>7, <1>8 DEF Staged, Complete
<1> QED BY <1>2, <1>3, <1>9, QuietStep

LEMMA SelectTargetLock ==
  ASSUME TableInv, NEW r \in Sessions, SessionInv(r), SelectTarget(r)
  PROVE  LockStep(r) /\ SessionInv(r)'
<1> DEFINE t == job[r].target
<1>1. /\ TypeOK /\ TypeOK' /\ Idle(r) /\ pc[r] = "select"
      /\ loaded[r] = NoRows /\ UNCHANGED <<corpus, nextId, job, dirty>>
  BY SelectTargetType DEF SelectTarget, TableInv, SessionInv, Staged
<1>2. OnlyMoves(r)
  BY <1>1 DEF SelectTarget, TypeOK, OnlyMoves, Goto, Answer
<1>3. Idle(r)'
  BY <1>1 DEF Idle, Written
<1>4. Staged(r)' /\ Complete(r)'
  <2>1. CASE t \notin ActiveIds
    <3>1. pc'[r] = "commit" /\ report'[r].outcome \in {"inactive", "not_found"}
      BY <1>1, <2>1 DEF SelectTarget, TypeOK, Goto, Answer, Result
    <3> QED BY <1>3, <3>1 DEF Staged, Complete
  <2>2. CASE t \in ActiveIds
    <3>1. t \in Ids /\ corpus[t].status = "active"
      BY <2>2 DEF ActiveIds
    <3>2. loaded'[r][t].status = "active"
      <4>1. loaded'[r] = Load(r, {t})
        BY <1>1, <2>2 DEF SelectTarget, TypeOK
      <4>2. Load(r, {t})[t] = corpus[t]
        BY <1>1, <3>1 DEF Load, NoRows
      <4> QED BY <3>1, <4>1, <4>2
    <3>3. \/ pc'[r] = "update" /\ job[r].op = "forget"
          \/ pc'[r] = "commit" /\ report'[r].outcome = "rejected"
          \/ pc'[r] = "embed"
      BY <1>1, <2>2 DEF SelectTarget, TypeOK, Goto, Answer, Result
    <3>4. pc'[r] # "commit" => report'[r].outcome = "none"
      <4>1. report[r].outcome = "none"
        BY <1>1 DEF TableInv, SessionInv, Staged
      <4> QED BY <1>1, <2>2, <3>3, <4>1 DEF SelectTarget, TypeOK, Goto
    <3> QED BY <1>1, <1>3, <3>1, <3>2, <3>3, <3>4 DEF Staged, Complete
  <2> QED BY <2>1, <2>2
<1> QED BY <1>1, <1>2, <1>4, QuietStep

LEMMA EmbeddedLock ==
  ASSUME TableInv, NEW r \in Sessions, SessionInv(r), Embedded(r)
  PROVE  LockStep(r) /\ SessionInv(r)'
<1>1. /\ TypeOK /\ TypeOK' /\ Idle(r) /\ pc[r] = "embed" /\ report[r].outcome = "none"
      /\ UNCHANGED <<corpus, nextId, job, loaded, dirty, report>>
  BY EmbeddedType DEF Embedded, TableInv, SessionInv, Staged
<1>2. OnlyMoves(r) /\ Idle(r)'
  BY <1>1 DEF Embedded, TypeOK, OnlyMoves, Goto, Idle, Written
<1>3. pc'[r] \in {"vector", "insert"}
  BY <1>1 DEF Embedded, TypeOK, Goto
<1>4. Staged(r)
  BY DEF TableInv, SessionInv
<1>5. Staged(r)' /\ Complete(r)'
  BY <1>1, <1>2, <1>3, <1>4 DEF Staged, Complete
<1> QED BY <1>1, <1>2, <1>5, QuietStep

LEMMA VectorSearchLock ==
  ASSUME TableInv, NEW r \in Sessions, SessionInv(r), VectorSearch(r)
  PROVE  LockStep(r) /\ SessionInv(r)'
<1>1. /\ TypeOK /\ TypeOK' /\ Idle(r) /\ pc[r] = "vector" /\ report[r].outcome = "none"
      /\ UNCHANGED <<corpus, nextId, job, dirty, report>>
  BY VectorSearchType DEF VectorSearch, TableInv, SessionInv, Staged
<1>2. OnlyMoves(r) /\ Idle(r)' /\ pc'[r] = "lexical"
  BY <1>1 DEF VectorSearch, TypeOK, OnlyMoves, Goto, Idle, Written
<1>3. Staged(r)' /\ Complete(r)'
  BY <1>1, <1>2 DEF Staged, Complete
<1> QED BY <1>1, <1>2, <1>3, QuietStep

LEMMA LexicalSearchLock ==
  ASSUME TableInv, NEW r \in Sessions, SessionInv(r), LexicalSearch(r)
  PROVE  LockStep(r) /\ SessionInv(r)'
<1>1. /\ TypeOK /\ TypeOK' /\ Idle(r) /\ pc[r] = "lexical" /\ report[r].outcome = "none"
      /\ UNCHANGED <<corpus, nextId, job, dirty, report>>
  BY LexicalSearchType DEF LexicalSearch, TableInv, SessionInv, Staged
<1>2. OnlyMoves(r) /\ Idle(r)' /\ pc'[r] = "rerank"
  BY <1>1 DEF LexicalSearch, TypeOK, OnlyMoves, Goto, Idle, Written
<1>3. Staged(r)' /\ Complete(r)'
  BY <1>1, <1>2 DEF Staged, Complete
<1> QED BY <1>1, <1>2, <1>3, QuietStep

LEMMA RankRecallLock ==
  ASSUME TableInv, NEW r \in Sessions, SessionInv(r), RankRecall(r)
  PROVE  LockStep(r) /\ SessionInv(r)'
<1>1. /\ TypeOK /\ TypeOK' /\ Idle(r) /\ pc[r] = "rerank" /\ job[r].op = "recall"
      /\ UNCHANGED <<corpus, nextId, job, loaded, dirty>>
  BY RankRecallType DEF RankRecall, TableInv, SessionInv, Staged
<1>2. OnlyMoves(r) /\ Idle(r)'
  BY <1>1 DEF RankRecall, TypeOK, OnlyMoves, Goto, Answer, Idle, Written
<1>3. pc'[r] \in {"update", "commit"} /\ report'[r].outcome = "recalled"
  BY <1>1 DEF RankRecall, TypeOK, Goto, Answer, Result
<1>4. Staged(r)' /\ Complete(r)'
  BY <1>1, <1>2, <1>3 DEF Staged, Complete
<1> QED BY <1>1, <1>2, <1>4, QuietStep

LEMMA RankRememberLock ==
  ASSUME TableInv, NEW r \in Sessions, SessionInv(r), RankRemember(r)
  PROVE  LockStep(r) /\ SessionInv(r)'
<1>1. /\ TypeOK /\ TypeOK' /\ Idle(r) /\ pc[r] = "rerank" /\ job[r].op = "remember"
      /\ report[r].outcome = "none"
      /\ UNCHANGED <<corpus, nextId, job, loaded, dirty, report>>
  BY RankRememberType DEF RankRemember, TableInv, SessionInv, Staged
<1>2. OnlyMoves(r) /\ Idle(r)'
  BY <1>1 DEF RankRemember, TypeOK, OnlyMoves, Goto, Idle, Written
<1>3. pc'[r] \in {"insert", "update"}
  BY <1>1 DEF RankRemember, TypeOK, Goto
<1>4. Staged(r)' /\ Complete(r)'
  BY <1>1, <1>2, <1>3 DEF Staged, Complete
<1> QED BY <1>1, <1>2, <1>4, QuietStep

LEMMA InsertLock ==
  ASSUME TableInv, NEW r \in Sessions, SessionInv(r), Insert(r)
  PROVE  LockStep(r) /\ SessionInv(r)'
<1> PICK n : n = nextId
  OBVIOUS
<1> DEFINE row == NewRow(job[r].type, job[r].content)
<1>0. TypeOK /\ TypeOK' /\ Staged(r)
  BY InsertType DEF TableInv, SessionInv
<1>1. /\ Idle(r) /\ pc[r] = "insert" /\ report[r].outcome = "none"
      /\ UNCHANGED <<corpus, job, loaded>> /\ nextId' = n + 1
      /\ n \in Ids
  <2>1. n \in Ids
    BY <1>0, RequestsBounds DEF Insert, TypeOK, Ids
  <2> QED BY <1>0, <2>1 DEF Insert, Staged
<1>2. OnlyMoves(r)
  BY <1>0, <1>1 DEF Insert, TypeOK, OnlyMoves, Goto, Answer
<1>3. LockFree(r, n) /\ corpus[n].status = "absent"
  BY <1>0, <1>1 DEF TableInv, SessionInv, Fresh, LockFree, TypeOK, Ids
<1>4. dirty'[r] = [dirty[r] EXCEPT ![n] = row]
  BY <1>0, <1>1 DEF Insert, TypeOK
<1>5. dirty'[r][n] = row /\ \A j \in Ids : j # n => dirty'[r][j] = dirty[r][j]
  BY <1>0, <1>1, <1>4 DEF TypeOK
<1>6. /\ row.status = "active" /\ row.supersededBy = NoId
      /\ SameMemory(row, job[r])
  BY DEF NewRow, SameMemory
<1>7. /\ report'[r].id = n
      /\ \/ report'[r].outcome = "created" /\ pc'[r] = "commit"
         \/ report'[r].outcome = "replaced" /\ pc'[r] = "update" /\ job[r].op = "replace"
  BY <1>0, <1>1 DEF Insert, TypeOK, Answer, Result, Goto
<1>8. \A j \in Ids : Written(r, j)' <=> j = n
  BY <1>0, <1>1, <1>5, <1>6 DEF Written, Idle
<1>9. PendingOf(r)'
  <2>1. PendingInsert(r, n)'
    BY <1>0, <1>1, <1>3, <1>5, <1>6, <1>7 DEF PendingInsert, SameMemory
  <2> QED BY <1>8, <2>1 DEF PendingOf
<1>10. Staged(r)'
  BY <1>0, <1>1, <1>7 DEF Staged
<1>11. Complete(r)'
  <2>1. CASE report'[r].outcome = "created"
    BY <1>0, <1>1, <1>7, <1>8, <2>1 DEF Complete
  <2>2. CASE report'[r].outcome = "replaced"
    <3>1. job[r].target \in Ids /\ corpus[job[r].target].status # "absent"
      BY <1>0, <1>1, <1>7, <2>2 DEF Staged
    <3>2. job[r].target < n
      BY <1>0, <1>1, <3>1 DEF TableInv, SessionInv, Fresh, TypeOK, Ids
    <3> QED BY <1>0, <1>1, <1>7, <1>8, <2>2, <3>1, <3>2 DEF Complete
  <2> QED BY <1>7, <2>1, <2>2
<1>12. nextId' >= nextId /\ ~ (n >= nextId')
  BY <1>0, <1>1 DEF TypeOK
<1> QED BY <1>0, <1>1, <1>2, <1>3, <1>5, <1>9, <1>10, <1>11, <1>12, FlushStep DEF SessionInv

LEMMA ReinforceLock ==
  ASSUME TableInv, NEW r \in Sessions, SessionInv(r), Reinforce(r)
  PROVE  LockStep(r) /\ SessionInv(r)'
<1> PICK d : d = want[r]
  OBVIOUS
<1>1. /\ TypeOK /\ TypeOK' /\ pc[r] = "update" /\ job[r].op = "remember"
      /\ Idle(r) /\ UNCHANGED <<corpus, nextId, job, loaded>>
      /\ LockFree(r, d)
  BY ReinforceType DEF Reinforce, TableInv, SessionInv, Staged
<1>2. OnlyMoves(r)
  BY <1>1 DEF Reinforce, TypeOK, OnlyMoves, Goto, Answer
<1>3. pc'[r] = "commit" /\ report'[r].outcome \in {"reinforced", "inactive"}
  BY <1>1 DEF Reinforce, TypeOK, Goto, Answer, Result
<1>4. Staged(r)' /\ Complete(r)'
  BY <1>3 DEF Staged, Complete
<1>5. CASE loaded[r][d].status # "active"
  <2>1. UNCHANGED dirty /\ Idle(r)'
    BY <1>1, <1>5 DEF Reinforce, Idle, Written
  <2> QED BY <1>1, <1>2, <1>4, <2>1, QuietStep
<1>6. CASE loaded[r][d].status = "active"
  <2>1. dirty'[r] = [dirty[r] EXCEPT ![d] = Reinforced(r, d)] /\ report'[r].outcome = "reinforced"
    BY <1>1, <1>6 DEF Reinforce, TypeOK, Answer, Result
  <2>2. \A j \in Ids : j # d => dirty'[r][j] = dirty[r][j]
    BY <1>1, <2>1 DEF TypeOK
  <2>3. d \in Ids => /\ dirty'[r][d].status = corpus[d].status
                     /\ dirty'[r][d].supersededBy = corpus[d].supersededBy
                     /\ SameMemory(dirty'[r][d], corpus[d])
    BY <1>1, <2>1 DEF TypeOK, Reinforced, SameMemory, Row
  <2>4. PendingOf(r)'
    BY <1>1, <2>1, <2>2, <2>3 DEF PendingOf, PendingAccess, Written, Idle, SameMemory
  <2>5. d \in Ids /\ d >= nextId' => ~ Written(r, d)'
    BY <1>1, <2>3 DEF TableInv, SessionInv, Fresh, Written
  <2>6. nextId' >= nextId
    BY <1>1 DEF TypeOK
  <2> QED BY <1>1, <1>2, <1>4, <2>2, <2>4, <2>5, <2>6, FlushStep DEF SessionInv
<1> QED BY <1>5, <1>6

LEMMA MarkAccessedLock ==
  ASSUME TableInv, NEW r \in Sessions, SessionInv(r), MarkAccessed(r)
  PROVE  LockStep(r) /\ SessionInv(r)'
<1> PICK d : d = want[r]
  OBVIOUS
<1>1. /\ TypeOK /\ TypeOK' /\ pc[r] = "update" /\ job[r].op = "recall"
      /\ report[r].outcome = "recalled"
      /\ UNCHANGED <<corpus, nextId, job, loaded, report>>
      /\ LockFree(r, d)
  BY MarkAccessedType DEF MarkAccessed, TableInv, SessionInv, Staged
<1>2. OnlyMoves(r)
  BY <1>1 DEF MarkAccessed, TypeOK, OnlyMoves, Goto
<1>3. pc'[r] \in {"update", "commit"}
  BY <1>1 DEF MarkAccessed, TypeOK, Goto
<1>4. Staged(r)' /\ Complete(r)'
  BY <1>1, <1>3 DEF Staged, Complete
<1>5. dirty'[r] = [dirty[r] EXCEPT ![d] = Accessed(d)]
  BY <1>1 DEF MarkAccessed, TypeOK
<1>6. \A j \in Ids : j # d => dirty'[r][j] = dirty[r][j]
  BY <1>1, <1>5 DEF TypeOK
<1>7. d \in Ids => /\ dirty'[r][d].status = corpus[d].status
                   /\ dirty'[r][d].supersededBy = corpus[d].supersededBy
                   /\ SameMemory(dirty'[r][d], corpus[d])
  BY <1>1, <1>5 DEF TypeOK, Accessed, SameMemory, Row
<1>8. PendingOf(r)'
  <2> SUFFICES ASSUME NEW j \in Ids, Written(r, j)'
               PROVE  (PendingInsert(r, j) \/ PendingAccess(r, j) \/ PendingRetirement(r, j))'
    BY DEF PendingOf
  <2>1. CASE j = d
    BY <1>1, <1>7, <2>1 DEF PendingAccess, Written, SameMemory
  <2>2. CASE j # d
    <3>1. Written(r, j) /\ dirty'[r][j] = dirty[r][j]
      BY <1>6, <2>2 DEF Written
    <3>2. PendingInsert(r, j) \/ PendingAccess(r, j) \/ PendingRetirement(r, j)
      BY <3>1 DEF SessionInv, PendingOf
    <3> QED BY <1>1, <3>1, <3>2 DEF PendingInsert, PendingAccess, PendingRetirement, SameMemory
  <2> QED BY <2>1, <2>2
<1>9. d \in Ids /\ d >= nextId' => ~ Written(r, d)'
  BY <1>1, <1>7 DEF TableInv, SessionInv, Fresh, Written
<1>10. nextId' >= nextId
  BY <1>1 DEF TypeOK
<1> QED BY <1>1, <1>2, <1>4, <1>6, <1>8, <1>9, <1>10, FlushStep DEF SessionInv

(* What update_memory_status flushes.                                      *)
LEMMA RetiredRowFields ==
  ASSUME TypeOK, NEW r \in Sessions, job[r].target \in Ids
  PROVE  /\ SameMemory(RetiredRow(r), corpus[job[r].target])
         /\ job[r].op = "forget" =>
              /\ RetiredRow(r).status = "deprecated"
              /\ RetiredRow(r).supersededBy = corpus[job[r].target].supersededBy
         /\ job[r].op = "replace" =>
              /\ RetiredRow(r).status = "superseded"
              /\ RetiredRow(r).supersededBy = report[r].id
<1>1. corpus[job[r].target] \in Row
  BY DEF TypeOK
<1>2. CASE job[r].op = "forget"
  BY <1>1, <1>2 DEF RetiredRow, SameMemory, Row
<1>3. CASE job[r].op # "forget"
  BY <1>1, <1>3 DEF RetiredRow, SameMemory, Row
<1> QED BY <1>2, <1>3

LEMMA RetireLock ==
  ASSUME TableInv, NEW r \in Sessions, SessionInv(r), Retire(r)
  PROVE  LockStep(r) /\ SessionInv(r)'
<1> DEFINE t == job[r].target
           row == RetiredRow(r)
<1>1. /\ TypeOK /\ TypeOK' /\ pc[r] = "update" /\ job[r].op \in {"replace", "forget"}
      /\ UNCHANGED <<corpus, nextId, job, loaded>> /\ LockFree(r, t)
      /\ Staged(r) /\ Complete(r)
  BY RetireType DEF Retire, TableInv, SessionInv
<1>2. t \in Ids /\ corpus[t].status # "absent" /\ dirty' = [dirty EXCEPT ![r][t] = row]
  BY <1>1 DEF Staged, Retire
<1>3. OnlyMoves(r) /\ pc'[r] = "commit"
  BY <1>1, <1>2 DEF Retire, TypeOK, OnlyMoves, Goto, Answer
<1>4. dirty'[r][t] = row /\ \A j \in Ids : j # t => dirty'[r][j] = dirty[r][j]
  BY <1>1, <1>2 DEF TypeOK
<1>5. /\ job[r].op = "forget" => Idle(r) /\ report'[r].outcome = "forgotten"
      /\ job[r].op = "replace" => report'[r] = report[r] /\ report[r].outcome = "replaced"
  BY <1>1 DEF Retire, Staged, TypeOK, Answer, Result
<1>6. PendingRetirement(r, t)'
  BY <1>1, <1>2, <1>4, <1>5, RetiredRowFields DEF PendingRetirement, SameMemory
<1>7. row.status # "absent"
  BY <1>1, <1>2, RetiredRowFields
<1>8. PendingOf(r)'
  <2> SUFFICES ASSUME NEW j \in Ids, Written(r, j)'
               PROVE  (PendingInsert(r, j) \/ PendingAccess(r, j) \/ PendingRetirement(r, j))'
    BY DEF PendingOf
  <2>1. CASE j = t
    BY <1>1, <1>6, <2>1
  <2>2. CASE j # t
    <3>1. Written(r, j) /\ dirty'[r][j] = dirty[r][j]
      BY <1>4, <2>2 DEF Written
    <3>2. report'[r] = report[r]
      BY <1>1, <1>5, <3>1 DEF Idle
    <3>3. PendingInsert(r, j) \/ PendingAccess(r, j) \/ PendingRetirement(r, j)
      BY <3>1 DEF SessionInv, PendingOf
    <3> QED BY <1>1, <3>1, <3>2, <3>3 DEF PendingInsert, PendingAccess, PendingRetirement, SameMemory
  <2> QED BY <2>1, <2>2
<1>9. Staged(r)'
  BY <1>3 DEF Staged
<1>10. Complete(r)'
  <2>1. Written(r, t)'
    BY <1>1, <1>4, <1>7 DEF Written
  <2>2. CASE job[r].op = "forget"
    BY <1>1, <1>2, <1>3, <1>5, <2>1, <2>2 DEF Complete
  <2>3. CASE job[r].op = "replace"
    <3>1. /\ report[r].id \in Ids /\ Written(r, report[r].id) /\ t < report[r].id
      BY <1>1, <1>5, <2>3 DEF Complete
    <3>2. report[r].id # t
      BY <1>2, <3>1 DEF Ids
    <3>3. Written(r, report[r].id)'
      BY <1>4, <1>5, <2>3, <3>1, <3>2 DEF Written
    <3> QED BY <1>1, <1>2, <1>3, <1>5, <2>1, <2>3, <3>1, <3>3 DEF Complete
  <2> QED BY <1>1, <2>2, <2>3
<1>11. ~ (t >= nextId')
  BY <1>1, <1>2 DEF TableInv, SessionInv, Fresh
<1>12. nextId' >= nextId
  BY <1>1 DEF TypeOK
<1> QED
  <2> PICK i : i = t
    OBVIOUS
  <2> QED BY <1>1, <1>3, <1>4, <1>8, <1>9, <1>10, <1>11, <1>12, FlushStep DEF SessionInv

LEMMA CommitLock ==
  ASSUME TableInv, NEW r \in Sessions, Commit(r)
  PROVE  LockStep(r) /\ SessionInv(r)'
<1>1. TypeOK /\ TypeOK'
  BY CommitType DEF TableInv
<1>2. LockStep(r) /\ Idle(r)' /\ pc'[r] = "done"
  BY <1>1, CommitStep DEF Commit, TypeOK, Goto
<1>3. PendingOf(r)' /\ Staged(r)' /\ Complete(r)'
  BY <1>2 DEF PendingOf, Staged, Complete, Idle
<1> QED BY <1>2, <1>3 DEF SessionInv

LEMMA RollBackLock ==
  ASSUME TableInv, NEW S, RollBack(S)
  PROVE  /\ TableInv'
         /\ \A q \in Sessions : q \in S \/ SessionInv(q) => SessionInv(q)'
<1>1. TypeOK /\ TypeOK' /\ UNCHANGED <<corpus, nextId, job>>
  BY RollBackType DEF RollBack, TableInv
<1>2. ASSUME NEW q \in Sessions, q \in S
      PROVE  Idle(q)' /\ PendingOf(q)' /\ Staged(q)' /\ Complete(q)'
  <2>1. /\ pc'[q] = "failed" /\ loaded'[q] = NoRows /\ dirty'[q] = NoRows
        /\ report'[q].outcome = "none"
    BY <1>1, <1>2 DEF RollBack, TypeOK, NoReport, Result
  <2>2. Idle(q)'
    BY <2>1, NoRowsIdle DEF Idle, Written
  <2> QED BY <2>1, <2>2 DEF PendingOf, Idle, Staged, Complete
<1>3. ASSUME NEW q \in Sessions, q \notin S
      PROVE  /\ pc'[q] = pc[q] /\ loaded'[q] = loaded[q] /\ dirty'[q] = dirty[q]
             /\ report'[q] = report[q]
  BY <1>1, <1>3 DEF RollBack, TypeOK
<1>4. \A q \in Sessions, i \in Ids : Written(q, i)' => Written(q, i)
  BY <1>2, <1>3 DEF Idle, Written
<1>5. Fresh' /\ Exclusive'
  BY <1>1, <1>4 DEF TableInv, Fresh, Exclusive
<1>6. ASSUME NEW q \in Sessions, q \notin S, SessionInv(q)
      PROVE  PendingOf(q)' /\ Staged(q)' /\ Complete(q)'
  <2>1. \A i \in Ids : Written(q, i)' <=> Written(q, i)
    BY <1>3, <1>6 DEF Written
  <2>2. PendingOf(q) /\ Staged(q) /\ Complete(q)
    BY <1>6 DEF SessionInv
  <2>3. PendingOf(q)'
    BY <1>1, <1>3, <1>6, <2>1, <2>2
       DEF PendingOf, PendingInsert, PendingAccess, PendingRetirement, SameMemory
  <2>4. Staged(q)'
    BY <1>1, <1>3, <1>6, <2>1, <2>2 DEF Staged, Idle
  <2>5. Complete(q)'
    BY <1>1, <1>3, <1>6, <2>1, <2>2 DEF Complete
  <2> QED BY <2>3, <2>4, <2>5
<1> QED BY <1>1, <1>2, <1>5, <1>6 DEF TableInv, SessionInv

(* One session alone is rolled back.                                       *)
LEMMA FailureLock ==
  ASSUME TableInv, NEW r \in Sessions, RollBack({r})
  PROVE  LockStep(r) /\ SessionInv(r)'
<1>1. TableInv' /\ SessionInv(r)'
  BY RollBackLock
<1>2. OnlyMoves(r) /\ ChangesOwnRows(r)
  BY DEF RollBack, TableInv, TypeOK, OnlyMoves, ChangesOwnRows
<1> QED BY <1>1, <1>2 DEF LockStep

LEMMA StepLock ==
  ASSUME TableInv, NEW r \in Sessions, SessionInv(r), Step(r)
  PROVE  LockStep(r) /\ SessionInv(r)'
  BY SelectTargetLock, EmbeddedLock, FailureLock, VectorSearchLock, LexicalSearchLock,
     RankRecallLock, RankRememberLock, InsertLock, ReinforceLock, MarkAccessedLock,
     RetireLock, CommitLock
     DEF Step, EmbeddingFails, DeadlockVictim

LEMMA StutterLock ==
  ASSUME UNCHANGED vars
  PROVE  /\ TableInv => TableInv'
         /\ \A r \in Sessions : SessionInv(r) => SessionInv(r)'
<1>1. TableInv => TableInv'
  BY DEF vars, TableInv, TypeOK, Fresh, Exclusive, Written
<1>2. ASSUME NEW r \in Sessions, SessionInv(r) PROVE SessionInv(r)'
  BY <1>2 DEF vars, SessionInv, PendingOf, PendingInsert, PendingAccess,
         PendingRetirement, SameMemory, Staged, Complete, Idle, Written
<1> QED BY <1>1, <1>2

LEMMA NextLock == LockInv /\ [Next]_vars => LockInv'
<1> SUFFICES ASSUME LockInv, [Next]_vars PROVE LockInv'
  OBVIOUS
<1>1. ASSUME NEW r \in Requests, Arrive(r) \/ Step(r) PROVE LockInv'
  <2>1. r \in Sessions /\ TableInv /\ \A q \in Sessions : SessionInv(q)
    BY RequestsAreSessions DEF LockInv
  <2>2. LockStep(r) /\ SessionInv(r)'
    BY <1>1, <2>1, ArriveLock, StepLock
  <2>3. \A q \in Sessions : SessionInv(q)'
    BY <2>1, <2>2, OthersStand DEF LockStep
  <2> QED BY <2>2, <2>3 DEF LockInv, LockStep
<1>2. CASE Crash
  BY <1>2, RollBackLock DEF Crash, LockInv
<1>3. CASE UNCHANGED vars
  BY <1>3, StutterLock DEF LockInv
<1> QED BY <1>1, <1>2, <1>3 DEF Next, Served

(* The lock invariant holds throughout.                                    *)
LEMMA LockInvariant == Spec => []LockInv
  BY InitLock, NextLock, PTL DEF Spec

-----------------------------------------------------------------------------
(* Refinement: a commit is one step of CorpusLifecycle, any other step is  *)
(* none.                                                                   *)

(* What a commit does to the corpus, by what is going to be answered.      *)

LEMMA CommitWrites ==
  ASSUME TableInv, NEW r \in Sessions, SessionInv(r), Commit(r), NEW i \in Ids
  PROVE  /\ ~ Written(r, i) => corpus'[i] = corpus[i]
         /\ Written(r, i) => /\ corpus'[i] = dirty[r][i]
                             /\ PendingInsert(r, i) \/ PendingAccess(r, i) \/ PendingRetirement(r, i)
  BY DEF Commit, Merged, SessionInv, PendingOf

LEMMA CommitCreated ==
  ASSUME TableInv, NEW r \in Sessions, SessionInv(r), Commit(r), report[r].outcome = "created"
  PROVE  LET n == report[r].id IN
         /\ n \in Ids
         /\ corpus[n].status = "absent" /\ corpus'[n].status = "active"
         /\ corpus'[n].supersededBy = NoId
         /\ SameMemory(corpus'[n], job[r])
         /\ \A i \in Ids \ {n} : corpus'[i] = corpus[i]
<1> DEFINE n == report[r].id
<1>1. n \in Ids /\ Written(r, n)
  BY DEF TableInv, SessionInv, Complete, Commit
<1>2. ASSUME NEW i \in Ids, Written(r, i)
      PROVE  PendingInsert(r, i) /\ i = n /\ corpus'[i] = dirty[r][i]
  BY <1>2, CommitWrites DEF PendingInsert, PendingAccess, PendingRetirement
<1>3. \A i \in Ids \ {n} : corpus'[i] = corpus[i]
  BY <1>2, CommitWrites
<1>4. PendingInsert(r, n) /\ corpus'[n] = dirty[r][n]
  BY <1>1, <1>2
<1> QED BY <1>1, <1>3, <1>4 DEF PendingInsert, SameMemory

LEMMA CommitReplaced ==
  ASSUME TableInv, NEW r \in Sessions, SessionInv(r), Commit(r), report[r].outcome = "replaced"
  PROVE  LET n == report[r].id
             t == job[r].target IN
         /\ n \in Ids /\ t \in Ids /\ t < n
         /\ corpus[n].status = "absent" /\ corpus'[n].status = "active"
         /\ corpus'[n].supersededBy = NoId
         /\ SameMemory(corpus'[n], job[r])
         /\ corpus[t].status # "absent" /\ corpus'[t].status = "superseded"
         /\ corpus'[t].supersededBy = n
         /\ SameMemory(corpus'[t], corpus[t])
         /\ \A i \in Ids \ {n, t} : corpus'[i] = corpus[i]
<1> DEFINE n == report[r].id
           t == job[r].target
<1>1. n \in Ids /\ Written(r, n) /\ t \in Ids /\ Written(r, t) /\ t < n
  BY DEF TableInv, SessionInv, Complete, Commit
<1>2. n # t
  BY <1>1 DEF Ids
<1>3. ASSUME NEW i \in Ids, Written(r, i)
      PROVE  /\ \/ PendingInsert(r, i) /\ i = n
                \/ PendingRetirement(r, i) /\ i = t
             /\ corpus'[i] = dirty[r][i]
  BY <1>3, CommitWrites DEF PendingInsert, PendingAccess, PendingRetirement
<1>4. \A i \in Ids \ {n, t} : corpus'[i] = corpus[i]
  BY <1>3, CommitWrites
<1>5. PendingInsert(r, n) /\ corpus'[n] = dirty[r][n]
  BY <1>1, <1>2, <1>3
<1>6. PendingRetirement(r, t) /\ corpus'[t] = dirty[r][t]
  BY <1>1, <1>2, <1>3
<1>7. /\ corpus[n].status = "absent" /\ corpus'[n].status = "active"
      /\ corpus'[n].supersededBy = NoId /\ SameMemory(corpus'[n], job[r])
  BY <1>5 DEF PendingInsert, SameMemory
<1>8. /\ corpus[t].status # "absent" /\ corpus'[t].status = "superseded"
      /\ corpus'[t].supersededBy = n /\ SameMemory(corpus'[t], corpus[t])
  BY <1>6 DEF PendingRetirement, SameMemory
<1> QED BY <1>1, <1>4, <1>7, <1>8

LEMMA CommitForgotten ==
  ASSUME TableInv, NEW r \in Sessions, SessionInv(r), Commit(r), report[r].outcome = "forgotten"
  PROVE  LET t == job[r].target IN
         /\ t \in Ids
         /\ corpus[t].status # "absent" /\ corpus'[t].status = "deprecated"
         /\ corpus'[t].supersededBy = corpus[t].supersededBy
         /\ SameMemory(corpus'[t], corpus[t])
         /\ \A i \in Ids \ {t} : corpus'[i] = corpus[i]
<1> DEFINE t == job[r].target
<1>1. t \in Ids /\ Written(r, t)
  BY DEF TableInv, SessionInv, Complete, Commit
<1>2. ASSUME NEW i \in Ids, Written(r, i)
      PROVE  PendingRetirement(r, i) /\ i = t /\ corpus'[i] = dirty[r][i]
  BY <1>2, CommitWrites DEF PendingInsert, PendingAccess, PendingRetirement
<1>3. \A i \in Ids \ {t} : corpus'[i] = corpus[i]
  BY <1>2, CommitWrites
<1>4. PendingRetirement(r, t) /\ corpus'[t] = dirty[r][t]
  BY <1>1, <1>2
<1> QED BY <1>1, <1>3, <1>4 DEF PendingRetirement, SameMemory

LEMMA CommitOther ==
  ASSUME TableInv, NEW r \in Sessions, SessionInv(r), Commit(r),
         report[r].outcome \notin {"created", "replaced", "forgotten"}, NEW i \in Ids
  PROVE  /\ corpus'[i].status = corpus[i].status
         /\ corpus'[i].supersededBy = corpus[i].supersededBy
         /\ SameMemory(corpus'[i], corpus[i])
<1>1. CASE Written(r, i)
  <2>1. PendingAccess(r, i) /\ corpus'[i] = dirty[r][i]
    BY <1>1, CommitWrites DEF PendingInsert, PendingRetirement
  <2> QED BY <2>1 DEF PendingAccess, SameMemory
<1>2. CASE ~ Written(r, i)
  BY <1>2, CommitWrites DEF SameMemory
<1> QED BY <1>1, <1>2

-----------------------------------------------------------------------------
(* The steps that do not commit leave the corpus and the answers alone.    *)

SameAnswers ==
  /\ corpus' = corpus
  /\ \A q \in Sessions :
       /\ pc'[q] = "done" <=> pc[q] = "done"
       /\ pc[q] = "done" => job'[q] = job[q] /\ report'[q] = report[q] /\ picked'[q] = picked[q]

LEMMA RollBackAnswers ==
  ASSUME TypeOK, NEW S, RollBack(S), \A q \in S : pc[q] # "done"
  PROVE  SameAnswers
  BY DEF RollBack, TypeOK, SameAnswers

LEMMA ArriveAnswers ==
  ASSUME TypeOK, NEW r \in Sessions, Arrive(r) PROVE SameAnswers
<1>1. PICK j \in Submittable :
        /\ job' = [job EXCEPT ![r] = j]
        /\ Goto(r, FirstStage(j))
        /\ IF FirstStage(j) = "commit" THEN Answer(r, "rejected", NoId) ELSE UNCHANGED report
  BY DEF Arrive
<1>2. FirstStage(j) # "done"
  BY DEF FirstStage
<1> QED BY <1>1, <1>2 DEF Arrive, TypeOK, SameAnswers, Goto, Answer

LEMMA StepAnswers ==
  ASSUME TypeOK, NEW r \in Sessions, Waits(r), Step(r), ~ Commit(r)
  PROVE  SameAnswers
<1>1. CASE SelectTarget(r)
  BY <1>1 DEF SelectTarget, TypeOK, SameAnswers, Goto, Answer
<1>2. CASE Embedded(r)
  BY <1>2 DEF Embedded, TypeOK, SameAnswers, Goto
<1>3. CASE EmbeddingFails(r)
  BY <1>3, RollBackAnswers DEF EmbeddingFails
<1>4. CASE VectorSearch(r)
  BY <1>4 DEF VectorSearch, TypeOK, SameAnswers, Goto
<1>5. CASE LexicalSearch(r)
  BY <1>5 DEF LexicalSearch, TypeOK, SameAnswers, Goto
<1>6. CASE RankRecall(r)
  BY <1>6 DEF RankRecall, TypeOK, SameAnswers, Goto, Answer
<1>7. CASE RankRemember(r)
  BY <1>7 DEF RankRemember, TypeOK, SameAnswers, Goto
<1>8. CASE Insert(r)
  BY <1>8 DEF Insert, TypeOK, SameAnswers, Goto, Answer
<1>9. CASE Reinforce(r)
  BY <1>9 DEF Reinforce, TypeOK, SameAnswers, Goto, Answer
<1>10. CASE MarkAccessed(r)
  BY <1>10 DEF MarkAccessed, TypeOK, SameAnswers, Goto
<1>11. CASE Retire(r)
  BY <1>11 DEF Retire, TypeOK, SameAnswers, Goto, Answer
<1>12. CASE DeadlockVictim(r)
  <2>1. \E q \in Sessions : WaitsFor(r, q)
    BY <1>12 DEF DeadlockVictim, Deadlocked
  <2>2. pc[r] # "done"
    BY <2>1 DEF WaitsFor, Waits
  <2> QED BY <1>12, <2>2, RollBackAnswers DEF DeadlockVictim
<1> QED BY <1>1, <1>2, <1>3, <1>4, <1>5, <1>6, <1>7, <1>8, <1>9, <1>10, <1>11, <1>12 DEF Step

(* Next, seen from the corpus: a commit, or nothing that was answered.     *)
LEMMA CommitOrQuiet ==
  ASSUME TypeOK, \A r \in Sessions : Waits(r), [Next]_vars
  PROVE  SameAnswers \/ \E r \in Sessions : Commit(r)
<1>1. ASSUME NEW r \in Requests, Arrive(r) \/ Step(r)
      PROVE  SameAnswers \/ Commit(r)
  BY <1>1, ArriveAnswers, StepAnswers, RequestsAreSessions
<1>2. CASE Crash
  BY <1>2, RollBackAnswers DEF Crash, InFlight
<1>3. CASE UNCHANGED vars
  BY <1>3 DEF vars, SameAnswers
<1> QED BY <1>1, <1>2, <1>3, RequestsAreSessions DEF Next, Served

-----------------------------------------------------------------------------
(* Waits.                                                                  *)

LEMMA RollBackWaits ==
  ASSUME TypeOK, \A q \in Sessions : Waits(q), NEW S, RollBack(S)
  PROVE  \A q \in Sessions : Waits(q)'
  BY DEF RollBack, TypeOK, Waits

LEMMA StepWaits ==
  ASSUME TypeOK, \A q \in Sessions : Waits(q), NEW r \in Sessions, Arrive(r) \/ Step(r)
  PROVE  \A q \in Sessions : Waits(q)'
<1>1. CASE Arrive(r)
  BY <1>1 DEF Arrive, TypeOK, Waits, Goto
<1>2. CASE SelectTarget(r)
  BY <1>2 DEF SelectTarget, TypeOK, Waits, Goto
<1>3. CASE Embedded(r)
  BY <1>3 DEF Embedded, TypeOK, Waits, Goto
<1>4. CASE EmbeddingFails(r) \/ DeadlockVictim(r)
  BY <1>4, RollBackWaits DEF EmbeddingFails, DeadlockVictim
<1>5. CASE VectorSearch(r)
  BY <1>5 DEF VectorSearch, TypeOK, Waits, Goto
<1>6. CASE LexicalSearch(r)
  BY <1>6 DEF LexicalSearch, TypeOK, Waits, Goto
<1>7. CASE RankRecall(r)
  BY <1>7 DEF RankRecall, TypeOK, Waits, Goto
<1>8. CASE RankRemember(r)
  BY <1>8 DEF RankRemember, TypeOK, Waits, Goto
<1>9. CASE Insert(r)
  BY <1>9 DEF Insert, TypeOK, Waits, Goto
<1>10. CASE Reinforce(r)
  BY <1>10 DEF Reinforce, TypeOK, Waits, Goto
<1>11. CASE MarkAccessed(r)
  BY <1>11 DEF MarkAccessed, TypeOK, Waits, Goto
<1>12. CASE Retire(r)
  BY <1>12 DEF Retire, TypeOK, Waits, Goto
<1>13. CASE Commit(r)
  BY <1>13 DEF Commit, TypeOK, Waits, Goto
<1> QED BY <1>1, <1>2, <1>3, <1>4, <1>5, <1>6, <1>7, <1>8, <1>9, <1>10, <1>11, <1>12, <1>13 DEF Step

-----------------------------------------------------------------------------
(* What a commit keeps of every memory, and what it answers.               *)

LEMMA CommitKeeps ==
  ASSUME TableInv, NEW r \in Sessions, SessionInv(r), Commit(r), NEW i \in Ids
  PROVE  /\ corpus[i].status # "absent" =>
              corpus'[i].status # "absent" /\ SameMemory(corpus'[i], corpus[i])
         /\ Retired(i) => Retired(i)'
         /\ corpus[i].status # "absent" /\ corpus[i].supersededBy # NoId =>
              corpus'[i].supersededBy # NoId
<1>1. CASE report[r].outcome = "created"
  BY <1>1, CommitCreated DEF Retired, SameMemory, RetiredStatuses
<1>2. CASE report[r].outcome = "replaced"
  <2>1. report[r].id # NoId
    BY <1>2, CommitReplaced DEF Ids, NoId
  <2> DEFINE n == report[r].id
             t == job[r].target
  <2>2. CASE i = n
    BY <1>2, <2>2, CommitReplaced DEF Retired, RetiredStatuses
  <2>3. CASE i = t
    BY <1>2, <2>1, <2>3, CommitReplaced DEF Retired, RetiredStatuses
  <2>4. CASE i \notin {n, t}
    BY <1>2, <2>4, CommitReplaced DEF Retired, SameMemory
  <2> QED BY <2>2, <2>3, <2>4
<1>3. CASE report[r].outcome = "forgotten"
  BY <1>3, CommitForgotten DEF Retired, SameMemory, RetiredStatuses
<1>4. CASE report[r].outcome \notin {"created", "replaced", "forgotten"}
  BY <1>4, CommitOther DEF Retired
<1> QED BY <1>1, <1>2, <1>3, <1>4

LEMMA CommitFinishes ==
  ASSUME TypeOK, NEW r \in Sessions, Commit(r)
  PROVE  /\ \A o : \A q \in Sessions : Finished(q, o)' <=> (Finished(q, o) \/ (q = r /\ report[r].outcome = o))
         /\ job' = job /\ report' = report /\ picked' = picked /\ goneBefore' = goneBefore
  BY DEF Commit, TypeOK, Finished, Goto

LEMMA QuietFinishes ==
  ASSUME SameAnswers
  PROVE  /\ \A o : \A q \in Sessions : Finished(q, o)' <=> Finished(q, o)
         /\ \A o : \A q \in Sessions : Finished(q, o) => job'[q] = job[q] /\ report'[q] = report[q]
         /\ KnownIds' = KnownIds
         /\ \A i : Retired(i)' <=> Retired(i)
  BY DEF SameAnswers, Finished, KnownIds, Retired

LEMMA CommitLineage ==
  ASSUME TableInv, LineageSound, NEW r \in Sessions, SessionInv(r), Commit(r)
  PROVE  LineageSound'
<1> SUFFICES ASSUME NEW i \in Ids
             PROVE  /\ corpus'[i].status = "superseded" => corpus'[i].supersededBy # NoId
                    /\ corpus'[i].supersededBy # NoId =>
                         /\ Retired(i)'
                         /\ corpus'[i].supersededBy > i
                         /\ corpus'[i].supersededBy \in KnownIds'
                         /\ \E q \in Sessions : /\ Finished(q, "replaced")'
                                                /\ job'[q].target = i
                                                /\ report'[q].id = corpus'[i].supersededBy
  BY DEF LineageSound
<1>1. TypeOK
  BY DEF TableInv, SessionInv
<1>2. CASE corpus'[i].supersededBy = corpus[i].supersededBy
           /\ (corpus'[i].status = "superseded" => corpus[i].status = "superseded")
  <2>1. corpus'[i].supersededBy # NoId =>
          /\ Retired(i) /\ corpus[i].supersededBy > i /\ corpus[i].supersededBy \in KnownIds
          /\ \E q \in Sessions : /\ Finished(q, "replaced")
                                 /\ job[q].target = i
                                 /\ report[q].id = corpus[i].supersededBy
    BY <1>2 DEF LineageSound
  <2>2. KnownIds \subseteq KnownIds'
    BY CommitKeeps DEF KnownIds
  <2>3. Retired(i) => Retired(i)'
    BY CommitKeeps
  <2>4. corpus'[i].status = "superseded" => corpus'[i].supersededBy # NoId
    BY <1>2 DEF LineageSound
  <2> QED BY <1>1, <1>2, <2>1, <2>2, <2>3, <2>4, CommitFinishes
<1>3. CASE report[r].outcome = "created"
  <2>1. CASE i = report[r].id
    BY <1>3, <2>1, CommitCreated
  <2>2. CASE i # report[r].id
    BY <1>2, <1>3, <2>2, CommitCreated
  <2> QED BY <2>1, <2>2
<1>4. CASE report[r].outcome = "replaced"
  <2> DEFINE n == report[r].id
             t == job[r].target
  <2>1. CASE i = n
    BY <1>4, <2>1, CommitReplaced
  <2>2. CASE i = t
    <3>1. /\ n \in Ids /\ t < n /\ corpus'[n].status = "active"
          /\ corpus'[t].status = "superseded" /\ corpus'[t].supersededBy = n
      BY <1>4, CommitReplaced
    <3>2. n # NoId /\ n > t
      BY <3>1, <2>2 DEF Ids, NoId
    <3>3. n \in KnownIds' /\ Retired(i)'
      BY <2>2, <3>1 DEF KnownIds, Retired, RetiredStatuses
    <3>4. Finished(r, "replaced")' /\ job'[r].target = t /\ report'[r].id = n
      BY <1>1, <1>4, CommitFinishes
    <3> QED BY <2>2, <3>1, <3>2, <3>3, <3>4
  <2>3. CASE i \notin {n, t}
    BY <1>2, <1>4, <2>3, CommitReplaced
  <2> QED BY <2>1, <2>2, <2>3
<1>5. CASE report[r].outcome = "forgotten"
  <2>1. CASE i = job[r].target
    BY <1>2, <1>5, <2>1, CommitForgotten
  <2>2. CASE i # job[r].target
    BY <1>2, <1>5, <2>2, CommitForgotten
  <2> QED BY <2>1, <2>2
<1>6. CASE report[r].outcome \notin {"created", "replaced", "forgotten"}
  BY <1>2, <1>6, CommitOther
<1> QED BY <1>3, <1>4, <1>5, <1>6

LEMMA CommitAcknowledged ==
  ASSUME TableInv, LineageSound, AcknowledgedWritesHold,
         NEW r \in Sessions, SessionInv(r), Commit(r)
  PROVE  AcknowledgedWritesHold'
<1>1. TypeOK
  BY DEF TableInv, SessionInv
<1> SUFFICES ASSUME NEW q \in Sessions
             PROVE  /\ Finished(q, "created")' \/ Finished(q, "replaced")' =>
                         /\ report'[q].id \in KnownIds'
                         /\ corpus'[report'[q].id].content = job'[q].content
                         /\ corpus'[report'[q].id].type = job'[q].type
                    /\ Finished(q, "replaced")' \/ Finished(q, "forgotten")' =>
                         job'[q].target \in KnownIds' /\ Retired(job[q].target)'
                    /\ Finished(q, "replaced")' => corpus'[job'[q].target].supersededBy # NoId
  BY DEF AcknowledgedWritesHold
<1>2. job' = job /\ report' = report
  BY <1>1, CommitFinishes
<1>3. CASE q # r
  <2>1. \A o : Finished(q, o)' <=> Finished(q, o)
    BY <1>1, <1>3, CommitFinishes
  <2>2. ASSUME Finished(q, "created") \/ Finished(q, "replaced")
        PROVE  /\ report[q].id \in KnownIds'
               /\ corpus'[report[q].id].content = job[q].content
               /\ corpus'[report[q].id].type = job[q].type
    <3>1. /\ report[q].id \in Ids /\ corpus[report[q].id].status # "absent"
          /\ corpus[report[q].id].content = job[q].content
          /\ corpus[report[q].id].type = job[q].type
      BY <2>2 DEF AcknowledgedWritesHold, KnownIds
    <3> QED BY <3>1, CommitKeeps DEF KnownIds, SameMemory
  <2>3. ASSUME Finished(q, "replaced") \/ Finished(q, "forgotten")
        PROVE  job[q].target \in KnownIds' /\ Retired(job[q].target)'
    <3>1. job[q].target \in KnownIds /\ Retired(job[q].target)
      BY <2>3 DEF AcknowledgedWritesHold
    <3>2. job[q].target \in KnownIds'
      BY <3>1, CommitKeeps DEF KnownIds
    <3> PICK t : t = job[q].target
      OBVIOUS
    <3>3. t \in Ids /\ Retired(t) /\ t = job'[q].target
      BY <1>2, <3>1 DEF KnownIds
    <3>4. Retired(t)'
      BY <3>3, CommitKeeps
    <3>5. Retired(job[q].target)'
      BY <3>3, <3>4 DEF Retired
    <3> QED BY <3>2, <3>5
  <2>4. ASSUME Finished(q, "replaced")
        PROVE  corpus'[job[q].target].supersededBy # NoId
    <3>1. job[q].target \in KnownIds /\ corpus[job[q].target].supersededBy # NoId
      BY <2>4 DEF AcknowledgedWritesHold
    <3> QED BY <3>1, CommitKeeps DEF KnownIds
  <2> QED BY <1>2, <2>1, <2>2, <2>3, <2>4
<1>4. CASE q = r
  <2>1. \A o : Finished(r, o)' => report[r].outcome = o
    BY <1>1, CommitFinishes DEF Finished, Commit
  <2>2. CASE report[r].outcome = "created"
    BY <1>2, <1>4, <2>1, <2>2, CommitCreated DEF KnownIds, SameMemory
  <2>3. CASE report[r].outcome = "replaced"
    <3>1. report[r].id # NoId
      BY <2>3, CommitReplaced DEF Ids, NoId
    <3> QED BY <1>2, <1>4, <2>1, <2>3, <3>1, CommitReplaced
            DEF KnownIds, SameMemory, Retired, RetiredStatuses
  <2>4. CASE report[r].outcome = "forgotten"
    BY <1>2, <1>4, <2>1, <2>4, CommitForgotten DEF Retired, RetiredStatuses, KnownIds
  <2> QED BY <1>4, <2>1, <2>2, <2>3, <2>4
<1> QED BY <1>3, <1>4

LEMMA CommitOnly ==
  ASSUME TableInv, LineageSound, OnlyAcknowledgedWrites,
         NEW r \in Sessions, SessionInv(r), Commit(r)
  PROVE  OnlyAcknowledgedWrites'
<1>1. TypeOK
  BY DEF TableInv, SessionInv
<1>2. job' = job /\ report' = report
  BY <1>1, CommitFinishes
<1> SUFFICES ASSUME NEW i \in Ids, corpus'[i].status # "absent"
             PROVE  /\ i > InitRows =>
                         \E q \in Sessions : /\ Finished(q, "created")' \/ Finished(q, "replaced")'
                                             /\ report[q].id = i
                    /\ Retired(i)' =>
                         \E q \in Sessions : /\ Finished(q, "replaced")' \/ Finished(q, "forgotten")'
                                             /\ job[q].target = i
  BY <1>2 DEF OnlyAcknowledgedWrites, KnownIds
<1>3. \A o : \A q \in Sessions : Finished(q, o) => Finished(q, o)'
  BY <1>1, CommitFinishes
<1>4. \A o : report[r].outcome = o => Finished(r, o)'
  BY <1>1, CommitFinishes
<1>5. ASSUME corpus[i].status # "absent", i > InitRows
      PROVE  \E q \in Sessions : /\ Finished(q, "created")' \/ Finished(q, "replaced")'
                                 /\ report[q].id = i
  BY <1>3, <1>5 DEF OnlyAcknowledgedWrites, KnownIds
<1>6. ASSUME corpus[i].status # "absent", Retired(i)
      PROVE  \E q \in Sessions : /\ Finished(q, "replaced")' \/ Finished(q, "forgotten")'
                                 /\ job[q].target = i
  BY <1>3, <1>6 DEF OnlyAcknowledgedWrites, KnownIds
<1>7. CASE corpus'[i].status = corpus[i].status
  BY <1>5, <1>6, <1>7 DEF Retired
<1>8. CASE report[r].outcome \in {"created", "replaced"} /\ i = report[r].id
  <2>1. corpus'[i].status = "active"
    BY <1>8, CommitCreated, CommitReplaced
  <2> QED BY <1>4, <1>8, <2>1 DEF Retired, RetiredStatuses
<1>9. CASE report[r].outcome \in {"replaced", "forgotten"} /\ i = job[r].target
  <2>1. corpus[i].status # "absent"
    BY <1>9, CommitReplaced, CommitForgotten
  <2> QED BY <1>4, <1>5, <1>9, <2>1
<1>10. \/ corpus'[i].status = corpus[i].status
       \/ report[r].outcome \in {"created", "replaced"} /\ i = report[r].id
       \/ report[r].outcome \in {"replaced", "forgotten"} /\ i = job[r].target
  BY CommitCreated, CommitReplaced, CommitForgotten, CommitOther
<1> QED BY <1>7, <1>8, <1>9, <1>10

LEMMA QuietCorpus ==
  ASSUME SameAnswers
  PROVE  /\ LineageSound => LineageSound'
         /\ AcknowledgedWritesHold => AcknowledgedWritesHold'
         /\ OnlyAcknowledgedWrites => OnlyAcknowledgedWrites'
<1>1. /\ corpus' = corpus /\ KnownIds' = KnownIds /\ \A i : Retired(i)' <=> Retired(i)
      /\ \A o : \A q \in Sessions : Finished(q, o)' <=> Finished(q, o)
      /\ \A o : \A q \in Sessions : Finished(q, o) => job'[q] = job[q] /\ report'[q] = report[q]
  BY QuietFinishes DEF SameAnswers
<1>2. LineageSound => LineageSound'
  BY <1>1 DEF LineageSound
<1>3. AcknowledgedWritesHold => AcknowledgedWritesHold'
  <2> SUFFICES ASSUME AcknowledgedWritesHold, NEW q \in Sessions
               PROVE  /\ Finished(q, "created")' \/ Finished(q, "replaced")' =>
                           /\ report'[q].id \in KnownIds'
                           /\ corpus'[report'[q].id].content = job'[q].content
                           /\ corpus'[report'[q].id].type = job'[q].type
                      /\ Finished(q, "replaced")' \/ Finished(q, "forgotten")' =>
                           job'[q].target \in KnownIds' /\ Retired(job[q].target)'
                      /\ Finished(q, "replaced")' => corpus'[job'[q].target].supersededBy # NoId
    BY DEF AcknowledgedWritesHold
  <2>1. ASSUME Finished(q, "replaced")' \/ Finished(q, "forgotten")'
        PROVE  job'[q].target \in KnownIds' /\ Retired(job[q].target)'
    <3>1. job'[q] = job[q] /\ job[q].target \in KnownIds /\ Retired(job[q].target)
      BY <1>1, <2>1 DEF AcknowledgedWritesHold
    <3> QED BY <1>1, <3>1 DEF Retired
  <2> QED BY <1>1, <2>1 DEF AcknowledgedWritesHold
<1>4. OnlyAcknowledgedWrites => OnlyAcknowledgedWrites'
  BY <1>1 DEF OnlyAcknowledgedWrites
<1> QED BY <1>2, <1>3, <1>4

-----------------------------------------------------------------------------
(* Picks.                                                                  *)

LEMMA RollBackPicks ==
  ASSUME TypeOK, \A q \in Sessions : Picks(q), NEW S, RollBack(S)
  PROVE  \A q \in Sessions : Picks(q)'
  BY DEF RollBack, TypeOK, Picks, Retired

(* Nothing but a search chooses, and it chooses active memories.           *)
LEMMA StepPicks ==
  ASSUME TableInv, NEW r \in Sessions, SessionInv(r), Arrive(r) \/ Step(r),
         \A q \in Sessions : Picks(q)
  PROVE  \A q \in Sessions : Picks(q)'
<1>1. TypeOK
  BY DEF TableInv, SessionInv
<1>2. CASE Arrive(r)
  <2>1. /\ pc[r] = "new" /\ picked[r] = {} /\ picked' = picked /\ corpus' = corpus
        /\ goneBefore' = [goneBefore EXCEPT ![r] = KnownIds \ ActiveIds]
        /\ \A q \in Sessions : q # r => pc'[q] = pc[q]
    BY <1>1, <1>2 DEF Arrive, TypeOK, Picks, Goto
  <2>2. \A i \in KnownIds \ ActiveIds : Retired(i)
    BY <1>1 DEF TypeOK, KnownIds, ActiveIds, Retired, Row
  <2> QED BY <1>1, <2>1, <2>2 DEF Picks, TypeOK, Retired
<1>3. ASSUME corpus' = corpus, goneBefore' = goneBefore,
             NEW S, S \subseteq ActiveIds \cup picked[r],
             picked' = [picked EXCEPT ![r] = S], pc[r] # "new", pc'[r] # "new",
             \A q \in Sessions : q # r => pc'[q] = pc[q]
      PROVE  \A q \in Sessions : Picks(q)'
  <2>1. \A i \in ActiveIds : ~ Retired(i)
    BY DEF ActiveIds, Retired, RetiredStatuses
  <2>2. Picks(r)'
    BY <1>1, <1>3, <2>1 DEF Picks, TypeOK, Retired
  <2>3. \A q \in Sessions : q # r => Picks(q)'
    BY <1>1, <1>3 DEF Picks, TypeOK, Retired
  <2> QED BY <2>2, <2>3
<1>4. CASE VectorSearch(r)
  <2>1. PICK S \in AtMost(SearchLimit, ActiveIds) : picked' = [picked EXCEPT ![r] = S]
    BY <1>4 DEF VectorSearch
  <2>2. S \subseteq ActiveIds
    BY AtMostSubset
  <2> QED BY <1>1, <1>3, <1>4, <2>1, <2>2 DEF VectorSearch, TypeOK, Goto
<1>5. CASE LexicalSearch(r)
  <2>1. PICK S \in SUBSET ActiveIds : picked' = [picked EXCEPT ![r] = picked[r] \cup S]
    BY <1>1, <1>5 DEF LexicalSearch, AtMost, TypeOK
  <2> QED BY <1>1, <1>3, <1>5, <2>1 DEF LexicalSearch, TypeOK, Goto
<1>6. CASE RankRecall(r)
  <2>1. PICK T \in Limited(RecallTopK, picked[r]) :
          picked' = [picked EXCEPT ![r] = T] /\ pc'[r] # "new"
    BY <1>1, <1>6 DEF RankRecall, TypeOK, Goto
  <2>2. T \subseteq picked[r]
    BY LimitedSubset
  <2>3. \A q \in Sessions : q # r => pc'[q] = pc[q]
    BY <1>1, <1>6 DEF RankRecall, TypeOK, Goto
  <2> QED BY <1>1, <1>3, <1>6, <2>1, <2>2, <2>3 DEF RankRecall
<1>7. CASE RankRemember(r)
  <2>1. \A q \in Sessions : q # r => pc'[q] = pc[q]
    BY <1>1, <1>7 DEF RankRemember, TypeOK, Goto
  <2>2. pc[r] # "new" /\ pc'[r] # "new"
    BY <1>1, <1>7 DEF RankRemember, TypeOK, Goto
  <2> QED BY <1>1, <1>3, <1>7, <2>1, <2>2 DEF RankRemember
<1>8. CASE EmbeddingFails(r) \/ DeadlockVictim(r)
  BY <1>1, <1>8, RollBackPicks DEF EmbeddingFails, DeadlockVictim
<1>9. CASE Commit(r)
  <2>1. /\ picked' = picked /\ goneBefore' = goneBefore
        /\ \A q \in Sessions : pc'[q] = "new" => pc[q] = "new"
    BY <1>1, <1>9 DEF Commit, TypeOK, Goto
  <2>2. \A i \in Ids : Retired(i) => Retired(i)'
    BY <1>9, CommitKeeps
  <2> QED BY <1>1, <2>1, <2>2 DEF Picks, TypeOK
<1>10. ASSUME corpus' = corpus, picked' = picked, goneBefore' = goneBefore,
              \A q \in Sessions : pc'[q] = "new" => pc[q] = "new"
       PROVE  \A q \in Sessions : Picks(q)'
  BY <1>10 DEF Picks, Retired
<1>11. CASE SelectTarget(r)
  BY <1>1, <1>10, <1>11 DEF SelectTarget, TypeOK, Goto
<1>12. CASE Embedded(r)
  BY <1>1, <1>10, <1>12 DEF Embedded, TypeOK, Goto
<1>13. CASE Insert(r)
  BY <1>1, <1>10, <1>13 DEF Insert, TypeOK, Goto
<1>14. CASE Reinforce(r)
  BY <1>1, <1>10, <1>14 DEF Reinforce, TypeOK, Goto
<1>15. CASE MarkAccessed(r)
  BY <1>1, <1>10, <1>15 DEF MarkAccessed, TypeOK, Goto
<1>16. CASE Retire(r)
  BY <1>1, <1>10, <1>16 DEF Retire, TypeOK, Goto
<1> QED BY <1>2, <1>4, <1>5, <1>6, <1>7, <1>8, <1>9, <1>11, <1>12, <1>13, <1>14, <1>15, <1>16
        DEF Step

LEMMA RollBackNames ==
  ASSUME TypeOK, \A q \in Sessions : Names(q), NEW S, RollBack(S)
  PROVE  \A q \in Sessions : Names(q)'
  BY DEF RollBack, TypeOK, Names, NoReport, Result, Ids, NoId

(* Of a step of r, the others see nothing.                                 *)
LEMMA OthersNames ==
  ASSUME NEW r \in Sessions, \A q \in Sessions : Names(q), Names(r)',
         \A q \in Sessions : q # r =>
           /\ pc'[q] = pc[q] /\ job'[q] = job[q] /\ want'[q] = want[q]
           /\ report'[q] = report[q] /\ goneBefore'[q] = goneBefore[q]
  PROVE  \A q \in Sessions : Names(q)'
  BY DEF Names

(* The duplicate that is named is one of the candidates.                   *)
LEMMA StepNames ==
  ASSUME TableInv, NEW r \in Sessions, SessionInv(r), Arrive(r) \/ Step(r), Waits(r), Picks(r),
         \A q \in Sessions : Names(q)
  PROVE  \A q \in Sessions : Names(q)'
<1>1. TypeOK /\ Staged(r) /\ Names(r) /\ NoId \notin goneBefore[r]
  BY DEF TableInv, SessionInv, TypeOK, Ids, NoId
<1>2. CASE Arrive(r)
  <2>1. PICK j \in Submittable :
          /\ job' = [job EXCEPT ![r] = j]
          /\ Goto(r, FirstStage(j))
          /\ report' = report \/ Answer(r, "rejected", NoId)
    BY <1>2 DEF Arrive
  <2>2. /\ pc[r] = "new" /\ want' = want /\ want[r] = NoId /\ report[r].outcome = "none"
        /\ NoId \notin KnownIds \ ActiveIds
        /\ goneBefore' = [goneBefore EXCEPT ![r] = KnownIds \ ActiveIds]
    BY <1>1, <1>2 DEF Arrive, Waits, Staged, KnownIds, Ids, NoId
  <2>3. FirstStage(j) = "select" => j.op \in {"replace", "forget"}
    BY DEF FirstStage
  <2>4. report'[r].outcome \in {"none", "rejected"}
    BY <1>1, <2>1, <2>2 DEF Answer, Result, TypeOK
  <2>5. job'[r] = j /\ pc'[r] = FirstStage(j) /\ want'[r] \notin goneBefore'[r]
    BY <1>1, <2>1, <2>2 DEF Goto, TypeOK
  <2>6. Names(r)'
    BY <2>3, <2>4, <2>5 DEF Names
  <2>7. \A q \in Sessions : q # r =>
          /\ pc'[q] = pc[q] /\ job'[q] = job[q] /\ want'[q] = want[q]
          /\ report'[q] = report[q] /\ goneBefore'[q] = goneBefore[q]
    BY <1>1, <2>1, <2>2 DEF Goto, Answer, TypeOK
  <2> QED BY <2>6, <2>7, OthersNames
<1>3. ASSUME Names(r)', job' = job, goneBefore' = goneBefore,
             \A q \in Sessions : q # r =>
               pc'[q] = pc[q] /\ want'[q] = want[q] /\ report'[q] = report[q]
      PROVE  \A q \in Sessions : Names(q)'
  BY <1>3, OthersNames
<1>4. CASE SelectTarget(r)
  <2>1. /\ pc[r] = "select" /\ job' = job /\ goneBefore' = goneBefore
        /\ job[r].op \in {"replace", "forget"}
    BY <1>1, <1>4 DEF SelectTarget, Names
  <2>2. report'[r].outcome # "reinforced"
    BY <1>1, <1>4, <2>1 DEF SelectTarget, Answer, Result, TypeOK, Staged
  <2>3. Names(r)'
    BY <2>1, <2>2 DEF Names
  <2>4. \A q \in Sessions : q # r =>
          pc'[q] = pc[q] /\ want'[q] = want[q] /\ report'[q] = report[q]
    BY <1>1, <1>4 DEF SelectTarget, Goto, Answer, TypeOK
  <2> QED BY <1>3, <2>1, <2>3, <2>4
<1>5. CASE RankRemember(r)
  <2>1. PICK T \in Limited(DedupTopK, picked[r]) :
          \E high \in SUBSET T : \E d \in Duplicates(r, T, high) :
            want' = [want EXCEPT ![r] = d] /\ Goto(r, IF d = NoId THEN "insert" ELSE "update")
    BY <1>5 DEF RankRemember
  <2>2. PICK high \in SUBSET T : \E d \in Duplicates(r, T, high) :
          want' = [want EXCEPT ![r] = d] /\ Goto(r, IF d = NoId THEN "insert" ELSE "update")
    BY <2>1
  <2>3. PICK d \in Duplicates(r, T, high) :
          want' = [want EXCEPT ![r] = d] /\ Goto(r, IF d = NoId THEN "insert" ELSE "update")
    BY <2>2
  <2>4. d \in picked[r] \cup {NoId}
    BY <2>2, <2>3, LimitedSubset DEF Duplicates
  <2>5. d \notin goneBefore[r]
    BY <1>1, <2>4 DEF Picks
  <2>6. Names(r)'
    BY <1>1, <1>5, <2>3, <2>5 DEF RankRemember, Names, Goto, TypeOK
  <2>7. \A q \in Sessions : q # r =>
          pc'[q] = pc[q] /\ want'[q] = want[q] /\ report'[q] = report[q]
    BY <1>1, <1>5, <2>3 DEF RankRemember, Goto, TypeOK
  <2> QED BY <1>3, <1>5, <2>6, <2>7 DEF RankRemember
<1>6. CASE Insert(r)
  <2>1. Names(r)'
    BY <1>1, <1>6 DEF Insert, Names, Goto, Answer, Result, TypeOK
  <2>2. \A q \in Sessions : q # r =>
          pc'[q] = pc[q] /\ want'[q] = want[q] /\ report'[q] = report[q]
    BY <1>1, <1>6 DEF Insert, Goto, Answer, TypeOK
  <2> QED BY <1>3, <1>6, <2>1, <2>2 DEF Insert
<1>7. CASE Reinforce(r)
  <2>1. /\ job[r].op = "remember" /\ want'[r] = NoId /\ pc'[r] = "commit"
        /\ report'[r].id = want[r]
    BY <1>1, <1>7 DEF Reinforce, Goto, Answer, Result, TypeOK
  <2>2. Names(r)'
    BY <1>1, <1>7, <2>1 DEF Reinforce, Names
  <2>3. \A q \in Sessions : q # r =>
          pc'[q] = pc[q] /\ want'[q] = want[q] /\ report'[q] = report[q]
    BY <1>1, <1>7 DEF Reinforce, Goto, Answer, TypeOK
  <2> QED BY <1>3, <1>7, <2>2, <2>3 DEF Reinforce
<1>8. CASE RankRecall(r)
  <2>1. /\ job[r].op = "recall" /\ report'[r].outcome = "recalled" /\ pc'[r] # "select"
    BY <1>1, <1>8 DEF RankRecall, Goto, Answer, Result, TypeOK
  <2>2. Names(r)'
    BY <1>8, <2>1 DEF RankRecall, Names
  <2>3. \A q \in Sessions : q # r =>
          pc'[q] = pc[q] /\ want'[q] = want[q] /\ report'[q] = report[q]
    BY <1>1, <1>8 DEF RankRecall, Goto, Answer, TypeOK
  <2> QED BY <1>3, <1>8, <2>2, <2>3 DEF RankRecall
<1>9. CASE MarkAccessed(r)
  <2>1. Names(r)'
    BY <1>1, <1>9 DEF MarkAccessed, Names, Goto, TypeOK
  <2>2. \A q \in Sessions : q # r =>
          pc'[q] = pc[q] /\ want'[q] = want[q] /\ report'[q] = report[q]
    BY <1>1, <1>9 DEF MarkAccessed, Goto, TypeOK
  <2> QED BY <1>3, <1>9, <2>1, <2>2 DEF MarkAccessed
<1>10. CASE Retire(r)
  <2>1. job[r].op \in {"replace", "forget"} /\ pc'[r] = "commit"
    BY <1>1, <1>10 DEF Retire, Goto, TypeOK
  <2>2. report'[r].outcome # "reinforced"
    BY <1>1, <1>10, <2>1 DEF Retire, Answer, Result, TypeOK, Staged
  <2>3. Names(r)'
    BY <1>10, <2>1, <2>2 DEF Retire, Names
  <2>4. \A q \in Sessions : q # r =>
          pc'[q] = pc[q] /\ want'[q] = want[q] /\ report'[q] = report[q]
    BY <1>1, <1>10 DEF Retire, Goto, Answer, TypeOK
  <2> QED BY <1>3, <1>10, <2>3, <2>4 DEF Retire
<1>11. ASSUME job' = job, goneBefore' = goneBefore, want' = want, report' = report,
              \A q \in Sessions : pc'[q] = "select" => pc[q] = "select"
       PROVE  \A q \in Sessions : Names(q)'
  BY <1>11 DEF Names
<1>12. CASE Embedded(r)
  BY <1>1, <1>11, <1>12 DEF Embedded, Goto, TypeOK
<1>13. CASE VectorSearch(r)
  BY <1>1, <1>11, <1>13 DEF VectorSearch, Goto, TypeOK
<1>14. CASE LexicalSearch(r)
  BY <1>1, <1>11, <1>14 DEF LexicalSearch, Goto, TypeOK
<1>15. CASE Commit(r)
  BY <1>1, <1>11, <1>15 DEF Commit, Goto, TypeOK
<1>16. CASE EmbeddingFails(r) \/ DeadlockVictim(r)
  BY <1>1, <1>16, RollBackNames DEF EmbeddingFails, DeadlockVictim
<1> QED BY <1>2, <1>4, <1>5, <1>6, <1>7, <1>8, <1>9, <1>10, <1>12, <1>13, <1>14, <1>15, <1>16
        DEF Step

-----------------------------------------------------------------------------
(* What a step of r leaves alone of the others.                            *)

LEMMA StepTurns ==
  ASSUME TypeOK, NEW r \in Sessions, Arrive(r) \/ Step(r)
  PROVE  \A q \in Sessions \ {r} :
           want'[q] = want[q] /\ picked'[q] = picked[q] /\ goneBefore'[q] = goneBefore[q]
<1>1. CASE Arrive(r)
  BY <1>1 DEF Arrive, TypeOK
<1>2. CASE SelectTarget(r)
  BY <1>2 DEF SelectTarget, TypeOK
<1>3. CASE Embedded(r)
  BY <1>3 DEF Embedded
<1>4. CASE EmbeddingFails(r) \/ DeadlockVictim(r)
  BY <1>4 DEF EmbeddingFails, DeadlockVictim, RollBack, TypeOK
<1>5. CASE VectorSearch(r)
  BY <1>5 DEF VectorSearch, TypeOK
<1>6. CASE LexicalSearch(r)
  BY <1>6 DEF LexicalSearch, TypeOK
<1>7. CASE RankRecall(r)
  BY <1>7 DEF RankRecall, TypeOK
<1>8. CASE RankRemember(r)
  BY <1>8 DEF RankRemember, TypeOK
<1>9. CASE Insert(r)
  BY <1>9 DEF Insert, TypeOK
<1>10. CASE Reinforce(r)
  BY <1>10 DEF Reinforce, TypeOK
<1>11. CASE MarkAccessed(r)
  BY <1>11 DEF MarkAccessed, TypeOK
<1>12. CASE Retire(r)
  BY <1>12 DEF Retire, TypeOK
<1>13. CASE Commit(r)
  BY <1>13 DEF Commit
<1> QED BY <1>1, <1>2, <1>3, <1>4, <1>5, <1>6, <1>7, <1>8, <1>9, <1>10, <1>11, <1>12, <1>13 DEF Step

(* What a search picks, and what is settled on among it, is there.         *)
LEMMA StepKnown ==
  ASSUME TypeOK, NEW r \in Sessions, PicksKnown(r), Arrive(r) \/ Step(r), KnownIds \subseteq KnownIds'
  PROVE  PicksKnown(r)'
<1>1. CASE Arrive(r)
  <2>1. PICK j \in Submittable : Goto(r, FirstStage(j))
    BY <1>1 DEF Arrive
  <2>2. pc'[r] # "update"
    BY <2>1 DEF Goto, FirstStage, TypeOK
  <2> QED BY <1>1, <2>2 DEF Arrive, PicksKnown
<1>2. CASE SelectTarget(r)
  <2>1. picked' = picked /\ job' = job /\ (pc'[r] = "update" => job[r].op = "forget")
    BY <1>2 DEF SelectTarget, TypeOK, Goto
  <2> QED BY <2>1 DEF PicksKnown
<1>3. CASE Embedded(r)
  BY <1>3 DEF Embedded, TypeOK, Goto, PicksKnown
<1>4. CASE EmbeddingFails(r) \/ DeadlockVictim(r)
  BY <1>4 DEF EmbeddingFails, DeadlockVictim, RollBack, TypeOK, PicksKnown
<1>5. ActiveIds \subseteq KnownIds
  BY DEF ActiveIds, KnownIds
<1>6. CASE VectorSearch(r)
  <2>1. PICK S \in AtMost(SearchLimit, ActiveIds) : picked' = [picked EXCEPT ![r] = S]
    BY <1>6 DEF VectorSearch
  <2>2. S \subseteq KnownIds /\ picked'[r] = S /\ pc'[r] = "lexical"
    BY <1>5, <1>6, <2>1, AtMostSubset DEF VectorSearch, TypeOK, Goto
  <2> QED BY <2>2 DEF PicksKnown
<1>7. CASE LexicalSearch(r)
  <2>1. PICK S \in SUBSET ActiveIds : picked' = [picked EXCEPT ![r] = picked[r] \cup S]
    BY <1>7 DEF LexicalSearch, AtMost, TypeOK
  <2>2. picked'[r] = picked[r] \cup S /\ pc'[r] = "rerank"
    BY <1>7, <2>1 DEF LexicalSearch, TypeOK, Goto
  <2> QED BY <1>5, <2>2 DEF PicksKnown
<1>8. CASE RankRecall(r)
  <2>1. PICK T \in Limited(RecallTopK, picked[r]) :
          /\ picked' = [picked EXCEPT ![r] = T]
          /\ \/ T = {} /\ Goto(r, "commit") /\ UNCHANGED want
             \/ (\E i \in T : want' = [want EXCEPT ![r] = i]) /\ Goto(r, "update")
    BY <1>8 DEF RankRecall
  <2>2. T \subseteq KnownIds /\ picked'[r] = T
    BY <2>1, LimitedSubset DEF PicksKnown, TypeOK
  <2>3. pc'[r] = "update" => want'[r] \in T
    BY <2>1 DEF TypeOK, Goto
  <2> QED BY <2>2, <2>3 DEF PicksKnown
<1>9. CASE RankRemember(r)
  <2>1. PICK T \in Limited(DedupTopK, picked[r]) :
          \E high \in SUBSET T : \E d \in Duplicates(r, T, high) :
            want' = [want EXCEPT ![r] = d] /\ Goto(r, IF d = NoId THEN "insert" ELSE "update")
    BY <1>9 DEF RankRemember
  <2>2. PICK high \in SUBSET T : \E d \in Duplicates(r, T, high) :
          want' = [want EXCEPT ![r] = d] /\ Goto(r, IF d = NoId THEN "insert" ELSE "update")
    BY <2>1
  <2>3. PICK d \in Duplicates(r, T, high) :
          want' = [want EXCEPT ![r] = d] /\ Goto(r, IF d = NoId THEN "insert" ELSE "update")
    BY <2>2
  <2>4. d \in KnownIds \cup {NoId}
    BY <2>2, <2>3, LimitedSubset DEF Duplicates, PicksKnown
  <2>5. want'[r] = d /\ picked'[r] = {} /\ (pc'[r] = "update" => d # NoId)
    BY <1>9, <2>3 DEF RankRemember, TypeOK, Goto
  <2> QED BY <2>4, <2>5 DEF PicksKnown
<1>10. CASE Insert(r)
  <2>1. picked' = picked /\ job' = job /\ (pc'[r] = "update" => job[r].op = "replace")
    BY <1>10 DEF Insert, TypeOK, Goto
  <2> QED BY <2>1 DEF PicksKnown
<1>11. CASE Reinforce(r)
  BY <1>11 DEF Reinforce, TypeOK, Goto, PicksKnown
<1>12. CASE MarkAccessed(r)
  <2>1. /\ picked' = picked
        /\ \/ want'[r] \in picked[r] \/ pc'[r] = "commit"
    BY <1>12 DEF MarkAccessed, TypeOK, Goto
  <2> QED BY <2>1 DEF PicksKnown
<1>13. CASE Retire(r)
  BY <1>13 DEF Retire, TypeOK, Goto, PicksKnown
<1>14. CASE Commit(r)
  BY <1>14 DEF Commit, TypeOK, Goto, PicksKnown
<1> QED BY <1>1, <1>2, <1>3, <1>4, <1>6, <1>7, <1>8, <1>9, <1>10, <1>11, <1>12, <1>13, <1>14 DEF Step

(* The same, of every session: the others pick nothing, and what was there *)
(* stays.                                                                  *)
LEMMA StepPicksKnown ==
  ASSUME TableInv, NEW r \in Sessions, SessionInv(r), Arrive(r) \/ Step(r),
         \A q \in Sessions : PicksKnown(q)
  PROVE  \A q \in Sessions : PicksKnown(q)'
<1>1. OnlyMoves(r) /\ ChangesOwnRows(r) /\ TypeOK
  BY ArriveLock, StepLock DEF LockStep, TableInv
<1>2. KnownIds \subseteq KnownIds'
  BY <1>1 DEF ChangesOwnRows, KnownIds
<1>3. PicksKnown(r)'
  BY <1>1, <1>2, StepKnown
<1>4. ASSUME NEW q \in Sessions, q # r PROVE PicksKnown(q)'
  <2>1. pc'[q] = pc[q] /\ job'[q] = job[q] /\ want'[q] = want[q] /\ picked'[q] = picked[q]
    BY <1>1, <1>4, StepTurns DEF OnlyMoves
  <2> QED BY <1>2, <2>1 DEF PicksKnown
<1> QED BY <1>3, <1>4

LEMMA RollBackKnown ==
  ASSUME TypeOK, \A q \in Sessions : PicksKnown(q), NEW S, RollBack(S)
  PROVE  \A q \in Sessions : PicksKnown(q)'
  BY DEF RollBack, TypeOK, PicksKnown, KnownIds

-----------------------------------------------------------------------------
(* The inductive invariant and what follows from it.                       *)

LEMMA InitInvariant == Init => IInv
<1> SUFFICES ASSUME Init PROVE IInv
  OBVIOUS
<1>1. PICK types \in [1 .. InitRows -> StoredTypes], contents \in [1 .. InitRows -> Contents] :
        corpus = [i \in Ids |-> IF i <= InitRows THEN NewRow(types[i], contents[i]) ELSE NoRow]
  BY Zenon DEF Init
<1>2. \A i \in Ids : /\ corpus[i].supersededBy = NoId
                     /\ corpus[i].status \in {"active", "absent"}
                     /\ i > InitRows => corpus[i].status = "absent"
  BY <1>1, RequestsBounds DEF NewRow, NoRow, Ids
<1>3. LineageSound
  BY <1>2 DEF LineageSound
<1>4. AcknowledgedWritesHold
  BY DEF Init, AcknowledgedWritesHold, Finished
<1>5. OnlyAcknowledgedWrites
  BY <1>2 DEF OnlyAcknowledgedWrites, KnownIds, Retired, RetiredStatuses
<1>6. \A r \in Sessions : Picks(r) /\ Names(r) /\ Waits(r) /\ PicksKnown(r)
  BY DEF Init, Picks, Names, Waits, PicksKnown, NoReport, Result, NoJob
<1> QED BY <1>3, <1>4, <1>5, <1>6, InitLock DEF IInv

LEMMA NextInvariant == IInv /\ [Next]_vars => IInv'
<1> SUFFICES ASSUME IInv, [Next]_vars PROVE IInv'
  OBVIOUS
<1>1. /\ LockInv /\ TableInv /\ (\A r \in Sessions : SessionInv(r)) /\ TypeOK
      /\ LineageSound /\ AcknowledgedWritesHold /\ OnlyAcknowledgedWrites
      /\ \A r \in Sessions : Picks(r)
      /\ \A r \in Sessions : Names(r)
      /\ \A r \in Sessions : Waits(r)
      /\ \A r \in Sessions : PicksKnown(r)
  BY DEF IInv, LockInv, TableInv
<1>2. LockInv'
  BY <1>1, NextLock
<1>3. LineageSound' /\ AcknowledgedWritesHold' /\ OnlyAcknowledgedWrites'
  <2>1. SameAnswers \/ \E r \in Sessions : Commit(r)
    BY <1>1, CommitOrQuiet
  <2>2. CASE SameAnswers
    BY <1>1, <2>2, QuietCorpus
  <2>3. CASE \E r \in Sessions : Commit(r)
    BY <1>1, <2>3, CommitLineage, CommitAcknowledged, CommitOnly
  <2> QED BY <2>1, <2>2, <2>3
<1>4. /\ \A r \in Sessions : Picks(r)'
      /\ \A r \in Sessions : Names(r)'
      /\ \A r \in Sessions : Waits(r)'
      /\ \A r \in Sessions : PicksKnown(r)'
  <2>1. ASSUME NEW r \in Requests, Arrive(r) \/ Step(r)
        PROVE  /\ \A q \in Sessions : Picks(q)'
               /\ \A q \in Sessions : Names(q)'
               /\ \A q \in Sessions : Waits(q)'
               /\ \A q \in Sessions : PicksKnown(q)'
    BY <1>1, <2>1, StepPicks, StepNames, StepWaits, StepPicksKnown, RequestsAreSessions
  <2>2. CASE Crash
    BY <1>1, <2>2, RollBackPicks, RollBackNames, RollBackWaits, RollBackKnown DEF Crash
  <2>3. CASE UNCHANGED vars
    BY <1>1, <2>3 DEF vars, Picks, Names, Waits, Retired, PicksKnown, KnownIds
  <2> QED BY <2>1, <2>2, <2>3 DEF Next, Served
<1> QED BY <1>2, <1>3, <1>4 DEF IInv

(* The inductive invariant: row locks, what is flushed under them, and     *)
(* what the answers and the corpus say of each other.                      *)
THEOREM Invariant == Spec => []IInv
  BY InitInvariant, NextInvariant, PTL DEF Spec

(* Replacement lineage is sound in every instance: a link leads to a later *)
(* memory that is there and that a completed replace_memory stored.        *)
THEOREM LineageAlwaysSound == Spec => []LineageSound
<1>1. IInv => LineageSound
  BY DEF IInv
<1> QED BY <1>1, Invariant, PTL

(* No race, failure or crash undoes what was answered.                     *)
THEOREM AcknowledgedWritesAlwaysHold == Spec => []AcknowledgedWritesHold
<1>1. IInv => AcknowledgedWritesHold
  BY DEF IInv
<1> QED BY <1>1, Invariant, PTL

(* No race, failure or crash leaves what was not answered.                 *)
THEOREM OnlyAcknowledgedWritesAlways == Spec => []OnlyAcknowledgedWrites
<1>1. IInv => OnlyAcknowledgedWrites
  BY DEF IInv
<1> QED BY <1>1, Invariant, PTL

(* No recall returns a memory retired before it began.                     *)
THEOREM RecallAlwaysFresh == Spec => []RecallFreshness
<1>1. IInv => RecallFreshness
  BY RequestsAreSessions DEF IInv, Picks, RecallFreshness
<1> QED BY <1>1, Invariant, PTL

(* No new fact is turned away for a memory that was retired before.        *)
THEOREM DuplicateAlwaysFresh == Spec => []DuplicateFreshness
<1>1. IInv => DuplicateFreshness
  BY DEF IInv, Names, DuplicateFreshness, Finished
<1> QED BY <1>1, Invariant, PTL

(* No request holds a row lock while it awaits a provider.                 *)
THEOREM NeverLocksAcrossProvider == Spec => []NoLockAcrossProvider
<1>1. IInv => NoLockAcrossProvider
  BY DEF IInv, LockInv, SessionInv, Staged, Idle, NoLockAcrossProvider
<1> QED BY <1>1, Invariant, PTL

(* No stale copy brings a retired memory back.                             *)
THEOREM RetiredAlwaysStaysRetired == Spec => RetiredStaysRetired
<1>1. IInv /\ [Next]_vars => [\A i \in Ids : Retired(i) => corpus'[i].status \in RetiredStatuses]_vars
  <2> SUFFICES ASSUME IInv, [Next]_vars, NEW i \in Ids, Retired(i)
               PROVE  corpus'[i].status \in RetiredStatuses
    OBVIOUS
  <2>1. TableInv /\ (\A r \in Sessions : SessionInv(r)) /\ TypeOK /\ \A r \in Sessions : Waits(r)
    BY DEF IInv, LockInv, TableInv
  <2>2. SameAnswers \/ \E r \in Sessions : Commit(r)
    BY <2>1, CommitOrQuiet
  <2>3. CASE SameAnswers
    BY <2>3 DEF SameAnswers, Retired
  <2>4. ASSUME NEW r \in Sessions, Commit(r) PROVE corpus'[i].status \in RetiredStatuses
    BY <2>1, <2>4, CommitKeeps DEF Retired
  <2> QED BY <2>2, <2>3, <2>4
<1> QED BY <1>1, Invariant, PTL DEF Spec, RetiredStaysRetired

(* The committed corpus implements the abstract one.                       *)
LEMMA CommitRefines ==
  ASSUME TableInv, LineageSound, NEW r \in Sessions, SessionInv(r), Commit(r)
  PROVE  [Lifecycle!Next]_(Lifecycle!vars)
<1>1. CASE report[r].outcome = "created"
  <2> DEFINE n == report[r].id
  <2>1. /\ n \in Ids /\ corpus[n].status = "absent" /\ corpus'[n].status = "active"
        /\ corpus'[n].supersededBy = NoId /\ \A i \in Ids \ {n} : corpus'[i] = corpus[i]
    BY <1>1, CommitCreated
  <2>2. corpus[n].supersededBy = NoId
    BY <2>1 DEF LineageSound, Retired, RetiredStatuses
  <2>3. Lifecycle!Store(n)
    BY <2>1, <2>2 DEF Lifecycle!Store, Life, Heir
  <2> QED BY <2>1, <2>3 DEF Lifecycle!Next, Lifecycle!Ids, Ids
<1>2. CASE report[r].outcome = "replaced"
  <2> DEFINE n == report[r].id
             t == job[r].target
  <2>1. /\ n \in Ids /\ t \in Ids /\ t < n /\ t # n
        /\ corpus[n].status = "absent" /\ corpus'[n].status = "active"
        /\ corpus'[n].supersededBy = NoId
        /\ corpus[t].status # "absent" /\ corpus'[t].status = "superseded"
        /\ corpus'[t].supersededBy = n
        /\ \A i \in Ids \ {n, t} : corpus'[i] = corpus[i]
    BY <1>2, CommitReplaced DEF Ids
  <2>2. corpus[n].supersededBy = NoId
    BY <2>1 DEF LineageSound, Retired, RetiredStatuses
  <2>3. /\ Life[t] # "unknown" /\ Life[n] = "unknown"
        /\ Life' = [Life EXCEPT ![t] = "retired", ![n] = "active"]
    BY <2>1 DEF Life
  <2>4. Heir' = [Heir EXCEPT ![t] = n]
    BY <2>1, <2>2 DEF Heir
  <2>5. Lifecycle!Replace(t, n)
    BY <2>1, <2>3, <2>4 DEF Lifecycle!Replace
  <2> QED BY <2>1, <2>5 DEF Lifecycle!Next, Lifecycle!Ids, Ids
<1>3. CASE report[r].outcome = "forgotten"
  <2> DEFINE t == job[r].target
  <2>1. /\ t \in Ids /\ corpus[t].status # "absent" /\ corpus'[t].status = "deprecated"
        /\ corpus'[t].supersededBy = corpus[t].supersededBy
        /\ \A i \in Ids \ {t} : corpus'[i] = corpus[i]
    BY <1>3, CommitForgotten
  <2>2. Life[t] # "unknown" /\ Life' = [Life EXCEPT ![t] = "retired"]
    BY <2>1 DEF Life
  <2>3. Heir' = Heir
    BY <2>1 DEF Heir
  <2>4. Lifecycle!Forget(t)
    BY <2>1, <2>2, <2>3 DEF Lifecycle!Forget
  <2> QED BY <2>1, <2>4 DEF Lifecycle!Next, Lifecycle!Ids, Ids
<1>4. CASE report[r].outcome \notin {"created", "replaced", "forgotten"}
  BY <1>4, CommitOther DEF Lifecycle!vars, Life, Heir
<1> QED BY <1>1, <1>2, <1>3, <1>4

LEMMA InitRefines == Init => Lifecycle!Init
<1> SUFFICES ASSUME Init PROVE Lifecycle!Init
  OBVIOUS
<1>1. PICK types \in [1 .. InitRows -> StoredTypes], contents \in [1 .. InitRows -> Contents] :
        corpus = [i \in Ids |-> IF i <= InitRows THEN NewRow(types[i], contents[i]) ELSE NoRow]
  BY Zenon DEF Init
<1> QED BY <1>1 DEF Lifecycle!Init, Lifecycle!Ids, Lifecycle!NoId, Life, Heir, NewRow, NoRow, Ids, NoId

THEOREM Refinement == Spec => ImplementsLifecycle
<1>1. Init => Lifecycle!Init
  BY InitRefines
<1>2. IInv /\ [Next]_vars => [Lifecycle!Next]_(Lifecycle!vars)
  <2> SUFFICES ASSUME IInv, [Next]_vars PROVE [Lifecycle!Next]_(Lifecycle!vars)
    OBVIOUS
  <2>1. TableInv /\ (\A r \in Sessions : SessionInv(r)) /\ LineageSound /\ TypeOK /\ \A r \in Sessions : Waits(r)
    BY DEF IInv, LockInv, TableInv
  <2>2. SameAnswers \/ \E r \in Sessions : Commit(r)
    BY <2>1, CommitOrQuiet
  <2>3. CASE SameAnswers
    BY <2>3 DEF SameAnswers, Lifecycle!vars, Life, Heir
  <2>4. CASE \E r \in Sessions : Commit(r)
    BY <2>1, <2>4, CommitRefines
  <2> QED BY <2>2, <2>3, <2>4
<1> QED BY <1>1, <1>2, Invariant, PTL DEF Spec, ImplementsLifecycle, Lifecycle!Spec
=============================================================================
