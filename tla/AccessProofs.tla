---------------------------- MODULE AccessProofs ----------------------------
(***************************************************************************)
(* access_count is right for any number of requests and memories: it never *)
(* exceeds the completed requests that touched the memory, and no recall   *)
(* is missing from it unless the memory was reinforced too.                *)
(***************************************************************************)
EXTENDS MemoryRequestsProofs, FiniteSetTheorems

(* No completed request more, none less.                                   *)
StillTouches == \A i \in Ids : Touches(i)' = Touches(i)

LEMMA TouchesType ==
  ASSUME CountsMatch, NEW i \in Ids
  PROVE  /\ Cardinality(RecalledBy(i)) \in Nat /\ Cardinality(ReinforcedBy(i)) \in Nat
         /\ Touches(i) \in Nat
<1>1. Cardinality(RecalledBy(i)) \in Nat /\ Cardinality(ReinforcedBy(i)) \in Nat
  BY FS_CardinalityType DEF CountsMatch
<1> QED BY <1>1 DEF Touches

LEMMA CountType ==
  ASSUME TypeOK, NEW r \in Sessions, NEW i \in Ids
  PROVE  /\ corpus[i].accessCount \in Nat /\ loaded[r][i].accessCount \in Nat
         /\ dirty[r][i].accessCount \in Nat
<1>1. corpus[i] \in Row /\ loaded[r][i] \in Row /\ dirty[r][i] \in Row
  BY DEF TypeOK
<1> QED BY <1>1 DEF Row

(* Steps that complete no request.                                         *)
LEMMA QuietTouches ==
  ASSUME SameAnswers
  PROVE  /\ \A i : RecalledBy(i)' = RecalledBy(i) /\ ReinforcedBy(i)' = ReinforcedBy(i)
         /\ StillTouches
<1>1. \A i : RecalledBy(i)' = RecalledBy(i) /\ ReinforcedBy(i)' = ReinforcedBy(i)
  <2> SUFFICES ASSUME NEW i
               PROVE  RecalledBy(i)' = RecalledBy(i) /\ ReinforcedBy(i)' = ReinforcedBy(i)
    OBVIOUS
  <2>1. \A q \in Sessions : /\ Finished(q, "recalled")' <=> Finished(q, "recalled")
                            /\ Finished(q, "reinforced")' <=> Finished(q, "reinforced")
    BY DEF SameAnswers, Finished
  <2>2. \A q \in Sessions : Finished(q, "recalled") => picked'[q] = picked[q]
    BY DEF SameAnswers, Finished
  <2>3. \A q \in Sessions : Finished(q, "reinforced") => report'[q] = report[q]
    BY DEF SameAnswers, Finished
  <2>4. RecalledBy(i)' = RecalledBy(i)
    BY <2>1, <2>2, RequestsAreSessions DEF RecalledBy
  <2>5. ReinforcedBy(i)' = ReinforcedBy(i)
    BY <2>1, <2>3 DEF ReinforcedBy
  <2> QED BY <2>4, <2>5
<1> QED BY <1>1 DEF StillTouches, Touches

LEMMA QuietMatch ==
  ASSUME SameAnswers, CountsMatch PROVE CountsMatch'
<1>1. corpus' = corpus /\ \A i : RecalledBy(i)' = RecalledBy(i) /\ ReinforcedBy(i)' = ReinforcedBy(i)
  BY QuietTouches DEF SameAnswers
<1> QED BY <1>1 DEF CountsMatch, Touches

-----------------------------------------------------------------------------
(* The counts of one session.                                              *)

(* A loaded count is a committed one, of now or of before.                 *)
LEMMA LoadCounted ==
  ASSUME NEW r \in Sessions, Counted(r), CountsMatch, NEW S
  PROVE  \A i \in Ids : Load(r, S)[i].accessCount <= Touches(i)
  BY DEF Load, Counted, CountsMatch

(* A session that has flushed nothing counts nothing.                      *)
LEMMA IdleCounted ==
  ASSUME NEW r \in Sessions, Idle(r)',
         \A i \in Ids : loaded'[r][i].accessCount <= Touches(i)'
  PROVE  Counted(r)'
  BY DEF Counted, Idle

(* Neither does one whose transaction is rolled back.                      *)
LEMMA RolledBackCounted ==
  ASSUME TypeOK, CountsMatch, StillTouches, NEW S, RollBack(S),
         NEW q \in Sessions, q \in S
  PROVE  Counted(q)' /\ Marks(q)'
<1>1. /\ pc'[q] = "failed" /\ loaded'[q] = NoRows /\ dirty'[q] = NoRows
      /\ report'[q].outcome = "none"
  BY DEF RollBack, TypeOK, NoReport, Result
<1>2. Idle(q)'
  BY <1>1, NoRowsIdle DEF Idle, Written
<1>3. ASSUME NEW i \in Ids PROVE loaded'[q][i].accessCount <= Touches(i)'
  <2>1. Touches(i)' \in Nat /\ loaded'[q][i].accessCount = 0
    BY <1>1, TouchesType DEF StillTouches, NoRows, NoRow
  <2> QED BY <2>1
<1>4. Counted(q)'
  BY <1>2, <1>3, IdleCounted
<1> QED BY <1>1, <1>4 DEF Marks

LEMMA RollBackCounted ==
  ASSUME TypeOK, CountsMatch, \A q \in Sessions : Counted(q) /\ Marks(q),
         NEW S, RollBack(S), SameAnswers
  PROVE  CountsMatch' /\ \A q \in Sessions : Counted(q)' /\ Marks(q)'
<1>1. CountsMatch' /\ StillTouches /\ corpus' = corpus /\ job' = job
  BY QuietMatch, QuietTouches DEF RollBack
<1>2. ASSUME NEW q \in Sessions, q \in S PROVE Counted(q)' /\ Marks(q)'
  BY <1>1, <1>2, RolledBackCounted
<1>3. ASSUME NEW q \in Sessions, q \notin S PROVE Counted(q)' /\ Marks(q)'
  <2>1. /\ pc'[q] = pc[q] /\ loaded'[q] = loaded[q] /\ dirty'[q] = dirty[q]
        /\ report'[q] = report[q] /\ picked'[q] = picked[q] /\ want'[q] = want[q]
    BY <1>3 DEF RollBack, TypeOK
  <2>2. \A i : Written(q, i)' <=> Written(q, i)
    BY <2>1 DEF Written
  <2>3. Counted(q)'
    BY <1>1, <2>1, <2>2
       DEF Counted, CountsRecall, CountsReinforcement, CountsNothing, StillTouches
  <2> QED BY <1>1, <2>1, <2>2, <2>3 DEF Marks
<1> QED BY <1>1, <1>2, <1>3

(* What the others have flushed keeps counting as it did.                  *)
LEMMA OthersCounted ==
  ASSUME TableInv, NEW r \in Sessions, OnlyMoves(r), ChangesOwnRows(r),
         NEW q \in Sessions, q # r, Counted(q), Marks(q),
         picked'[q] = picked[q], want'[q] = want[q],
         CountsMatch, CountsMatch', \A i \in Ids : Touches(i) <= Touches(i)'
  PROVE  Counted(q)' /\ Marks(q)'
<1>1. /\ pc'[q] = pc[q] /\ job'[q] = job[q] /\ report'[q] = report[q]
      /\ loaded'[q] = loaded[q] /\ dirty'[q] = dirty[q]
      /\ \A i \in Ids : Written(q, i)' <=> Written(q, i)
      /\ \A i \in Ids : Written(q, i) => corpus'[i] = corpus[i]
  BY OthersRows
<1>2. ASSUME NEW i \in Ids
      PROVE  /\ loaded'[q][i].accessCount <= Touches(i)'
             /\ Written(q, i)' => (CountsRecall(q, i) \/ CountsReinforcement(q, i) \/ CountsNothing(q, i))'
  <2>1. Touches(i) \in Nat /\ Touches(i)' \in Nat /\ Touches(i) <= Touches(i)'
    <3>1. Cardinality(RecalledBy(i)') \in Nat /\ Cardinality(ReinforcedBy(i)') \in Nat
      BY FS_CardinalityType DEF CountsMatch
    <3> QED BY <3>1, TouchesType DEF Touches
  <2>2. loaded[q][i].accessCount \in Nat /\ dirty[q][i].accessCount \in Nat
    BY CountType DEF TableInv
  <2>3. loaded'[q][i].accessCount <= Touches(i)'
    BY <1>1, <2>1, <2>2 DEF Counted
  <2>4. ASSUME Written(q, i)'
        PROVE  (CountsRecall(q, i) \/ CountsReinforcement(q, i) \/ CountsNothing(q, i))'
    <3>1. /\ corpus'[i] = corpus[i]
          /\ CountsRecall(q, i) \/ CountsReinforcement(q, i) \/ CountsNothing(q, i)
      BY <1>1, <2>4 DEF Counted
    <3>2. CASE CountsRecall(q, i)
      BY <1>1, <3>1, <3>2 DEF CountsRecall
    <3>3. CASE CountsReinforcement(q, i)
      BY <1>1, <2>1, <2>2, <3>3 DEF CountsReinforcement
    <3>4. CASE CountsNothing(q, i)
      BY <1>1, <3>1, <3>4 DEF CountsNothing
    <3> QED BY <3>1, <3>2, <3>3, <3>4
  <2> QED BY <2>3, <2>4
<1>3. Counted(q)'
  BY <1>2 DEF Counted
<1>4. Marks(q)'
  <2>1. picked[q] \subseteq Ids
    BY DEF TableInv, TypeOK
  <2> QED BY <1>1, <2>1 DEF Marks
<1> QED BY <1>3, <1>4

-----------------------------------------------------------------------------
(* A step of a session flushes at most one count more, a right one.        *)

(* A session that has flushed nothing and flushes nothing now.             *)
LEMMA QuietCounted ==
  ASSUME TypeOK, NEW r \in Sessions, Counted(r), CountsMatch, StillTouches,
         Idle(r), dirty' = dirty,
         \/ loaded' = loaded
         \/ \E S : loaded' = [loaded EXCEPT ![r] = Load(r, S)]
  PROVE  Counted(r)'
<1>1. Idle(r)'
  BY DEF Idle, Written
<1>2. \A i \in Ids : loaded'[r][i].accessCount <= Touches(i)
  <2>1. CASE loaded' = loaded
    BY <2>1 DEF Counted
  <2>2. CASE \E S : loaded' = [loaded EXCEPT ![r] = Load(r, S)]
    <3>1. PICK S : loaded' = [loaded EXCEPT ![r] = Load(r, S)]
      BY <2>2
    <3>2. loaded'[r] = Load(r, S)
      BY <3>1 DEF TypeOK
    <3> QED BY <3>2, LoadCounted
  <2> QED BY <2>1, <2>2
<1> QED BY <1>1, <1>2, IdleCounted DEF StillTouches

LEMMA InsertCounted ==
  ASSUME TableInv, NEW r \in Sessions, SessionInv(r), Counted(r), CountsMatch, StillTouches,
         Insert(r)
  PROVE  Counted(r)' /\ Marks(r)'
<1>1. TypeOK /\ Idle(r) /\ nextId \in Ids /\ loaded' = loaded /\ corpus' = corpus
  BY DEF Insert, TableInv, SessionInv, Staged, TypeOK, Ids
<1>2. report'[r].outcome \in {"created", "replaced"} /\ (pc'[r] = "update" => job'[r].op # "recall")
  BY <1>1 DEF Insert, TypeOK, Answer, Result, Goto
<1>3. corpus[nextId].status = "absent"
  BY <1>1 DEF TableInv, Fresh, Ids
<1>4. /\ \A i \in Ids \ {nextId} : dirty'[r][i] = dirty[r][i]
      /\ dirty'[r][nextId].accessCount = 0
  BY <1>1 DEF Insert, TypeOK, NewRow
<1>5. ASSUME NEW i \in Ids, Written(r, i)' PROVE CountsNothing(r, i)'
  <2>1. i = nextId
    BY <1>1, <1>4, <1>5 DEF Idle, Written
  <2> QED BY <1>1, <1>2, <1>3, <1>4, <2>1 DEF CountsNothing
<1>6. Counted(r)'
  BY <1>1, <1>5 DEF Counted, StillTouches
<1> QED BY <1>2, <1>6 DEF Marks

LEMMA ReinforceCounted ==
  ASSUME TypeOK, NEW r \in Sessions, SessionInv(r), Counted(r), CountsMatch, StillTouches,
         Reinforce(r)
  PROVE  Counted(r)' /\ Marks(r)'
<1> DEFINE d == want[r]
<1>1. Idle(r) /\ loaded' = loaded /\ corpus' = corpus /\ job' = job /\ pc'[r] = "commit"
  BY DEF Reinforce, SessionInv, Staged, TypeOK, Goto
<1>2. CASE loaded[r][d].status # "active"
  <2>1. dirty' = dirty /\ report'[r].outcome = "inactive"
    BY <1>2 DEF Reinforce, TypeOK, Answer, Result
  <2> QED BY <1>1, <2>1, QuietCounted DEF Marks
<1>3. CASE loaded[r][d].status = "active"
  <2>1. /\ dirty' = [dirty EXCEPT ![r][d] = Reinforced(r, d)]
        /\ report'[r].outcome = "reinforced" /\ report'[r].id = d
    BY <1>3 DEF Reinforce, TypeOK, Answer, Result
  <2>2. ASSUME NEW i \in Ids, Written(r, i)' PROVE CountsReinforcement(r, i)'
    <3>1. i = d
      BY <1>1, <2>1, <2>2 DEF Idle, Written, TypeOK
    <3>2. dirty'[r][i] = Reinforced(r, i)
      BY <2>1, <3>1 DEF TypeOK
    <3>3. dirty'[r][i].accessCount = loaded[r][i].accessCount + 1
      <4>1. corpus[i] \in Row
        BY DEF TypeOK
      <4> QED BY <3>2, <4>1 DEF Reinforced, Row
    <3>4. loaded[r][i].accessCount <= Touches(i)
      BY DEF Counted
    <3>5. dirty'[r][i].accessCount <= Touches(i) + 1
      BY <3>3, <3>4, CountType, TouchesType
    <3> QED BY <2>1, <3>1, <3>5 DEF CountsReinforcement, StillTouches
  <2>3. Counted(r)'
    BY <1>1, <2>2 DEF Counted, StillTouches
  <2> QED BY <1>1, <2>1, <2>3 DEF Marks
<1> QED BY <1>2, <1>3

LEMMA MarkAccessedCounted ==
  ASSUME TypeOK, NEW r \in Sessions, SessionInv(r), PicksKnown(r), Counted(r), Marks(r),
         CountsMatch, StillTouches, MarkAccessed(r)
  PROVE  Counted(r)' /\ Marks(r)'
<1> DEFINE k == want[r]
           rest == {i \in picked[r] \ {k} : ~ Written(r, i)}
<1>1. /\ pc[r] = "update" /\ job[r].op = "recall" /\ report[r].outcome = "recalled"
      /\ k \in picked[r] /\ k \in Ids /\ corpus[k].status # "absent"
  BY DEF MarkAccessed, SessionInv, Staged, Marks, PicksKnown, KnownIds
<1>2. /\ loaded' = loaded /\ corpus' = corpus /\ job' = job /\ report' = report /\ picked' = picked
      /\ dirty' = [dirty EXCEPT ![r][k] = Accessed(k)]
  BY DEF MarkAccessed
<1>3. /\ \A i \in Ids \ {k} : dirty'[r][i] = dirty[r][i]
      /\ dirty'[r][k] = Accessed(k)
  BY <1>1, <1>2 DEF TypeOK
<1>4. dirty'[r][k].accessCount = corpus[k].accessCount + 1 /\ dirty'[r][k].status = corpus[k].status
  <2>1. corpus[k] \in Row
    BY <1>1 DEF TypeOK
  <2> QED BY <1>3, <2>1 DEF Accessed, Row
<1>5. ASSUME NEW i \in Ids, Written(r, i)' PROVE CountsRecall(r, i)'
  <2>1. CASE i = k
    BY <1>1, <1>2, <1>4, <2>1 DEF CountsRecall
  <2>2. CASE i # k
    <3>1. Written(r, i)
      BY <1>3, <1>5, <2>2 DEF Written
    <3>2. CountsRecall(r, i)
      BY <1>1, <3>1 DEF Counted, CountsReinforcement, CountsNothing
    <3> QED BY <1>2, <1>3, <2>2, <3>2 DEF CountsRecall
  <2> QED BY <2>1, <2>2
<1>6. Counted(r)'
  BY <1>2, <1>5 DEF Counted, StillTouches
<1>7. \A i \in Ids : Written(r, i) \/ i = k => Written(r, i)'
  BY <1>1, <1>3, <1>4 DEF Written
<1>8. \/ rest = {} /\ pc'[r] = "commit"
      \/ want'[r] \in rest /\ pc'[r] = "update"
  BY <1>1 DEF MarkAccessed, TypeOK, Goto
<1>9. Marks(r)'
  <2>1. picked[r] \subseteq Ids
    BY DEF TypeOK
  <2> QED BY <1>1, <1>2, <1>7, <1>8, <2>1 DEF Marks
<1> QED BY <1>6, <1>9

LEMMA RetireCounted ==
  ASSUME TypeOK, NEW r \in Sessions, SessionInv(r), Counted(r), CountsMatch, StillTouches,
         Retire(r)
  PROVE  Counted(r)' /\ Marks(r)'
<1> DEFINE t == job[r].target
<1>1. /\ pc[r] = "update" /\ job[r].op \in {"replace", "forget"} /\ t \in Ids
      /\ pc'[r] = "commit" /\ loaded' = loaded /\ corpus' = corpus /\ job' = job
      /\ job[r].op = "forget" => Idle(r)
      /\ job[r].op = "replace" => report[r].outcome = "replaced" /\ report' = report
      /\ job[r].op = "forget" => report'[r].outcome = "forgotten"
  BY DEF Retire, SessionInv, Staged, TypeOK, Goto, Answer, Result
<1>2. report'[r].outcome \in {"replaced", "forgotten"}
  BY <1>1
<1>3. /\ \A i \in Ids \ {t} : dirty'[r][i] = dirty[r][i]
      /\ dirty'[r][t] = dirty[r][t] \/ dirty'[r][t] = RetiredRow(r)
  BY <1>1 DEF Retire, TypeOK
<1>4. RetiredRow(r).accessCount = corpus[t].accessCount
  <2>1. corpus[t] \in Row
    BY <1>1 DEF TypeOK
  <2> QED BY <2>1 DEF RetiredRow, Row
<1>5. ASSUME NEW i \in Ids, Written(r, i)' PROVE CountsNothing(r, i)'
  <2>1. CASE dirty'[r][i] = dirty[r][i]
    <3>1. Written(r, i)
      BY <1>5, <2>1 DEF Written
    <3>2. report[r].outcome = "replaced"
      BY <1>1, <3>1 DEF Idle
    <3>3. CountsNothing(r, i)
      BY <3>1, <3>2 DEF Counted, CountsRecall, CountsReinforcement
    <3> QED BY <1>1, <1>2, <2>1, <3>3 DEF CountsNothing
  <2>2. CASE i = t /\ dirty'[r][t] = RetiredRow(r)
    BY <1>1, <1>2, <1>4, <2>2 DEF CountsNothing
  <2> QED BY <1>3, <2>1, <2>2
<1>6. Counted(r)'
  BY <1>1, <1>5 DEF Counted, StillTouches
<1> QED BY <1>1, <1>2, <1>6 DEF Marks

LEMMA StepCounted ==
  ASSUME TableInv, NEW r \in Sessions, SessionInv(r), Names(r), PicksKnown(r),
         Counted(r), Marks(r), CountsMatch, StillTouches,
         Arrive(r) \/ Step(r), ~ Commit(r)
  PROVE  Counted(r)' /\ Marks(r)'
<1>1. TypeOK
  BY DEF TableInv
<1>2. pc[r] \notin {"update", "commit", "done"} => Idle(r) /\ report[r].outcome = "none"
  BY DEF SessionInv, Staged
<1>3. CASE Arrive(r)
  <2>1. PICK j \in Submittable :
          /\ Goto(r, FirstStage(j))
          /\ IF FirstStage(j) = "commit" THEN Answer(r, "rejected", NoId) ELSE UNCHANGED report
    BY <1>3 DEF Arrive
  <2>2. FirstStage(j) # "update"
    BY DEF FirstStage
  <2>3. Idle(r) /\ pc'[r] # "update" /\ report'[r].outcome \in {"none", "rejected"}
    BY <1>1, <1>2, <1>3, <2>1, <2>2 DEF Arrive, TypeOK, Goto, Answer, Result
  <2>4. Counted(r)'
    BY <1>1, <1>3, <2>3, QuietCounted DEF Arrive
  <2> QED BY <2>3, <2>4 DEF Marks
<1>4. CASE SelectTarget(r)
  <2>1. /\ Idle(r) /\ job' = job /\ job[r].op \in {"replace", "forget"} /\ dirty' = dirty
        /\ report'[r].outcome \in {"none", "inactive", "not_found", "rejected"}
    BY <1>1, <1>2, <1>4 DEF SelectTarget, TypeOK, Names, Answer, Result
  <2>2. loaded' = loaded \/ \E S : loaded' = [loaded EXCEPT ![r] = Load(r, S)]
    BY <1>4 DEF SelectTarget
  <2>3. Counted(r)'
    BY <1>1, <2>1, <2>2, QuietCounted
  <2> QED BY <2>1, <2>3 DEF Marks
<1>5. CASE Embedded(r)
  <2>1. /\ Idle(r) /\ dirty' = dirty /\ loaded' = loaded
        /\ pc'[r] \in {"vector", "insert"} /\ report'[r].outcome = "none"
    BY <1>1, <1>2, <1>5 DEF Embedded, TypeOK, Goto
  <2> QED BY <1>1, <2>1, QuietCounted DEF Marks
<1>6. CASE VectorSearch(r)
  <2>1. /\ Idle(r) /\ dirty' = dirty /\ pc'[r] = "lexical" /\ report'[r].outcome = "none"
        /\ \E S : loaded' = [loaded EXCEPT ![r] = Load(r, S)]
    BY <1>1, <1>2, <1>6 DEF VectorSearch, TypeOK, Goto
  <2> QED BY <1>1, <2>1, QuietCounted DEF Marks
<1>7. CASE LexicalSearch(r)
  <2>1. /\ Idle(r) /\ dirty' = dirty /\ pc'[r] = "rerank" /\ report'[r].outcome = "none"
        /\ \E S : loaded' = [loaded EXCEPT ![r] = Load(r, S)]
    BY <1>1, <1>2, <1>7 DEF LexicalSearch, TypeOK, Goto
  <2> QED BY <1>1, <2>1, QuietCounted DEF Marks
<1>8. CASE RankRecall(r)
  <2>1. Idle(r) /\ dirty' = dirty /\ loaded' = loaded /\ job' = job /\ job[r].op = "recall"
    BY <1>2, <1>8 DEF RankRecall
  <2>2. \/ picked'[r] = {} /\ pc'[r] = "commit"
        \/ want'[r] \in picked'[r] /\ pc'[r] = "update"
    BY <1>1, <1>8 DEF RankRecall, TypeOK, Goto
  <2> QED BY <1>1, <2>1, <2>2, QuietCounted DEF Marks
<1>9. CASE RankRemember(r)
  <2>1. /\ Idle(r) /\ dirty' = dirty /\ loaded' = loaded /\ job' = job /\ job[r].op = "remember"
        /\ report'[r].outcome = "none"
    BY <1>2, <1>9 DEF RankRemember
  <2> QED BY <1>1, <2>1, QuietCounted DEF Marks
<1>10. CASE EmbeddingFails(r) \/ DeadlockVictim(r)
  BY <1>1, <1>10, RolledBackCounted DEF EmbeddingFails, DeadlockVictim
<1> QED BY <1>1, <1>3, <1>4, <1>5, <1>6, <1>7, <1>8, <1>9, <1>10, InsertCounted, ReinforceCounted,
           MarkAccessedCounted, RetireCounted DEF Step

-----------------------------------------------------------------------------
(* A commit completes one request.                                         *)

LEMMA CommitTouches ==
  ASSUME TypeOK, NEW r \in Sessions, Commit(r),
         report[r].outcome = "recalled" => r \in Requests, NEW i
  PROVE  /\ RecalledBy(i)' = IF report[r].outcome = "recalled" /\ i \in picked[r]
                             THEN RecalledBy(i) \cup {r} ELSE RecalledBy(i)
         /\ ReinforcedBy(i)' = IF report[r].outcome = "reinforced" /\ i = report[r].id
                               THEN ReinforcedBy(i) \cup {r} ELSE ReinforcedBy(i)
         /\ r \notin RecalledBy(i) /\ r \notin ReinforcedBy(i)
<1>1. /\ \A o : \A q \in Sessions : Finished(q, o)' <=> (Finished(q, o) \/ (q = r /\ report[r].outcome = o))
      /\ report' = report /\ picked' = picked /\ pc[r] = "commit"
  BY CommitFinishes DEF Commit
<1>2. RecalledBy(i)' = {q \in Requests : Finished(q, "recalled")' /\ i \in picked[q]}
  BY <1>1 DEF RecalledBy
<1>3. ReinforcedBy(i)' = {q \in Sessions : Finished(q, "reinforced")' /\ report[q].id = i}
  BY <1>1 DEF ReinforcedBy
<1>4. RecalledBy(i)' = IF report[r].outcome = "recalled" /\ i \in picked[r]
                       THEN RecalledBy(i) \cup {r} ELSE RecalledBy(i)
  BY <1>1, <1>2, RequestsAreSessions DEF RecalledBy
<1>5. ReinforcedBy(i)' = IF report[r].outcome = "reinforced" /\ i = report[r].id
                         THEN ReinforcedBy(i) \cup {r} ELSE ReinforcedBy(i)
  BY <1>1, <1>3 DEF ReinforcedBy
<1>6. r \notin RecalledBy(i) /\ r \notin ReinforcedBy(i)
  BY <1>1 DEF RecalledBy, ReinforcedBy, Finished
<1> QED BY <1>4, <1>5, <1>6

(* What nobody could see nobody recalled.                                  *)
LEMMA UnknownNotRecalled ==
  ASSUME \A q \in Sessions : PicksKnown(q), NEW i \in Ids, corpus[i].status = "absent"
  PROVE  RecalledBy(i) = {}
  BY RequestsAreSessions DEF PicksKnown, KnownIds, RecalledBy

LEMMA CommitMatch ==
  ASSUME TypeOK, NEW r \in Sessions, Commit(r), CountsMatch, Counted(r), Marks(r),
         \A q \in Sessions : PicksKnown(q),
         report[r].outcome = "recalled" => r \in Requests
  PROVE  CountsMatch' /\ \A i \in Ids : Touches(i) <= Touches(i)'
<1> SUFFICES ASSUME NEW i \in Ids
             PROVE  /\ IsFiniteSet(RecalledBy(i)') /\ IsFiniteSet(ReinforcedBy(i)')
                    /\ corpus'[i].accessCount <= Touches(i)'
                    /\ ReinforcedBy(i)' = {} => corpus'[i].accessCount >= Cardinality(RecalledBy(i)')
                    /\ Touches(i) <= Touches(i)'
  BY DEF CountsMatch
<1> DEFINE recalls == Cardinality(RecalledBy(i))
           reinforces == Cardinality(ReinforcedBy(i))
           recalled == report[r].outcome = "recalled" /\ i \in picked[r]
           reinforced == report[r].outcome = "reinforced" /\ i = report[r].id
<1>1. /\ IsFiniteSet(RecalledBy(i)) /\ IsFiniteSet(ReinforcedBy(i))
      /\ recalls \in Nat /\ reinforces \in Nat /\ Touches(i) = recalls + reinforces
      /\ corpus[i].accessCount <= recalls + reinforces
      /\ ReinforcedBy(i) = {} => corpus[i].accessCount >= recalls
  BY TouchesType DEF CountsMatch, Touches
<1>2. /\ IsFiniteSet(RecalledBy(i)')
      /\ Cardinality(RecalledBy(i)') = IF recalled THEN recalls + 1 ELSE recalls
  <2>1. CASE recalled
    BY <1>1, <2>1, CommitTouches, FS_AddElement
  <2>2. CASE ~ recalled
    BY <1>1, <2>2, CommitTouches
  <2> QED BY <2>1, <2>2
<1>3. /\ IsFiniteSet(ReinforcedBy(i)')
      /\ Cardinality(ReinforcedBy(i)') = IF reinforced THEN reinforces + 1 ELSE reinforces
      /\ reinforced => ReinforcedBy(i)' # {}
      /\ ReinforcedBy(i) # {} => ReinforcedBy(i)' # {}
  <2>1. CASE reinforced
    BY <1>1, <2>1, CommitTouches, FS_AddElement
  <2>2. CASE ~ reinforced
    BY <1>1, <2>2, CommitTouches
  <2> QED BY <2>1, <2>2
<1>4. Touches(i)' = Cardinality(RecalledBy(i)') + Cardinality(ReinforcedBy(i)')
  BY DEF Touches
<1>5. ~ (recalled /\ reinforced)
  OBVIOUS
<1>6. corpus'[i] = IF Written(r, i) THEN dirty[r][i] ELSE corpus[i]
  BY DEF Commit, Merged
<1>7. recalled => Written(r, i)
  BY DEF Marks, Commit
<1>8. corpus[i].accessCount \in Nat /\ dirty[r][i].accessCount \in Nat
  BY CountType
<1> HIDE DEF recalls, reinforces
<1>9. CASE Written(r, i) /\ CountsRecall(r, i)
  BY <1>1, <1>2, <1>3, <1>4, <1>6, <1>8, <1>9 DEF CountsRecall
<1>10. CASE Written(r, i) /\ CountsReinforcement(r, i)
  BY <1>1, <1>2, <1>3, <1>4, <1>6, <1>8, <1>10 DEF CountsReinforcement
<1>11. CASE Written(r, i) /\ CountsNothing(r, i)
  <2>1. ~ recalled /\ corpus'[i] = dirty[r][i]
    BY <1>6, <1>11 DEF CountsNothing
  <2>2. CASE dirty[r][i].accessCount = corpus[i].accessCount
    BY <1>1, <1>2, <1>3, <1>4, <1>8, <2>1, <2>2
  <2>3. CASE corpus[i].status = "absent" /\ dirty[r][i].accessCount = 0
    <3>1. RecalledBy(i) = {}
      BY <2>3, UnknownNotRecalled
    <3>2. recalls = 0
      BY <3>1, FS_EmptySet DEF recalls
    <3> QED BY <1>1, <1>2, <1>3, <1>4, <2>1, <2>3, <3>2
  <2> QED BY <1>11, <2>2, <2>3 DEF CountsNothing
<1>12. CASE ~ Written(r, i)
  BY <1>1, <1>2, <1>3, <1>4, <1>6, <1>7, <1>8, <1>12
<1> QED BY <1>9, <1>10, <1>11, <1>12 DEF Counted

LEMMA CommitCounted ==
  ASSUME TypeOK, NEW r \in Sessions, Commit(r), CountsMatch', Marks(r)
  PROVE  Counted(r)' /\ Marks(r)'
<1>1. /\ pc'[r] = "done" /\ dirty'[r] = NoRows /\ loaded'[r] = NoRows
      /\ report' = report /\ job' = job
  BY DEF Commit, TypeOK, Goto
<1>2. Idle(r)'
  BY <1>1, NoRowsIdle DEF Idle, Written
<1>3. ASSUME NEW i \in Ids PROVE loaded'[r][i].accessCount <= Touches(i)'
  <2>1. Cardinality(RecalledBy(i)') \in Nat /\ Cardinality(ReinforcedBy(i)') \in Nat
    BY FS_CardinalityType DEF CountsMatch
  <2> QED BY <1>1, <2>1 DEF NoRows, NoRow, Touches
<1>4. Counted(r)'
  BY <1>2, <1>3, IdleCounted
<1> QED BY <1>1, <1>4 DEF Marks

-----------------------------------------------------------------------------
(* The invariant.                                                          *)

LEMMA InitAccess == Init => AccessInv
<1> SUFFICES ASSUME Init PROVE AccessInv
  OBVIOUS
<1>1. PICK types \in [1 .. InitRows -> StoredTypes], contents \in [1 .. InitRows -> Contents] :
        corpus = [i \in Ids |-> IF i <= InitRows THEN NewRow(types[i], contents[i]) ELSE NoRow]
  BY Zenon DEF Init
<1>2. \A i \in Ids : corpus[i].accessCount = 0
  BY <1>1 DEF NewRow, NoRow
<1>3. \A i : RecalledBy(i) = {} /\ ReinforcedBy(i) = {}
  BY RequestsAreSessions DEF Init, RecalledBy, ReinforcedBy, Finished
<1>4. \A i : IsFiniteSet(RecalledBy(i)) /\ IsFiniteSet(ReinforcedBy(i))
  BY <1>3, FS_EmptySet
<1>5. \A i : Cardinality(RecalledBy(i)) = 0 /\ Cardinality(ReinforcedBy(i)) = 0
  BY <1>3, FS_EmptySet
<1>6. CountsMatch /\ \A i : Touches(i) = 0
  BY <1>2, <1>4, <1>5 DEF CountsMatch, Touches
<1>7. \A r \in Sessions : /\ loaded[r] = NoRows /\ pc[r] = "new" /\ report[r].outcome = "none"
                          /\ \A i \in Ids : ~ Written(r, i)
  BY NoRowsIdle DEF Init, Written, NoReport, Result
<1>8. \A r \in Sessions : Counted(r) /\ Marks(r)
  BY <1>6, <1>7 DEF Counted, Marks, NoRows, NoRow
<1> QED BY <1>6, <1>8 DEF AccessInv

(* What a step of one session does to the counts of all.                   *)
LEMMA TurnAccess ==
  ASSUME TableInv, NEW r \in Sessions, OnlyMoves(r), ChangesOwnRows(r), AccessInv,
         \A q \in Sessions \ {r} : want'[q] = want[q] /\ picked'[q] = picked[q],
         CountsMatch', \A i \in Ids : Touches(i) <= Touches(i)',
         Counted(r)', Marks(r)'
  PROVE  AccessInv'
<1>1. ASSUME NEW q \in Sessions, q # r PROVE Counted(q)' /\ Marks(q)'
  BY <1>1, OthersCounted DEF AccessInv
<1> QED BY <1>1 DEF AccessInv

LEMMA StepAccess ==
  ASSUME TableInv, AccessInv, \A q \in Sessions : PicksKnown(q),
         NEW r \in Sessions, SessionInv(r), Names(r), Waits(r), Arrive(r) \/ Step(r),
         report[r].outcome = "recalled" => r \in Requests
  PROVE  AccessInv'
<1>1. /\ TypeOK /\ CountsMatch /\ Counted(r) /\ Marks(r) /\ PicksKnown(r)
      /\ OnlyMoves(r) /\ ChangesOwnRows(r)
      /\ \A q \in Sessions \ {r} : want'[q] = want[q] /\ picked'[q] = picked[q]
  BY ArriveLock, StepLock, StepTurns DEF LockStep, TableInv, AccessInv
<1>2. CASE Commit(r)
  BY <1>1, <1>2, CommitMatch, CommitCounted, TurnAccess
<1>3. CASE ~ Commit(r)
  <2>1. SameAnswers
    BY <1>1, <1>3, ArriveAnswers, StepAnswers
  <2>2. CountsMatch' /\ StillTouches
    BY <1>1, <2>1, QuietMatch, QuietTouches
  <2>3. \A i \in Ids : Touches(i) <= Touches(i)'
    BY <1>1, <2>2, TouchesType DEF StillTouches
  <2> QED BY <1>1, <1>3, <2>2, <2>3, StepCounted, TurnAccess
<1> QED BY <1>2, <1>3

LEMMA StutterAccess ==
  ASSUME AccessInv, UNCHANGED vars PROVE AccessInv'
<1>1. SameAnswers /\ CountsMatch
  BY DEF vars, SameAnswers, AccessInv
<1>2. CountsMatch' /\ StillTouches
  BY <1>1, QuietMatch, QuietTouches
<1>3. \A q \in Sessions : Counted(q)' /\ Marks(q)'
  BY <1>2 DEF vars, AccessInv, Counted, Marks, CountsRecall, CountsReinforcement,
              CountsNothing, Written, StillTouches
<1> QED BY <1>2, <1>3 DEF AccessInv

LEMMA NextAccess == IInv /\ AccessInv /\ [Next]_vars => AccessInv'
<1> SUFFICES ASSUME IInv, AccessInv, [Next]_vars PROVE AccessInv'
  OBVIOUS
<1>1. /\ TableInv /\ TypeOK
      /\ \A r \in Sessions : SessionInv(r)
      /\ \A r \in Sessions : Names(r)
      /\ \A r \in Sessions : Waits(r)
      /\ \A r \in Sessions : PicksKnown(r)
  BY DEF IInv, LockInv, TableInv
<1>2. ASSUME NEW r \in Requests, Arrive(r) \/ Step(r) PROVE AccessInv'
  BY <1>1, <1>2, StepAccess, RequestsAreSessions
<1>3. CASE Crash
  <2>1. SameAnswers /\ RollBack(InFlight)
    BY <1>1, <1>3, RollBackAnswers DEF Crash, InFlight
  <2> QED BY <1>1, <2>1, RollBackCounted DEF AccessInv
<1>4. CASE UNCHANGED vars
  BY <1>4, StutterAccess
<1> QED BY <1>2, <1>3, <1>4 DEF Next, Served

(* The counts flushed and committed are right throughout: each completed   *)
(* request adds at most one, each recall one, to the version under the     *)
(* lock.  (mark_accessed and reinforce_memory)                             *)
THEOREM AccessInvariant == Spec => []AccessInv
<1>1. Init => AccessInv
  BY InitAccess
<1>2. IInv /\ AccessInv /\ [Next]_vars => AccessInv'
  BY NextAccess
<1> QED BY <1>1, <1>2, Invariant, PTL DEF Spec

(* access_count never exceeds the completed requests that touched the      *)
(* memory, however many there are.                                         *)
THEOREM AccessNeverOvercountedAlways == Spec => []AccessNeverOvercounted
<1>1. AccessInv => AccessNeverOvercounted
  BY DEF AccessInv, CountsMatch, Touches, AccessNeverOvercounted, KnownIds
<1> QED BY <1>1, AccessInvariant, PTL

(* No completed recall is missing from access_count, unless the memory was *)
(* reinforced too, however many recalls race.                              *)
THEOREM RecallsAlwaysCounted == Spec => []RecallsCounted
<1>1. AccessInv => RecallsCounted
  BY DEF AccessInv, CountsMatch, RecallsCounted, KnownIds
<1> QED BY <1>1, AccessInvariant, PTL
=============================================================================
