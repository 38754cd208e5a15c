--------------------------- MODULE DreamingProofs ---------------------------
(***************************************************************************)
(* Proofs about Dreaming: runs and requests together, for any sets of      *)
(* requests, runs, contents and types, any number of rows, any limits and  *)
(* any order of the primary keys.                                          *)
(*                                                                         *)
(* What a step means to the other sessions is proved once (OthersGoOn);    *)
(* what it means to the session that takes it, action by action (the OwnX  *)
(* lemmas); what a commit means to the corpus, for the commits of requests *)
(* and for those of runs.                                                  *)
(***************************************************************************)
EXTENDS DreamingInvariant, AccessProofs

-----------------------------------------------------------------------------
(* Data.                                                                   *)

LEMMA DreamersAreSessions == Dreamers \subseteq Sessions
  BY DEF Sessions

(* The row a flush updates first is one of its rows.                       *)
LEMMA FirstKeyIn ==
  ASSUME NEW S \in SUBSET Ids, S # {}
  PROVE  FirstKey(S) \in S
<1> DEFINE upTo(i) == {k \in S : KeyRank[k] <= KeyRank[i]}
           heads == {upTo(i) : i \in S}
<1>1. \A i \in S : KeyRank[i] \in Nat
  BY DreamingKeys
<1>2. IsFiniteSet(Ids)
  BY FS_Interval, RequestsBounds DEF Ids
<1>3. heads \subseteq FiniteSubsetsOf(Ids) /\ heads # {}
  <2>1. \A i \in S : upTo(i) \in SUBSET Ids
    OBVIOUS
  <2>2. heads \subseteq SUBSET Ids
    BY <2>1
  <2>3. heads # {}
    OBVIOUS
  <2> HIDE DEF heads
  <2> QED BY <1>2, <2>2, <2>3, FS_FiniteSubsetsOfFinite
<1>4. PICK T \in heads : \A U \in heads : ~ (<<U, T>> \in StrictSubsetOrdering(Ids))
  <2> HIDE DEF heads
  <2> QED BY <1>3, WFMin, FS_StrictSubsetOrderingWellFounded
<1>5. PICK i \in S : T = upTo(i)
  OBVIOUS
<1>6. ASSUME NEW k \in S, ~ (KeyRank[i] <= KeyRank[k]) PROVE FALSE
  <2>1. upTo(k) \subseteq upTo(i) /\ i \notin upTo(k) /\ i \in upTo(i)
    BY <1>1, <1>6
  <2>2. upTo(k) \in heads /\ upTo(k) \in SUBSET Ids /\ upTo(i) \in SUBSET Ids
    OBVIOUS
  <2>3. <<upTo(k), upTo(i)>> \in StrictSubsetOrdering(Ids)
    <3> HIDE DEF upTo
    <3> QED BY <2>1, <2>2 DEF StrictSubsetOrdering
  <2> QED BY <1>4, <1>5, <2>2, <2>3
<1> QED BY <1>6 DEF FirstKey

(* Only active episodes of S are selected.                                 *)
LEMMA EpisodesAre ==
  ASSUME NEW table, NEW S
  PROVE  \A i \in Episodes(table, S) :
           i \in S /\ table[i].type = "episode" /\ table[i].status = "active"
  BY DEF Episodes

-----------------------------------------------------------------------------
(* What the steps of a run's own gather, field by field.                   *)

LEMMA SelectSeedsEffect ==
  ASSUME DreamTypeOK, NEW d \in Dreamers, SelectSeeds(d)
  PROVE  \E S \in SUBSET Episodes(corpus, Ids) :
           /\ dream' \in [Dreamers -> Dreams]
           /\ \A e \in Dreamers \ {d} : dream'[e] = dream[e]
           /\ dream'[d].queue = S /\ dream'[d].batch = {}
           /\ Goto(d, IF S = {} THEN "complete" ELSE "batch")
<1>1. PICK S \in Limited(SeedLimit, Episodes(corpus, Ids)), dry \in BOOLEAN :
        /\ dream' = [dream EXCEPT ![d] = [Asleep EXCEPT !.dryRun = dry, !.seeds = S, !.queue = S]]
        /\ Goto(d, IF S = {} THEN "complete" ELSE "batch")
  BY DEF SelectSeeds
<1>2. S \in SUBSET Episodes(corpus, Ids) /\ S \subseteq Ids
  BY LimitedSubset DEF Episodes
<1>3. ASSUME NEW D \in Dreams
      PROVE  /\ [D EXCEPT !.dryRun = dry, !.seeds = S, !.queue = S] \in Dreams
             /\ [D EXCEPT !.dryRun = dry, !.seeds = S, !.queue = S].queue = S
             /\ [D EXCEPT !.dryRun = dry, !.seeds = S, !.queue = S].batch = D.batch
  BY <1>2 DEF Dreams
<1>4. Asleep \in Dreams /\ Asleep.batch = {}
  BY DEF Asleep, Dreams
<1> DEFINE D == [Asleep EXCEPT !.dryRun = dry, !.seeds = S, !.queue = S]
<1>5. D \in Dreams /\ D.queue = S /\ D.batch = {}
  BY <1>3, <1>4
<1> HIDE DEF D
<1>6. dream' = [dream EXCEPT ![d] = D]
  BY <1>1 DEF D
<1>7. /\ dream' \in [Dreamers -> Dreams] /\ dream'[d] = D
      /\ \A e \in Dreamers \ {d} : dream'[e] = dream[e]
  BY <1>5, <1>6 DEF DreamTypeOK
<1> QED BY <1>1, <1>2, <1>5, <1>7

LEMMA QualifyBatchEffect ==
  ASSUME DreamTypeOK, NEW d \in Dreamers, QualifyBatch(d)
  PROVE  \E seed \in dream[d].queue, similar \in SUBSET Episodes(corpus, Ids) :
           /\ dream' \in [Dreamers -> Dreams]
           /\ \A e \in Dreamers \ {d} : dream'[e] = dream[e]
           /\ dream'[d].dryRun = dream[d].dryRun
           /\ \/ /\ dream'[d].queue = dream[d].queue \ {seed}
                 /\ dream'[d].batch = dream[d].batch
                 /\ Goto(d, IF dream[d].queue = {seed} THEN "complete" ELSE "batch")
              \/ /\ dream'[d].queue = {} /\ dream'[d].batch = similar \cup {seed}
                 /\ Goto(d, "synthesis")
<1>1. PICK seed \in dream[d].queue :
        \E similar \in AtMost(BatchSize - 1, Episodes(corpus, Ids) \ {seed}) :
            \/ /\ dream' = [dream EXCEPT ![d].queue = dream[d].queue \ {seed}]
               /\ Goto(d, IF dream[d].queue = {seed} THEN "complete" ELSE "batch")
            \/ /\ dream' = [dream EXCEPT ![d].queue = {}, ![d].batch = similar \cup {seed}]
               /\ Goto(d, "synthesis")
  BY DEF QualifyBatch, DreamTypeOK
<1>2. PICK similar \in AtMost(BatchSize - 1, Episodes(corpus, Ids) \ {seed}) :
            \/ /\ dream' = [dream EXCEPT ![d].queue = dream[d].queue \ {seed}]
               /\ Goto(d, IF dream[d].queue = {seed} THEN "complete" ELSE "batch")
            \/ /\ dream' = [dream EXCEPT ![d].queue = {}, ![d].batch = similar \cup {seed}]
               /\ Goto(d, "synthesis")
  BY <1>1
<1>3. similar \in SUBSET Episodes(corpus, Ids) /\ similar \subseteq Ids
  BY AtMostSubset DEF Episodes
<1>4. dream[d] \in Dreams /\ dream \in [Dreamers -> Dreams]
  BY DEF DreamTypeOK
<1>5. seed \in Ids
  BY <1>4 DEF Dreams
<1>6. CASE /\ dream' = [dream EXCEPT ![d].queue = dream[d].queue \ {seed}]
           /\ Goto(d, IF dream[d].queue = {seed} THEN "complete" ELSE "batch")
  BY <1>3, <1>4, <1>6 DEF Dreams
<1>7. CASE /\ dream' = [dream EXCEPT ![d].queue = {}, ![d].batch = similar \cup {seed}]
           /\ Goto(d, "synthesis")
  BY <1>3, <1>4, <1>5, <1>7 DEF Dreams
<1> QED BY <1>2, <1>6, <1>7

LEMMA SelectSourcesEffect ==
  ASSUME DreamTypeOK, NEW d \in Dreamers, SelectSources(d)
  PROVE  LET sources == IF Promoted(d) THEN Episodes(OwnView(d), dream[d].batch) ELSE {} IN
         /\ sources \subseteq Ids
         /\ dream' \in [Dreamers -> Dreams]
         /\ \A e \in Dreamers \ {d} : dream'[e] = dream[e]
         /\ dream'[d].dryRun = dream[d].dryRun
         /\ dream'[d].queue = dream[d].queue /\ dream'[d].batch = dream[d].batch
         /\ \/ sources = {} /\ want' = want /\ Goto(d, "complete")
            \/ /\ FirstKey(sources) \in sources
               /\ dream'[d].marking = sources
               /\ want' = [want EXCEPT ![d] = FirstKey(sources)]
               /\ Goto(d, "consolidate")
<1> DEFINE sources == IF Promoted(d) THEN Episodes(OwnView(d), dream[d].batch) ELSE {}
<1>1. dream[d] \in Dreams /\ dream \in [Dreamers -> Dreams]
  BY DEF DreamTypeOK
<1>2. sources \subseteq Ids
  BY <1>1 DEF Episodes, Dreams
<1>3. sources # {} => FirstKey(sources) \in sources
  BY <1>2, FirstKeyIn
<1>4. \/ sources = {} /\ UNCHANGED <<dream, want>> /\ Goto(d, "complete")
      \/ /\ sources # {}
         /\ dream' = [dream EXCEPT ![d].marking = sources]
         /\ want' = [want EXCEPT ![d] = FirstKey(sources)]
         /\ Goto(d, "consolidate")
  BY DEF SelectSources
<1> HIDE DEF sources
<1>5. CASE sources = {} /\ UNCHANGED <<dream, want>> /\ Goto(d, "complete")
  BY <1>1, <1>2, <1>5 DEF sources
<1>6. CASE sources # {} /\ dream' = [dream EXCEPT ![d].marking = sources]
  <2>1. /\ dream' \in [Dreamers -> Dreams] /\ \A e \in Dreamers \ {d} : dream'[e] = dream[e]
        /\ dream'[d].dryRun = dream[d].dryRun
        /\ dream'[d].queue = dream[d].queue /\ dream'[d].batch = dream[d].batch
        /\ dream'[d].marking = sources
    BY <1>1, <1>2, <1>6 DEF Dreams
  <2> QED BY <1>2, <1>3, <1>4, <1>6, <2>1 DEF sources
<1> QED BY <1>4, <1>5, <1>6

LEMMA ConsolidateEffect ==
  ASSUME DreamTypeOK, NEW d \in Dreamers, Consolidate(d)
  PROVE  LET rest == dream[d].marking \ {want[d]} IN
         /\ rest \subseteq Ids
         /\ dream' \in [Dreamers -> Dreams]
         /\ \A e \in Dreamers \ {d} : dream'[e] = dream[e]
         /\ dream'[d].dryRun = dream[d].dryRun
         /\ dream'[d].queue = dream[d].queue /\ dream'[d].batch = dream[d].batch
         /\ dream'[d].marking = rest
         /\ \/ rest = {} /\ want' = [want EXCEPT ![d] = NoId] /\ Goto(d, "complete")
            \/ /\ FirstKey(rest) \in rest /\ want' = [want EXCEPT ![d] = FirstKey(rest)]
               /\ pc' = pc
<1> DEFINE rest == dream[d].marking \ {want[d]}
<1>1. dream[d] \in Dreams /\ dream \in [Dreamers -> Dreams]
  BY DEF DreamTypeOK
<1>2. rest \subseteq Ids
  BY <1>1 DEF Dreams
<1>3. rest # {} => FirstKey(rest) \in rest
  BY <1>2, FirstKeyIn
<1>4. /\ dream' = [dream EXCEPT ![d].marking = rest]
      /\ \/ rest = {} /\ want' = [want EXCEPT ![d] = NoId] /\ Goto(d, "complete")
         \/ rest # {} /\ want' = [want EXCEPT ![d] = FirstKey(rest)] /\ pc' = pc
  BY DEF Consolidate
<1> HIDE DEF rest
<1>5. /\ dream' \in [Dreamers -> Dreams] /\ \A e \in Dreamers \ {d} : dream'[e] = dream[e]
      /\ dream'[d].dryRun = dream[d].dryRun
      /\ dream'[d].queue = dream[d].queue /\ dream'[d].batch = dream[d].batch
      /\ dream'[d].marking = rest
  BY <1>1, <1>2, <1>4 DEF Dreams
<1> QED BY <1>2, <1>3, <1>4, <1>5 DEF rest

-----------------------------------------------------------------------------
(* Type correctness.                                                       *)

LEMMA DreamInitType == DreamInit => DreamTypeOK
  BY InitType DEF DreamInit, DreamTypeOK, Asleep, Dreams, NoAudit, Audits

LEMMA SelectSeedsType ==
  ASSUME DreamTypeOK, NEW d \in Dreamers, SelectSeeds(d) PROVE DreamTypeOK'
<1>1. TypeOK /\ d \in Sessions
  BY DreamersAreSessions DEF DreamTypeOK
<1>2. dream' \in [Dreamers -> Dreams] /\ pc' \in [Sessions -> Stages]
  BY <1>1, SelectSeedsEffect DEF TypeOK, Goto, Stages
<1>3. loaded' \in [Sessions -> [Ids -> Row]]
  BY <1>1, LoadType DEF SelectSeeds, TypeOK
<1>4. goneBefore' \in [Sessions -> SUBSET Ids]
  BY <1>1 DEF SelectSeeds, TypeOK, KnownIds
<1> QED BY <1>1, <1>2, <1>3, <1>4 DEF SelectSeeds, DreamTypeOK, TypeOK

LEMMA QualifyBatchType ==
  ASSUME DreamTypeOK, NEW d \in Dreamers, QualifyBatch(d) PROVE DreamTypeOK'
<1>1. TypeOK /\ d \in Sessions
  BY DreamersAreSessions DEF DreamTypeOK
<1>2. dream' \in [Dreamers -> Dreams] /\ pc' \in [Sessions -> Stages]
  BY <1>1, QualifyBatchEffect DEF TypeOK, Goto, Stages
<1>3. loaded' \in [Sessions -> [Ids -> Row]]
  BY <1>1, LoadType DEF QualifyBatch, TypeOK
<1> QED BY <1>1, <1>2, <1>3 DEF QualifyBatch, DreamTypeOK, TypeOK

LEMMA ProposeType ==
  ASSUME DreamTypeOK, NEW d \in Dreamers, Propose(d) PROVE DreamTypeOK'
<1>1. TypeOK /\ d \in Sessions
  BY DreamersAreSessions DEF DreamTypeOK
<1>2. PICK c \in Contents \cup {Blank}, t \in StoredTypes :
        LET j == JobOf("remember", NoId, c, t) IN
        /\ job' = [job EXCEPT ![d] = j]
        /\ Goto(d, FirstStage(j))
        /\ IF FirstStage(j) = "commit" THEN Answer(d, "rejected", NoId) ELSE UNCHANGED report
  BY DEF Propose
<1>3. PICK j : j = JobOf("remember", NoId, c, t)
  OBVIOUS
<1>4. j \in Job
  BY <1>3 DEF JobOf, Job, AllOps, StoredTypes, Types, DocumentedTypes
<1>5. FirstStage(j) \in Stages
  BY DEF FirstStage, Stages
<1>6. report' \in [Sessions -> Report]
  BY <1>1, <1>2, <1>3, AnswerType DEF TypeOK, NoId
<1> QED BY <1>1, <1>2, <1>3, <1>4, <1>5, <1>6 DEF Propose, DreamTypeOK, TypeOK, Goto

LEMMA SelectSourcesType ==
  ASSUME DreamTypeOK, NEW d \in Dreamers, SelectSources(d) PROVE DreamTypeOK'
<1>1. TypeOK /\ d \in Sessions
  BY DreamersAreSessions DEF DreamTypeOK
<1>2. dream' \in [Dreamers -> Dreams] /\ pc' \in [Sessions -> Stages]
  BY <1>1, SelectSourcesEffect DEF TypeOK, Goto, Stages
<1>3. want' \in [Sessions -> Ids \cup {NoId}]
  BY <1>1, SelectSourcesEffect DEF TypeOK
<1> QED BY <1>1, <1>2, <1>3 DEF SelectSources, DreamTypeOK, TypeOK

(* What a consolidation leaves of row i.                                   *)
LEMMA ConsolidatedRow ==
  ASSUME TypeOK, NEW d \in Dreamers, NEW i \in Ids
  PROVE  /\ Consolidated(d, i) \in Row
         /\ Consolidated(d, i).status = "consolidated"
         /\ Consolidated(d, i).supersededBy = OwnView(d)[i].supersededBy
         /\ Consolidated(d, i).accessCount = OwnView(d)[i].accessCount
         /\ SameMemory(Consolidated(d, i), OwnView(d)[i])
<1>1. OwnView(d)[i] \in Row
  BY DreamersAreSessions DEF TypeOK, OwnView, Merged
<1>2. ASSUME NEW row \in Row
      PROVE  /\ [row EXCEPT !.status = "consolidated"] \in Row
             /\ [row EXCEPT !.status = "consolidated"].status = "consolidated"
             /\ [row EXCEPT !.status = "consolidated"].supersededBy = row.supersededBy
             /\ [row EXCEPT !.status = "consolidated"].accessCount = row.accessCount
             /\ SameMemory([row EXCEPT !.status = "consolidated"], row)
  BY DEF Row, RetiredStatuses, SameMemory
<1> QED BY <1>1, <1>2 DEF Consolidated

LEMMA ConsolidateType ==
  ASSUME DreamTypeOK, NEW d \in Dreamers, Consolidate(d) PROVE DreamTypeOK'
<1>1. TypeOK /\ d \in Sessions
  BY DreamersAreSessions DEF DreamTypeOK
<1>2. dream' \in [Dreamers -> Dreams] /\ pc' \in [Sessions -> Stages]
  BY <1>1, ConsolidateEffect DEF TypeOK, Goto, Stages
<1>3. want' \in [Sessions -> Ids \cup {NoId}]
  <2> DEFINE rest == dream[d].marking \ {want[d]}
  <2>1. /\ rest \subseteq Ids
        /\ \/ want' = [want EXCEPT ![d] = NoId]
           \/ FirstKey(rest) \in rest /\ want' = [want EXCEPT ![d] = FirstKey(rest)]
    BY ConsolidateEffect
  <2> HIDE DEF rest
  <2> QED BY <1>1, <2>1 DEF TypeOK
<1>4. dirty' \in [Sessions -> [Ids -> Row]]
  BY <1>1, ConsolidatedRow, FlushType DEF Consolidate
<1> QED BY <1>1, <1>2, <1>3, <1>4 DEF Consolidate, DreamTypeOK, TypeOK

LEMMA CompleteRunType ==
  ASSUME DreamTypeOK, NEW d \in Dreamers, CompleteRun(d), Promoted(d) => report[d].id \in Ids
  PROVE  DreamTypeOK'
<1>1. TypeOK /\ d \in Sessions
  BY DreamersAreSessions DEF DreamTypeOK
<1>2. dream[d] \in Dreams
  BY DEF DreamTypeOK
<1>3. [status |-> IF dream[d].dryRun THEN "dry_run" ELSE "completed",
       seeds |-> dream[d].seeds, sources |-> dream[d].batch,
       created |-> IF Promoted(d) THEN {report[d].id} ELSE {}] \in Audits
  BY <1>2 DEF Dreams, Audits
<1>4. audit' \in [Dreamers -> Audits]
  BY <1>3 DEF CompleteRun, DreamTypeOK
<1>5. pc' \in [Sessions -> Stages]
  BY <1>1 DEF CompleteRun, TypeOK, Goto, Stages
<1> QED BY <1>1, <1>4, <1>5 DEF CompleteRun, DreamTypeOK, TypeOK

-----------------------------------------------------------------------------
(* What a step of one session means to the others.                         *)

(* A step of s, as OnlyMoves, for the variables LockInv does not read.     *)
OnlyTurns(s) ==
  /\ \A q \in Sessions \ {s} :
       want'[q] = want[q] /\ picked'[q] = picked[q] /\ goneBefore'[q] = goneBefore[q]
  /\ \A e \in Dreamers \ {s} : dream'[e] = dream[e] /\ audit'[e] = audit[e]

(* Nothing that is there goes away, changes or comes back.                 *)
CorpusKeeps ==
  \A i \in Ids :
    /\ corpus[i].status # "absent" =>
         corpus'[i].status # "absent" /\ SameMemory(corpus'[i], corpus[i])
    /\ Retired(i) => Retired(i)'

LEMMA SameCorpusKeeps == corpus' = corpus => CorpusKeeps
  BY DEF CorpusKeeps, Retired, SameMemory

(* What Closes says of d rests on d, its flushed rows and their committed  *)
(* versions.                                                               *)
LEMMA ClosesStays ==
  ASSUME NEW d \in Dreamers, Closes(d), CorpusKeeps,
         pc'[d] = pc[d], job'[d] = job[d], report'[d] = report[d], want'[d] = want[d],
         dirty'[d] = dirty[d], dream'[d] = dream[d], audit'[d] = audit[d],
         \A i \in Ids : Written(d, i) => corpus'[i] = corpus[i],
         dream[d].batch \subseteq Ids
  PROVE  Closes(d)'
<1>1. \A i \in Ids : Written(d, i)' <=> Written(d, i)
  BY DEF Written
<1>2. ASSUME NEW i \in Ids, Written(d, i)
      PROVE  /\ PendingInsert(d, i) => PendingInsert(d, i)'
             /\ PendingAccess(d, i) => PendingAccess(d, i)'
             /\ PendingConsolidation(d, i) => PendingConsolidation(d, i)'
  BY <1>2 DEF PendingInsert, PendingAccess, PendingConsolidation, Promoted, SameMemory
<1>3. \A i \in Ids : Settled(d, i) => Settled(d, i)'
  BY <1>1 DEF Settled, CorpusKeeps
<1>4. Promoted(d)' <=> Promoted(d)
  BY DEF Promoted
<1>5. \A i \in Ids : Written(d, i)' =>
        PendingInsert(d, i)' \/ PendingAccess(d, i)' \/ PendingConsolidation(d, i)'
  BY <1>1, <1>2 DEF Closes
<1>6. (report[d].outcome = "created" =>
         report[d].id \in Ids /\ Written(d, report[d].id) /\ PendingInsert(d, report[d].id))'
  <2>1. PICK n : n = report[d].id
    OBVIOUS
  <2>2. report[d].outcome = "created" => n \in Ids /\ Written(d, n)' /\ PendingInsert(d, n)'
    BY <1>1, <1>2, <2>1 DEF Closes
  <2>3. report'[d].id = n /\ report'[d].outcome = report[d].outcome
    BY <2>1
  <2> QED BY <2>2, <2>3 DEF Written, PendingInsert
<1>7. Promoted(d)' => \A i \in dream'[d].batch :
        Settled(d, i)' \/ (pc'[d] = "consolidate" /\ i \in dream'[d].marking)
  BY <1>3, <1>4 DEF Closes
<1>8. /\ pc'[d] = "consolidate" =>
           Promoted(d)' /\ want'[d] \in dream'[d].marking /\ dream'[d].marking \subseteq dream'[d].batch
      /\ pc'[d] = "commit" =>
           /\ audit'[d].sources = dream'[d].batch
           /\ audit'[d].created = IF Promoted(d)' THEN {report'[d].id} ELSE {}
  BY <1>4 DEF Closes
<1> QED BY <1>5, <1>6, <1>7, <1>8 DEF Closes

(* The others go on as they were.                                          *)
LEMMA OthersGoOn ==
  ASSUME DreamTypeOK, TableInv, NEW s \in Sessions, OnlyMoves(s), ChangesOwnRows(s), OnlyTurns(s),
         CorpusKeeps, NEW q \in Sessions, q # s
  PROVE  /\ AnySession(q) => AnySession(q)'
         /\ q \in Dreamers /\ RunInv(q) => RunInv(q)'
<1>1. /\ pc'[q] = pc[q] /\ job'[q] = job[q] /\ report'[q] = report[q]
      /\ loaded'[q] = loaded[q] /\ dirty'[q] = dirty[q]
      /\ \A i \in Ids : Written(q, i) => corpus'[i] = corpus[i]
  BY OthersRows
<1>2. want'[q] = want[q] /\ picked'[q] = picked[q] /\ goneBefore'[q] = goneBefore[q]
  BY DEF OnlyTurns
<1>3. q \in Dreamers => dream'[q] = dream[q] /\ audit'[q] = audit[q]
  BY DEF OnlyTurns
<1>4. Closing(q)' <=> Closing(q)
  BY <1>1, <1>3 DEF Closing
<1>5. KnownIds \subseteq KnownIds'
  BY DEF KnownIds, CorpusKeeps
<1>6. ASSUME AnySession(q) PROVE AnySession(q)'
  <2>1. Closing(q)' \/ SessionInv(q)'
    BY <1>4, <1>6, OthersStand DEF AnySession
  <2>2. Picks(q)'
    <3>1. \A i \in goneBefore[q] : Retired(i)'
      BY <1>6 DEF AnySession, Picks, CorpusKeeps, DreamTypeOK, TypeOK
    <3> QED BY <1>1, <1>2, <1>6, <3>1 DEF AnySession, Picks
  <2>3. Names(q)' /\ Waits(q)'
    BY <1>1, <1>2, <1>6 DEF AnySession, Names, Waits
  <2>4. PicksKnown(q)'
    BY <1>1, <1>2, <1>5, <1>6 DEF AnySession, PicksKnown
  <2> QED BY <2>1, <2>2, <2>3, <2>4 DEF AnySession
<1>7. ASSUME q \in Dreamers, RunInv(q) PROVE RunInv(q)'
  <2>1. dream[q] \in Dreams
    BY <1>7 DEF DreamTypeOK
  <2>2. Gathers(q)'
    BY <1>2, <1>3, <1>7 DEF RunInv, Gathers, KnownIds, CorpusKeeps, SameMemory
  <2>3. Remembers(q)'
    BY <1>1, <1>3, <1>5, <1>7 DEF RunInv, Remembers, Promoted
  <2>4. Closing(q)' => Closes(q)'
    BY <1>1, <1>2, <1>3, <1>4, <1>7, <2>1, ClosesStays DEF RunInv, Dreams
  <2> QED BY <2>2, <2>3, <2>4 DEF RunInv
<1> QED BY <1>6, <1>7

(* What a step of s owes to everybody else, and to the invariant.          *)
Turn(s) == LockStep(s) /\ OnlyTurns(s) /\ CorpusKeeps

AllSessions == (\A q \in Sessions : AnySession(q)) /\ (\A e \in Dreamers : RunInv(e))

LEMMA TurnGoesOn ==
  ASSUME DreamTypeOK, TableInv, AllSessions, NEW s \in Sessions, Turn(s),
         AnySession(s)', s \in Dreamers => RunInv(s)'
  PROVE  TableInv' /\ AllSessions'
<1>1. TableInv' /\ OnlyMoves(s) /\ ChangesOwnRows(s) /\ OnlyTurns(s) /\ CorpusKeeps
  BY DEF Turn, LockStep
<1>2. \A q \in Sessions : AnySession(q)'
  BY <1>1, OthersGoOn DEF AllSessions
<1>3. \A e \in Dreamers : RunInv(e)'
  BY <1>1, OthersGoOn, DreamersAreSessions DEF AllSessions
<1> QED BY <1>1, <1>2, <1>3 DEF AllSessions

-----------------------------------------------------------------------------
(* The steps of MemoryRequests, taken beside runs or by a run.             *)

(* A step of MemoryRequests by a session that is not closing.              *)
LEMMA StepTurn ==
  ASSUME TableInv, AllSessions, NEW s \in Sessions, SessionInv(s), Arrive(s) \/ Step(s),
         UNCHANGED <<dream, audit>>, ~ Closing(s)'
  PROVE  Turn(s) /\ AnySession(s)' /\ (SameAnswers \/ Commit(s))
<1>1. /\ TypeOK /\ \A q \in Sessions : AnySession(q) /\ Picks(q) /\ Names(q) /\ Waits(q)
      /\ PicksKnown(s)
  BY DEF AllSessions, AnySession, TableInv
<1>2. LockStep(s) /\ SessionInv(s)'
  BY ArriveLock, StepLock
<1>3. SameAnswers \/ Commit(s)
  BY <1>1, ArriveAnswers, StepAnswers
<1>4. CorpusKeeps
  <2>1. CASE SameAnswers
    BY <2>1, SameCorpusKeeps DEF SameAnswers
  <2>2. CASE Commit(s)
    BY <2>2, CommitKeeps DEF CorpusKeeps
  <2> QED BY <1>3, <2>1, <2>2
<1>5. OnlyTurns(s)
  BY <1>1, StepTurns DEF OnlyTurns
<1>6. Picks(s)' /\ Names(s)' /\ Waits(s)'
  BY <1>1, StepPicks, StepNames, StepWaits
<1>7. KnownIds \subseteq KnownIds'
  BY <1>4 DEF CorpusKeeps, KnownIds
<1>8. PicksKnown(s)'
  BY <1>1, <1>7, StepKnown
<1> QED BY <1>2, <1>3, <1>4, <1>5, <1>6, <1>8 DEF Turn, AnySession

(* Requests are not runs.                                                  *)
LEMMA RequestsDoNotClose ==
  ASSUME NEW r \in Requests
  PROVE  r \in Sessions /\ r \notin Dreamers /\ ~ Closing(r) /\ ~ Closing(r)'
  BY DreamingSessions DEF Sessions, Closing

LEMMA RequestTurn ==
  ASSUME TableInv, AllSessions, NEW r \in Requests, Request(r)
  PROVE  Turn(r) /\ AnySession(r)' /\ SessionInv(r) /\ (SameAnswers \/ Commit(r))
<1>1. SessionInv(r) /\ r \in Sessions /\ ~ Closing(r)'
  BY RequestsDoNotClose DEF AllSessions, AnySession
<1> QED BY <1>1, StepTurn DEF Request

-----------------------------------------------------------------------------
(* The steps of a run.                                                     *)

(* The episodes stay what they were.                                       *)
LEMMA GathersStays ==
  ASSUME NEW d \in Dreamers, Gathers(d), CorpusKeeps,
         dream'[d].queue \cup dream'[d].batch \subseteq dream[d].queue \cup dream[d].batch,
         goneBefore'[d] = goneBefore[d]
  PROVE  Gathers(d)'
<1>1. \A i \in KnownIds : i \in KnownIds' /\ corpus'[i].type = corpus[i].type
  BY DEF KnownIds, CorpusKeeps, SameMemory
<1> QED BY <1>1 DEF Gathers

(* remember_memory, as the run calls it.                                   *)
LEMMA PromoteTurn ==
  ASSUME DreamTypeOK, TableInv, AllSessions, NEW d \in Dreamers, Promote(d)
  PROVE  Turn(d) /\ AnySession(d)' /\ RunInv(d)' /\ SameAnswers /\ UNCHANGED <<dream, audit>>
<1>1. /\ TypeOK /\ d \in Sessions /\ AnySession(d) /\ Gathers(d) /\ Remembers(d) /\ PicksKnown(d)
      /\ UNCHANGED <<dream, audit>> /\ Step(d)
  BY DreamersAreSessions DEF TableInv, AllSessions, AnySession, RunInv, Promote, Step
<1>2. pc[d] \in {"embed", "vector", "lexical", "rerank", "insert", "update"}
  BY DEF Promote, Embedded, EmbeddingFails, VectorSearch, LexicalSearch, RankRemember, Insert,
         Reinforce
<1>3. job[d].op = "remember" /\ ~ dream[d].dryRun /\ audit[d] = NoAudit
  BY <1>1, <1>2 DEF Remembers
<1>4. SessionInv(d) /\ (pc[d] # "update" => report[d].outcome = "none") /\ report[d].outcome = "none"
  BY <1>1, <1>2, <1>3 DEF AnySession, Closing, SessionInv, Staged
<1>5. pc'[d] \in {"vector", "failed", "lexical", "rerank", "insert", "update", "commit"}
  <2>1. CASE EmbeddingFails(d)
    BY <1>1, <2>1 DEF EmbeddingFails, RollBack
  <2> QED BY <1>1, <1>3, <2>1 DEF TypeOK, Promote, Embedded, VectorSearch, LexicalSearch,
             RankRemember, Insert, Reinforce, Goto
<1>6. ~ Closing(d)'
  BY <1>1, <1>3, <1>5 DEF Closing
<1>7. ~ Commit(d)
  BY <1>2 DEF Commit
<1>8. Turn(d) /\ AnySession(d)' /\ SameAnswers
  BY <1>1, <1>4, <1>6, <1>7, StepTurn
<1>9. Gathers(d)'
  <2>1. goneBefore'[d] = goneBefore[d]
    BY DEF Promote, Embedded, EmbeddingFails, VectorSearch, LexicalSearch, RankRemember, Insert,
           Reinforce, RollBack
  <2> QED BY <1>1, <1>8, <2>1, GathersStays DEF Turn
<1>10. Remembers(d)'
  <2>1. job'[d] = job[d]
    BY DEF Promote, Embedded, EmbeddingFails, VectorSearch, LexicalSearch, RankRemember, Insert,
           Reinforce, RollBack
  <2>2. \/ report'[d].outcome = "none"
        \/ report'[d].outcome = "created" /\ report'[d].id \in Ids
        \/ report'[d].outcome = "reinforced" /\ report'[d].id \in KnownIds
        \/ report'[d].outcome = "inactive"
    <3>1. CASE EmbeddingFails(d)
      BY <1>1, <3>1 DEF EmbeddingFails, RollBack, NoReport, Result
    <3>2. CASE Embedded(d) \/ VectorSearch(d) \/ LexicalSearch(d) \/ RankRemember(d)
      BY <1>4, <3>2 DEF Embedded, VectorSearch, LexicalSearch, RankRemember
    <3>3. CASE Insert(d)
      <4>1. nextId \in Ids
        BY <1>1, <3>3, RequestsBounds DEF Insert, TypeOK, Ids
      <4>2. report' = [report EXCEPT ![d] = [outcome |-> "created", id |-> nextId]]
        BY <1>3, <3>3 DEF Insert, Answer, Result
      <4> QED BY <1>1, <4>1, <4>2 DEF TypeOK
    <3>4. CASE Reinforce(d)
      <4>1. want[d] \in KnownIds
        BY <1>1, <3>4 DEF Reinforce, PicksKnown
      <4>2. \/ report' = [report EXCEPT ![d] = [outcome |-> "reinforced", id |-> want[d]]]
            \/ report' = [report EXCEPT ![d] = [outcome |-> "inactive", id |-> want[d]]]
        BY <3>4 DEF Reinforce, Answer, Result
      <4> QED BY <1>1, <4>1, <4>2 DEF TypeOK
    <3> QED BY <3>1, <3>2, <3>3, <3>4 DEF Promote
  <2>3. KnownIds' = KnownIds /\ KnownIds \subseteq Ids
    BY <1>8 DEF SameAnswers, KnownIds
  <2> QED BY <1>1, <1>3, <1>5, <2>1, <2>2, <2>3 DEF Remembers, Promoted
<1> QED BY <1>1, <1>6, <1>8, <1>9, <1>10 DEF RunInv

(* Where a run stands before it asks for anything.                         *)
LEMMA BeforeRemember ==
  ASSUME TableInv, AllSessions, NEW d \in Dreamers, pc[d] \in {"new", "batch", "synthesis"}
  PROVE  /\ SessionInv(d) /\ Idle(d) /\ report[d].outcome = "none" /\ job[d].op = "none"
         /\ audit[d] = NoAudit /\ want[d] = NoId
<1>1. d \in Sessions /\ AnySession(d) /\ Remembers(d)
  BY DreamersAreSessions DEF AllSessions, RunInv
<1>2. SessionInv(d)
  BY <1>1 DEF AnySession, Closing
<1>3. Idle(d) /\ report[d].outcome = "none"
  BY <1>2 DEF SessionInv, Staged
<1>4. job[d].op = "none" /\ audit[d] = NoAudit
  BY <1>1 DEF Remembers
<1>5. want[d] = NoId
  BY <1>1 DEF AnySession, Waits
<1> QED BY <1>2, <1>3, <1>4, <1>5

(* A step up to the proposal: nothing is flushed, nothing was asked for    *)
(* before.                                                                 *)
LEMMA GatheringTurn ==
  ASSUME DreamTypeOK, DreamTypeOK', TableInv, AllSessions,
         NEW d \in Dreamers, pc[d] \in {"new", "batch", "synthesis"},
         OnlyMoves(d), \A e \in Dreamers \ {d} : dream'[e] = dream[e],
         UNCHANGED <<corpus, nextId, dirty, picked, want, audit>>,
         \A q \in Sessions \ {d} : goneBefore'[q] = goneBefore[q],
         \A i \in goneBefore'[d] : Retired(i) /\ i \notin picked[d],
         \/ /\ pc'[d] \in {"batch", "synthesis", "complete"}
            /\ job'[d] = job[d] /\ report'[d] = report[d]
         \/ /\ pc'[d] \in {"embed", "commit"}
            /\ job'[d].op = "remember" /\ ~ dream'[d].dryRun
            /\ report'[d].outcome = IF pc'[d] = "commit" THEN "rejected" ELSE "none",
         Gathers(d)'
  PROVE  Turn(d) /\ AnySession(d)' /\ RunInv(d)' /\ SameAnswers
<1>1. /\ TypeOK /\ TypeOK' /\ d \in Sessions /\ SessionInv(d) /\ Idle(d)
      /\ report[d].outcome = "none" /\ job[d].op = "none" /\ audit[d] = NoAudit /\ want[d] = NoId
  BY DreamersAreSessions, BeforeRemember DEF DreamTypeOK
<1>2. AnySession(d)
  BY <1>1 DEF AllSessions
<1>3. report'[d].outcome \in {"none", "rejected"} /\ (pc'[d] # "commit" => report'[d].outcome = "none")
  BY <1>1
<1>4. job'[d].op \in {"none", "remember"}
  BY <1>1
<1>5. Idle(d)'
  BY <1>1 DEF Idle, Written
<1>6. Staged(d)' /\ Complete(d)'
  BY <1>3, <1>4, <1>5 DEF Staged, Complete
<1>7. LockStep(d) /\ SessionInv(d)'
  BY <1>1, <1>6, QuietStep DEF TableInv
<1>8. CorpusKeeps
  BY SameCorpusKeeps
<1>9. OnlyTurns(d)
  BY DEF OnlyTurns
<1>10. Picks(d)'
  BY DEF Picks, Retired
<1>11. NoId \notin goneBefore'[d]
  BY <1>1 DEF TypeOK, Ids, NoId
<1>12. Names(d)' /\ Waits(d)' /\ PicksKnown(d)'
  <2>1. Names(d)'
    BY <1>1, <1>3, <1>4, <1>11 DEF Names
  <2>2. Waits(d)'
    BY <1>1 DEF Waits
  <2>3. PicksKnown(d)'
    BY <1>1, <1>2 DEF AnySession, PicksKnown, KnownIds
  <2> QED BY <2>1, <2>2, <2>3
<1>13. AnySession(d)'
  BY <1>7, <1>10, <1>12 DEF AnySession
<1>14. ~ Promoted(d)'
  BY <1>3 DEF Promoted
<1>15. Remembers(d)'
  BY <1>1, <1>3, <1>14 DEF Remembers
<1>16. Closing(d)' => Closes(d)'
  <2> SUFFICES ASSUME Closing(d)' PROVE Closes(d)'
    OBVIOUS
  <2>1. pc'[d] = "complete"
    BY <1>1 DEF Closing
  <2>2. \A i \in Ids : ~ Written(d, i)'
    BY <1>5 DEF Idle
  <2>3. (report[d].outcome # "created")'
    BY <1>3
  <2> QED BY <1>14, <2>1, <2>2, <2>3 DEF Closes
<1>17. SameAnswers
  <2>1. \A q \in Sessions : q # d =>
          pc'[q] = pc[q] /\ job'[q] = job[q] /\ report'[q] = report[q]
    BY DEF OnlyMoves
  <2> QED BY <2>1 DEF SameAnswers
<1> QED BY <1>7, <1>8, <1>9, <1>13, <1>15, <1>16, <1>17 DEF Turn, RunInv

LEMMA SelectSeedsTurn ==
  ASSUME DreamTypeOK, TableInv, AllSessions, NEW d \in Dreamers, SelectSeeds(d)
  PROVE  Turn(d) /\ AnySession(d)' /\ RunInv(d)' /\ SameAnswers
<1>1. /\ DreamTypeOK' /\ TypeOK /\ d \in Sessions /\ pc[d] = "new"
      /\ UNCHANGED <<corpus, nextId, dirty, picked, want, audit, job, report>>
      /\ goneBefore' = [goneBefore EXCEPT ![d] = KnownIds \ ActiveIds]
      /\ loaded' = [loaded EXCEPT ![d] = loaded'[d]]
  BY DreamersAreSessions, SelectSeedsType DEF DreamTypeOK, SelectSeeds
<1>2. PICK S \in SUBSET Episodes(corpus, Ids) :
        /\ \A e \in Dreamers \ {d} : dream'[e] = dream[e]
        /\ dream'[d].queue = S /\ dream'[d].batch = {}
        /\ Goto(d, IF S = {} THEN "complete" ELSE "batch")
  BY SelectSeedsEffect
<1>3. OnlyMoves(d) /\ pc'[d] \in {"batch", "complete"}
  BY <1>1, <1>2 DEF OnlyMoves, Goto, TypeOK
<1>4. goneBefore'[d] = KnownIds \ ActiveIds /\ \A q \in Sessions \ {d} : goneBefore'[q] = goneBefore[q]
  BY <1>1 DEF TypeOK
<1>5. \A i \in KnownIds \ ActiveIds : Retired(i)
  BY <1>1 DEF TypeOK, KnownIds, ActiveIds, Retired, Row
<1>6. picked[d] = {}
  BY <1>1 DEF AllSessions, AnySession, Picks
<1>7. Gathers(d)'
  <2>1. ASSUME NEW i \in S PROVE i \in KnownIds /\ i \in ActiveIds /\ corpus[i].type = "episode"
    <3>1. i \in Ids /\ corpus[i].type = "episode" /\ corpus[i].status = "active"
      BY <1>2, EpisodesAre
    <3> QED BY <3>1 DEF KnownIds, ActiveIds
  <2>2. KnownIds' = KnownIds
    BY <1>1 DEF KnownIds
  <2> QED BY <1>1, <1>2, <1>4, <2>1, <2>2 DEF Gathers
<1> QED BY <1>1, <1>2, <1>3, <1>4, <1>5, <1>6, <1>7, GatheringTurn

LEMMA QualifyBatchTurn ==
  ASSUME DreamTypeOK, TableInv, AllSessions, NEW d \in Dreamers, QualifyBatch(d)
  PROVE  Turn(d) /\ AnySession(d)' /\ RunInv(d)' /\ SameAnswers
<1>1. /\ DreamTypeOK' /\ TypeOK /\ d \in Sessions /\ pc[d] = "batch"
      /\ UNCHANGED <<corpus, nextId, dirty, picked, want, audit, job, report, goneBefore>>
  BY DreamersAreSessions, QualifyBatchType DEF DreamTypeOK, QualifyBatch
<1>2. PICK seed \in dream[d].queue, similar \in SUBSET Episodes(corpus, Ids) :
        /\ \A e \in Dreamers \ {d} : dream'[e] = dream[e]
        /\ \/ /\ dream'[d].queue = dream[d].queue \ {seed}
              /\ dream'[d].batch = dream[d].batch
              /\ Goto(d, IF dream[d].queue = {seed} THEN "complete" ELSE "batch")
           \/ /\ dream'[d].queue = {} /\ dream'[d].batch = similar \cup {seed}
              /\ Goto(d, "synthesis")
  BY QualifyBatchEffect
<1>3. OnlyMoves(d) /\ pc'[d] \in {"batch", "complete", "synthesis"}
  BY <1>1, <1>2 DEF QualifyBatch, OnlyMoves, Goto, TypeOK
<1>4. \A i \in goneBefore[d] : Retired(i) /\ i \notin picked[d]
  BY <1>1 DEF AllSessions, AnySession, Picks
<1>5. Gathers(d)
  BY DEF AllSessions, RunInv
<1>6. ASSUME NEW i \in similar
      PROVE  i \in KnownIds /\ corpus[i].type = "episode" /\ i \notin goneBefore[d]
  <2>1. i \in ActiveIds /\ corpus[i].type = "episode"
    BY <1>2, EpisodesAre DEF ActiveIds
  <2>2. i \in KnownIds /\ ~ Retired(i)
    BY <2>1 DEF ActiveIds, KnownIds, Retired, RetiredStatuses
  <2> QED BY <1>4, <2>1, <2>2
<1>7. Gathers(d)'
  <2>1. KnownIds' = KnownIds /\ corpus' = corpus /\ goneBefore' = goneBefore
    BY <1>1 DEF KnownIds
  <2>2. \A i \in dream'[d].queue \cup dream'[d].batch :
          i \in KnownIds /\ corpus[i].type = "episode" /\ i \notin goneBefore[d]
    BY <1>2, <1>5, <1>6 DEF Gathers
  <2> QED BY <2>1, <2>2 DEF Gathers
<1> QED BY <1>1, <1>2, <1>3, <1>4, <1>7, GatheringTurn

LEMMA NothingProposedTurn ==
  ASSUME DreamTypeOK, TableInv, AllSessions, NEW d \in Dreamers, NothingProposed(d)
  PROVE  DreamTypeOK' /\ Turn(d) /\ AnySession(d)' /\ RunInv(d)' /\ SameAnswers
<1>1. /\ TypeOK /\ d \in Sessions /\ pc[d] = "synthesis" /\ pc' = [pc EXCEPT ![d] = "complete"]
      /\ UNCHANGED <<corpus, nextId, job, loaded, dirty, picked, want, report, goneBefore, dream, audit>>
  BY DreamersAreSessions DEF DreamTypeOK, NothingProposed, Goto
<1>2. DreamTypeOK'
  BY <1>1 DEF DreamTypeOK, TypeOK, Stages
<1>3. OnlyMoves(d) /\ pc'[d] = "complete"
  BY <1>1 DEF OnlyMoves, TypeOK
<1>4. \A i \in goneBefore[d] : Retired(i) /\ i \notin picked[d]
  BY <1>1 DEF AllSessions, AnySession, Picks
<1>5. Gathers(d)'
  BY <1>1, GathersStays, SameCorpusKeeps DEF AllSessions, RunInv
<1> QED BY <1>1, <1>2, <1>3, <1>4, <1>5, GatheringTurn

LEMMA ProposeTurn ==
  ASSUME DreamTypeOK, TableInv, AllSessions, NEW d \in Dreamers, Propose(d)
  PROVE  Turn(d) /\ AnySession(d)' /\ RunInv(d)' /\ SameAnswers
<1>1. /\ DreamTypeOK' /\ TypeOK /\ TypeOK' /\ d \in Sessions /\ pc[d] = "synthesis" /\ ~ dream[d].dryRun
      /\ UNCHANGED <<corpus, nextId, loaded, dirty, picked, want, goneBefore, dream, audit>>
  BY DreamersAreSessions, ProposeType DEF DreamTypeOK, Propose
<1>2. PICK c \in Contents \cup {Blank}, t \in StoredTypes :
        LET j == JobOf("remember", NoId, c, t) IN
        /\ job' = [job EXCEPT ![d] = j]
        /\ Goto(d, FirstStage(j))
        /\ IF FirstStage(j) = "commit" THEN Answer(d, "rejected", NoId) ELSE UNCHANGED report
  BY DEF Propose
<1>3. PICK j : j = JobOf("remember", NoId, c, t)
  OBVIOUS
<1>4. j.op = "remember" /\ FirstStage(j) \in {"embed", "commit"}
  BY <1>3 DEF JobOf, FirstStage
<1>5. OnlyMoves(d) /\ job'[d] = j /\ pc'[d] = FirstStage(j)
  BY <1>1, <1>2, <1>3 DEF OnlyMoves, Goto, Answer, TypeOK
<1>6. report[d].outcome = "none"
  BY <1>1, BeforeRemember
<1>7. report'[d].outcome = IF pc'[d] = "commit" THEN "rejected" ELSE "none"
  BY <1>1, <1>2, <1>3, <1>4, <1>5, <1>6 DEF Answer, Result, TypeOK
<1>8. \A i \in goneBefore[d] : Retired(i) /\ i \notin picked[d]
  BY <1>1 DEF AllSessions, AnySession, Picks
<1>9. Gathers(d)'
  BY <1>1, GathersStays, SameCorpusKeeps DEF AllSessions, RunInv
<1> QED BY <1>1, <1>4, <1>5, <1>7, <1>8, <1>9, GatheringTurn

-----------------------------------------------------------------------------
(* A run after remember_memory.                                            *)

(* Where a run stands between its steps there.                             *)
LEMMA AtCommit ==
  ASSUME TableInv, AllSessions, NEW d \in Dreamers, pc[d] = "commit", audit[d] = NoAudit
  PROVE  /\ SessionInv(d)
         /\ \A i \in Ids : Written(d, i) => PendingInsert(d, i) \/ PendingAccess(d, i)
         /\ report[d].outcome = "created" => report[d].id \in Ids /\ Written(d, report[d].id)
<1>1. d \in Sessions /\ AnySession(d) /\ Remembers(d)
  BY DreamersAreSessions DEF AllSessions, RunInv
<1>2. SessionInv(d)
  BY <1>1 DEF AnySession, Closing
<1>3. report[d].outcome \in {"none", "created", "reinforced", "rejected", "inactive"}
  BY <1>1 DEF Remembers
<1>4. \A i \in Ids : ~ PendingRetirement(d, i)
  BY <1>3 DEF PendingRetirement
<1> QED BY <1>2, <1>4 DEF SessionInv, PendingOf, Complete

LEMMA AtClosing ==
  ASSUME AllSessions, NEW d \in Dreamers, Closing(d)
  PROVE  /\ d \in Sessions /\ Closes(d) /\ Gathers(d) /\ Remembers(d)
         /\ Picks(d) /\ Names(d) /\ Waits(d) /\ PicksKnown(d)
  BY DreamersAreSessions DEF AllSessions, AnySession, RunInv

(* What a run reads of row i is, but for a row it has inserted, what is    *)
(* committed, with its own changes of the bookkeeping.                     *)
LEMMA OwnViewAre ==
  ASSUME NEW d \in Dreamers, NEW i \in Ids
  PROVE  /\ ~ Written(d, i) => OwnView(d)[i] = corpus[i]
         /\ Written(d, i) => OwnView(d)[i] = dirty[d][i]
  BY DEF OwnView, Merged

LEMMA SelectSourcesTurn ==
  ASSUME DreamTypeOK, TableInv, AllSessions, NEW d \in Dreamers, SelectSources(d)
  PROVE  Turn(d) /\ AnySession(d)' /\ RunInv(d)' /\ SameAnswers
<1> DEFINE sources == IF Promoted(d) THEN Episodes(OwnView(d), dream[d].batch) ELSE {}
<1>1. /\ DreamTypeOK' /\ TypeOK /\ TypeOK' /\ d \in Sessions /\ pc[d] = "commit" /\ audit[d] = NoAudit
      /\ UNCHANGED <<corpus, nextId, job, loaded, dirty, picked, report, goneBefore, audit>>
  BY DreamersAreSessions, SelectSourcesType DEF DreamTypeOK, SelectSources
<1>2. /\ SessionInv(d)
      /\ \A i \in Ids : Written(d, i) => PendingInsert(d, i) \/ PendingAccess(d, i)
      /\ report[d].outcome = "created" => report[d].id \in Ids /\ Written(d, report[d].id)
  BY <1>1, AtCommit
<1>3. /\ sources \subseteq Ids
      /\ \A e \in Dreamers \ {d} : dream'[e] = dream[e]
      /\ dream'[d].dryRun = dream[d].dryRun
      /\ dream'[d].queue = dream[d].queue /\ dream'[d].batch = dream[d].batch
      /\ \/ sources = {} /\ want' = want /\ Goto(d, "complete")
         \/ /\ FirstKey(sources) \in sources
            /\ dream'[d].marking = sources
            /\ want' = [want EXCEPT ![d] = FirstKey(sources)]
            /\ Goto(d, "consolidate")
  BY SelectSourcesEffect
<1>4. AnySession(d) /\ Gathers(d) /\ Remembers(d)
  BY <1>1 DEF AllSessions, RunInv
<1>5. sources \subseteq dream[d].batch /\ dream[d].batch \subseteq Ids
  BY <1>1, EpisodesAre DEF DreamTypeOK, Dreams
<1>6. ASSUME Promoted(d), NEW i \in dream[d].batch, i \notin sources
      PROVE  Retired(i)
  <2>1. i \in Ids /\ corpus[i].status # "absent" /\ corpus[i].type = "episode" /\ corpus[i] \in Row
    BY <1>1, <1>4, <1>5 DEF Gathers, KnownIds, TypeOK
  <2>2. OwnView(d)[i].status = corpus[i].status /\ OwnView(d)[i].type = corpus[i].type
    <3>1. CASE Written(d, i)
      BY <1>2, <2>1, <3>1, OwnViewAre DEF PendingInsert, PendingAccess, SameMemory
    <3>2. CASE ~ Written(d, i)
      BY <2>1, <3>2, OwnViewAre
    <3> QED BY <3>1, <3>2
  <2>3. corpus[i].status # "active"
    BY <1>6, <2>1, <2>2 DEF Episodes
  <2> QED BY <2>1, <2>3 DEF Row, Retired
<1> HIDE DEF sources
<1>7. OnlyMoves(d) /\ OnlyTurns(d) /\ pc'[d] \in {"complete", "consolidate"}
  BY <1>1, <1>3 DEF OnlyMoves, OnlyTurns, Goto, TypeOK
<1>8. /\ LockStep(d) /\ \A i \in Ids : Written(d, i)' <=> Written(d, i)
  BY <1>1, <1>7, QuietTables
<1>9. CorpusKeeps
  BY <1>1, SameCorpusKeeps
<1>10. Promoted(d)' <=> Promoted(d)
  BY <1>1 DEF Promoted
<1>11. pc'[d] = "consolidate" => /\ FirstKey(sources) \in sources /\ dream'[d].marking = sources
                                 /\ want'[d] = FirstKey(sources)
  BY <1>1, <1>3 DEF Goto, TypeOK
<1>12. pc'[d] = "complete" => sources = {} /\ want'[d] = want[d]
  BY <1>1, <1>3 DEF Goto, TypeOK
<1>13. Closes(d)'
  <2>1. \A i \in Ids : Written(d, i)' => PendingInsert(d, i)' \/ PendingAccess(d, i)'
    BY <1>1, <1>2, <1>8 DEF PendingInsert, PendingAccess, SameMemory
  <2>2. (report[d].outcome = "created" =>
           report[d].id \in Ids /\ Written(d, report[d].id) /\ PendingInsert(d, report[d].id))'
    <3>1. report[d].outcome = "created" => PendingInsert(d, report[d].id)
      BY <1>2 DEF PendingAccess
    <3> QED BY <1>1, <1>2, <3>1 DEF Written, PendingInsert, SameMemory
  <2>3. pc'[d] = "consolidate" =>
          Promoted(d)' /\ want'[d] \in dream'[d].marking /\ dream'[d].marking \subseteq dream'[d].batch
    BY <1>3, <1>5, <1>10, <1>11 DEF sources
  <2>4. Promoted(d)' => \A i \in dream'[d].batch :
          Settled(d, i)' \/ (pc'[d] = "consolidate" /\ i \in dream'[d].marking)
    BY <1>1, <1>3, <1>6, <1>7, <1>10, <1>11, <1>12 DEF Settled, Retired
  <2> QED BY <1>7, <2>1, <2>2, <2>3, <2>4 DEF Closes
<1>14. Gathers(d)'
  BY <1>1, <1>3, <1>4, <1>9, GathersStays
<1>15. Remembers(d)'
  BY <1>1, <1>3, <1>4, <1>7, <1>10 DEF Remembers, KnownIds
<1>16. AnySession(d)'
  <2>1. Closing(d)'
    BY <1>7 DEF Closing
  <2>2. Picks(d)' /\ PicksKnown(d)'
    BY <1>1, <1>4, <1>7 DEF AnySession, Picks, Retired, PicksKnown, KnownIds
  <2>3. Waits(d)'
    BY <1>1, <1>4, <1>7, <1>12 DEF AnySession, Waits
  <2>4. Names(d)'
    <3>1. want'[d] \notin goneBefore[d]
      <4>1. CASE pc'[d] = "consolidate"
        BY <1>4, <1>5, <1>11, <4>1 DEF Gathers
      <4>2. CASE pc'[d] = "complete"
        BY <1>1, <1>4, <1>12, <4>2 DEF AnySession, Waits, TypeOK, Ids, NoId
      <4> QED BY <1>7, <4>1, <4>2
    <3> QED BY <1>1, <1>4, <1>7, <3>1 DEF AnySession, Names
  <2> QED BY <2>1, <2>2, <2>3, <2>4 DEF AnySession
<1>17. SameAnswers
  BY <1>1, <1>7 DEF SameAnswers, OnlyMoves
<1> QED BY <1>7, <1>8, <1>9, <1>13, <1>14, <1>15, <1>16, <1>17 DEF Turn, RunInv

LEMMA ConsolidateTurn ==
  ASSUME DreamTypeOK, TableInv, AllSessions, NEW d \in Dreamers, Consolidate(d)
  PROVE  Turn(d) /\ AnySession(d)' /\ RunInv(d)' /\ SameAnswers
<1> PICK i : i = want[d]
  OBVIOUS
<1> DEFINE rest == dream[d].marking \ {i}
<1>1. /\ DreamTypeOK' /\ TypeOK /\ TypeOK' /\ d \in Sessions /\ pc[d] = "consolidate" /\ LockFree(d, i)
      /\ UNCHANGED <<corpus, nextId, job, loaded, picked, report, goneBefore, audit>>
      /\ dirty' = [dirty EXCEPT ![d][i] = Consolidated(d, i)]
  BY DreamersAreSessions, ConsolidateType DEF DreamTypeOK, Consolidate
<1>2. /\ Closes(d) /\ Gathers(d) /\ Remembers(d) /\ Picks(d) /\ Names(d) /\ Waits(d) /\ PicksKnown(d)
  BY <1>1, AtClosing DEF Closing
<1>3. Promoted(d) /\ i \in dream[d].marking /\ dream[d].marking \subseteq dream[d].batch
  BY <1>1, <1>2 DEF Closes
<1>4. i \in Ids /\ dream[d].batch \subseteq Ids
  BY <1>1, <1>3 DEF DreamTypeOK, Dreams
<1>5. corpus[i].status # "absent" /\ i \notin goneBefore[d]
  BY <1>2, <1>3 DEF Gathers, KnownIds
<1>6. /\ \A e \in Dreamers \ {d} : dream'[e] = dream[e]
      /\ dream'[d].dryRun = dream[d].dryRun
      /\ dream'[d].queue = dream[d].queue /\ dream'[d].batch = dream[d].batch
      /\ dream'[d].marking = rest
      /\ \/ rest = {} /\ want' = [want EXCEPT ![d] = NoId] /\ Goto(d, "complete")
         \/ /\ FirstKey(rest) \in rest /\ want' = [want EXCEPT ![d] = FirstKey(rest)]
            /\ pc' = pc
  BY ConsolidateEffect
<1> HIDE DEF rest
<1>7. \/ rest = {} /\ want'[d] = NoId /\ pc'[d] = "complete"
      \/ rest # {} /\ want'[d] \in rest /\ pc'[d] = "consolidate"
  BY <1>1, <1>6 DEF TypeOK, Goto
<1>8. OnlyMoves(d) /\ OnlyTurns(d)
  <2>1. OnlyMoves(d)
    BY <1>1, <1>6 DEF OnlyMoves, Goto, TypeOK
  <2>2. OnlyTurns(d)
    BY <1>1, <1>6 DEF OnlyTurns, TypeOK
  <2> QED BY <2>1, <2>2
<1>9. /\ dirty'[d][i] = Consolidated(d, i)
      /\ \A j \in Ids : j # i => dirty'[d][j] = dirty[d][j]
  BY <1>1, <1>4 DEF TypeOK
<1>10. LockStep(d)
  <2>1. ~ (i >= nextId')
    BY <1>1, <1>4, <1>5 DEF TableInv, Fresh
  <2>2. nextId' >= nextId
    BY <1>1 DEF TypeOK
  <2> QED BY <1>1, <1>8, <1>9, <2>1, <2>2, FlushStep
<1>11. PendingConsolidation(d, i)' /\ Written(d, i)'
  <2>1. /\ OwnView(d)[i].supersededBy = corpus[i].supersededBy
        /\ SameMemory(OwnView(d)[i], corpus[i])
    <3>1. CASE Written(d, i)
      <4>1. PendingAccess(d, i) \/ PendingConsolidation(d, i)
        BY <1>2, <1>4, <1>5, <3>1 DEF Closes, PendingInsert
      <4> QED BY <1>4, <3>1, <4>1, OwnViewAre DEF PendingAccess, PendingConsolidation
    <3>2. CASE ~ Written(d, i)
      BY <1>4, <3>2, OwnViewAre DEF SameMemory
    <3> QED BY <3>1, <3>2
  <2>2. /\ dirty'[d][i].status = "consolidated"
        /\ dirty'[d][i].supersededBy = corpus[i].supersededBy
        /\ SameMemory(dirty'[d][i], corpus[i])
    BY <1>1, <1>4, <1>9, <2>1, ConsolidatedRow DEF SameMemory
  <2> QED BY <1>1, <1>3, <1>5, <1>6, <2>2
          DEF PendingConsolidation, Written, Promoted, SameMemory
<1>12. \A j \in Ids : j # i =>
         /\ Written(d, j)' <=> Written(d, j)
         /\ PendingInsert(d, j) => PendingInsert(d, j)'
         /\ PendingAccess(d, j) => PendingAccess(d, j)'
         /\ PendingConsolidation(d, j) => PendingConsolidation(d, j)'
         /\ Settled(d, j) => Settled(d, j)'
  BY <1>1, <1>6, <1>9 DEF Written, PendingInsert, PendingAccess, PendingConsolidation, Promoted,
     SameMemory, Settled, Retired
<1>13. Closes(d)'
  <2>1. \A j \in Ids : Written(d, j)' =>
          PendingInsert(d, j)' \/ PendingAccess(d, j)' \/ PendingConsolidation(d, j)'
    BY <1>2, <1>11, <1>12 DEF Closes
  <2>2. (report[d].outcome = "created" =>
           report[d].id \in Ids /\ Written(d, report[d].id) /\ PendingInsert(d, report[d].id))'
    <3>1. PICK n : n = report[d].id
      OBVIOUS
    <3>2. report[d].outcome = "created" => n \in Ids /\ n # i /\ Written(d, n) /\ PendingInsert(d, n)
      BY <1>2, <1>5, <3>1 DEF Closes, PendingInsert
    <3>3. report[d].outcome = "created" => n \in Ids /\ Written(d, n)' /\ PendingInsert(d, n)'
      BY <1>12, <3>2
    <3>4. report'[d].id = n /\ report'[d].outcome = report[d].outcome
      BY <1>1, <3>1
    <3> QED BY <3>3, <3>4 DEF Written, PendingInsert
  <2>3. pc'[d] = "consolidate" =>
          Promoted(d)' /\ want'[d] \in dream'[d].marking /\ dream'[d].marking \subseteq dream'[d].batch
    BY <1>1, <1>3, <1>6, <1>7 DEF Promoted, rest
  <2>4. \A j \in dream'[d].batch :
          Settled(d, j)' \/ (pc'[d] = "consolidate" /\ j \in dream'[d].marking)
    <3> SUFFICES ASSUME NEW j \in dream[d].batch
                 PROVE  Settled(d, j)' \/ (pc'[d] = "consolidate" /\ j \in dream'[d].marking)
      BY <1>6
    <3>1. CASE j = i
      BY <1>11, <3>1 DEF Settled, PendingConsolidation
    <3>2. CASE j # i
      <4>1. Settled(d, j) \/ j \in rest
        BY <1>2, <1>3, <3>2 DEF Closes, rest
      <4> QED BY <1>4, <1>6, <1>7, <1>12, <3>2, <4>1
    <3> QED BY <3>1, <3>2
  <2> QED BY <1>7, <2>1, <2>2, <2>3, <2>4 DEF Closes
<1>14. Gathers(d)'
  BY <1>1, <1>2, <1>6, GathersStays, SameCorpusKeeps
<1>15. Remembers(d)'
  BY <1>1, <1>2, <1>6, <1>7 DEF Remembers, KnownIds, Promoted
<1>16. AnySession(d)'
  <2>1. Closing(d)'
    BY <1>1, <1>7 DEF Closing
  <2>2. Picks(d)' /\ PicksKnown(d)' /\ Waits(d)'
    BY <1>1, <1>2, <1>7 DEF Picks, Retired, PicksKnown, KnownIds, Waits
  <2>3. Names(d)'
    <3>0. goneBefore[d] \subseteq Ids /\ rest \subseteq dream[d].batch
      BY <1>1, <1>3 DEF TypeOK, rest
    <3>1. NoId \notin goneBefore[d] /\ \A j \in rest : j \notin goneBefore[d]
      <4>1. NoId \notin goneBefore[d]
        BY <3>0 DEF Ids, NoId
      <4>2. \A j \in rest : j \notin goneBefore[d]
        BY <1>2, <3>0 DEF Gathers
      <4> QED BY <4>1, <4>2
    <3> QED BY <1>1, <1>2, <1>7, <3>1 DEF Names
  <2> QED BY <2>1, <2>2, <2>3 DEF AnySession
<1>17. SameAnswers
  BY <1>1, <1>7, <1>8 DEF SameAnswers, OnlyMoves
<1>18. CorpusKeeps
  BY <1>1, SameCorpusKeeps
<1> QED BY <1>8, <1>10, <1>13, <1>14, <1>15, <1>16, <1>17, <1>18 DEF Turn, RunInv

LEMMA CompleteRunTurn ==
  ASSUME DreamTypeOK, TableInv, AllSessions, NEW d \in Dreamers, CompleteRun(d)
  PROVE  /\ DreamTypeOK' /\ Turn(d) /\ AnySession(d)' /\ RunInv(d)' /\ SameAnswers
         /\ pc[d] = "complete"
<1>1. /\ TypeOK /\ d \in Sessions /\ pc[d] = "complete" /\ pc' = [pc EXCEPT ![d] = "commit"]
      /\ UNCHANGED <<corpus, nextId, job, loaded, dirty, picked, want, report, goneBefore, dream>>
  BY DreamersAreSessions DEF DreamTypeOK, CompleteRun, Goto
<1>2. /\ Closes(d) /\ Gathers(d) /\ Remembers(d) /\ Picks(d) /\ Names(d) /\ Waits(d) /\ PicksKnown(d)
  BY <1>1, AtClosing DEF Closing
<1>3. DreamTypeOK' /\ TypeOK'
  BY <1>2, CompleteRunType DEF Remembers, DreamTypeOK
<1>4. OnlyMoves(d) /\ pc'[d] = "commit"
  BY <1>1 DEF OnlyMoves, TypeOK
<1>5. /\ LockStep(d) /\ \A i \in Ids : Written(d, i)' <=> Written(d, i)
  BY <1>1, <1>3, <1>4, QuietTables
<1>6. /\ audit'[d].sources = dream[d].batch
      /\ audit'[d].created = IF Promoted(d) THEN {report[d].id} ELSE {}
      /\ audit'[d] # NoAudit
      /\ \A e \in Dreamers \ {d} : audit'[e] = audit[e]
  <2>1. \A dry : (IF dry THEN "dry_run" ELSE "completed") # "none"
    OBVIOUS
  <2>2. PICK row : row = [status |-> IF dream[d].dryRun THEN "dry_run" ELSE "completed",
                          seeds |-> dream[d].seeds, sources |-> dream[d].batch,
                          created |-> IF Promoted(d) THEN {report[d].id} ELSE {}]
    OBVIOUS
  <2>3. /\ row.sources = dream[d].batch
        /\ row.created = IF Promoted(d) THEN {report[d].id} ELSE {}
        /\ row # NoAudit
    BY <2>1, <2>2 DEF NoAudit
  <2>4. audit' = [audit EXCEPT ![d] = row]
    BY <2>2 DEF CompleteRun
  <2> QED BY <2>3, <2>4 DEF DreamTypeOK
<1>7. Promoted(d)' <=> Promoted(d)
  BY <1>1 DEF Promoted
<1>8. Closes(d)'
  <2>1. ASSUME NEW i \in Ids
        PROVE  /\ PendingInsert(d, i) => PendingInsert(d, i)'
               /\ PendingAccess(d, i) => PendingAccess(d, i)'
               /\ PendingConsolidation(d, i) => PendingConsolidation(d, i)'
               /\ Settled(d, i) => Settled(d, i)'
    BY <1>1, <1>5, <1>7 DEF PendingInsert, PendingAccess, PendingConsolidation, SameMemory,
       Settled, Retired
  <2>2. (report[d].outcome = "created" =>
           report[d].id \in Ids /\ Written(d, report[d].id) /\ PendingInsert(d, report[d].id))'
    BY <1>1, <1>2 DEF Closes, Written, PendingInsert, SameMemory
  <2>3. Promoted(d) => \A i \in dream[d].batch : Settled(d, i)'
    BY <1>1, <1>2, <2>1 DEF Closes, DreamTypeOK, Dreams
  <2> QED BY <1>1, <1>2, <1>4, <1>5, <1>6, <1>7, <2>1, <2>2, <2>3 DEF Closes
<1>9. Gathers(d)'
  BY <1>1, <1>2, GathersStays, SameCorpusKeeps
<1>10. Remembers(d)'
  BY <1>1, <1>2, <1>4, <1>7 DEF Remembers, KnownIds
<1>11. AnySession(d)'
  <2>1. Closing(d)'
    BY <1>4, <1>6 DEF Closing
  <2>2. Picks(d)' /\ PicksKnown(d)' /\ Waits(d)' /\ Names(d)'
    BY <1>1, <1>2, <1>4 DEF Picks, Retired, PicksKnown, KnownIds, Waits, Names
  <2> QED BY <2>1, <2>2 DEF AnySession
<1>12. SameAnswers
  BY <1>1, <1>4 DEF SameAnswers, OnlyMoves
<1>13. CorpusKeeps /\ OnlyTurns(d)
  BY <1>1, <1>6, SameCorpusKeeps DEF OnlyTurns
<1> QED BY <1>1, <1>3, <1>5, <1>8, <1>9, <1>10, <1>11, <1>12, <1>13 DEF Turn, RunInv

(* What the commit of a run does to row i.                                 *)
LEMMA RunCommits ==
  ASSUME TableInv, AllSessions, NEW d \in Dreamers, CommitRun(d), NEW i \in Ids
  PROVE  \/ corpus'[i] = corpus[i]
         \/ /\ report[d].outcome = "created" /\ report[d].id = i
            /\ corpus[i].status = "absent" /\ corpus'[i].status = "active"
            /\ corpus'[i].supersededBy = NoId /\ SameMemory(corpus'[i], job[d])
         \/ /\ corpus[i].status # "absent" /\ SameMemory(corpus'[i], corpus[i])
            /\ corpus'[i].supersededBy = corpus[i].supersededBy
            /\ \/ corpus'[i].status = corpus[i].status
               \/ /\ Promoted(d) /\ i \in dream[d].batch
                  /\ corpus'[i].status = "consolidated"
<1>1. Closes(d) /\ corpus'[i] = (IF Written(d, i) THEN dirty[d][i] ELSE corpus[i])
  BY AtClosing DEF CommitRun, Commit, Closing, Merged
<1>2. Written(d, i) =>
        PendingInsert(d, i) \/ PendingAccess(d, i) \/ PendingConsolidation(d, i)
  BY <1>1 DEF Closes
<1>3. CASE Written(d, i) /\ PendingInsert(d, i)
  <2>1. Remembers(d)
    BY DEF AllSessions, RunInv
  <2> QED BY <1>1, <1>3, <2>1 DEF PendingInsert, Remembers, SameMemory
<1>4. CASE Written(d, i) /\ PendingAccess(d, i)
  BY <1>1, <1>4 DEF PendingAccess, SameMemory
<1>5. CASE Written(d, i) /\ PendingConsolidation(d, i)
  BY <1>1, <1>5 DEF PendingConsolidation, SameMemory
<1> QED BY <1>1, <1>2, <1>3, <1>4, <1>5

LEMMA RunCommitKeeps ==
  ASSUME TableInv, AllSessions, NEW d \in Dreamers, CommitRun(d)
  PROVE  CorpusKeeps
<1> SUFFICES ASSUME NEW i \in Ids
             PROVE  /\ corpus[i].status # "absent" =>
                         corpus'[i].status # "absent" /\ SameMemory(corpus'[i], corpus[i])
                    /\ Retired(i) => Retired(i)'
  BY DEF CorpusKeeps
<1> QED BY RunCommits DEF Retired, RetiredStatuses, SameMemory

LEMMA CommitRunTurn ==
  ASSUME DreamTypeOK, TableInv, AllSessions, NEW d \in Dreamers, CommitRun(d)
  PROVE  DreamTypeOK' /\ Turn(d) /\ AnySession(d)' /\ RunInv(d)'
<1>1. /\ TypeOK /\ d \in Sessions /\ pc[d] = "commit" /\ audit[d] # NoAudit
      /\ pc' = [pc EXCEPT ![d] = "done"]
      /\ UNCHANGED <<nextId, job, picked, want, report, goneBefore, dream, audit>>
  BY DreamersAreSessions DEF DreamTypeOK, CommitRun, Commit, Goto
<1>2. /\ Gathers(d) /\ Remembers(d) /\ Picks(d) /\ Names(d) /\ Waits(d) /\ PicksKnown(d)
  BY <1>1, AtClosing DEF Closing
<1>3. DreamTypeOK'
  BY <1>1, CommitType DEF CommitRun, DreamTypeOK
<1>4. LockStep(d) /\ SessionInv(d)'
  BY <1>1, CommitLock DEF CommitRun
<1>5. CorpusKeeps
  BY RunCommitKeeps
<1>6. OnlyTurns(d) /\ pc'[d] = "done"
  BY <1>1 DEF OnlyTurns, TypeOK
<1>7. KnownIds \subseteq KnownIds'
  BY <1>5 DEF CorpusKeeps, KnownIds
<1>8. Picks(d)'
  <2>1. \A i \in goneBefore[d] : i \in Ids /\ Retired(i)'
    BY <1>1, <1>2, <1>5 DEF Picks, CorpusKeeps, TypeOK
  <2> QED BY <1>1, <1>2, <1>6, <2>1 DEF Picks
<1>9. AnySession(d)'
  BY <1>1, <1>2, <1>4, <1>6, <1>7, <1>8 DEF AnySession, Names, Waits, PicksKnown
<1>10. Gathers(d)'
  BY <1>1, <1>2, <1>5, GathersStays
<1>11. Remembers(d)'
  BY <1>1, <1>2, <1>6, <1>7 DEF Remembers, Promoted
<1>12. ~ Closing(d)'
  BY <1>6 DEF Closing
<1> QED BY <1>3, <1>4, <1>5, <1>6, <1>9, <1>10, <1>11, <1>12 DEF Turn, RunInv

-----------------------------------------------------------------------------
(* Sessions that end without a commit.                                     *)

LEMMA RollBackGoesOn ==
  ASSUME DreamTypeOK, TableInv, AllSessions, NEW S, RollBack(S), dream' = dream,
         \A q \in S : pc[q] # "done",
         \A e \in Dreamers : audit'[e] = (IF e \in S THEN NoAudit ELSE audit[e])
  PROVE  TableInv' /\ AllSessions' /\ SameAnswers
<1>1. /\ TypeOK /\ corpus' = corpus /\ job' = job /\ goneBefore' = goneBefore
  BY DEF DreamTypeOK, RollBack
<1>2. TableInv' /\ \A q \in Sessions : q \in S \/ SessionInv(q) => SessionInv(q)'
  BY RollBackLock
<1>3. ASSUME NEW q \in Sessions, q \in S
      PROVE  pc'[q] = "failed" /\ picked'[q] = {} /\ want'[q] = NoId /\ report'[q].outcome = "none"
             /\ report'[q].id = NoId
  BY <1>1, <1>3 DEF RollBack, TypeOK, NoReport, Result
<1>4. ASSUME NEW q \in Sessions, q \notin S
      PROVE  /\ pc'[q] = pc[q] /\ dirty'[q] = dirty[q] /\ picked'[q] = picked[q]
             /\ want'[q] = want[q] /\ report'[q] = report[q]
  BY <1>1, <1>4 DEF RollBack, TypeOK
<1>5. CorpusKeeps /\ KnownIds' = KnownIds /\ \A i : Retired(i)' <=> Retired(i)
  BY <1>1, SameCorpusKeeps DEF KnownIds, Retired
<1>6. ASSUME NEW q \in Sessions PROVE AnySession(q)'
  <2>1. AnySession(q)
    BY DEF AllSessions
  <2>2. Closing(q)' \/ SessionInv(q)'
    BY <1>2, <1>4, <2>1 DEF AnySession, Closing
  <2>3. Picks(q)'
    BY <1>1, <1>3, <1>4, <1>5, <2>1 DEF AnySession, Picks
  <2>4. Names(q)'
    BY <1>1, <1>3, <1>4, <2>1 DEF AnySession, Names, TypeOK, Ids, NoId
  <2>5. Waits(q)'
    BY <1>3, <1>4, <2>1 DEF AnySession, Waits
  <2>6. PicksKnown(q)'
    BY <1>1, <1>3, <1>4, <1>5, <2>1 DEF AnySession, PicksKnown
  <2> QED BY <2>2, <2>3, <2>4, <2>5, <2>6 DEF AnySession
<1>7. ASSUME NEW e \in Dreamers PROVE RunInv(e)'
  <2>1. RunInv(e) /\ e \in Sessions /\ dream[e].batch \subseteq Ids
    BY DreamersAreSessions DEF AllSessions, DreamTypeOK, Dreams
  <2>2. Gathers(e)'
    BY <1>1, <1>5, <2>1, GathersStays DEF RunInv
  <2>3. CASE e \in S
    <3>1. pc'[e] = "failed" /\ report'[e].outcome = "none" /\ audit'[e] = NoAudit
      BY <1>3, <2>1, <2>3
    <3>2. Remembers(e)'
      BY <1>1, <2>1, <3>1 DEF RunInv, Remembers, Promoted
    <3>3. ~ Closing(e)'
      BY <3>1 DEF Closing
    <3> QED BY <2>2, <3>2, <3>3 DEF RunInv
  <2>4. CASE e \notin S
    <3>1. /\ pc'[e] = pc[e] /\ dirty'[e] = dirty[e] /\ want'[e] = want[e]
          /\ report'[e] = report[e] /\ audit'[e] = audit[e]
      BY <1>4, <2>1, <2>4
    <3>2. Remembers(e)'
      BY <1>1, <1>5, <2>1, <3>1 DEF RunInv, Remembers, Promoted
    <3>3. Closing(e)' => Closing(e)
      BY <3>1 DEF Closing
    <3>4. Closing(e)' => Closes(e)'
      BY <1>1, <1>5, <2>1, <3>1, <3>3, ClosesStays DEF RunInv
    <3> QED BY <2>2, <3>2, <3>4 DEF RunInv
  <2> QED BY <2>3, <2>4
<1> QED BY <1>1, <1>2, <1>6, <1>7, RollBackAnswers DEF AllSessions

-----------------------------------------------------------------------------
(* What the answers, the audits and the corpus say of each other.          *)

CorpusTells == LineageSound /\ AcknowledgedWritesHold /\ ChangesAccounted /\ SourcesRetired

(* What is known of a run that has ended stays so.                         *)
AuditsStay ==
  \A e \in Dreamers : pc[e] = "done" =>
    pc'[e] = "done" /\ dream'[e] = dream[e] /\ audit'[e] = audit[e]

(* What ChangesAccounted says of one memory, in two halves.                *)
StoredBy(i) ==
  \/ \E r \in Requests : /\ Finished(r, "created") \/ Finished(r, "replaced")
                         /\ report[r].id = i
  \/ \E d \in Dreamers : Productive(d) /\ audit[d].created = {i}
RetiredBy(i) ==
  \/ \E r \in Requests : /\ Finished(r, "replaced") \/ Finished(r, "forgotten")
                         /\ job[r].target = i
  \/ \E d \in Dreamers : Productive(d) /\ i \in audit[d].sources
ConsolidatedBy(i) ==
  \E d \in Dreamers : Productive(d) /\ ~ dream[d].dryRun /\ i \in audit[d].sources

LEMMA AccountedBy ==
  ChangesAccounted <=> \A i \in KnownIds : /\ i > InitRows => StoredBy(i)
                                           /\ Retired(i) => RetiredBy(i)
                                           /\ corpus[i].status = "consolidated" => ConsolidatedBy(i)
  BY DEF ChangesAccounted, StoredBy, RetiredBy, ConsolidatedBy

(* The witnesses stay.                                                     *)
LEMMA WitnessesStay ==
  ASSUME AuditsStay,
         \A r \in Requests : pc[r] = "done" =>
           pc'[r] = "done" /\ job'[r] = job[r] /\ report'[r] = report[r],
         NEW i
  PROVE  /\ StoredBy(i) => StoredBy(i)'
         /\ RetiredBy(i) => RetiredBy(i)'
         /\ ConsolidatedBy(i) => ConsolidatedBy(i)'
<1>1. \A d \in Dreamers : Productive(d) => Productive(d)' /\ dream'[d] = dream[d] /\ audit'[d] = audit[d]
  BY DEF AuditsStay, Productive, Committed
<1>2. \A r \in Requests, o \in {"created", "replaced", "forgotten"} :
        Finished(r, o) => Finished(r, o)' /\ job'[r] = job[r] /\ report'[r] = report[r]
  BY DEF Finished
<1>3. StoredBy(i) => StoredBy(i)'
  BY <1>1, <1>2 DEF StoredBy
<1>4. RetiredBy(i) => RetiredBy(i)'
  BY <1>1, <1>2 DEF RetiredBy
<1>5. ConsolidatedBy(i) => ConsolidatedBy(i)'
  BY <1>1 DEF ConsolidatedBy
<1> QED BY <1>3, <1>4, <1>5

(* The sources of the runs that were committed stay retired.               *)
LEMMA SourcesStay ==
  ASSUME DreamTypeOK, CorpusKeeps, SourcesRetired, NEW d \in Dreamers, Productive(d),
         audit'[d] = audit[d]
  PROVE  /\ audit'[d].created \subseteq KnownIds'
         /\ \A i \in audit'[d].sources : Retired(i)'
<1>1. audit[d].created \subseteq KnownIds /\ \A i \in audit[d].sources : Retired(i)
  BY DEF SourcesRetired
<1>2. audit[d].sources \subseteq Ids
  BY DEF DreamTypeOK, Audits
<1> QED BY <1>1, <1>2 DEF CorpusKeeps, KnownIds

LEMMA QuietTells ==
  ASSUME DreamTypeOK, CorpusTells, SameAnswers, AuditsStay
  PROVE  CorpusTells'
<1>1. LineageSound' /\ AcknowledgedWritesHold'
  BY QuietCorpus DEF CorpusTells
<1>2. corpus' = corpus /\ KnownIds' = KnownIds /\ \A i : Retired(i)' <=> Retired(i)
  BY QuietFinishes DEF SameAnswers
<1>3. ChangesAccounted'
  <2>1. \A r \in Requests : pc[r] = "done" =>
           pc'[r] = "done" /\ job'[r] = job[r] /\ report'[r] = report[r]
    BY RequestsAreSessions DEF SameAnswers
  <2>2. \A i \in KnownIds : /\ i > InitRows => StoredBy(i)
                            /\ Retired(i) => RetiredBy(i)
                            /\ corpus[i].status = "consolidated" => ConsolidatedBy(i)
    BY AccountedBy DEF CorpusTells
  <2>3. \A i \in KnownIds : /\ i > InitRows => StoredBy(i)'
                            /\ Retired(i)' => RetiredBy(i)'
                            /\ corpus'[i].status = "consolidated" => ConsolidatedBy(i)'
    BY <1>2, <2>1, <2>2, WitnessesStay
  <2> QED BY <1>2, <2>3 DEF ChangesAccounted, StoredBy, RetiredBy, ConsolidatedBy
<1>4. SourcesRetired'
  <2> SUFFICES ASSUME NEW d \in Dreamers, Productive(d)'
               PROVE  audit'[d].created \subseteq KnownIds' /\ \A i \in audit'[d].sources : Retired(i)'
    BY DEF SourcesRetired
  <2>1. Productive(d) /\ audit'[d] = audit[d]
    BY DreamersAreSessions DEF SameAnswers, AuditsStay, Productive, Committed
  <2> QED BY <1>2, <2>1, SourcesStay, SameCorpusKeeps DEF CorpusTells
<1> QED BY <1>1, <1>3, <1>4 DEF CorpusTells

(* A request commits.                                                      *)
LEMMA RequestTells ==
  ASSUME DreamTypeOK, TableInv, CorpusTells, NEW r \in Requests, SessionInv(r), Commit(r),
         CorpusKeeps, UNCHANGED <<dream, audit>>
  PROVE  CorpusTells'
<1>1. /\ TypeOK /\ r \in Sessions /\ r \notin Dreamers /\ pc[r] = "commit" /\ pc'[r] = "done"
      /\ job' = job /\ report' = report /\ \A q \in Sessions : q # r => pc'[q] = pc[q]
  BY RequestsDoNotClose DEF DreamTypeOK, TypeOK, Commit, Goto
<1>2. LineageSound' /\ AcknowledgedWritesHold'
  BY <1>1, CommitLineage, CommitAcknowledged DEF CorpusTells
<1>3. AuditsStay /\ \A d \in Dreamers : Productive(d)' <=> Productive(d)
  BY <1>1, DreamersAreSessions DEF AuditsStay, Productive, Committed
<1>4. ChangesAccounted'
  <2> SUFFICES ASSUME NEW i \in Ids, corpus'[i].status # "absent"
               PROVE  /\ i > InitRows => StoredBy(i)'
                      /\ Retired(i)' => RetiredBy(i)'
                      /\ corpus'[i].status = "consolidated" => ConsolidatedBy(i)'
    BY DEF ChangesAccounted, StoredBy, RetiredBy, ConsolidatedBy, KnownIds
  <2>1. \A q \in Requests : pc[q] = "done" =>
          pc'[q] = "done" /\ job'[q] = job[q] /\ report'[q] = report[q]
    BY <1>1, RequestsAreSessions
  <2>2. corpus[i].status # "absent" =>
          /\ i > InitRows => StoredBy(i)'
          /\ Retired(i) => RetiredBy(i)'
          /\ corpus[i].status = "consolidated" => ConsolidatedBy(i)'
    BY <1>3, <2>1, AccountedBy, WitnessesStay DEF CorpusTells, KnownIds
  <2>3. \A o : report[r].outcome = o => Finished(r, o)'
    BY <1>1 DEF Finished
  <2>4. CASE corpus'[i].status = corpus[i].status
    BY <2>2, <2>4 DEF Retired
  <2>5. CASE report[r].outcome \in {"created", "replaced"} /\ i = report[r].id
    <3>1. corpus'[i].status = "active"
      BY <1>1, <2>5, CommitCreated, CommitReplaced
    <3> QED BY <1>1, <2>3, <2>5, <3>1 DEF Retired, RetiredStatuses, StoredBy
  <2>6. CASE report[r].outcome \in {"replaced", "forgotten"} /\ i = job[r].target
    <3>1. corpus[i].status # "absent" /\ corpus'[i].status \in {"superseded", "deprecated"}
      BY <1>1, <2>6, CommitReplaced, CommitForgotten
    <3> QED BY <1>1, <2>2, <2>3, <2>6, <3>1 DEF RetiredBy
  <2>7. \/ corpus'[i].status = corpus[i].status
        \/ report[r].outcome \in {"created", "replaced"} /\ i = report[r].id
        \/ report[r].outcome \in {"replaced", "forgotten"} /\ i = job[r].target
    BY <1>1, CommitCreated, CommitReplaced, CommitForgotten, CommitOther
  <2> QED BY <2>4, <2>5, <2>6, <2>7
<1>5. SourcesRetired'
  <2> SUFFICES ASSUME NEW d \in Dreamers, Productive(d)'
               PROVE  audit'[d].created \subseteq KnownIds' /\ \A i \in audit'[d].sources : Retired(i)'
    BY DEF SourcesRetired
  <2> QED BY <1>3, SourcesStay DEF CorpusTells
<1> QED BY <1>2, <1>4, <1>5 DEF CorpusTells

(* What the run has in hand when it commits.                               *)
LEMMA RunInHand ==
  ASSUME TableInv, AllSessions, NEW d \in Dreamers, CommitRun(d)
  PROVE  /\ d \in Sessions /\ pc[d] = "commit" /\ pc'[d] = "done"
         /\ UNCHANGED <<job, report, dream, audit>>
         /\ \A q \in Sessions : q # d => pc'[q] = pc[q]
         /\ audit[d].sources = dream[d].batch
         /\ audit[d].created = IF Promoted(d) THEN {report[d].id} ELSE {}
         /\ Promoted(d) => ~ dream[d].dryRun
         /\ report[d].outcome \in {"none", "created", "reinforced", "rejected", "inactive"}
         /\ Promoted(d) => \A i \in dream[d].batch : Settled(d, i)
<1>1. Closing(d) /\ pc[d] = "commit"
  BY DEF CommitRun, Commit, Closing
<1>2. Closes(d) /\ Remembers(d) /\ d \in Sessions
  BY <1>1, AtClosing
<1>3. Promoted(d) => ~ dream[d].dryRun
  BY <1>2 DEF Remembers, Promoted
<1>4. /\ pc'[d] = "done" /\ \A q \in Sessions : q # d => pc'[q] = pc[q]
      /\ UNCHANGED <<job, report, dream, audit>>
  BY <1>2 DEF CommitRun, Commit, Goto, TableInv, TypeOK
<1>5. Promoted(d) => \A i \in dream[d].batch : Settled(d, i)
  BY <1>1, <1>2 DEF Closes
<1> QED BY <1>1, <1>2, <1>3, <1>4, <1>5 DEF Closes, Remembers

LEMMA RunLineage ==
  ASSUME TableInv, AllSessions, LineageSound, NEW d \in Dreamers, CommitRun(d)
  PROVE  LineageSound'
<1>1. /\ d \in Sessions /\ job' = job /\ report' = report /\ pc[d] = "commit"
      /\ \A q \in Sessions : q # d => pc'[q] = pc[q]
  BY RunInHand
<1>2. CorpusKeeps
  BY RunCommitKeeps
<1> SUFFICES ASSUME NEW i \in Ids
             PROVE  /\ corpus'[i].status = "superseded" => corpus'[i].supersededBy # NoId
                    /\ corpus'[i].supersededBy # NoId =>
                         /\ Retired(i)'
                         /\ corpus'[i].supersededBy > i
                         /\ corpus'[i].supersededBy \in KnownIds'
                         /\ \E q \in Sessions : /\ Finished(q, "replaced")'
                                                /\ job'[q].target = i
                                                /\ report'[q].id = corpus'[i].supersededBy
  BY DEF LineageSound
<1>3. CASE /\ corpus'[i].supersededBy = corpus[i].supersededBy
           /\ corpus'[i].status = "superseded" => corpus[i].status = "superseded"
  <2>1. corpus'[i].supersededBy # NoId =>
          /\ Retired(i) /\ corpus[i].supersededBy > i /\ corpus[i].supersededBy \in KnownIds
          /\ \E q \in Sessions : /\ Finished(q, "replaced")
                                 /\ job[q].target = i
                                 /\ report[q].id = corpus[i].supersededBy
    BY <1>3 DEF LineageSound
  <2>2. KnownIds \subseteq KnownIds' /\ (Retired(i) => Retired(i)')
    BY <1>2 DEF KnownIds, CorpusKeeps
  <2>3. corpus'[i].status = "superseded" => corpus'[i].supersededBy # NoId
    BY <1>3 DEF LineageSound
  <2>4. \A q \in Sessions : Finished(q, "replaced") => Finished(q, "replaced")'
    BY <1>1 DEF Finished
  <2> QED BY <1>1, <1>3, <2>1, <2>2, <2>3, <2>4
<1>4. CASE corpus'[i].status = "active" /\ corpus'[i].supersededBy = NoId
  BY <1>4
<1> QED BY <1>3, <1>4, RunCommits

LEMMA RunAcknowledged ==
  ASSUME TableInv, AllSessions, AcknowledgedWritesHold, NEW d \in Dreamers, CommitRun(d)
  PROVE  AcknowledgedWritesHold'
<1>1. /\ d \in Sessions /\ job' = job /\ report' = report /\ pc[d] = "commit"
      /\ \A q \in Sessions : q # d => pc'[q] = pc[q]
      /\ report[d].outcome \in {"none", "created", "reinforced", "rejected", "inactive"}
  BY RunInHand
<1>2. CorpusKeeps
  BY RunCommitKeeps
<1> SUFFICES ASSUME NEW q \in Sessions
             PROVE  /\ Finished(q, "created")' \/ Finished(q, "replaced")' =>
                         /\ report[q].id \in KnownIds'
                         /\ corpus'[report[q].id].content = job[q].content
                         /\ corpus'[report[q].id].type = job[q].type
                    /\ Finished(q, "replaced")' \/ Finished(q, "forgotten")' =>
                         job[q].target \in KnownIds' /\ Retired(job[q].target)'
                    /\ Finished(q, "replaced")' => corpus'[job[q].target].supersededBy # NoId
  BY <1>1 DEF AcknowledgedWritesHold, Retired
<1>3. CASE q = d
  <2>1. CASE report[d].outcome = "created"
    <3>1. report[d].id \in Ids /\ Written(d, report[d].id) /\ PendingInsert(d, report[d].id)
      BY <2>1, AtClosing DEF CommitRun, Commit, Closing, Closes
    <3>2. corpus'[report[d].id] = dirty[d][report[d].id]
      BY <3>1 DEF CommitRun, Commit, Merged
    <3> QED BY <1>1, <1>3, <2>1, <3>1, <3>2 DEF PendingInsert, SameMemory, KnownIds, Finished
  <2>2. CASE report[d].outcome # "created"
    BY <1>1, <1>3, <2>2 DEF Finished
  <2> QED BY <2>1, <2>2
<1>4. CASE q # d
  <2>1. \A o : Finished(q, o)' <=> Finished(q, o)
    BY <1>1, <1>4 DEF Finished
  <2>2. ASSUME Finished(q, "created") \/ Finished(q, "replaced")
        PROVE  /\ report[q].id \in KnownIds'
               /\ corpus'[report[q].id].content = job[q].content
               /\ corpus'[report[q].id].type = job[q].type
    <3>1. /\ report[q].id \in KnownIds
          /\ corpus[report[q].id].content = job[q].content
          /\ corpus[report[q].id].type = job[q].type
      BY <2>2 DEF AcknowledgedWritesHold
    <3> QED BY <1>2, <3>1 DEF CorpusKeeps, KnownIds, SameMemory
  <2>3. PICK t : t = job[q].target
    OBVIOUS
  <2>4. ASSUME Finished(q, "replaced") \/ Finished(q, "forgotten")
        PROVE  t \in KnownIds' /\ Retired(t)'
    <3>1. t \in KnownIds /\ Retired(t)
      BY <2>3, <2>4 DEF AcknowledgedWritesHold
    <3> QED BY <1>2, <3>1 DEF CorpusKeeps, KnownIds
  <2>5. ASSUME Finished(q, "replaced") PROVE corpus'[t].supersededBy # NoId
    <3>1. t \in KnownIds /\ corpus[t].supersededBy # NoId
      BY <2>3, <2>5 DEF AcknowledgedWritesHold
    <3> QED BY <3>1, RunCommits DEF KnownIds
  <2>6. Retired(t)' => Retired(job[q].target)'
    BY <1>1, <2>3 DEF Retired
  <2> QED BY <2>1, <2>2, <2>3, <2>4, <2>5, <2>6
<1> QED BY <1>3, <1>4

LEMMA RunAccounted ==
  ASSUME TableInv, AllSessions, ChangesAccounted, NEW d \in Dreamers, CommitRun(d)
  PROVE  ChangesAccounted'
<1>1. /\ d \in Sessions /\ pc[d] = "commit" /\ pc'[d] = "done"
      /\ UNCHANGED <<job, report, dream, audit>>
      /\ \A q \in Sessions : q # d => pc'[q] = pc[q]
      /\ audit[d].sources = dream[d].batch
      /\ audit[d].created = IF Promoted(d) THEN {report[d].id} ELSE {}
      /\ Promoted(d) => ~ dream[d].dryRun
  BY RunInHand
<1> SUFFICES ASSUME NEW i \in Ids, corpus'[i].status # "absent"
             PROVE  /\ i > InitRows => StoredBy(i)'
                    /\ Retired(i)' => RetiredBy(i)'
                    /\ corpus'[i].status = "consolidated" => ConsolidatedBy(i)'
  BY DEF ChangesAccounted, StoredBy, RetiredBy, ConsolidatedBy, KnownIds
<1>2. AuditsStay
  BY <1>1, DreamersAreSessions DEF AuditsStay
<1>3. \A q \in Requests : pc[q] = "done" =>
        pc'[q] = "done" /\ job'[q] = job[q] /\ report'[q] = report[q]
  BY <1>1, RequestsAreSessions
<1>4. corpus[i].status # "absent" =>
        /\ i > InitRows => StoredBy(i)'
        /\ Retired(i) => RetiredBy(i)'
        /\ corpus[i].status = "consolidated" => ConsolidatedBy(i)'
  BY <1>2, <1>3, AccountedBy, WitnessesStay DEF KnownIds
<1>5. Promoted(d) => Productive(d)' /\ audit'[d].created = {report[d].id}
  BY <1>1 DEF Productive, Committed
<1>6. CASE corpus'[i].status = corpus[i].status
  BY <1>4, <1>6 DEF Retired
<1>7. CASE report[d].outcome = "created" /\ report[d].id = i /\ corpus'[i].status = "active"
  BY <1>5, <1>7 DEF Promoted, StoredBy, Retired, RetiredStatuses
<1>8. CASE /\ corpus[i].status # "absent" /\ Promoted(d) /\ i \in dream[d].batch
           /\ corpus'[i].status = "consolidated"
  BY <1>1, <1>4, <1>5, <1>8 DEF RetiredBy, ConsolidatedBy
<1> QED BY <1>6, <1>7, <1>8, RunCommits

LEMMA RunSources ==
  ASSUME DreamTypeOK, TableInv, AllSessions, SourcesRetired, NEW d \in Dreamers, CommitRun(d)
  PROVE  SourcesRetired'
<1>1. /\ d \in Sessions /\ pc[d] = "commit"
      /\ UNCHANGED <<job, report, dream, audit>>
      /\ \A q \in Sessions : q # d => pc'[q] = pc[q]
      /\ audit[d].sources = dream[d].batch
      /\ audit[d].created = IF Promoted(d) THEN {report[d].id} ELSE {}
      /\ Promoted(d) => \A i \in dream[d].batch : Settled(d, i)
  BY RunInHand
<1>2. CorpusKeeps
  BY RunCommitKeeps
<1> SUFFICES ASSUME NEW e \in Dreamers, Productive(e)'
             PROVE  /\ audit'[e].created \subseteq KnownIds'
                    /\ \A i \in audit'[e].sources : Retired(i)'
  BY DEF SourcesRetired
<1>3. CASE e # d
  <2>1. Productive(e) /\ audit'[e] = audit[e]
    BY <1>1, <1>3, DreamersAreSessions DEF Productive, Committed
  <2> QED BY <1>2, <2>1, SourcesStay
<1>4. CASE e = d
  <2>1. Promoted(d)
    BY <1>1, <1>4 DEF Productive
  <2>2. dream[d].batch \subseteq Ids
    BY DEF DreamTypeOK, Dreams
  <2>3. ASSUME NEW i \in dream[d].batch PROVE Retired(i)'
    <3>1. i \in Ids /\ Settled(d, i)
      BY <1>1, <2>1, <2>2
    <3>2. CASE Retired(i)
      BY <1>2, <3>1, <3>2 DEF CorpusKeeps
    <3>3. CASE Written(d, i) /\ dirty[d][i].status = "consolidated"
      <4>1. corpus'[i] = dirty[d][i]
        BY <3>1, <3>3 DEF CommitRun, Commit, Merged
      <4> QED BY <3>3, <4>1 DEF Retired, RetiredStatuses
    <3> QED BY <3>1, <3>2, <3>3 DEF Settled
  <2>4. report[d].id \in KnownIds'
    <3>1. CASE report[d].outcome = "created"
      <4>1. report[d].id \in Ids /\ Written(d, report[d].id)
        BY <3>1, AtClosing DEF CommitRun, Commit, Closing, Closes
      <4> QED BY <4>1 DEF CommitRun, Commit, Merged, Written, KnownIds
    <3>2. CASE report[d].outcome = "reinforced"
      <4>1. report[d].id \in KnownIds
        BY <3>2 DEF AllSessions, RunInv, Remembers
      <4> QED BY <1>2, <4>1 DEF CorpusKeeps, KnownIds
    <3> QED BY <2>1, <3>1, <3>2 DEF Promoted
  <2> QED BY <1>1, <1>4, <2>1, <2>3, <2>4
<1> QED BY <1>3, <1>4

LEMMA RunTells ==
  ASSUME DreamTypeOK, TableInv, AllSessions, CorpusTells, NEW d \in Dreamers, CommitRun(d)
  PROVE  CorpusTells'
  BY RunLineage, RunAcknowledged, RunAccounted, RunSources DEF CorpusTells

-----------------------------------------------------------------------------
(* The inductive invariant, step by step.                                  *)

LEMMA DreamInvIs == DreamInv <=> DreamTypeOK /\ TableInv /\ AllSessions /\ CorpusTells
  BY DEF DreamInv, AllSessions, CorpusTells

LEMMA DreamInitInvariant == DreamInit => DreamInv
<1> SUFFICES ASSUME DreamInit PROVE DreamInv
  OBVIOUS
<1>1. Init /\ DreamTypeOK
  BY DreamInitType DEF DreamInit
<1>2. IInv /\ TableInv /\ \A s \in Sessions : SessionInv(s)
  BY <1>1, InitInvariant DEF IInv, LockInv
<1>3. \A s \in Sessions : /\ pc[s] = "new" /\ picked[s] = {} /\ job[s].op = "none"
                          /\ report[s].outcome = "none"
  BY <1>1 DEF Init, NoJob, NoReport, Result
<1>4. \A s \in Sessions : AnySession(s)
  BY <1>2, <1>3 DEF IInv, AnySession, PicksKnown
<1>5. ASSUME NEW d \in Dreamers PROVE RunInv(d)
  <2>1. d \in Sessions /\ dream[d] = Asleep /\ audit[d] = NoAudit
    BY DreamersAreSessions DEF DreamInit
  <2>2. Gathers(d)
    BY <2>1 DEF Gathers, Asleep
  <2>3. Remembers(d) /\ ~ Closing(d)
    BY <1>3, <2>1 DEF Remembers, Closing, Promoted
  <2> QED BY <2>2, <2>3 DEF RunInv
<1>6. ChangesAccounted
  <2>1. PICK types \in [1 .. InitRows -> StoredTypes], contents \in [1 .. InitRows -> Contents] :
          corpus = [i \in Ids |-> IF i <= InitRows THEN NewRow(types[i], contents[i]) ELSE NoRow]
    BY <1>1, Zenon DEF Init
  <2>2. \A i \in Ids : /\ corpus[i].status \in {"active", "absent"}
                       /\ i > InitRows => corpus[i].status = "absent"
    BY <2>1, RequestsBounds DEF NewRow, NoRow, Ids
  <2> QED BY <2>2 DEF ChangesAccounted, KnownIds, Retired, RetiredStatuses
<1>7. SourcesRetired
  BY <1>3, DreamersAreSessions DEF SourcesRetired, Productive, Committed
<1> QED BY <1>1, <1>2, <1>4, <1>5, <1>6, <1>7 DEF DreamInv, IInv

(* A step of a run that commits nothing.                                   *)
LEMMA QuietTurn ==
  ASSUME DreamTypeOK, DreamTypeOK', TableInv, AllSessions, CorpusTells, NEW d \in Dreamers,
         pc[d] # "done", Turn(d), AnySession(d)', RunInv(d)', SameAnswers
  PROVE  DreamInv'
<1>1. d \in Sessions
  BY DreamersAreSessions
<1>2. TableInv' /\ AllSessions'
  BY <1>1, TurnGoesOn
<1>3. AuditsStay
  BY DreamersAreSessions DEF AuditsStay, SameAnswers, Turn, OnlyTurns
<1>4. CorpusTells'
  BY <1>3, QuietTells
<1> QED BY <1>2, <1>4 DEF DreamInv, AllSessions, CorpusTells

(* Sessions that are rolled back.                                          *)
LEMMA RollBackInvariant ==
  ASSUME DreamInv, NEW S, RollBack(S), dream' = dream, DreamTypeOK',
         \A q \in S : pc[q] # "done",
         \A e \in Dreamers : audit'[e] = (IF e \in S THEN NoAudit ELSE audit[e])
  PROVE  DreamInv' /\ SameAnswers
<1>1. DreamTypeOK /\ TableInv /\ AllSessions /\ CorpusTells
  BY DreamInvIs
<1>2. TableInv' /\ AllSessions' /\ SameAnswers
  BY <1>1, RollBackGoesOn
<1>3. AuditsStay
  BY <1>2, DreamersAreSessions DEF AuditsStay, SameAnswers
<1>4. CorpusTells'
  BY <1>1, <1>2, <1>3, QuietTells
<1> QED BY <1>2, <1>4 DEF DreamInv, AllSessions, CorpusTells

LEMMA RequestInvariant ==
  ASSUME DreamInv, NEW r \in Requests, Request(r)
  PROVE  DreamInv' /\ (SameAnswers \/ (Commit(r) /\ SessionInv(r)))
<1>1. DreamTypeOK /\ TableInv /\ AllSessions /\ CorpusTells /\ UNCHANGED <<dream, audit>>
  BY DreamInvIs DEF Request
<1>2. r \in Sessions /\ r \notin Dreamers
  BY RequestsDoNotClose
<1>3. Turn(r) /\ AnySession(r)' /\ SessionInv(r) /\ (SameAnswers \/ Commit(r))
  BY <1>1, RequestTurn
<1>4. TableInv' /\ AllSessions'
  BY <1>1, <1>2, <1>3, TurnGoesOn
<1>5. DreamTypeOK'
  BY <1>1, <1>4 DEF DreamTypeOK, TableInv
<1>6. CorpusTells'
  <2>1. CASE SameAnswers
    <3>1. AuditsStay
      BY <1>1, <2>1, DreamersAreSessions DEF AuditsStay, SameAnswers
    <3> QED BY <1>1, <2>1, <3>1, QuietTells
  <2>2. CASE Commit(r)
    BY <1>1, <1>3, <2>2, RequestTells DEF Turn
  <2> QED BY <1>3, <2>1, <2>2
<1> QED BY <1>3, <1>4, <1>5, <1>6 DEF DreamInv, AllSessions, CorpusTells

LEMMA RunInvariant ==
  ASSUME DreamInv, NEW d \in Dreamers, DreamStep(d) \/ CrashRun(d)
  PROVE  DreamInv' /\ (SameAnswers \/ CommitRun(d))
<1>1. /\ DreamTypeOK /\ TableInv /\ AllSessions /\ CorpusTells /\ TypeOK /\ d \in Sessions
      /\ Remembers(d) /\ Waits(d)
  BY DreamInvIs, DreamersAreSessions DEF DreamTypeOK, AllSessions, RunInv, AnySession
<1>2. CASE SelectSeeds(d)
  BY <1>1, <1>2, SelectSeedsType, SelectSeedsTurn, QuietTurn DEF SelectSeeds
<1>3. CASE QualifyBatch(d)
  BY <1>1, <1>3, QualifyBatchType, QualifyBatchTurn, QuietTurn DEF QualifyBatch
<1>4. CASE Propose(d)
  BY <1>1, <1>4, ProposeType, ProposeTurn, QuietTurn DEF Propose
<1>5. CASE NothingProposed(d)
  BY <1>1, <1>5, NothingProposedTurn, QuietTurn DEF NothingProposed
<1>6. CASE Promote(d)
  <2>1. Turn(d) /\ AnySession(d)' /\ RunInv(d)' /\ SameAnswers /\ UNCHANGED <<dream, audit>>
    BY <1>1, <1>6, PromoteTurn
  <2>2. DreamTypeOK'
    BY <1>1, <2>1 DEF Turn, LockStep, TableInv, DreamTypeOK
  <2>3. pc[d] # "done"
    BY <1>6 DEF Promote, Embedded, EmbeddingFails, VectorSearch, LexicalSearch, RankRemember,
       Insert, Reinforce
  <2> QED BY <1>1, <2>1, <2>2, <2>3, QuietTurn
<1>7. CASE SelectSources(d)
  BY <1>1, <1>7, SelectSourcesType, SelectSourcesTurn, QuietTurn DEF SelectSources
<1>8. CASE Consolidate(d)
  BY <1>1, <1>8, ConsolidateType, ConsolidateTurn, QuietTurn DEF Consolidate
<1>9. CASE CompleteRun(d)
  BY <1>1, <1>9, CompleteRunTurn, QuietTurn
<1>10. CASE CommitRun(d)
  <2>1. DreamTypeOK' /\ Turn(d) /\ AnySession(d)' /\ RunInv(d)'
    BY <1>1, <1>10, CommitRunTurn
  <2>2. TableInv' /\ AllSessions'
    BY <1>1, <2>1, TurnGoesOn
  <2>3. CorpusTells'
    BY <1>1, <1>10, RunTells
  <2> QED BY <1>10, <2>1, <2>2, <2>3 DEF DreamInv, AllSessions, CorpusTells
<1>11. ASSUME RollBack({d}), UNCHANGED <<dream, audit>>, pc[d] \in {"synthesis", "update", "consolidate"}
       PROVE  DreamInv' /\ SameAnswers
  <2>1. DreamTypeOK'
    BY <1>1, <1>11, RollBackType DEF DreamTypeOK
  <2>2. audit[d] = NoAudit
    BY <1>1, <1>11 DEF Remembers
  <2> QED BY <1>11, <2>1, <2>2, RollBackInvariant
<1>12. CASE MalformedProposal(d)
  BY <1>11, <1>12 DEF MalformedProposal
<1>13. CASE VictimRun(d)
  <2>1. want[d] # NoId
    BY <1>13 DEF VictimRun, DeadlockVictim, Deadlocked, WaitsFor
  <2> QED BY <1>1, <1>11, <1>13, <2>1 DEF VictimRun, DeadlockVictim, Waits
<1>14. CASE CrashRun(d)
  <2>1. NoAudit \in Audits
    BY DEF NoAudit, Audits
  <2>2. DreamTypeOK' /\ \A e \in Dreamers : audit'[e] = (IF e \in {d} THEN NoAudit ELSE audit[e])
    BY <1>1, <1>14, <2>1, RollBackType DEF CrashRun, DreamTypeOK
  <2> QED BY <1>14, <2>2, RollBackInvariant DEF CrashRun
<1> QED BY <1>2, <1>3, <1>4, <1>5, <1>6, <1>7, <1>8, <1>9, <1>10, <1>12, <1>13, <1>14,
           SelectSeedsTurn, QualifyBatchTurn, ProposeTurn, NothingProposedTurn, PromoteTurn,
           SelectSourcesTurn, ConsolidateTurn, CompleteRunTurn, <1>1 DEF DreamStep

LEMMA CrashInvariant ==
  ASSUME DreamInv, Crash, UNCHANGED <<dream, audit>>
  PROVE  DreamInv' /\ SameAnswers
<1>1. DreamTypeOK /\ InFlight \cap Dreamers = {} /\ \A q \in InFlight : pc[q] # "done"
  BY DreamingSessions, DreamInvIs DEF InFlight
<1>2. DreamTypeOK'
  BY <1>1, RollBackType DEF Crash, DreamTypeOK
<1>3. \A e \in Dreamers : audit'[e] = (IF e \in InFlight THEN NoAudit ELSE audit[e])
  BY <1>1
<1> QED BY <1>1, <1>2, <1>3, RollBackInvariant DEF Crash

LEMMA DreamStutter ==
  ASSUME DreamInv, UNCHANGED dreamVars
  PROVE  DreamInv' /\ SameAnswers
<1>1. UNCHANGED vars /\ UNCHANGED <<dream, audit>> /\ DreamTypeOK /\ TableInv /\ AllSessions /\ CorpusTells
  BY DreamInvIs DEF dreamVars
<1>2. SameAnswers
  BY <1>1 DEF vars, SameAnswers
<1>3. DreamTypeOK'
  BY <1>1 DEF vars, DreamTypeOK, TypeOK
<1>4. TableInv' /\ \A q \in Sessions : SessionInv(q) => SessionInv(q)'
  BY <1>1, StutterLock
<1>5. corpus' = corpus /\ CorpusKeeps /\ KnownIds' = KnownIds
  BY <1>1, SameCorpusKeeps DEF vars, KnownIds
<1>6. \A q \in Sessions : AnySession(q)'
  BY <1>1, <1>4 DEF AllSessions, AnySession, Closing, Picks, Names, Waits, PicksKnown, vars,
     KnownIds, Retired
<1>7. ASSUME NEW e \in Dreamers PROVE RunInv(e)'
  <2>1. RunInv(e) /\ dream[e].batch \subseteq Ids
    BY <1>1 DEF AllSessions, DreamTypeOK, Dreams
  <2>2. Gathers(e)'
    BY <1>1, <1>5, <2>1, GathersStays DEF RunInv, vars
  <2>3. Remembers(e)'
    BY <1>1, <2>1 DEF RunInv, Remembers, Promoted, KnownIds, vars
  <2>4. Closing(e)' => Closes(e)'
    BY <1>1, <1>5, <2>1, ClosesStays DEF RunInv, Closing, vars
  <2> QED BY <2>2, <2>3, <2>4 DEF RunInv
<1>8. CorpusTells'
  <2>1. AuditsStay
    BY <1>1 DEF AuditsStay, vars
  <2> QED BY <1>1, <1>2, <2>1, QuietTells
<1> QED BY <1>2, <1>3, <1>4, <1>6, <1>7, <1>8 DEF DreamInv, AllSessions, CorpusTells

(* What a step of DreamNext is, seen from the corpus: quiet, the commit of *)
(* a request, or the commit of a run.                                      *)
LEMMA DreamNextInvariant ==
  ASSUME DreamInv, [DreamNext]_dreamVars
  PROVE  /\ DreamInv'
         /\ \/ SameAnswers
            \/ \E r \in Requests : Commit(r) /\ SessionInv(r)
            \/ \E d \in Dreamers : CommitRun(d)
<1>1. CASE \E r \in Requests : Request(r)
  BY <1>1, RequestInvariant
<1>2. CASE \E d \in Dreamers : DreamStep(d) \/ CrashRun(d)
  BY <1>2, RunInvariant
<1>3. CASE Crash /\ UNCHANGED <<dream, audit>>
  BY <1>3, CrashInvariant
<1>4. CASE UNCHANGED dreamVars
  BY <1>4, DreamStutter
<1> QED BY <1>1, <1>2, <1>3, <1>4 DEF DreamNext, AllEnded

-----------------------------------------------------------------------------
(* Theorems.                                                               *)

(* The inductive invariant: what requests and runs have flushed under      *)
(* their row locks, what a run has gathered and is about to retire, and    *)
(* what answers, audits and corpus say of each other.                      *)
THEOREM DreamInvariant == DreamSpec => []DreamInv
<1>1. DreamInit => DreamInv
  BY DreamInitInvariant
<1>2. DreamInv /\ [DreamNext]_dreamVars => DreamInv'
  BY DreamNextInvariant
<1> QED BY <1>1, <1>2, PTL DEF DreamSpec

(* Every variable keeps its type, whatever the instance.                   *)
THEOREM DreamTypeCorrect == DreamSpec => []DreamTypeOK
<1>1. DreamInv => DreamTypeOK
  BY DEF DreamInv
<1> QED BY <1>1, DreamInvariant, PTL

(* The audit tells the truth, whatever races, failures and crashes do:     *)
(* each new or retired memory is owed to a completed request or run.       *)
THEOREM ChangesAlwaysAccounted == DreamSpec => []ChangesAccounted
<1>1. DreamInv => ChangesAccounted
  BY DEF DreamInv
<1> QED BY <1>1, DreamInvariant, PTL

(* No source of a committed run that promoted something is active.         *)
THEOREM SourcesAlwaysRetired == DreamSpec => []SourcesRetired
<1>1. DreamInv => SourcesRetired
  BY DEF DreamInv
<1> QED BY <1>1, DreamInvariant, PTL

(* No run works on a memory retired before it began.                       *)
THEOREM DreamAlwaysFresh == DreamSpec => []DreamFreshness
<1>1. DreamInv => DreamFreshness
  BY DEF DreamInv, RunInv, Gathers, DreamFreshness
<1> QED BY <1>1, DreamInvariant, PTL

(* Replacement lineage is sound beside runs too.                           *)
THEOREM LineageSoundBesideRuns == DreamSpec => []LineageSound
<1>1. DreamInv => LineageSound
  BY DEF DreamInv
<1> QED BY <1>1, DreamInvariant, PTL

(* What was answered, to clients and to runs, stays true beside runs.      *)
THEOREM AcknowledgedWritesHoldBesideRuns == DreamSpec => []AcknowledgedWritesHold
<1>1. DreamInv => AcknowledgedWritesHold
  BY DEF DreamInv
<1> QED BY <1>1, DreamInvariant, PTL

(* Neither a request nor a run is turned away for a memory that was        *)
(* retired before it came.                                                 *)
THEOREM DuplicateFreshBesideRuns == DreamSpec => []DuplicateFreshness
<1>1. DreamInv => DuplicateFreshness
  BY DEF DreamInv, AnySession, Names, DuplicateFreshness, Finished
<1> QED BY <1>1, DreamInvariant, PTL

(* Neither a request nor a run holds a row lock while it awaits a provider.*)
THEOREM NeverLocksAcrossProviderBesideRuns == DreamSpec => []NoLockAcrossProvider
<1>1. DreamInv => NoLockAcrossProvider
  <2> SUFFICES ASSUME DreamInv, NEW s \in Sessions, pc[s] \in {"embed", "rerank", "synthesis"}
               PROVE  Idle(s)
    BY DEF NoLockAcrossProvider, Idle
  <2>1. SessionInv(s)
    BY DEF DreamInv, AnySession, Closing
  <2> QED BY <2>1 DEF SessionInv, Staged
<1> QED BY <1>1, DreamInvariant, PTL

(* What a step does to the corpus: nothing, or a commit that keeps it.     *)
LEMMA DreamNextKeeps ==
  ASSUME DreamInv, [DreamNext]_dreamVars
  PROVE  CorpusKeeps
<1>1. DreamTypeOK /\ TableInv /\ AllSessions
  BY DreamInvIs
<1>2. CASE SameAnswers
  BY <1>2, SameCorpusKeeps DEF SameAnswers
<1>3. CASE \E r \in Requests : Commit(r) /\ SessionInv(r)
  BY <1>1, <1>3, CommitKeeps, RequestsAreSessions DEF CorpusKeeps
<1>4. CASE \E d \in Dreamers : CommitRun(d)
  BY <1>1, <1>4, RunCommitKeeps
<1> QED BY <1>2, <1>3, <1>4, DreamNextInvariant

(* Neither a request nor a run brings a retired memory back.               *)
THEOREM RetiredStaysRetiredBesideRuns == DreamSpec => RetiredStaysRetired
<1>1. DreamInv /\ [DreamNext]_dreamVars => [\A i \in Ids : Retired(i) => corpus'[i].status \in RetiredStatuses]_vars
  BY DreamNextKeeps DEF CorpusKeeps, Retired
<1> QED BY <1>1, DreamInvariant, PTL DEF DreamSpec, RetiredStaysRetired

(* The commit of a run is one Dream of the abstract corpus.                *)
LEMMA RunRefines ==
  ASSUME DreamTypeOK, TableInv, AllSessions, LineageSound, NEW d \in Dreamers, CommitRun(d)
  PROVE  Lifecycle!Next
<1> DEFINE S == {i \in Ids : corpus'[i].status = "consolidated"}
           n == IF report[d].outcome = "created" THEN report[d].id ELSE NoId
           N == {n} \ {NoId}
<1>1. n \in Ids \cup {NoId}
  <2>1. Remembers(d)
    BY DEF AllSessions, RunInv
  <2> QED BY <2>1 DEF Remembers, Promoted
<1>2. n # NoId => corpus[n].status = "absent" /\ corpus'[n].status = "active"
  <2> SUFFICES ASSUME report[d].outcome = "created"
               PROVE  corpus[n].status = "absent" /\ corpus'[n].status = "active"
    OBVIOUS
  <2>1. n \in Ids /\ Written(d, n) /\ PendingInsert(d, n)
    BY AtClosing DEF CommitRun, Commit, Closing, Closes
  <2> QED BY <2>1 DEF CommitRun, Commit, Merged, PendingInsert
<1> HIDE DEF n
<1>3. \A i \in S : corpus[i].status # "absent"
  BY RunCommits
<1>4. Life' = [i \in Ids |-> IF i \in S THEN "consolidated"
                             ELSE IF i \in N THEN "active" ELSE Life[i]]
  <2> SUFFICES ASSUME NEW i \in Ids
               PROVE  Life'[i] = IF i \in S THEN "consolidated"
                                 ELSE IF i \in N THEN "active" ELSE Life[i]
    BY DEF Life
  <2>1. CASE i \in S
    BY <2>1 DEF Life
  <2>2. CASE i \notin S /\ i \in N
    BY <1>2, <2>2 DEF Life
  <2>3. CASE i \notin S /\ i \notin N
    <3>1. corpus'[i].status = corpus[i].status
      BY <2>3, RunCommits DEF n, Ids, NoId
    <3> QED BY <2>3, <3>1 DEF Life
  <2> QED BY <2>1, <2>2, <2>3
<1>5. Heir' = Heir
  <2> SUFFICES ASSUME NEW i \in Ids PROVE corpus'[i].supersededBy = corpus[i].supersededBy
    BY DEF Heir
  <2>1. corpus[i].status = "absent" => corpus[i].supersededBy = NoId
    BY DEF LineageSound, Retired, RetiredStatuses
  <2> QED BY <2>1, RunCommits
<1>6. (\A k \in N : Life[k] = "unknown") /\ (\A i \in S : Life[i] # "unknown")
  BY <1>1, <1>2, <1>3 DEF Life
<1>7. Lifecycle!Dream(N, S)
  BY <1>4, <1>5, <1>6 DEF Lifecycle!Dream, Lifecycle!Ids, Ids
<1> QED
  <2>1. S \in SUBSET Ids
    OBVIOUS
  <2> HIDE DEF S
  <2> QED BY <1>1, <1>7, <2>1 DEF Lifecycle!Next, Lifecycle!Ids, Lifecycle!NoId, Ids, NoId

(* Requests and runs together implement the abstract corpus.               *)
THEOREM DreamRefinement == DreamSpec => ImplementsLifecycle
<1>1. DreamInit => Lifecycle!Init
  BY InitRefines DEF DreamInit
<1>2. DreamInv /\ [DreamNext]_dreamVars => [Lifecycle!Next]_(Lifecycle!vars)
  <2> SUFFICES ASSUME DreamInv, [DreamNext]_dreamVars PROVE [Lifecycle!Next]_(Lifecycle!vars)
    OBVIOUS
  <2>1. DreamTypeOK /\ TableInv /\ AllSessions /\ LineageSound
    BY DreamInvIs DEF CorpusTells
  <2>2. CASE SameAnswers
    BY <2>2 DEF SameAnswers, Lifecycle!vars, Life, Heir
  <2>3. CASE \E r \in Requests : Commit(r) /\ SessionInv(r)
    BY <2>1, <2>3, CommitRefines, RequestsAreSessions
  <2>4. CASE \E d \in Dreamers : CommitRun(d)
    BY <2>1, <2>4, RunRefines
  <2> QED BY <2>2, <2>3, <2>4, DreamNextInvariant
<1> QED BY <1>1, <1>2, DreamInvariant, PTL DEF DreamSpec, ImplementsLifecycle, Lifecycle!Spec

-----------------------------------------------------------------------------
(* access_count is right beside dreaming runs too: a run counts what it    *)
(* reinforces, once, and what it consolidates keeps its count, flushed or  *)
(* committed.                                                              *)

(* A run never recalls.                                                    *)
LEMMA RunMarks ==
  ASSUME NEW d \in Dreamers, Remembers(d) PROVE Marks(d) /\ report[d].outcome # "recalled"
  BY DEF Remembers, Marks

(* Nothing is loaded, nothing is flushed, nothing else is reported.        *)
LEMMA SameFlushedCounted ==
  ASSUME TypeOK, NEW d \in Sessions, Counted(d), StillTouches,
         UNCHANGED <<corpus, dirty, loaded, report, picked>>
  PROVE  Counted(d)'
  BY DEF Counted, CountsRecall, CountsReinforcement, CountsNothing, Written, StillTouches

(* One source is flushed: with the count it has, in the session's own view.*)
LEMMA ConsolidateCounted ==
  ASSUME TypeOK, NEW d \in Dreamers, NEW i \in Ids, i = want[d], Remembers(d), Counted(d),
         StillTouches, Consolidate(d)
  PROVE  Counted(d)'
<1>1. /\ d \in Sessions /\ report[d].outcome # "recalled"
      /\ UNCHANGED <<corpus, loaded, report, picked>>
  BY DreamersAreSessions, RunMarks DEF Consolidate
<1>2. /\ \A k \in Ids \ {i} : dirty'[d][k] = dirty[d][k]
      /\ dirty'[d][i] = Consolidated(d, i)
  BY <1>1 DEF Consolidate, TypeOK
<1>3. dirty'[d][i].accessCount = OwnView(d)[i].accessCount
  BY <1>2, ConsolidatedRow
<1>4. ASSUME NEW k \in Ids, Written(d, k)'
      PROVE  CountsReinforcement(d, k)' \/ CountsNothing(d, k)'
  <2>1. CASE k # i \/ Written(d, i)
    <3>1. Written(d, k) /\ dirty'[d][k].accessCount = dirty[d][k].accessCount
      <4>1. CASE k # i
        BY <1>2, <1>4, <4>1 DEF Written
      <4>2. CASE k = i /\ Written(d, i)
        BY <1>3, <4>2, OwnViewAre
      <4> QED BY <2>1, <4>1, <4>2
    <3>2. CountsReinforcement(d, k) \/ CountsNothing(d, k)
      BY <1>1, <3>1 DEF Counted, CountsRecall
    <3> QED BY <1>1, <3>1, <3>2 DEF CountsReinforcement, CountsNothing, StillTouches
  <2>2. CASE k = i /\ ~ Written(d, i)
    BY <1>1, <1>3, <2>2, OwnViewAre DEF CountsNothing
  <2> QED BY <2>1, <2>2
<1>5. Counted(d)'
  BY <1>1, <1>4 DEF Counted, StillTouches
<1> QED BY <1>5

-----------------------------------------------------------------------------
(* The steps of a run that neither commit nor roll back.                   *)

LEMMA RunStepTurn ==
  ASSUME DreamTypeOK, TableInv, AllSessions, NEW d \in Dreamers,
         \/ SelectSeeds(d) \/ QualifyBatch(d) \/ Propose(d) \/ NothingProposed(d)
         \/ Promote(d) \/ SelectSources(d) \/ Consolidate(d) \/ CompleteRun(d)
  PROVE  Turn(d) /\ RunInv(d)' /\ SameAnswers
  BY SelectSeedsTurn, QualifyBatchTurn, ProposeTurn, NothingProposedTurn, PromoteTurn,
     SelectSourcesTurn, ConsolidateTurn, CompleteRunTurn

LEMMA RunStepCounted ==
  ASSUME DreamTypeOK, TableInv, AllSessions, NEW d \in Dreamers,
         CountsMatch, StillTouches, Counted(d), Marks(d),
         \/ SelectSeeds(d) \/ QualifyBatch(d) \/ Propose(d) \/ NothingProposed(d)
         \/ Promote(d) \/ SelectSources(d) \/ Consolidate(d) \/ CompleteRun(d)
  PROVE  Counted(d)'
<1>1. /\ TypeOK /\ d \in Sessions /\ AnySession(d) /\ Remembers(d)
      /\ Names(d) /\ PicksKnown(d)
  BY DreamersAreSessions DEF DreamTypeOK, AllSessions, AnySession, RunInv
<1>2. CASE SelectSeeds(d)
  BY <1>1, <1>2, BeforeRemember, QuietCounted DEF SelectSeeds
<1>3. CASE QualifyBatch(d)
  BY <1>1, <1>3, BeforeRemember, QuietCounted DEF QualifyBatch
<1>4. CASE Propose(d)
  BY <1>1, <1>4, BeforeRemember, QuietCounted DEF Propose
<1>5. CASE NothingProposed(d)
  BY <1>1, <1>5, BeforeRemember, QuietCounted DEF NothingProposed
<1>6. CASE Promote(d)
  <2>1. Step(d) /\ ~ Commit(d) /\ ~ Closing(d)
    BY <1>6 DEF Promote, Step, Commit, Closing, Embedded, EmbeddingFails, VectorSearch,
       LexicalSearch, RankRemember, Insert, Reinforce
  <2>2. SessionInv(d)
    BY <1>1, <2>1 DEF AnySession
  <2> QED BY <1>1, <2>1, <2>2, StepCounted
<1>7. CASE SelectSources(d)
  BY <1>1, <1>7, SameFlushedCounted DEF SelectSources
<1>8. CASE Consolidate(d)
  <2>1. want[d] \in Ids
    <3>1. Closes(d)
      BY <1>1, <1>8, AtClosing DEF Consolidate, Closing
    <3> QED BY <1>8, <3>1 DEF Closes, Consolidate, DreamTypeOK, Dreams
  <2> QED BY <1>1, <1>8, <2>1, ConsolidateCounted
<1>9. CASE CompleteRun(d)
  BY <1>1, <1>9, SameFlushedCounted DEF CompleteRun
<1> QED BY <1>2, <1>3, <1>4, <1>5, <1>6, <1>7, <1>8, <1>9

-----------------------------------------------------------------------------
(* The invariant.                                                          *)

(* Sessions that are rolled back.                                          *)
LEMMA RollBackAccess ==
  ASSUME DreamInv, AccessInv, NEW S, RollBack(S), \A q \in S : pc[q] # "done"
  PROVE  AccessInv'
<1>1. TypeOK
  BY DEF DreamInv, DreamTypeOK
<1>2. SameAnswers
  BY <1>1, RollBackAnswers
<1> QED BY <1>1, <1>2, RollBackCounted DEF AccessInv

LEMMA RunAccess ==
  ASSUME DreamInv, AccessInv, NEW d \in Dreamers, DreamStep(d) \/ CrashRun(d)
  PROVE  AccessInv'
<1>1. /\ DreamTypeOK /\ TableInv /\ AllSessions /\ TypeOK /\ d \in Sessions
      /\ Remembers(d) /\ Waits(d) /\ CountsMatch /\ Counted(d) /\ Marks(d)
      /\ \A q \in Sessions : PicksKnown(q)
  BY DreamInvIs, DreamersAreSessions
     DEF DreamTypeOK, AllSessions, RunInv, AnySession, AccessInv
<1>2. ASSUME Turn(d)
      PROVE  /\ OnlyMoves(d) /\ ChangesOwnRows(d)
             /\ \A q \in Sessions \ {d} : want'[q] = want[q] /\ picked'[q] = picked[q]
  BY <1>2 DEF Turn, LockStep, OnlyTurns
<1>3. CASE \/ SelectSeeds(d) \/ QualifyBatch(d) \/ Propose(d) \/ NothingProposed(d)
           \/ Promote(d) \/ SelectSources(d) \/ Consolidate(d) \/ CompleteRun(d)
  <2>1. Turn(d) /\ RunInv(d)' /\ SameAnswers
    BY <1>1, <1>3, RunStepTurn
  <2>2. CountsMatch' /\ StillTouches
    BY <1>1, <2>1, QuietMatch, QuietTouches
  <2>3. \A i \in Ids : Touches(i) <= Touches(i)'
    BY <1>1, <2>2, TouchesType DEF StillTouches
  <2>4. Counted(d)'
    BY <1>1, <1>3, <2>2, RunStepCounted
  <2>5. Marks(d)'
    BY <2>1 DEF RunInv, Remembers, Marks
  <2> QED BY <1>1, <1>2, <2>1, <2>2, <2>3, <2>4, <2>5, TurnAccess
<1>4. CASE CommitRun(d)
  <2>1. Commit(d) /\ report[d].outcome # "recalled" /\ Turn(d)
    BY <1>1, <1>4, RunMarks, CommitRunTurn DEF CommitRun
  <2>2. CountsMatch' /\ (\A i \in Ids : Touches(i) <= Touches(i)') /\ Counted(d)' /\ Marks(d)'
    BY <1>1, <2>1, CommitMatch, CommitCounted
  <2> QED BY <1>1, <1>2, <2>1, <2>2, TurnAccess
<1>5. CASE MalformedProposal(d)
  BY <1>5, RollBackAccess DEF MalformedProposal
<1>6. CASE VictimRun(d)
  <2>1. want[d] # NoId
    BY <1>6 DEF VictimRun, DeadlockVictim, Deadlocked, WaitsFor
  <2> QED BY <1>1, <1>6, <2>1, RollBackAccess DEF VictimRun, DeadlockVictim, Waits
<1>7. CASE CrashRun(d)
  BY <1>7, RollBackAccess DEF CrashRun
<1> QED BY <1>3, <1>4, <1>5, <1>6, <1>7 DEF DreamStep

LEMMA DreamNextAccess == DreamInv /\ AccessInv /\ [DreamNext]_dreamVars => AccessInv'
<1> SUFFICES ASSUME DreamInv, AccessInv, [DreamNext]_dreamVars PROVE AccessInv'
  OBVIOUS
<1>1. TableInv /\ AllSessions
  BY DreamInvIs
<1>2. ASSUME NEW r \in Requests, Request(r) PROVE AccessInv'
  <2>1. r \in Sessions /\ SessionInv(r) /\ Names(r) /\ Waits(r) /\ \A q \in Sessions : PicksKnown(q)
    BY <1>1, RequestsDoNotClose DEF AllSessions, AnySession
  <2> QED BY <1>1, <1>2, <2>1, StepAccess DEF Request
<1>3. CASE \E d \in Dreamers : DreamStep(d) \/ CrashRun(d)
  BY <1>3, RunAccess
<1>4. CASE Crash
  BY <1>4, RollBackAccess DEF Crash, InFlight
<1>5. CASE UNCHANGED dreamVars
  BY <1>5, StutterAccess DEF dreamVars
<1> QED BY <1>2, <1>3, <1>4, <1>5 DEF DreamNext, AllEnded

(* The counts flushed and committed are right beside runs.                 *)
THEOREM AccessInvariantBesideRuns == DreamSpec => []AccessInv
<1>1. DreamInit => AccessInv
  BY InitAccess DEF DreamInit
<1>2. DreamInv /\ AccessInv /\ [DreamNext]_dreamVars => AccessInv'
  BY DreamNextAccess
<1> QED BY <1>1, <1>2, DreamInvariant, PTL DEF DreamSpec

(* access_count never exceeds the completed requests and runs that touched *)
(* the memory, however many there are.  (mark_accessed, reinforce_memory)  *)
THEOREM AccessNeverOvercountedBesideRuns == DreamSpec => []AccessNeverOvercounted
<1>1. AccessInv => AccessNeverOvercounted
  BY DEF AccessInv, CountsMatch, Touches, AccessNeverOvercounted, KnownIds
<1> QED BY <1>1, AccessInvariantBesideRuns, PTL

(* No completed recall is missing from access_count, unless the memory was *)
(* reinforced too, whatever runs do to its row meanwhile.                  *)
THEOREM RecallsCountedBesideRuns == DreamSpec => []RecallsCounted
<1>1. AccessInv => RecallsCounted
  BY DEF AccessInv, CountsMatch, RecallsCounted, KnownIds
<1> QED BY <1>1, AccessInvariantBesideRuns, PTL

(* No recall returns a memory retired before it began, be it by a run.     *)
THEOREM RecallFreshBesideRuns == DreamSpec => []RecallFreshness
<1>1. DreamInv => RecallFreshness
  BY RequestsAreSessions DEF DreamInv, AnySession, Picks, RecallFreshness
<1> QED BY <1>1, DreamInvariant, PTL
=============================================================================
