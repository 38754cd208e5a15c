------------------------------ MODULE Dreaming ------------------------------
(***************************************************************************)
(* Dreaming runs: DreamingService.run_once, as the one-shot worker and the *)
(* /dream route execute it, beside the requests of MemoryRequests.  A run  *)
(* is one session and one transaction from the selection of the seeds to   *)
(* the audit row: it reads the corpus, lets the provider synthesise a fact *)
(* from a batch of episodes, promotes it through remember_memory (whose    *)
(* steps are those of MemoryRequests), and retires the episodes.           *)
(*                                                                         *)
(* Each run is made once, in a process of its own that may die alone.      *)
(* Left out: activations and similarities, that only order the seeds and   *)
(* choose the batch, and the wording of synthesis and audit.               *)
(***************************************************************************)
EXTENDS MemoryRequests

CONSTANTS
  SeedLimit,   \* dreaming_seed_limit
  BatchSize,   \* dreaming_batch_size
  KeyRank      \* the order of the primary keys: UUIDs are drawn in no order

ASSUME DreamingBounds ==
  /\ SeedLimit \in Nat
  /\ BatchSize \in Nat /\ BatchSize >= 2
ASSUME DreamingKeys ==
  /\ KeyRank \in [Ids -> Nat]
  /\ \A i, k \in Ids : KeyRank[i] = KeyRank[k] => i = k
(* A run opens a session of its own.                                       *)
ASSUME DreamingSessions == Requests \cap Dreamers = {}

VARIABLES
  dream,   \* what each run has gathered so far
  audit    \* the dream_runs row complete_run flushed; visible once committed

dreamVars == <<vars, dream, audit>>

(* queue: seeds whose neighbours were not looked at yet; marking: episodes *)
(* that are about to be consolidated.                                      *)
Dreams == [dryRun : BOOLEAN, seeds : SUBSET Ids, queue : SUBSET Ids,
           batch : SUBSET Ids, marking : SUBSET Ids]
Asleep == [dryRun |-> FALSE, seeds |-> {}, queue |-> {}, batch |-> {}, marking |-> {}]

Audits == [status : {"none", "dry_run", "completed"}, seeds : SUBSET Ids,
           sources : SUBSET Ids, created : SUBSET Ids]
NoAudit == [status |-> "none", seeds |-> {}, sources |-> {}, created |-> {}]

DreamTypeOK ==
  /\ TypeOK
  /\ dream \in [Dreamers -> Dreams]
  /\ audit \in [Dreamers -> Audits]

DreamInit ==
  /\ Init
  /\ dream = [d \in Dreamers |-> Asleep]
  /\ audit = [d \in Dreamers |-> NoAudit]

-----------------------------------------------------------------------------
(* The table as d reads it: what is committed, and its own flushed rows.   *)
OwnView(d) == Merged(d)

Episodes(table, S) == {i \in S : table[i].type = "episode" /\ table[i].status = "active"}

(* Seeded defect: seeds of any status. *)
SelectSeedsAnyStatus(d) ==
  LET found == {i \in KnownIds : corpus[i].type = "episode"} IN
  /\ pc[d] = "new"
  /\ \E S \in Limited(SeedLimit, found), dry \in BOOLEAN :
       /\ loaded' = [loaded EXCEPT ![d] = Load(d, S)]
       /\ dream' = [dream EXCEPT ![d] = [Asleep EXCEPT !.dryRun = dry, !.seeds = S, !.queue = S]]
       /\ Goto(d, IF S = {} THEN "complete" ELSE "batch")
  /\ goneBefore' = [goneBefore EXCEPT ![d] = KnownIds \ ActiveIds]
  /\ UNCHANGED <<corpus, nextId, job, dirty, picked, want, report, audit>>
(* select_dream_seeds reads every active episode; the most active ones are *)
(* the seeds, the others are let go of.  create_run flushes a row nobody   *)
(* else sees.                                                              *)
SelectSeeds(d) ==
  LET found == Episodes(corpus, Ids) IN
  /\ pc[d] = "new"
  /\ \E S \in Limited(SeedLimit, found), dry \in BOOLEAN :
       /\ loaded' = [loaded EXCEPT ![d] = Load(d, S)]
       /\ dream' = [dream EXCEPT ![d] = [Asleep EXCEPT !.dryRun = dry, !.seeds = S, !.queue = S]]
       /\ Goto(d, IF S = {} THEN "complete" ELSE "batch")
  /\ goneBefore' = [goneBefore EXCEPT ![d] = KnownIds \ ActiveIds]
  /\ UNCHANGED <<corpus, nextId, job, dirty, picked, want, report, audit>>

(* Seeded defect: a seed without a batch is tried again. *)
QualifyBatchAgain(d) ==
  /\ pc[d] = "batch"
  /\ \E seed \in dream[d].queue :
     \E similar \in AtMost(BatchSize - 1, Episodes(corpus, Ids) \ {seed}) :
       /\ similar # {}
       /\ loaded' = [loaded EXCEPT ![d] = Load(d, similar)]
       /\ dream' = [dream EXCEPT ![d].queue = {}, ![d].batch = similar \cup {seed}]
       /\ Goto(d, "synthesis")
  /\ UNCHANGED <<corpus, nextId, job, dirty, picked, want, report, goneBefore, audit>>
(* One turn of the loop of _qualifying_batch: the neighbours of the next   *)
(* seed that are similar episodes, with the seed itself, whether the query *)
(* still returned it or not.  The neighbours that are not are let go of.   *)
QualifyBatch(d) ==
  /\ pc[d] = "batch"
  /\ \E seed \in dream[d].queue :
     \E similar \in AtMost(BatchSize - 1, Episodes(corpus, Ids) \ {seed}) :
       /\ loaded' = [loaded EXCEPT ![d] = Load(d, similar)]
       /\ \/ /\ similar = {}
             /\ dream' = [dream EXCEPT ![d].queue = @ \ {seed}]
             /\ Goto(d, IF dream[d].queue = {seed} THEN "complete" ELSE "batch")
          \/ /\ similar # {}
             /\ dream' = [dream EXCEPT ![d].queue = {}, ![d].batch = similar \cup {seed}]
             /\ Goto(d, "synthesis")
  /\ UNCHANGED <<corpus, nextId, job, dirty, picked, want, report, goneBefore, audit>>

(* synthesize_dream: a proposal that is accepted is submitted to           *)
(* remember_memory, with whatever type the provider names.                 *)
Propose(d) ==
  /\ pc[d] = "synthesis" /\ ~ dream[d].dryRun
  /\ \E c \in Contents \cup {Blank}, t \in StoredTypes :
       LET j == JobOf("remember", NoId, c, t) IN
       /\ job' = [job EXCEPT ![d] = j]
       /\ Goto(d, FirstStage(j))
       /\ IF FirstStage(j) = "commit" THEN Answer(d, "rejected", NoId) ELSE UNCHANGED report
  /\ UNCHANGED <<corpus, nextId, loaded, dirty, picked, want, goneBefore, dream, audit>>

(* No proposal (the provider failed, which is absorbed, or had none), one  *)
(* below the confidence asked for, or a dry run.                           *)
NothingProposed(d) ==
  /\ pc[d] = "synthesis"
  /\ Goto(d, "complete")
  /\ UNCHANGED <<corpus, nextId, job, loaded, dirty, picked, want, report, goneBefore,
                 dream, audit>>

(* A confidence that is no number: float() raises, nothing catches it.     *)
MalformedProposal(d) ==
  pc[d] = "synthesis" /\ RollBack({d}) /\ UNCHANGED <<dream, audit>>

(* The steps of remember_memory, with no commit after them.                *)
Promote(d) ==
  /\ \/ Embedded(d) \/ EmbeddingFails(d)
     \/ VectorSearch(d) \/ LexicalSearch(d) \/ RankRemember(d)
     \/ Insert(d) \/ Reinforce(d)
  /\ UNCHANGED <<dream, audit>>

-----------------------------------------------------------------------------
(* mark_memories_consolidated_after_dream.                                 *)

Promoted(d) == report[d].outcome \in {"created", "reinforced"}
(* The row of S a flush updates first.                                     *)
FirstKey(S) == CHOOSE i \in S : \A k \in S : KeyRank[i] <= KeyRank[k]

(* Seeded defect: the seeds of the batch are consolidated, not all of it. *)
SelectSourcesOfSeeds(d) ==
  LET sources == IF Promoted(d)
                 THEN Episodes(OwnView(d), dream[d].batch \cap dream[d].seeds) ELSE {} IN
  /\ pc[d] = "commit" /\ audit[d] = NoAudit
  /\ dream' = [dream EXCEPT ![d].marking = sources]
  /\ want' = [want EXCEPT ![d] = IF sources = {} THEN NoId ELSE FirstKey(sources)]
  /\ Goto(d, IF sources = {} THEN "complete" ELSE "consolidate")
  /\ UNCHANGED <<corpus, nextId, job, loaded, dirty, picked, report, goneBefore, audit>>
(* remember_memory has returned: if it stored or reinforced a memory, the  *)
(* episodes of the batch that are still active are selected.               *)
SelectSources(d) ==
  LET sources == IF Promoted(d) THEN Episodes(OwnView(d), dream[d].batch) ELSE {} IN
  /\ pc[d] = "commit" /\ audit[d] = NoAudit
  /\ \/ /\ sources = {}
        /\ Goto(d, "complete")
        /\ UNCHANGED <<dream, want>>
     \/ /\ sources # {}
        /\ dream' = [dream EXCEPT ![d].marking = sources]
        /\ want' = [want EXCEPT ![d] = FirstKey(sources)]
        /\ Goto(d, "consolidate")
  /\ UNCHANGED <<corpus, nextId, job, loaded, dirty, picked, report, goneBefore, audit>>

(* Seeded defect: the whole loaded copy is written back. *)
ConsolidatedWhole(d, i) == [loaded[d][i] EXCEPT !.status = "consolidated"]
(* Seeded defect: a source is linked like a replaced memory. *)
ConsolidatedLinked(d, i) ==
  [OwnView(d)[i] EXCEPT !.status = "consolidated", !.supersededBy = report[d].id]
(* The row the flush leaves: only the status (and metadata) are sent.      *)
Consolidated(d, i) == [OwnView(d)[i] EXCEPT !.status = "consolidated"]

(* One UPDATE of the flush, in the order of the primary keys.              *)
Consolidate(d) ==
  LET i == want[d]
      rest == dream[d].marking \ {i}
  IN
  /\ pc[d] = "consolidate"
  /\ LockFree(d, i)
  /\ dirty' = [dirty EXCEPT ![d][i] = Consolidated(d, i)]
  /\ dream' = [dream EXCEPT ![d].marking = rest]
  /\ \/ /\ rest = {}
        /\ want' = [want EXCEPT ![d] = NoId]
        /\ Goto(d, "complete")
     \/ /\ rest # {}
        /\ want' = [want EXCEPT ![d] = FirstKey(rest)]
        /\ UNCHANGED pc
  /\ UNCHANGED <<corpus, nextId, job, loaded, picked, report, goneBefore, audit>>

(* Seeded defect: a reinforced memory is not listed. *)
CompleteRunCreatedOnly(d) ==
  /\ pc[d] = "complete"
  /\ audit' = [audit EXCEPT ![d] =
       [status |-> IF dream[d].dryRun THEN "dry_run" ELSE "completed",
        seeds |-> dream[d].seeds,
        sources |-> dream[d].batch,
        created |-> IF report[d].outcome = "created" THEN {report[d].id} ELSE {}]]
  /\ Goto(d, "commit")
  /\ UNCHANGED <<corpus, nextId, job, loaded, dirty, picked, want, report, goneBefore, dream>>
(* complete_run: the audit row is updated and flushed.                     *)
CompleteRun(d) ==
  /\ pc[d] = "complete"
  /\ audit' = [audit EXCEPT ![d] =
       [status |-> IF dream[d].dryRun THEN "dry_run" ELSE "completed",
        seeds |-> dream[d].seeds,
        sources |-> dream[d].batch,
        created |-> IF Promoted(d) THEN {report[d].id} ELSE {}]]
  /\ Goto(d, "commit")
  /\ UNCHANGED <<corpus, nextId, job, loaded, dirty, picked, want, report, goneBefore, dream>>

(* db.commit() of the worker or the route.                                 *)
CommitRun(d) == audit[d] # NoAudit /\ Commit(d) /\ UNCHANGED <<dream, audit>>

VictimRun(d) == DeadlockVictim(d) /\ UNCHANGED <<dream, audit>>

(* The worker process dies.                                                *)
CrashRun(d) ==
  /\ pc[d] \notin {"new", "done", "failed"}
  /\ RollBack({d})
  /\ audit' = [audit EXCEPT ![d] = NoAudit]
  /\ UNCHANGED dream

DreamStep(d) ==
  \/ SelectSeeds(d) \/ QualifyBatch(d)
  \/ Propose(d) \/ NothingProposed(d) \/ MalformedProposal(d)
  \/ Promote(d)
  \/ SelectSources(d) \/ Consolidate(d) \/ CompleteRun(d)
  \/ CommitRun(d) \/ VictimRun(d)

(* A request runs beside the dreams.                                       *)
Request(r) == (Arrive(r) \/ Step(r)) /\ UNCHANGED <<dream, audit>>

AllEnded == (\A r \in Sessions : pc[r] \in {"done", "failed"}) /\ UNCHANGED dreamVars

DreamNext ==
  \/ \E r \in Requests : Request(r)
  \/ Crash /\ UNCHANGED <<dream, audit>>
  \/ \E d \in Dreamers : DreamStep(d) \/ CrashRun(d)
  \/ AllEnded

DreamSpec == DreamInit /\ [][DreamNext]_dreamVars

(* Runs that were started go on: as FairSpec, for the sessions of dreams.  *)
DreamFairSpec ==
  /\ DreamSpec
  /\ \A r \in Requests : WF_dreamVars(Step(r) /\ UNCHANGED <<dream, audit>>)
  /\ \A d \in Dreamers : WF_dreamVars(pc[d] # "new" /\ DreamStep(d))

-----------------------------------------------------------------------------
(* What must hold.                                                         *)

(* Runs whose transaction is committed, and those that changed the corpus. *)
Committed(d) == pc[d] = "done"
Productive(d) == Committed(d) /\ audit[d].created # {}

(* The audit tells the truth: a memory is consolidated only if a committed *)
(* run, not a dry one, lists it as a source and names the memory it was    *)
(* consolidated into, and every other new or retired memory is owed to a   *)
(* completed request.  No run that failed, lost a deadlock or died leaves  *)
(* anything.  (mark_memories_consolidated_after_dream, complete_run and    *)
(* the one commit of the worker)                                           *)
ChangesAccounted ==
  \A i \in KnownIds :
    /\ i > InitRows =>
         \/ \E r \in Requests : /\ Finished(r, "created") \/ Finished(r, "replaced")
                                /\ report[r].id = i
         \/ \E d \in Dreamers : Productive(d) /\ audit[d].created = {i}
    /\ Retired(i) =>
         \/ \E r \in Requests : /\ Finished(r, "replaced") \/ Finished(r, "forgotten")
                                /\ job[r].target = i
         \/ \E d \in Dreamers : Productive(d) /\ i \in audit[d].sources
    /\ corpus[i].status = "consolidated" =>
         \E d \in Dreamers : /\ Productive(d) /\ ~ dream[d].dryRun
                             /\ i \in audit[d].sources

(* Once a run that promoted something is committed, none of its sources is *)
(* active any more, whatever requests and other runs did to them while it  *)
(* ran: an episode is not dreamt of again and again.                       *)
(* (mark_memories_consolidated_after_dream)                                *)
SourcesRetired ==
  \A d \in Dreamers : Productive(d) =>
    /\ audit[d].created \subseteq KnownIds
    /\ \A i \in audit[d].sources : Retired(i)

(* A run does not consolidate, nor show to the provider, a memory whose    *)
(* retirement was complete before it began, although its batch comes from  *)
(* several snapshots.  (select_dream_seeds and _qualifying_batch)          *)
DreamFreshness ==
  \A d \in Dreamers : dream[d].batch \cap goneBefore[d] = {}

(* Every run that was started ends, with requests and other runs holding   *)
(* the locks of its sources.  (the flush of the consolidation)             *)
RunsFinish == \A d \in Dreamers : pc[d] # "new" ~> pc[d] \in {"done", "failed"}

-----------------------------------------------------------------------------
(* What the documentation says and the code does not do.                   *)

(* "source_memory_ids: Episodic memories included in processed clusters.   *)
(* created_memory_ids: Semantic memories created or reinforced.": the      *)
(* memory a run promotes to is not one of the episodes it consolidates.    *)
PromotedApart ==
  \A d \in Dreamers : Committed(d) => audit[d].created \cap audit[d].sources = {}
=============================================================================
