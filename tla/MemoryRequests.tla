--------------------------- MODULE MemoryRequests ---------------------------
(***************************************************************************)
(* The requests of the HTTP API and of the MCP server against the memories *)
(* table.  Every request owns one SQLAlchemy AsyncSession, hence one       *)
(* PostgreSQL transaction at READ COMMITTED, and is suspended at every     *)
(* await: on the embedding provider, on the reranker, on each SQL          *)
(* statement.  Requests therefore interleave between any two of the steps  *)
(* below.                                                                  *)
(*                                                                         *)
(*  - A SELECT reads the committed rows.  What it loads goes into the      *)
(*    session's identity map, and a row already there is NOT refreshed by  *)
(*    a later SELECT: loaded[r] may be stale.  Session.get returns the     *)
(*    loaded copy without asking the database.                             *)
(*  - flush() sends an UPDATE of the attributes that changed, and that     *)
(*    only: it takes the row lock, waits while another transaction holds   *)
(*    it, and applies to the newest committed version of the row.          *)
(*    dirty[r] holds the rows r has flushed, and locked, but not committed.*)
(*  - commit() makes them visible at once; an exception, a deadlock abort  *)
(*    or a crash discards them.                                            *)
(*                                                                         *)
(* Sessions of dreaming runs (Dreamers) share the table, the locks and     *)
(* the steps of remember_memory; the steps of their own are not here.      *)
(*                                                                         *)
(* Left out, because no property is about it: embeddings, timestamps,      *)
(* importance, evidence, workspace, session_id and the response layout.    *)
(***************************************************************************)
EXTENDS Integers, FiniteSetsExt

CONSTANTS
  Requests,        \* API and MCP requests, each served once
  Dreamers,        \* sessions of dreaming runs
  MaxRows,         \* bound: ids 1 .. MaxRows, in the order they are drawn
  InitRows,        \* the memories 1 .. InitRows are there at the start
  Contents,        \* contents, as _normalize leaves them, after redaction
  Blank,           \* a content with nothing left after redaction
  SubmittedTypes,  \* what callers pass as memory_type
  Ops,             \* the operations the clients of this instance call
  SearchLimit,     \* LIMIT of the vector and of the full-text query
  RecallTopK,      \* results of a recall: top_k, capped by the candidates
  DedupTopK        \* candidates remember_memory compares with (10)

Sessions == Requests \cup Dreamers
Ids == 1 .. MaxRows
NoId == 0

DurableTypes == {"fact", "preference", "procedure"}
DocumentedTypes == DurableTypes \cup {"episode"}
StoredTypes == SubmittedTypes \cup {"episode"}
Types == DocumentedTypes \cup SubmittedTypes

RetiredStatuses == {"deprecated", "superseded", "consolidated"}
AllOps == {"ingest", "remember", "replace", "forget", "recall"}

ASSUME RequestsBounds ==
  /\ MaxRows \in Nat
  /\ InitRows \in 0 .. MaxRows
  /\ SearchLimit \in Nat /\ RecallTopK \in Nat /\ DedupTopK \in Nat
ASSUME RequestsInputs ==
  /\ Blank \notin Contents
  /\ Ops \subseteq AllOps

-----------------------------------------------------------------------------
(* Rows of the memories table.  Absence of a row is a status too.          *)

Row == [type : Types,
        status : RetiredStatuses \cup {"active", "absent"},
        content : Contents \cup {Blank},
        supersededBy : Ids \cup {NoId},
        accessCount : Nat]

NoRow == [type |-> "episode", status |-> "absent", content |-> Blank,
          supersededBy |-> NoId, accessCount |-> 0]

NewRow(type, content) ==
  [type |-> type, status |-> "active", content |-> content,
   supersededBy |-> NoId, accessCount |-> 0]

NoRows == [i \in Ids |-> NoRow]

Job == [op : AllOps \cup {"none"}, target : Ids \cup {NoId},
        content : Contents \cup {Blank}, type : Types]

NoJob == [op |-> "none", target |-> NoId, content |-> Blank, type |-> "fact"]

Report == [outcome : {"none", "created", "reinforced", "replaced", "forgotten",
                      "not_found", "inactive", "rejected", "recalled"},
           id : Ids \cup {NoId}]

Result(outcome, id) == [outcome |-> outcome, id |-> id]
NoReport == Result("none", NoId)

(* The second line: the stages of a dreaming run only. *)
Stages == {"new", "select", "embed", "vector", "lexical", "rerank",
           "batch", "synthesis", "consolidate", "complete",
           "insert", "update", "commit", "done", "failed"}

VARIABLES
  corpus,      \* the committed memories table
  nextId,      \* the next id a session draws
  pc,          \* where each session stands
  job,         \* what each request was asked to do
  loaded,      \* identity map of each session: copies, possibly stale
  dirty,       \* rows each session has flushed and not yet committed
  picked,      \* candidate ids of a search; at the end, what a recall returns
  want,        \* the row whose lock an UPDATE needs next, or NoId
  report,      \* the answer, sent only after the commit
  goneBefore   \* history: the memories already retired when the request came

vars == <<corpus, nextId, pc, job, loaded, dirty, picked, want, report,
          goneBefore>>

TypeOK ==
  /\ corpus \in [Ids -> Row]
  /\ nextId \in 1 .. (MaxRows + 1)
  /\ pc \in [Sessions -> Stages]
  /\ job \in [Sessions -> Job]
  /\ loaded \in [Sessions -> [Ids -> Row]]
  /\ dirty \in [Sessions -> [Ids -> Row]]
  /\ picked \in [Sessions -> SUBSET Ids]
  /\ want \in [Sessions -> Ids \cup {NoId}]
  /\ report \in [Sessions -> Report]
  /\ goneBefore \in [Sessions -> SUBSET Ids]

(* Any corpus of active memories: ingests and replaces alone can build it. *)
Init ==
  /\ \E types \in [1 .. InitRows -> StoredTypes], contents \in [1 .. InitRows -> Contents] :
       corpus = [i \in Ids |-> IF i <= InitRows THEN NewRow(types[i], contents[i])
                                                ELSE NoRow]
  /\ nextId = InitRows + 1
  /\ pc = [r \in Sessions |-> "new"]
  /\ job = [r \in Sessions |-> NoJob]
  /\ loaded = [r \in Sessions |-> NoRows]
  /\ dirty = [r \in Sessions |-> NoRows]
  /\ picked = [r \in Sessions |-> {}]
  /\ want = [r \in Sessions |-> NoId]
  /\ report = [r \in Sessions |-> NoReport]
  /\ goneBefore = [r \in Sessions |-> {}]

-----------------------------------------------------------------------------
(* The database, as one session meets it.                                  *)

(* What a SELECT ... WHERE status = 'active' returns.                      *)
KnownIds == {i \in Ids : corpus[i].status # "absent"}
ActiveIds == {i \in Ids : corpus[i].status = "active"}

(* A subset of S of the size LIMIT k leaves: which ones is up to the       *)
(* scores, that the provider decides.                                      *)
Limited(k, S) == kSubset(Min({k, Cardinality(S)}), S)

(* Any subset of S of at most k members: an index scan that is filtered    *)
(* afterwards, or a threshold, may leave fewer than LIMIT k.               *)
AtMost(k, S) == {T \in SUBSET S : Cardinality(T) <= k}

(* The identity map after a SELECT returned the rows S: a row it already   *)
(* had keeps the attributes it was first loaded with.  The map holds rows  *)
(* weakly, so S are the rows the caller goes on referring to: the results  *)
(* of a search until its ranking, the candidates and the target of a       *)
(* request, the seeds and the batch of a run.                              *)
Load(r, S) ==
  [i \in Ids |-> IF i \in S /\ loaded[r][i] = NoRow THEN corpus[i] ELSE loaded[r][i]]

Written(r, i) == dirty[r][i].status # "absent"

(* The UPDATE of row i by r does not have to wait.                         *)
LockFree(r, i) == \A q \in Sessions \ {r} : ~ Written(q, i)

WaitsFor(p, q) == p # q /\ want[p] # NoId /\ Written(q, want[p])

(* r is on a cycle of lock waits.  A session waits for at most one other,  *)
(* so a set closed under "waits for" in both directions is one of cycles.  *)
Deadlocked(r) ==
  \E S \in SUBSET Sessions :
    /\ r \in S
    /\ \A p \in S : \E q \in S : WaitsFor(p, q)
    /\ \A q \in S : \E p \in S : WaitsFor(p, q)

(* The table once r has committed.                                         *)
Merged(r) == [i \in Ids |-> IF Written(r, i) THEN dirty[r][i] ELSE corpus[i]]

(* Seeded defect: leaving the session commits what was flushed. *)
RollBackCommits(S) ==
  /\ corpus' = [i \in Ids |-> IF \E r \in S : Written(r, i)
                              THEN dirty[CHOOSE r \in S : Written(r, i)][i]
                              ELSE corpus[i]]
  /\ pc' = [r \in Sessions |-> IF r \in S THEN "failed" ELSE pc[r]]
  /\ dirty' = [r \in Sessions |-> IF r \in S THEN NoRows ELSE dirty[r]]
  /\ want' = [r \in Sessions |-> IF r \in S THEN NoId ELSE want[r]]
  /\ UNCHANGED <<nextId, job, loaded, picked, report, goneBefore>>
(* Seeded defect: the session of a failed request is left in its           *)
(* transaction. *)
RollBackKeepsLocks(S) ==
  /\ pc' = [r \in Sessions |-> IF r \in S THEN "failed" ELSE pc[r]]
  /\ want' = [r \in Sessions |-> IF r \in S THEN NoId ELSE want[r]]
  /\ UNCHANGED <<corpus, nextId, job, loaded, dirty, picked, report, goneBefore>>
(* The sessions S end without a commit: an exception leaves the handler,   *)
(* the session closes and the transaction rolls back.                      *)
RollBack(S) ==
  /\ pc' = [r \in Sessions |-> IF r \in S THEN "failed" ELSE pc[r]]
  /\ loaded' = [r \in Sessions |-> IF r \in S THEN NoRows ELSE loaded[r]]
  /\ dirty' = [r \in Sessions |-> IF r \in S THEN NoRows ELSE dirty[r]]
  /\ picked' = [r \in Sessions |-> IF r \in S THEN {} ELSE picked[r]]
  /\ want' = [r \in Sessions |-> IF r \in S THEN NoId ELSE want[r]]
  /\ report' = [r \in Sessions |-> IF r \in S THEN NoReport ELSE report[r]]
  /\ UNCHANGED <<corpus, nextId, job, goneBefore>>

Goto(r, stage) == pc' = [pc EXCEPT ![r] = stage]
Answer(r, outcome, id) == report' = [report EXCEPT ![r] = Result(outcome, id)]

-----------------------------------------------------------------------------
(* A request comes in.  A client names a memory by an id it was given in   *)
(* an answer, that is by a committed one, or by an id nobody has (NoId).   *)

JobOf(op, target, content, type) ==
  [op |-> op, target |-> target, content |-> content, type |-> type]

Submittable ==
  {j \in
     {JobOf("ingest", NoId, c, "episode") : c \in Contents}
     \cup {JobOf("remember", NoId, c, t) : c \in Contents \cup {Blank}, t \in SubmittedTypes}
     \cup {JobOf("replace", i, c, t) : i \in KnownIds \cup {NoId},
                                       c \in Contents \cup {Blank}, t \in SubmittedTypes}
     \cup {JobOf("forget", i, Blank, "fact") : i \in KnownIds \cup {NoId}}
     \cup {JobOf("recall", NoId, Blank, "fact")} :
   j.op \in Ops}

(* remember_memory redacts before it touches the database: an empty        *)
(* content is answered at once.  What ingest_interaction stores has the    *)
(* headings of a turn and is never empty, so its own test never fires.     *)
FirstStage(j) ==
  CASE j.op \in {"replace", "forget"} -> "select"
    [] j.op = "remember" /\ j.content = Blank -> "commit"
    [] OTHER -> "embed"

Arrive(r) ==
  /\ pc[r] = "new"
  /\ \E j \in Submittable :
       /\ job' = [job EXCEPT ![r] = j]
       /\ Goto(r, FirstStage(j))
       /\ IF FirstStage(j) = "commit" THEN Answer(r, "rejected", NoId)
                                      ELSE UNCHANGED report
  /\ goneBefore' = [goneBefore EXCEPT ![r] = KnownIds \ ActiveIds]
  /\ UNCHANGED <<corpus, nextId, loaded, dirty, picked, want>>

(* Seeded defect: replace_memory locks its target when it selects it. *)
SelectTargetForUpdate(r) ==
  LET t == job[r].target IN
  /\ pc[r] = "select" /\ t \in ActiveIds /\ LockFree(r, t)
  /\ loaded' = [loaded EXCEPT ![r] = Load(r, {t})]
  /\ dirty' = [dirty EXCEPT ![r][t] = corpus[t]]
  /\ want' = [want EXCEPT ![r] = IF job[r].op = "forget" THEN t ELSE NoId]
  /\ Goto(r, IF job[r].op = "forget" THEN "update" ELSE "embed")
  /\ UNCHANGED <<corpus, nextId, job, picked, report, goneBefore>>
(* get_memories_by_ids([memory_id]) of replace_memory and forget_memory.   *)
(* The second SELECT, for rows that are not active, finds what the first   *)
(* did not: the row was committed before the request came and no row       *)
(* becomes active again.                                                   *)
SelectTarget(r) ==
  LET t == job[r].target IN
  /\ pc[r] = "select"
  /\ \/ /\ t \notin ActiveIds
        /\ Answer(r, IF t \in KnownIds THEN "inactive" ELSE "not_found", t)
        /\ Goto(r, "commit")
        /\ UNCHANGED <<loaded, want>>
     \/ /\ t \in ActiveIds
        /\ loaded' = [loaded EXCEPT ![r] = Load(r, {t})]
        /\ \/ /\ job[r].op = "forget"
              /\ want' = [want EXCEPT ![r] = t]
              /\ Goto(r, "update")
              /\ UNCHANGED report
           \/ /\ job[r].op = "replace" /\ job[r].content = Blank
              /\ Answer(r, "rejected", NoId)
              /\ Goto(r, "commit")
              /\ UNCHANGED want
           \/ /\ job[r].op = "replace" /\ job[r].content # Blank
              /\ Goto(r, "embed")
              /\ UNCHANGED <<want, report>>
  /\ UNCHANGED <<corpus, nextId, job, dirty, picked, goneBefore>>

(* The embedding provider answers.  remember_memory asks it twice in a     *)
(* row, for the content and for the search, with nothing in between.       *)
Embedded(r) ==
  /\ pc[r] = "embed"
  /\ Goto(r, IF job[r].op \in {"remember", "recall"} THEN "vector" ELSE "insert")
  /\ UNCHANGED <<corpus, nextId, job, loaded, dirty, picked, want, report, goneBefore>>

(* The provider raises, or its 120 s timeout does: nothing catches it.     *)
EmbeddingFails(r) == pc[r] = "embed" /\ RollBack({r})

-----------------------------------------------------------------------------
(* RecallService.search: two queries, each with a snapshot of its own, and *)
(* the reranker, that falls back to the order it was given when it fails.  *)

(* The nearest of the active rows the index finds.                         *)
VectorSearch(r) ==
  /\ pc[r] = "vector"
  /\ \E S \in AtMost(SearchLimit, ActiveIds) :
       /\ loaded' = [loaded EXCEPT ![r] = Load(r, S)]
       /\ picked' = [picked EXCEPT ![r] = S]
  /\ Goto(r, "lexical")
  /\ UNCHANGED <<corpus, nextId, job, dirty, want, report, goneBefore>>

(* Seeded defect: the full-text query forgets status = 'active'. *)
LexicalSearchAnyStatus(r) ==
  /\ pc[r] = "lexical"
  /\ \E S \in SUBSET KnownIds :
       /\ loaded' = [loaded EXCEPT ![r] = Load(r, S)]
       /\ picked' = [picked EXCEPT ![r] = @ \cup S]
  /\ Goto(r, "rerank")
  /\ UNCHANGED <<corpus, nextId, job, dirty, want, report, goneBefore>>
(* Only rows that share a trigram with the query: any subset of the active.*)
LexicalSearch(r) ==
  /\ pc[r] = "lexical"
  /\ \E S \in AtMost(SearchLimit, ActiveIds) :
       /\ loaded' = [loaded EXCEPT ![r] = Load(r, S)]
       /\ picked' = [picked EXCEPT ![r] = @ \cup S]
  /\ Goto(r, "rerank")
  /\ UNCHANGED <<corpus, nextId, job, dirty, want, report, goneBefore>>

(* recall: the top_k candidates are the answer; their rows are updated in  *)
(* the order the plan of the UPDATE visits them, whichever that is.        *)
RankRecall(r) ==
  /\ pc[r] = "rerank" /\ job[r].op = "recall"
  /\ \E T \in Limited(RecallTopK, picked[r]) :
       /\ picked' = [picked EXCEPT ![r] = T]
       /\ \/ /\ T = {}
             /\ Goto(r, "commit")
             /\ UNCHANGED want
          \/ /\ \E i \in T : want' = [want EXCEPT ![r] = i]
             /\ Goto(r, "update")
  /\ Answer(r, "recalled", NoId)
  /\ UNCHANGED <<corpus, nextId, job, loaded, dirty, goneBefore>>

(* The duplicate remember_memory settles on among the candidates T: one    *)
(* with the same content or else a durable one among those scored at least *)
(* 0.95 (high).  Scores are normalised over the candidates, so the set     *)
(* high is whatever the provider makes it.                                 *)
Duplicates(r, T, high) ==
  LET exact == {i \in T : loaded[r][i].content = job[r].content}
      semantic == {i \in high : loaded[r][i].type \in DurableTypes}
  IN  IF exact # {} THEN exact ELSE IF semantic # {} THEN semantic ELSE {NoId}

RankRemember(r) ==
  /\ pc[r] = "rerank" /\ job[r].op = "remember"
  /\ \E T \in Limited(DedupTopK, picked[r]) :
       \E high \in SUBSET T :
         \E d \in Duplicates(r, T, high) :
           /\ want' = [want EXCEPT ![r] = d]
           /\ Goto(r, IF d = NoId THEN "insert" ELSE "update")
  /\ picked' = [picked EXCEPT ![r] = {}]
  /\ UNCHANGED <<corpus, nextId, job, loaded, dirty, report, goneBefore>>

-----------------------------------------------------------------------------
(* MemoryStore: the writes, each flushed and not committed.                *)

(* Seeded defect: replace_memory ends without retiring its target. *)
InsertOnly(r) ==
  /\ pc[r] = "insert" /\ nextId <= MaxRows
  /\ dirty' = [dirty EXCEPT ![r][nextId] = NewRow(job[r].type, job[r].content)]
  /\ nextId' = nextId + 1
  /\ Answer(r, IF job[r].op = "replace" THEN "replaced" ELSE "created", nextId)
  /\ Goto(r, "commit")
  /\ UNCHANGED <<corpus, job, loaded, picked, want, goneBefore>>
(* insert_memory, and the report of the request it ends, but replace has   *)
(* the target to retire first.  Guarded by the bound MaxRows.              *)
Insert(r) ==
  /\ pc[r] = "insert" /\ nextId <= MaxRows
  /\ dirty' = [dirty EXCEPT ![r][nextId] = NewRow(job[r].type, job[r].content)]
  /\ nextId' = nextId + 1
  /\ \/ /\ job[r].op \in {"ingest", "remember"}
        /\ Answer(r, "created", nextId)
        /\ Goto(r, "commit")
        /\ UNCHANGED want
     \/ /\ job[r].op = "replace"
        /\ Answer(r, "replaced", nextId)
        /\ want' = [want EXCEPT ![r] = job[r].target]
        /\ Goto(r, "update")
  /\ UNCHANGED <<corpus, job, loaded, picked, goneBefore>>

(* Seeded defect: the whole stale copy is written back. *)
ReinforcedWhole(r, i) == [loaded[r][i] EXCEPT !.accessCount = @ + 1]
(* The row the flush of reinforce_memory leaves: access_count is computed  *)
(* from the loaded copy and sent as a value, the rest is not sent.         *)
Reinforced(r, i) == [corpus[i] EXCEPT !.accessCount = loaded[r][i].accessCount + 1]

(* reinforce_memory(duplicate.id): the status it tests is the loaded one.  *)
Reinforce(r) ==
  LET d == want[r] IN
  /\ pc[r] = "update" /\ job[r].op = "remember"
  /\ LockFree(r, d)
  /\ IF loaded[r][d].status = "active"
       THEN /\ dirty' = [dirty EXCEPT ![r][d] = Reinforced(r, d)]
            /\ Answer(r, "reinforced", d)
       ELSE /\ Answer(r, "inactive", d)
            /\ UNCHANGED dirty
  /\ want' = [want EXCEPT ![r] = NoId]
  /\ Goto(r, "commit")
  /\ UNCHANGED <<corpus, nextId, job, loaded, picked, goneBefore>>

(* Seeded defect: an access is counted twice. *)
AccessedTwice(i) == [corpus[i] EXCEPT !.accessCount = @ + 2]
(* mark_accessed adds one in SQL, to the version under the lock, whatever  *)
(* the status of the row is by then.                                       *)
Accessed(i) == [corpus[i] EXCEPT !.accessCount = @ + 1]

(* Seeded defect: mark_accessed counts from the loaded copy, as            *)
(* reinforce_memory does. *)
MarkAccessedStale(r) ==
  LET i == want[r]
      rest == {k \in picked[r] \ {i} : ~ Written(r, k)}
  IN
  /\ pc[r] = "update" /\ job[r].op = "recall"
  /\ LockFree(r, i)
  /\ dirty' = [dirty EXCEPT ![r][i] = Reinforced(r, i)]
  /\ Goto(r, IF rest = {} THEN "commit" ELSE "update")
  /\ \E k \in IF rest = {} THEN {NoId} ELSE rest : want' = [want EXCEPT ![r] = k]
  /\ UNCHANGED <<corpus, nextId, job, loaded, picked, report, goneBefore>>
MarkAccessed(r) ==
  LET i == want[r]
      rest == {k \in picked[r] \ {i} : ~ Written(r, k)}
  IN
  /\ pc[r] = "update" /\ job[r].op = "recall"
  /\ LockFree(r, i)
  /\ dirty' = [dirty EXCEPT ![r][i] = Accessed(i)]
  /\ \/ /\ rest = {}
        /\ want' = [want EXCEPT ![r] = NoId]
        /\ Goto(r, "commit")
     \/ /\ \E k \in rest : want' = [want EXCEPT ![r] = k]
        /\ UNCHANGED pc
  /\ UNCHANGED <<corpus, nextId, job, loaded, picked, report, goneBefore>>

(* Seeded defect: the link points from the replacement to the replaced. *)
RetiredBackwards(r) ==
  IF job[r].op = "forget" THEN [corpus[job[r].target] EXCEPT !.status = "deprecated"]
  ELSE [corpus[job[r].target] EXCEPT !.status = "superseded", !.supersededBy = job[r].target]
(* Seeded defect: replace_memory does not hand superseded_by on. *)
RetiredUnlinked(r) ==
  [corpus[job[r].target] EXCEPT
     !.status = IF job[r].op = "forget" THEN "deprecated" ELSE "superseded"]
(* The row update_memory_status leaves.  A link already there is kept by   *)
(* forget_memory, that does not set it, and overwritten by replace_memory. *)
RetiredRow(r) ==
  IF job[r].op = "forget" THEN [corpus[job[r].target] EXCEPT !.status = "deprecated"]
  ELSE [corpus[job[r].target] EXCEPT !.status = "superseded", !.supersededBy = report[r].id]

(* update_memory_status: the status it tests is the loaded one, and its    *)
(* callers do not look at what it returns.                                 *)
Retire(r) ==
  LET t == job[r].target IN
  /\ pc[r] = "update" /\ job[r].op \in {"replace", "forget"}
  /\ LockFree(r, t)
  /\ IF loaded[r][t].status = "active"
       THEN dirty' = [dirty EXCEPT ![r][t] = RetiredRow(r)]
       ELSE UNCHANGED dirty
  /\ IF job[r].op = "forget" THEN Answer(r, "forgotten", t) ELSE UNCHANGED report
  /\ want' = [want EXCEPT ![r] = NoId]
  /\ Goto(r, "commit")
  /\ UNCHANGED <<corpus, nextId, job, loaded, picked, goneBefore>>

-----------------------------------------------------------------------------
(* How a request ends.                                                     *)

(* Seeded defect: the answer is sent without db.commit(). *)
CommitSkipped(r) ==
  /\ pc[r] = "commit"
  /\ dirty' = [dirty EXCEPT ![r] = NoRows]
  /\ loaded' = [loaded EXCEPT ![r] = NoRows]
  /\ Goto(r, "done")
  /\ UNCHANGED <<corpus, nextId, job, picked, want, report, goneBefore>>
(* db.commit() in the route or tool, then the answer is sent.              *)
Commit(r) ==
  /\ pc[r] = "commit"
  /\ corpus' = Merged(r)
  /\ dirty' = [dirty EXCEPT ![r] = NoRows]
  /\ loaded' = [loaded EXCEPT ![r] = NoRows]
  /\ Goto(r, "done")
  /\ UNCHANGED <<nextId, job, picked, want, report, goneBefore>>

(* PostgreSQL aborts one transaction of a cycle; the request fails.        *)
DeadlockVictim(r) == Deadlocked(r) /\ RollBack({r})

InFlight == {r \in Requests : pc[r] \notin {"new", "done", "failed"}}

(* The API process dies and every connection with it.                      *)
Crash == InFlight # {} /\ RollBack(InFlight)

(* A step of a session that has a request, other than its arrival.         *)
Step(r) ==
  \/ SelectTarget(r)
  \/ Embedded(r) \/ EmbeddingFails(r)
  \/ VectorSearch(r) \/ LexicalSearch(r)
  \/ RankRecall(r) \/ RankRemember(r)
  \/ Insert(r) \/ Reinforce(r) \/ MarkAccessed(r) \/ Retire(r)
  \/ Commit(r) \/ DeadlockVictim(r)

(* Nothing is left to do: every request was served.                        *)
Served == (\A r \in Requests : pc[r] \in {"done", "failed"}) /\ UNCHANGED vars

Next ==
  \/ \E r \in Requests : Arrive(r) \/ Step(r)
  \/ Crash
  \/ Served

Spec == Init /\ [][Next]_vars

(* The event loop resumes a coroutine whose await is over; the provider    *)
(* answers or times out; PostgreSQL runs statements, grants free locks and *)
(* detects deadlocks.  Arrivals and crashes are not owed to anybody.       *)
FairSpec == Spec /\ \A r \in Requests : WF_vars(Step(r))

-----------------------------------------------------------------------------
(* What must hold.  TypeOK is the type invariant.                          *)

Retired(i) == corpus[i].status \in RetiredStatuses
Finished(r, outcome) == pc[r] = "done" /\ report[r].outcome = outcome

(* Lineage is explicit and leads forward: a superseded memory, or one that *)
(* was superseded before it was forgotten, names the memory that a         *)
(* completed replace_memory of it stored, a later one, that is there.      *)
(* (superseded_by of replace_memory and update_memory_status)              *)
LineageSound ==
  \A i \in Ids :
    /\ corpus[i].status = "superseded" => corpus[i].supersededBy # NoId
    /\ corpus[i].supersededBy # NoId =>
         /\ Retired(i)
         /\ corpus[i].supersededBy > i
         /\ corpus[i].supersededBy \in KnownIds
         /\ \E r \in Sessions : /\ Finished(r, "replaced")
                                /\ job[r].target = i
                                /\ report[r].id = corpus[i].supersededBy

(* A memory that is no longer active never becomes active or disappears,   *)
(* whatever stale copies the requests in flight flush afterwards.          *)
(* (the partial UPDATEs of reinforce_memory, update_memory_status and      *)
(* mark_accessed)                                                          *)
RetiredStaysRetired ==
  [][\A i \in Ids : Retired(i) => corpus'[i].status \in RetiredStatuses]_vars

(* What was answered stays true, across every race and crash that follows: *)
(* a created memory keeps its content and type, a replaced or forgotten    *)
(* one stays out of the corpus that recall sees, a replaced one linked.    *)
(* (db.commit() before the answer in the routes and tools)                 *)
AcknowledgedWritesHold ==
  \A r \in Sessions :
    /\ Finished(r, "created") \/ Finished(r, "replaced") =>
         /\ report[r].id \in KnownIds
         /\ corpus[report[r].id].content = job[r].content
         /\ corpus[report[r].id].type = job[r].type
    /\ Finished(r, "replaced") \/ Finished(r, "forgotten") =>
         job[r].target \in KnownIds /\ Retired(job[r].target)
    /\ Finished(r, "replaced") => corpus[job[r].target].supersededBy # NoId

(* Nothing else is ever visible: each memory was stored, and each retired  *)
(* memory retired, by a request that completed.  Requests that fail, lose  *)
(* a deadlock or die with the process leave nothing, half a replacement    *)
(* least of all.  (flush without commit in MemoryStore)                    *)
OnlyAcknowledgedWrites ==
  \A i \in KnownIds :
    /\ i > InitRows =>
         \E r \in Sessions : /\ Finished(r, "created") \/ Finished(r, "replaced")
                             /\ report[r].id = i
    /\ Retired(i) =>
         \E r \in Sessions : /\ Finished(r, "replaced") \/ Finished(r, "forgotten")
                             /\ job[r].target = i

(* A recall returns no memory whose retirement was complete before the     *)
(* recall began, although its two queries see different snapshots.         *)
(* (status = 'active' in both candidate queries)                           *)
RecallFreshness ==
  \A r \in Requests : Finished(r, "recalled") => picked[r] \cap goneBefore[r] = {}

(* The duplicate remember_memory names, reinforced or found inactive, was  *)
(* not retired before remember_memory was called: a new fact is never      *)
(* turned away for a memory that was forgotten already.                    *)
(* (status = 'active' in both candidate queries, reinforce_memory)         *)
DuplicateFreshness ==
  \A r \in Sessions :
    \/ Finished(r, "reinforced")
    \/ Finished(r, "inactive") /\ job[r].op = "remember"
    => report[r].id \notin goneBefore[r]

(* No row lock is held while a provider is awaited, for up to two minutes: *)
(* everything is flushed after the last answer of the provider.            *)
(* (the order of the calls of replace_memory, remember_memory and run_once)*)
NoLockAcrossProvider ==
  \A r \in Sessions :
    pc[r] \in {"embed", "rerank", "synthesis"} => \A i \in Ids : ~ Written(r, i)

RecalledBy(i) == {r \in Requests : Finished(r, "recalled") /\ i \in picked[r]}
ReinforcedBy(i) == {r \in Sessions : Finished(r, "reinforced") /\ report[r].id = i}

(* access_count never exceeds the completed requests that touched the      *)
(* memory: no request counts twice, and none that failed counts.           *)
(* (mark_accessed and reinforce_memory)                                    *)
AccessNeverOvercounted ==
  \A i \in KnownIds :
    corpus[i].accessCount <= Cardinality(RecalledBy(i)) + Cardinality(ReinforcedBy(i))

(* No completed recall is missing from access_count, unless the memory was *)
(* also reinforced: concurrent recalls never lose a count.                 *)
(* (mark_accessed adds in SQL, under the row lock)                         *)
RecallsCounted ==
  \A i \in KnownIds :
    ReinforcedBy(i) = {} => corpus[i].accessCount >= Cardinality(RecalledBy(i))

(* Every request that came is answered or fails, even when requests wait   *)
(* for each other's row locks.  (mark_accessed locks its rows in an order  *)
(* nobody chose; PostgreSQL's deadlock detector)                           *)
RequestsFinish ==
  \A r \in Requests : pc[r] # "new" ~> pc[r] \in {"done", "failed"}

(* The corpus, as committed, seen as CorpusLifecycle sees it.              *)
Life == [i \in Ids |->
  CASE corpus[i].status = "absent" -> "unknown"
    [] corpus[i].status \in {"active", "consolidated"} -> corpus[i].status
    [] OTHER -> "retired"]
Heir == [i \in Ids |-> corpus[i].supersededBy]

Lifecycle == INSTANCE CorpusLifecycle WITH life <- Life, heir <- Heir

(* Each commit is one atomic Store, Replace, Forget or, of a run, Dream of *)
(* the abstract corpus, or leaves it as it is; nothing else changes it.    *)
ImplementsLifecycle == Lifecycle!Spec

-----------------------------------------------------------------------------
(* What the documentation says and the code does not do.                   *)

(* "Replace exactly one active target, preserving explicit lineage.": the  *)
(* memory a completed replace_memory retired names its replacement.        *)
ReplacementLinked ==
  \A r \in Requests :
    Finished(r, "replaced") => corpus[job[r].target].supersededBy = report[r].id

(* "access_count: Number of times the memory has been recalled.": no       *)
(* completed recall is missing from it.  (calculate_activation's argument) *)
AccessCountsRecalls ==
  \A i \in KnownIds : corpus[i].accessCount >= Cardinality(RecalledBy(i))

(* "detects exact and semantic duplicates, and reinforces existing rows":  *)
(* remember_memory never stores two active memories of one content.        *)
NoDuplicateMemories ==
  \A r, q \in Requests :
    /\ r # q
    /\ Finished(r, "created") /\ Finished(q, "created")
    /\ job[r].op = "remember" /\ job[q].op = "remember"
    /\ report[r].id \in ActiveIds /\ report[q].id \in ActiveIds
    => job[r].content # job[q].content
=============================================================================
