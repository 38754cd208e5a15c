------------------------------- MODULE Serving -------------------------------
(***************************************************************************)
(* The process that serves requests: its pool of database connections, a   *)
(* database that goes down and comes back, an embedding provider that may  *)
(* fail, and clients that call again what failed.                          *)
(*                                                                         *)
(* A session draws a connection at its first SQL statement and keeps it to *)
(* its commit or rollback, whatever it awaits in between: remember_memory  *)
(* keeps it while the reranker works, replace_memory while the embedding   *)
(* is made.  A flushed UPDATE holds a row lock on top.  No client that     *)
(* waits for a connection holds one, and none that holds a row lock waits  *)
(* for anything but its commit: that is why requests end.                  *)
(*                                                                         *)
(* The database is CorpusLifecycle, that MemoryRequests implements: what a *)
(* request does becomes visible in one step, at its commit.  A recall uses *)
(* its connection as remember_memory does and stores nothing; it is left   *)
(* out, and so are contents, types and scores.                             *)
(***************************************************************************)
EXTENDS Integers, FiniteSetsExt

CONSTANTS
  Clients,      \* each makes one call, and may make it again
  Ops,          \* Ops[c]: the operations client c may call
  MaxRows,      \* bound: memories 1 .. MaxRows
  InitRows,     \* the memories 1 .. InitRows are there at the start
  PoolSize,     \* connections the pool keeps (SQLAlchemy's default: 5)
  MaxOverflow,  \* connections it opens beyond those (default: 10)
  DedupTopK,    \* candidates remember_memory compares with (10)
  MaxRetries,   \* bound: calls made again, over all clients
  MaxOutages    \* bound: times the database goes down

AllOps == {"ingest", "remember", "replace", "forget", "stats"}
NoClient == "nobody"

ASSUME ServingBounds ==
  /\ MaxRows \in Nat /\ InitRows \in 0 .. MaxRows
  /\ PoolSize \in Nat /\ MaxOverflow \in Nat /\ PoolSize + MaxOverflow > 0
  /\ DedupTopK \in Nat
  /\ MaxRetries \in Nat /\ MaxOutages \in Nat
  /\ IsFiniteSet(Clients) /\ NoClient \notin Clients
  /\ Ops \in [Clients -> SUBSET AllOps]

Ids == 1 .. MaxRows
NoId == 0

VARIABLES
  life, heir,  \* the committed memories, as CorpusLifecycle has them
  author,      \* history: the client whose call stored a memory, or NoClient
  call,        \* what each client asks for
  stage,       \* where its request stands
  aim,         \* the memory its request is going to write, or NoId
  held,        \* the connection of its session: "none", "live" or "dead"
  locked,      \* the memory it has flushed an UPDATE of, or NoId
  idle,        \* connections that wait in the pool
  up,          \* the database accepts connections
  outages,     \* how often it went down
  since,       \* history: outages when the client drew its connection
  retries,     \* how often a client called again
  counts,      \* what memory_stats counted so far
  before       \* history: the memories there, and gone, when memory_stats began

corpusVars == <<life, heir, author>>
poolVars == <<held, idle, since>>
databaseVars == <<up, outages>>
historyVars == <<retries, before>>
servingVars == <<corpusVars, call, stage, aim, locked, poolVars, databaseVars,
                 historyVars, counts>>

Corpus == INSTANCE CorpusLifecycle

NoCall == [op |-> "none", target |-> NoId]
SqlStages == {"select", "search", "write", "total", "types", "statuses", "commit"}
ProviderStages == {"embed", "rerank"}
Working == SqlStages \cup ProviderStages
Tally == {"total", "types", "active", "gone"}

Known == {i \in Ids : life[i] # "unknown"}
Active == {i \in Ids : life[i] = "active"}
Gone == Known \ Active

ServingTypeOK ==
  /\ Corpus!TypeOK
  /\ author \in [Ids -> Clients \cup {NoClient}]
  /\ call \in [Clients -> [op : AllOps \cup {"none"}, target : Ids \cup {NoId}]]
  /\ stage \in [Clients -> Working \cup {"new", "done", "failed"}]
  /\ aim \in [Clients -> Ids \cup {NoId}]
  /\ held \in [Clients -> {"none", "live", "dead"}]
  /\ locked \in [Clients -> Ids \cup {NoId}]
  /\ idle \in [live : 0 .. PoolSize, dead : 0 .. PoolSize]
  /\ up \in BOOLEAN /\ outages \in 0 .. MaxOutages
  /\ since \in [Clients -> 0 .. MaxOutages]
  /\ retries \in 0 .. MaxRetries
  /\ counts \in [Clients -> [Tally -> 0 .. MaxRows]]
  /\ before \in [Clients -> [known : SUBSET Ids, gone : SUBSET Ids]]

ServingInit ==
  /\ Corpus!Init
  /\ author = [i \in Ids |-> NoClient]
  /\ call = [c \in Clients |-> NoCall]
  /\ stage = [c \in Clients |-> "new"]
  /\ aim = [c \in Clients |-> NoId]
  /\ held = [c \in Clients |-> "none"]
  /\ locked = [c \in Clients |-> NoId]
  /\ idle = [live |-> 0, dead |-> 0]
  /\ up = TRUE /\ outages = 0
  /\ since = [c \in Clients |-> 0]
  /\ retries = 0
  /\ counts = [c \in Clients |-> [t \in Tally |-> 0]]
  /\ before = [c \in Clients |-> [known |-> {}, gone |-> {}]]

Goto(c, next) == stage' = [stage EXCEPT ![c] = next]

-----------------------------------------------------------------------------
(* The pool: sqlalchemy's AsyncAdaptedQueuePool behind create_async_engine.*)

Holding == {c \in Clients : held[c] # "none"}
Waiting(c) == stage[c] \in SqlStages /\ held[c] = "none"
Free == idle.live + idle.dead
Open == Free + Cardinality(Holding)
MayOpen == Free = 0 /\ Open < PoolSize + MaxOverflow

Take(c, connection) ==
  /\ held' = [held EXCEPT ![c] = connection]
  /\ since' = [since EXCEPT ![c] = outages]

(* Seeded defect: without pool_pre_ping a dead connection is handed out. *)
CheckoutUnpinged(c) ==
  /\ Waiting(c) /\ up
  /\ \/ idle.live > 0 /\ Take(c, "live") /\ idle' = [idle EXCEPT !.live = @ - 1]
     \/ idle.dead > 0 /\ Take(c, "dead") /\ idle' = [idle EXCEPT !.dead = @ - 1]
     \/ MayOpen /\ Take(c, "live") /\ UNCHANGED idle
  /\ UNCHANGED <<corpusVars, call, stage, aim, locked, databaseVars, historyVars, counts>>
(* The first statement of a session draws a connection.  pool_pre_ping     *)
(* tries an idle one and opens another in its place when it is dead.       *)
Checkout(c) ==
  /\ Waiting(c) /\ up
  /\ \/ idle.live > 0 /\ idle' = [idle EXCEPT !.live = @ - 1]
     \/ idle.dead > 0 /\ idle' = [idle EXCEPT !.dead = @ - 1]
     \/ MayOpen /\ UNCHANGED idle
  /\ Take(c, "live")
  /\ UNCHANGED <<corpusVars, call, stage, aim, locked, databaseVars, historyVars, counts>>

(* Seeded defect: a session is left open when its request fails. *)
EndsOpen(c, next) ==
  /\ Goto(c, next)
  /\ held' = IF next = "failed" THEN held ELSE [held EXCEPT ![c] = "none"]
  /\ locked' = IF next = "failed" THEN locked ELSE [locked EXCEPT ![c] = NoId]
  /\ idle' = IF next # "failed" /\ held[c] = "live" /\ Free < PoolSize
               THEN [idle EXCEPT !.live = @ + 1] ELSE idle
  /\ UNCHANGED since
(* `async with AsyncSessionLocal()` is left: the transaction is over, its  *)
(* row lock free, its connection, when it still works, back in the pool or *)
(* closed when the pool has all it keeps.                                  *)
Ends(c, next) ==
  /\ Goto(c, next)
  /\ held' = [held EXCEPT ![c] = "none"]
  /\ locked' = [locked EXCEPT ![c] = NoId]
  /\ idle' = IF held[c] = "live" /\ Free < PoolSize THEN [idle EXCEPT !.live = @ + 1]
                                                    ELSE idle
  /\ UNCHANGED since

(* An exception leaves the route or tool, and the session.                 *)
Fails(c) ==
  /\ Ends(c, "failed")
  /\ UNCHANGED <<corpusVars, call, aim, databaseVars, historyVars, counts>>

(* No connection was returned for 30 s.                                    *)
PoolTimeout(c) == Waiting(c) /\ Free = 0 /\ ~ MayOpen /\ Fails(c)

(* The database is down: no connection can be opened, a dead one is lost.  *)
Refused(c) ==
  /\ Waiting(c) /\ ~ up
  /\ \/ MayOpen /\ Fails(c)
     \/ /\ idle.dead > 0
        /\ Goto(c, "failed")
        /\ idle' = [idle EXCEPT !.dead = @ - 1]
        /\ UNCHANGED <<corpusVars, call, aim, locked, held, since, databaseVars,
                       historyVars, counts>>

(* A statement on a connection whose database went away raises.            *)
ConnectionLost(c) == stage[c] \in SqlStages /\ held[c] = "dead" /\ Fails(c)

-----------------------------------------------------------------------------
(* The requests.  A statement needs a connection that lives.               *)

Calls(ops) ==
  {k \in [op : ops, target : Known \cup {NoId}] :
     k.target # NoId <=> k.op \in {"replace", "forget"}}

FirstStage(op) ==
  CASE op \in {"ingest", "remember"} -> "embed"
    [] op \in {"replace", "forget"} -> "select"
    [] op = "stats" -> "total"

Begin(c, k) ==
  /\ call' = [call EXCEPT ![c] = k]
  /\ Goto(c, FirstStage(k.op))
  /\ aim' = [aim EXCEPT ![c] = NoId]
  /\ before' = [before EXCEPT ![c] = IF k.op = "stats" THEN [known |-> Known, gone |-> Gone]
                                                       ELSE @]
  /\ UNCHANGED <<corpusVars, locked, poolVars, databaseVars, counts>>

Arrive(c) == stage[c] = "new" /\ \E k \in Calls(Ops[c]) : Begin(c, k) /\ UNCHANGED retries

(* The caller saw its call fail and makes the same one again.              *)
Retry(c) ==
  /\ stage[c] = "failed" /\ retries < MaxRetries
  /\ Begin(c, call[c])
  /\ retries' = retries + 1

Runs(c, at) == stage[c] = at /\ held[c] = "live"
OnlyMoves(c) ==
  UNCHANGED <<corpusVars, call, locked, poolVars, databaseVars, historyVars, counts>>

Embedded(c) ==
  /\ stage[c] = "embed"
  /\ Goto(c, IF call[c].op = "remember" THEN "search" ELSE "write")
  /\ UNCHANGED aim /\ OnlyMoves(c)

(* get_embedding raises; only the reranker's failures are caught.          *)
EmbeddingFails(c) == stage[c] = "embed" /\ Fails(c)

Reranked(c) == stage[c] = "rerank" /\ Goto(c, "write") /\ UNCHANGED aim /\ OnlyMoves(c)

(* Seeded defect: get_memories_by_ids of retired memories too. *)
SelectRetired(c) ==
  /\ Runs(c, "select")
  /\ aim' = [aim EXCEPT ![c] = call[c].target]
  /\ Goto(c, IF call[c].op = "replace" THEN "embed" ELSE "write")
  /\ OnlyMoves(c)
(* get_memories_by_ids: a target that is retired is answered at once.      *)
Select(c) ==
  LET t == call[c].target IN
  /\ Runs(c, "select")
  /\ \/ t \notin Active /\ Goto(c, "commit") /\ UNCHANGED aim
     \/ /\ t \in Active
        /\ aim' = [aim EXCEPT ![c] = t]
        /\ Goto(c, IF call[c].op = "replace" THEN "embed" ELSE "write")
  /\ OnlyMoves(c)

Authored(c) == {i \in Ids : author[i] = c}
Own(c) == Authored(c) \cap Active

(* Seeded defect: an equal memory is no more a duplicate than others. *)
SearchMisses(c) ==
  /\ Runs(c, "search")
  /\ \E d \in Active \cup {NoId} : aim' = [aim EXCEPT ![c] = d]
  /\ Goto(c, "rerank")
  /\ OnlyMoves(c)
(* RecallService.search and the duplicate remember_memory picks: a memory  *)
(* of the same content, when one is among the candidates, or else one the  *)
(* scores call similar, or none.  The candidates are the first DedupTopK.  *)
(* The trigram query ranks an equal memory first, whatever the index on    *)
(* the embeddings leaves out, so it is among them while no more memories   *)
(* than that are active; beyond, activation and workspace decide.  (Left   *)
(* out: a content with no letter or digit, which has no trigrams.)         *)
(* Contents of two clients differ.                                         *)
Search(c) ==
  /\ Runs(c, "search")
  /\ \E T \in SUBSET Active :
       /\ Cardinality(T) <= DedupTopK
       /\ Cardinality(Active) <= DedupTopK => Own(c) \subseteq T
       /\ \E d \in IF Own(c) \cap T # {} THEN Own(c) \cap T ELSE T \cup {NoId} :
            aim' = [aim EXCEPT ![c] = d]
  /\ Goto(c, "rerank")
  /\ OnlyMoves(c)

(* The flush: an UPDATE waits for the row lock, an INSERT for nobody.      *)
Write(c) ==
  /\ Runs(c, "write")
  /\ \A d \in Clients \ {c} : locked[d] = NoId \/ locked[d] # aim[c]
  /\ locked' = [locked EXCEPT ![c] = aim[c]]
  /\ Goto(c, "commit")
  /\ UNCHANGED <<corpusVars, call, aim, poolVars, databaseVars, historyVars, counts>>

(* memory_stats: three queries, each with a snapshot of its own.           *)
CountTotal(c) ==
  /\ Runs(c, "total") /\ Goto(c, "types")
  /\ counts' = [counts EXCEPT ![c].total = Cardinality(Known)]
  /\ UNCHANGED <<corpusVars, call, aim, locked, poolVars, databaseVars, historyVars>>

(* Seeded defect: the breakdown by type counts active memories only. *)
CountActiveTypes(c) ==
  /\ Runs(c, "types") /\ Goto(c, "statuses")
  /\ counts' = [counts EXCEPT ![c].types = Cardinality(Active)]
  /\ UNCHANGED <<corpusVars, call, aim, locked, poolVars, databaseVars, historyVars>>
CountTypes(c) ==
  /\ Runs(c, "types") /\ Goto(c, "statuses")
  /\ counts' = [counts EXCEPT ![c].types = Cardinality(Known)]
  /\ UNCHANGED <<corpusVars, call, aim, locked, poolVars, databaseVars, historyVars>>

CountStatuses(c) ==
  /\ Runs(c, "statuses") /\ Goto(c, "commit")
  /\ counts' = [counts EXCEPT ![c].active = Cardinality(Active),
                              ![c].gone = Cardinality(Gone)]
  /\ UNCHANGED <<corpusVars, call, aim, locked, poolVars, databaseVars, historyVars>>

-----------------------------------------------------------------------------
(* Commits, answered or not.                                               *)

(* What the commit of c makes visible.  New ids are given out in the order *)
(* of the commits.                                                         *)
Effect(c) ==
  LET op == call[c].op
      n == Cardinality(Known) + 1
      Stored == n \in Ids /\ author' = [author EXCEPT ![n] = c]
  IN
  \/ op \in {"ingest", "remember"} /\ aim[c] = NoId /\ Stored /\ Corpus!Store(n)
  \/ op = "replace" /\ aim[c] # NoId /\ Stored /\ Corpus!Replace(aim[c], n)
  \/ op = "forget" /\ aim[c] # NoId /\ Corpus!Forget(aim[c]) /\ UNCHANGED author
  \/ op \in {"replace", "forget"} /\ aim[c] = NoId /\ UNCHANGED corpusVars
  \/ op = "remember" /\ aim[c] # NoId /\ UNCHANGED corpusVars
  \/ op = "stats" /\ UNCHANGED corpusVars

(* Seeded defect: what follows the commit (building the answer from        *)
(* expired attributes, say) may raise. *)
CommitThenFails(c) ==
  /\ Runs(c, "commit")
  /\ Effect(c)
  /\ \E next \in {"done", "failed"} : Ends(c, next)
  /\ UNCHANGED <<call, aim, databaseVars, historyVars, counts>>
(* The last statement of a route or tool: the answer is built from what    *)
(* the session still holds (expire_on_commit=False).                       *)
Commit(c) ==
  /\ Runs(c, "commit")
  /\ Effect(c)
  /\ Ends(c, "done")
  /\ UNCHANGED <<call, aim, databaseVars, historyVars, counts>>

(* The database goes down.  Its transactions are over, their locks free;   *)
(* of a session that had asked for its commit nobody can say whether it    *)
(* took effect: the answer is lost in either case.                         *)
GoesDown ==
  /\ up /\ outages < MaxOutages
  /\ \/ UNCHANGED corpusVars
     \/ \E c \in Clients : Runs(c, "commit") /\ Effect(c)
  /\ up' = FALSE /\ outages' = outages + 1
  /\ held' = [c \in Clients |-> IF held[c] = "live" THEN "dead" ELSE held[c]]
  /\ locked' = [c \in Clients |-> NoId]
  /\ idle' = [live |-> 0, dead |-> Free]
  /\ UNCHANGED <<call, stage, aim, since, historyVars, counts>>

ComesBack ==
  /\ ~ up /\ up' = TRUE
  /\ UNCHANGED <<corpusVars, call, stage, aim, locked, poolVars, outages, historyVars, counts>>

(* What the process, the database and the provider owe a request.          *)
Advance(c) ==
  \/ Checkout(c) \/ Refused(c) \/ ConnectionLost(c)
  \/ Embedded(c) \/ EmbeddingFails(c) \/ Reranked(c)
  \/ Select(c) \/ Search(c) \/ Write(c)
  \/ CountTotal(c) \/ CountTypes(c) \/ CountStatuses(c)
  \/ Commit(c)

Rest == (\A c \in Clients : stage[c] \in {"done", "failed"}) /\ UNCHANGED servingVars

ServingNext ==
  \/ \E c \in Clients : Arrive(c) \/ Retry(c) \/ Advance(c) \/ PoolTimeout(c)
  \/ GoesDown \/ ComesBack
  \/ Rest

ServingSpec == ServingInit /\ [][ServingNext]_servingVars

(* Waiters for a connection and for a row lock are queues, so a step that  *)
(* is possible again and again is taken.  The pool timeout, retries and    *)
(* outages are owed to nobody; the database is restarted.                  *)
ServingFairSpec ==
  /\ ServingSpec
  /\ WF_servingVars(ComesBack)
  /\ \A c \in Clients : SF_servingVars(Advance(c))

-----------------------------------------------------------------------------
(* What must hold.                                                         *)

(* Connections are never leaked and never overdrawn, through failures and  *)
(* outages: those that are open fit the pool, only a request under way has *)
(* one, and whoever holds a row lock has one and is about to commit.       *)
(* (the sessions of get_db and of the MCP tools)                           *)
ConnectionsAccounted ==
  /\ Open <= PoolSize + MaxOverflow
  /\ \A c \in Holding : stage[c] \in Working
  /\ \A c \in Clients : locked[c] # NoId => held[c] = "live" /\ stage[c] = "commit"

(* An outage costs a request that was under way, and no later one: no      *)
(* session is ever given a connection that the database had already lost.  *)
(* (pool_pre_ping)                                                         *)
OutageOverForLater == \A c \in Clients : held[c] = "dead" => since[c] < outages

(* The three counts of memory_stats may disagree, but only by what changed *)
(* while it ran: each lies between the corpus at its start and the corpus  *)
(* at its end, and they grow in the order in which they were taken.        *)
(* (memory_stats; no row is deleted and none becomes active again)         *)
StatsBracketed ==
  \A c \in Clients :
    Runs(c, "commit") /\ call[c].op = "stats" =>
      LET n == counts[c] IN
      /\ Cardinality(before[c].known) <= n.total
      /\ n.total <= n.types /\ n.types <= n.active + n.gone
      /\ n.active + n.gone <= Cardinality(Known)
      /\ Cardinality(before[c].gone) <= n.gone /\ n.gone <= Cardinality(Gone)

(* Calling again what failed is safe, also when the failed call had been   *)
(* committed and only its answer was lost: one that replaces stored at     *)
(* most one memory, and one that remembers has at most one active for it,  *)
(* unless more memories were there before than its search compares with.   *)
(* (the duplicate search of remember_memory, the active-only lookup of     *)
(* replace_memory)                                                         *)
RetriesStoreOnce ==
  \A c \in Clients :
    /\ call[c].op = "remember" /\ Cardinality(Known) <= DedupTopK + 1 =>
         Cardinality(Own(c)) <= 1
    /\ call[c].op = "replace" => Cardinality(Authored(c)) <= 1

(* Whatever a client calls again, with no duplicate check (ingest) or with *)
(* one that misses (remember, past the first candidates), it stores one    *)
(* memory more than an answered call should at the price of an outage that *)
(* hid an answer, never because of a request that failed.                  *)
(* (a route or tool commits last: nothing after it can fail)               *)
StoredPerOutage ==
  \A c \in Clients :
    Cardinality(Authored(c)) <= outages + (IF stage[c] = "done" THEN 1 ELSE 0)

(* Every request ends without the help of the pool's timeout, though it    *)
(* may wait for a connection, and then, with it, for a row lock or for the *)
(* provider.                                                               *)
RequestsEnd == \A c \in Clients : stage[c] \in Working ~> stage[c] \in {"done", "failed"}
=============================================================================
