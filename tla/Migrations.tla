----------------------------- MODULE Migrations -----------------------------
(***************************************************************************)
(* The schema and its chain of revisions, migrate/versions, as alembic     *)
(* runs them: one attempt ("alembic upgrade head", or a downgrade) is one  *)
(* transaction over all the revisions it passes, and several attempts may  *)
(* be made at once, on the same database, while the API stores memories.   *)
(*                                                                         *)
(* The schema is a set of objects (tables, columns, NOT NULL marks,        *)
(* defaults, indexes, keys, checks, extensions).  A revision is a sequence *)
(* of operations; each succeeds or raises depending on the objects there.  *)
(* Column types and lengths are left out, and of the rows all columns but  *)
(* those that a revision computes from others or that a README promises.   *)
(*                                                                         *)
(* Every lock on a table is taken for exclusive.  The SHARE lock of CREATE *)
(* INDEX is weaker, but an attempt that takes one has created or altered a *)
(* table before that any other attempt at the same index needs first.      *)
(***************************************************************************)
EXTENDS Integers, Sequences, SequencesExt

CONSTANTS
  Attempts,     \* runs of the alembic command
  LegacyRows,   \* memories from before 0006: [type, namespace, scope, link]
  Goals,        \* the revisions attempts are asked to go to
  Starts        \* the revisions the database may be at when it is first seen

(* Revisions by their place in the chain: 0001, 0002, 0004, 0005, 0006.    *)
HeadRevision == 5
Versions == 0 .. HeadRevision

ASSUME MigrationsBounds == Goals \subseteq Versions /\ Starts \subseteq Versions \ {HeadRevision}

-----------------------------------------------------------------------------
(* Schema objects and operations on them.  "on" names the columns that an  *)
(* object other than a table or a column cannot be without.                *)

Object(kind, table, name, on) == [kind |-> kind, table |-> table, name |-> name, on |-> on]
Name(o) == <<o.kind, o.table, o.name>>

Column(t, c) == <<t, c>>
Index(t, name, C) == Object("index", t, name, {Column(t, c) : c \in C})
Check(t, name, C) == Object("check", t, name, {Column(t, c) : c \in C})
Unique(t, name, C) == Object("unique", t, name, {Column(t, c) : c \in C})
ForeignKey(t, c, name) == Object("key", t, name, {Column(t, c), Column("memories", "id")})
Nullable(t, C) == {Object("column", t, c, {}) : c \in C}
NotNull(t, c) == Object("not null", t, c, {Column(t, c)})
Required(t, C) == Nullable(t, C) \cup {NotNull(t, c) : c \in C}
Defaulted(t, C) == Required(t, C) \cup {Object("default", t, c, {Column(t, c)}) : c \in C}
Table(t, O) == {Object("table", t, t, {})} \cup O
Extension(e) == Object("extension", "pg_extension", e, {})

Op(do, what, lenient) == [do |-> do, what |-> what, lenient |-> lenient]
Create(O) == Op("create", O, FALSE)
CreateIfMissing(o) == Op("create", {o}, TRUE)
Drop(kind, t, name) == Op("drop", {<<kind, t, name>>}, FALSE)
DropIfExists(kind, t, name) == Op("drop", {<<kind, t, name>>}, TRUE)
Update(rule) == Op(rule, {}, FALSE)

DropColumn(t, c) == Drop("column", t, c)
DropIndex(t, name) == Drop("index", t, name)
DropTable(t) == Drop("table", t, t)
CreateIndex(t, name, C) == Create({Index(t, name, C)})

-----------------------------------------------------------------------------
(* The revisions.                                                          *)

Upgrade0001 == <<
  CreateIfMissing(Extension("vector")), CreateIfMissing(Extension("pg_trgm")),
  Create(Table("memories",
    Required("memories", {"id", "namespace", "raw_content", "embedding", "created_at",
                          "last_accessed_at"})
    \cup Nullable("memories", {"session_id"})
    \cup Defaulted("memories", {"type", "status", "base_importance", "access_count",
                                "metadata_json"}))),
  Create(Table("hebbian_edges",
    Required("hebbian_edges", {"source_id", "target_id", "last_co_accessed_at", "created_at"})
    \cup Defaulted("hebbian_edges", {"weight"})
    \cup {ForeignKey("hebbian_edges", c, c) : c \in {"source_id", "target_id"}}
    \cup {Unique("hebbian_edges", "uq_hebbian_edges_pair", {"source_id", "target_id"})})),
  CreateIndex("memories", "ix_memories_namespace", {"namespace"}),
  CreateIndex("memories", "ix_memories_session_id", {"session_id"}),
  CreateIndex("memories", "ix_memories_raw_content_trgm", {"raw_content"}),
  CreateIndex("memories", "ix_memories_embedding_hnsw", {"embedding"}) >>

Downgrade0001 == <<
  DropIfExists("index", "memories", "ix_memories_embedding_hnsw"),
  DropIfExists("index", "memories", "ix_memories_raw_content_trgm"),
  DropIndex("memories", "ix_memories_session_id"),
  DropIndex("memories", "ix_memories_namespace"),
  DropTable("hebbian_edges"), DropTable("memories") >>

Upgrade0002 == <<
  Create(Defaulted("memories", {"confidence"})),
  Create(Nullable("memories", {"source"})),
  Create(Nullable("memories", {"superseded_by"})),
  Create(Nullable("memories", {"deprecated_at"})),
  Create(Nullable("memories", {"status_reason"})),
  Create({ForeignKey("memories", "superseded_by", "fk_memories_superseded_by_memories")}),
  Create(Table("memory_relations",
    Required("memory_relations", {"id", "source_id", "target_id", "relation_type", "created_at"})
    \cup Defaulted("memory_relations", {"confidence", "metadata_json"})
    \cup Nullable("memory_relations", {"rationale"})
    \cup {ForeignKey("memory_relations", c, c) : c \in {"source_id", "target_id"}}
    \cup {Unique("memory_relations", "uq_memory_relations_source_target_type",
                 {"source_id", "target_id", "relation_type"})})),
  CreateIndex("memories", "ix_memories_status", {"status"}),
  CreateIndex("memories", "ix_memories_type", {"type"}),
  CreateIndex("memories", "ix_memories_superseded_by", {"superseded_by"}),
  CreateIndex("memory_relations", "ix_memory_relations_source_id", {"source_id"}),
  CreateIndex("memory_relations", "ix_memory_relations_target_id", {"target_id"}),
  CreateIndex("memory_relations", "ix_memory_relations_relation_type", {"relation_type"}) >>

Downgrade0002 == <<
  DropIndex("memory_relations", "ix_memory_relations_relation_type"),
  DropIndex("memory_relations", "ix_memory_relations_target_id"),
  DropIndex("memory_relations", "ix_memory_relations_source_id"),
  DropIndex("memories", "ix_memories_superseded_by"),
  DropIndex("memories", "ix_memories_type"),
  DropIndex("memories", "ix_memories_status"),
  DropTable("memory_relations"),
  Drop("key", "memories", "fk_memories_superseded_by_memories"),
  DropColumn("memories", "status_reason"), DropColumn("memories", "deprecated_at"),
  DropColumn("memories", "superseded_by"), DropColumn("memories", "source"),
  DropColumn("memories", "confidence") >>

TypeStatusIndex == Index("memories", "ix_memories_type_status", {"type", "status"})

Upgrade0004 == <<
  Create(Table("dream_runs",
    Required("dream_runs", {"id", "namespace", "status"})
    \cup Nullable("dream_runs", {"completed_at", "error"})
    \cup Defaulted("dream_runs", {"started_at", "seed_memory_ids", "source_memory_ids",
                                  "created_memory_ids", "clusters_considered",
                                  "clusters_dreamed", "memories_created", "metadata_json"}))),
  CreateIndex("dream_runs", "ix_dream_runs_namespace", {"namespace"}),
  CreateIndex("dream_runs", "ix_dream_runs_status", {"status"}),
  CreateIndex("dream_runs", "ix_dream_runs_started_at", {"started_at"}),
  CreateIfMissing(Index("memories", "ix_memories_status", {"status"})),
  CreateIfMissing(TypeStatusIndex) >>

(* Seeded defect: it drops an index that belongs to the revision before. *)
Downgrade0004Wide == <<
  DropIfExists("index", "memories", "ix_memories_type_status"),
  DropIfExists("index", "memories", "ix_memories_status"),
  DropTable("dream_runs") >>
Downgrade0004 == <<
  DropIfExists("index", "memories", "ix_memories_type_status"),
  DropIndex("dream_runs", "ix_dream_runs_started_at"),
  DropIndex("dream_runs", "ix_dream_runs_status"),
  DropIndex("dream_runs", "ix_dream_runs_namespace"),
  DropTable("dream_runs") >>

Upgrade0005 == <<
  Create(Defaulted("memories", {"scope"})),
  Create({Check("memories", "ck_memories_scope", {"scope"})}),
  CreateIndex("memories", "ix_memories_scope", {"scope"}),
  CreateIndex("memories", "ix_memories_namespace_scope", {"namespace", "scope"}) >>

Downgrade0005 == <<
  DropIndex("memories", "ix_memories_namespace_scope"),
  DropIndex("memories", "ix_memories_scope"),
  Drop("check", "memories", "ck_memories_scope"),
  DropColumn("memories", "scope") >>

Upgrade0006 == <<
  Create(Nullable("memories", {"workspace"})),
  Update("workspace of repo"), Update("workspace of the rest"), Update("type"),
  DropIndex("memories", "ix_memories_namespace_scope"),
  DropIndex("memories", "ix_memories_scope"),
  Drop("check", "memories", "ck_memories_scope"),
  DropColumn("memories", "scope"),
  DropIndex("memories", "ix_memories_namespace"),
  DropColumn("memories", "namespace"),
  DropTable("memory_relations"), DropTable("hebbian_edges"),
  DropIndex("dream_runs", "ix_dream_runs_namespace"),
  DropColumn("dream_runs", "namespace"),
  CreateIndex("memories", "ix_memories_active_workspace", {"status", "workspace"}),
  CreateIndex("memories", "ix_memories_workspace", {"workspace"}) >>

Downgrade0006 == <<
  Create(Nullable("memories", {"namespace"})),
  Update("namespace"),
  Create({NotNull("memories", "namespace")}),
  Create(Defaulted("memories", {"scope"})),
  Create(Defaulted("dream_runs", {"namespace"})),
  DropIndex("memories", "ix_memories_workspace"),
  DropIndex("memories", "ix_memories_active_workspace"),
  DropColumn("memories", "workspace") >>

Upgrades == <<Upgrade0001, Upgrade0002, Upgrade0004, Upgrade0005, Upgrade0006>>
Downgrades == <<Downgrade0001, Downgrade0002, Downgrade0004, Downgrade0005, Downgrade0006>>

-----------------------------------------------------------------------------
(* What an operation does to the objects s.                                *)

Has(s, name) == \E o \in s : Name(o) = name
ColumnsOf(s) == {Column(o.table, o.name) : o \in {p \in s : p.kind = "column"}}

Within(name, o) == Name(o) = name \/ (name[1] = "table" /\ o.table = name[2])

(* The columns that go when name is dropped, and all that goes with them:  *)
(* PostgreSQL drops the indexes and constraints of a table or column too.  *)
DoomedColumns(s, name) == ColumnsOf({o \in s : Within(name, o)})
Doomed(s, name) ==
  LET C == DoomedColumns(s, name) IN
  {o \in s : Within(name, o) \/ (o.table = name[2] /\ o.on \cap C # {})}

(* A foreign key of another table is in the way.                           *)
Referenced(s, name) ==
  LET C == DoomedColumns(s, name) IN \E o \in s : o.table # name[2] /\ o.on \cap C # {}

(* The tables whose locks op takes, catalogue entries of new ones included.*)
Tables(O) == {o.table : o \in O} \cup {c[1] : c \in UNION {o.on : o \in O}}
Touched(s, op) ==
  CASE op.do = "create" -> Tables(op.what)
    [] op.do = "drop" -> Tables(UNION {Doomed(s, name) : name \in op.what})
    [] OTHER -> {"memories"}

(* The columns of memories that rows keep here, and what a row of an older *)
(* revision gets when a column is added.                                   *)
Null == "NULL"
Tracked == {"type", "namespace", "workspace", "scope", "superseded_by"}
Remembered == [type |-> "fact", namespace |-> Null, scope |-> Null, link |-> Null]
Rows == LegacyRows \cup {Remembered}
NoRows == [i \in {} |-> Null]
ValueAdded(c) == IF c = "scope" THEN "local" ELSE Null

(* A NOT NULL mark holds for the rows that are there.                      *)
Filled(s, rows, o) ==
  \/ DOMAIN rows = {}
  \/ \E d \in s : d.kind = "default" /\ d.table = o.table /\ d.name = o.name
  \/ o.name \in Tracked /\ \A i \in DOMAIN rows : rows[i][o.name] # Null

Creatable(s, rows, op) ==
  LET t == s \cup op.what
      C == ColumnsOf(t)
  IN
  /\ op.lenient \/ \A o \in op.what : ~ Has(s, Name(o))
  /\ \A o \in op.what :
       /\ o.kind # "extension" => Has(t, <<"table", o.table, o.table>>)
       /\ o.on \subseteq C
       /\ o.kind = "not null" /\ o.table = "memories" => Filled(t, rows, o)

Droppable(s, op) ==
  \A name \in op.what : (op.lenient \/ Has(s, name)) /\ ~ Referenced(s, name)

Succeeds(s, rows, op) ==
  /\ op.do = "create" => Creatable(s, rows, op)
  /\ op.do = "drop" => Droppable(s, op)

After(s, op) ==
  CASE op.do = "create" -> s \cup {o \in op.what : ~ Has(s, Name(o))}
    [] op.do = "drop" -> LET gone == UNION {Doomed(s, name) : name \in op.what} IN s \ gone
    [] OTHER -> s

(* The UPDATEs of 0006.  Stripped is substring(namespace FROM 6), defined  *)
(* where namespace LIKE 'repo:%'.                                          *)
Stripped ==
  [n \in {"repo:camillo", "repo:"} |-> IF n = "repo:camillo" THEN "camillo" ELSE ""]
LegacyTypeMap ==
  [episodic |-> "episode", semantic |-> "fact", relationship |-> "fact", profile |-> "fact",
   core |-> "fact", preference |-> "preference", procedural |-> "procedure"]
(* Seeded defect: the types that became facts were forgotten. *)
RetypedPartly(type) == IF type = "episodic" THEN "episode" ELSE type
Retyped(type) ==
  CASE type = "episodic" -> "episode"
    [] type \in {"semantic", "relationship", "profile", "core"} -> "fact"
    [] type = "preference" -> "preference"
    [] type = "procedural" -> "procedure"
    [] OTHER -> type

Assigned(row, rule) ==
  CASE rule = "workspace of repo" /\ row.namespace \in DOMAIN Stripped ->
         [row EXCEPT !.workspace = Stripped[row.namespace]]
    [] rule = "workspace of the rest" /\ row.workspace = Null ->
         [row EXCEPT !.workspace = row.namespace]
    [] rule = "type" -> [row EXCEPT !.type = Retyped(row.type)]
    [] rule = "namespace" ->
         [row EXCEPT !.namespace = IF row.workspace = Null THEN "default" ELSE row.workspace]
    [] OTHER -> row

RowAfter(row, op) ==
  CASE op.do = "create" ->
         [c \in Tracked |-> IF Object("column", "memories", c, {}) \in op.what
                            THEN ValueAdded(c) ELSE row[c]]
    [] op.do = "drop" ->
         [c \in Tracked |-> IF <<"column", "memories", c>> \in op.what THEN Null ELSE row[c]]
    [] OTHER -> Assigned(row, op.do)

RowsAfter(rows, op) ==
  IF op.do = "drop" /\ <<"table", "memories", "memories">> \in op.what THEN NoRows
  ELSE [i \in DOMAIN rows |-> RowAfter(rows[i], op)]

-----------------------------------------------------------------------------
(* Attempts, each one transaction on a connection of its own.              *)

VARIABLES
  schema,    \* the committed objects
  rows,      \* the committed memories
  version,   \* the committed row of alembic_version
  run        \* what each attempt is doing

vars == <<schema, rows, version, run>>

(* from: the version it read; at, step: how far its transaction is; locks: *)
(* the tables it has locked; objects, rows: what it sees in those.         *)
Waiting == [stage |-> "new", goal |-> 0, from |-> 0, at |-> 0, step |-> 1,
            locks |-> {}, objects |-> {}, rows |-> NoRows]

(* What the operations of a script make of s, one after the other; and the *)
(* schema each revision is meant to have: its upgrade, on the previous.    *)
Stages(s, script) ==
  LET stage[n \in 0 .. Len(script)] == IF n = 0 THEN s ELSE After(stage[n - 1], script[n])
  IN stage
Built(s, script) == Stages(s, script)[Len(script)]
Rung[v \in Versions] == IF v = 0 THEN {} ELSE Built(Rung[v - 1], Upgrades[v])
Ladder == [v \in Versions |-> Rung[v]]

(* A memory of a database that is at version v.                            *)
LegacyRow(i, v) ==
  [c \in Tracked |->
     CASE c \in {"type", "namespace"} -> i[c]
       [] c = "scope" /\ v >= 4 -> i.scope
       [] c = "superseded_by" /\ v >= 2 -> i.link
       [] OTHER -> Null]

Init ==
  /\ version \in Starts
  /\ schema = Ladder[version]
  /\ rows = IF version = 0 THEN NoRows ELSE [i \in LegacyRows |-> LegacyRow(i, version)]
  /\ run = [a \in Attempts |-> Waiting]

Over == {"done", "failed", "aborted", "dead"}
Running(a) == run[a].stage = "running"
Up(a) == run[a].goal > run[a].at
Script(a) == IF Up(a) THEN Upgrades[run[a].at + 1] ELSE Downgrades[run[a].at]
Operation(a) == Script(a)[run[a].step]
Operating(a) == Running(a) /\ run[a].at # run[a].goal /\ run[a].step <= Len(Script(a))
Stamping(a) == Running(a) /\ run[a].at # run[a].goal /\ run[a].step > Len(Script(a))

(* What a's statements see: its own changes where it holds the lock.       *)
SchemaSeen(a) == {o \in schema : o.table \notin run[a].locks} \cup run[a].objects
RowsSeen(a) == IF "memories" \in run[a].locks THEN run[a].rows ELSE rows

Free(a, T) == \A b \in Attempts \ {a} : run[b].locks \cap T = {}

End(a, stage) == run' = [run EXCEPT ![a] = [Waiting EXCEPT !.stage = stage]]

(* The command starts: alembic reads the version and plans its way.        *)
Plan(a) ==
  /\ run[a].stage = "new"
  /\ \E goal \in Goals :
       run' = [run EXCEPT ![a] = [Waiting EXCEPT !.stage = "running", !.goal = goal,
                                                 !.from = version, !.at = version]]
  /\ UNCHANGED <<schema, rows, version>>

(* Seeded defect: no transaction, each statement is committed at once. *)
ExecuteAutocommit(a) ==
  /\ Operating(a)
  /\ Succeeds(schema, rows, Operation(a))
  /\ schema' = After(schema, Operation(a))
  /\ rows' = RowsAfter(rows, Operation(a))
  /\ run' = [run EXCEPT ![a].step = @ + 1]
  /\ UNCHANGED version
(* The next operation, once the tables it needs are free.                  *)
Execute(a) ==
  LET op == Operation(a)
      seen == SchemaSeen(a)
      locks == run[a].locks \cup Touched(seen, op)
  IN
  /\ Operating(a)
  /\ Free(a, locks)
  /\ Succeeds(seen, RowsSeen(a), op)
  /\ run' = [run EXCEPT ![a].step = @ + 1,
                        ![a].locks = locks,
                        ![a].objects = {o \in After(seen, op) : o.table \in locks},
                        ![a].rows = IF "memories" \in locks THEN RowsAfter(RowsSeen(a), op)
                                                             ELSE NoRows]
  /\ UNCHANGED <<schema, rows, version>>

(* The operation raises: the context manager of the transaction rolls back.*)
OperationFails(a) ==
  /\ Operating(a)
  /\ Free(a, Touched(SchemaSeen(a), Operation(a)))
  /\ ~ Succeeds(SchemaSeen(a), RowsSeen(a), Operation(a))
  /\ End(a, "failed")
  /\ UNCHANGED <<schema, rows, version>>

(* The row alembic is about to update is still there.                      *)
Expected(a) == "alembic_version" \in run[a].locks \/ version = run[a].at

(* Seeded defect: the version is set whatever it was. *)
StampBlindly(a) ==
  /\ Stamping(a)
  /\ Free(a, {"alembic_version"})
  /\ run' = [run EXCEPT ![a].at = IF Up(a) THEN @ + 1 ELSE @ - 1, ![a].step = 1,
                        ![a].locks = @ \cup {"alembic_version"}]
  /\ UNCHANGED <<schema, rows, version>>
(* A revision is through: the row of alembic_version is updated.           *)
Stamp(a) ==
  /\ Stamping(a)
  /\ Free(a, {"alembic_version"})
  /\ Expected(a)
  /\ run' = [run EXCEPT ![a].at = IF Up(a) THEN @ + 1 ELSE @ - 1, ![a].step = 1,
                        ![a].locks = @ \cup {"alembic_version"}]
  /\ UNCHANGED <<schema, rows, version>>

(* No row was updated: alembic raises.                                     *)
StampFails(a) ==
  /\ Stamping(a)
  /\ Free(a, {"alembic_version"})
  /\ ~ Expected(a)
  /\ End(a, "failed")
  /\ UNCHANGED <<schema, rows, version>>

(* The end of context.begin_transaction.                                   *)
Commit(a) ==
  /\ Running(a) /\ run[a].at = run[a].goal
  /\ schema' = SchemaSeen(a)
  /\ rows' = RowsSeen(a)
  /\ version' = IF "alembic_version" \in run[a].locks THEN run[a].at ELSE version
  /\ End(a, "done")

WaitsFor(a, b) ==
  /\ a # b
  /\ \/ Operating(a) /\ Touched(SchemaSeen(a), Operation(a)) \cap run[b].locks # {}
     \/ Stamping(a) /\ "alembic_version" \in run[b].locks

(* Downgrades of neighbouring revisions lock the same tables in opposite   *)
(* orders: PostgreSQL aborts one attempt of a cycle.                       *)
DeadlockVictim(a) ==
  /\ \E S \in SUBSET Attempts :
       /\ a \in S
       /\ \A b \in S : \E c \in S : WaitsFor(b, c)
       /\ \A c \in S : \E b \in S : WaitsFor(b, c)
  /\ End(a, "aborted")
  /\ UNCHANGED <<schema, rows, version>>

(* The command is interrupted, its container killed, its connection lost.  *)
Dies(a) == Running(a) /\ End(a, "dead") /\ UNCHANGED <<schema, rows, version>>

(* The objects the ORM classes name, and the columns their constructors    *)
(* give a value to.                                                        *)
MemoryColumns ==
  {"id", "workspace", "session_id", "raw_content", "embedding", "type", "status", "confidence",
   "source", "superseded_by", "deprecated_at", "status_reason", "base_importance",
   "access_count", "created_at", "last_accessed_at", "metadata_json"}
DreamRunColumns ==
  {"id", "status", "started_at", "completed_at", "seed_memory_ids", "source_memory_ids",
   "created_memory_ids", "clusters_considered", "clusters_dreamed", "memories_created",
   "error", "metadata_json"}
(* Seeded defect: a class has a column that no revision adds. *)
OrmColumnsAhead == {Column("memories", "project")}
OrmColumns ==
  {Column("memories", c) : c \in MemoryColumns} \cup {Column("dream_runs", c) : c \in DreamRunColumns}

(* An INSERT of the ORM classes succeeds: its columns are there, and those *)
(* it does not know need no value.                                         *)
OrmFits(s) ==
  /\ OrmColumns \subseteq ColumnsOf(s)
  /\ \A o \in s :
       /\ o.kind = "not null" /\ o.table \in {"memories", "dream_runs"}
       /\ Column(o.table, o.name) \notin OrmColumns
       => \E d \in s : d.kind = "default" /\ d.table = o.table /\ d.name = o.name

(* The API stores a memory of no workspace.                                *)
Remember ==
  /\ version = HeadRevision /\ Remembered \notin DOMAIN rows
  /\ OrmFits(schema)
  /\ \A a \in Attempts : "memories" \notin run[a].locks
  /\ rows' = [i \in DOMAIN rows \cup {Remembered} |->
               IF i = Remembered THEN LegacyRow(Remembered, version) ELSE rows[i]]
  /\ UNCHANGED <<schema, version, run>>

Step(a) ==
  Execute(a) \/ OperationFails(a) \/ Stamp(a) \/ StampFails(a) \/ Commit(a)
  \/ DeadlockVictim(a)

Ended == (\A a \in Attempts : run[a].stage \in Over) /\ UNCHANGED vars

Next ==
  \/ \E a \in Attempts : Plan(a) \/ Step(a) \/ Dies(a)
  \/ Remember
  \/ Ended

Spec == Init /\ [][Next]_vars

-----------------------------------------------------------------------------
(* What must hold.                                                         *)

MigrationsTypeOK ==
  /\ version \in Versions
  /\ \A i \in DOMAIN rows : i \in Rows /\ DOMAIN rows[i] = Tracked
  /\ \A a \in Attempts :
       /\ run[a].stage \in {"new", "running"} \cup Over
       /\ {run[a].goal, run[a].from, run[a].at} \subseteq Versions
       /\ run[a].step \in 1 .. 20
       /\ \A o \in run[a].objects : o.table \in run[a].locks

(* Downgrades leave the extensions where they are.                         *)
Own(s) == {o \in s : o.kind # "extension"}
Degraded == Built(Ladder[HeadRevision], Downgrade0006)

(* The schema is always the one its version stands for, whatever attempts  *)
(* raced, failed or died: nothing is applied by half, and the downgrades   *)
(* of all revisions but the last undo their upgrades.  One index may stay: *)
(* a downgrade of 0004 whose DROP INDEX IF EXISTS finds nothing, because   *)
(* another attempt was faster, goes on if the version comes back meanwhile.*)
(* After the downgrade of the last revision it is one other schema.        *)
(* (env.py, and every revision)                                            *)
SchemaOfVersion ==
  \/ Own(schema) = Own(Ladder[version])
  \/ version \in {1, 2} /\ Own(schema) = Own(Ladder[version]) \cup {TypeStatusIndex}
  \/ version = HeadRevision - 1 /\ Own(schema) = Own(Degraded)

(* The schema the revisions end with, on every way there, is one that the  *)
(* ORM classes can write to.  (models.py beside migrate/versions)          *)
HeadFitsModels == version = HeadRevision => OrmFits(schema)

(* Reaching the head keeps every memory, its type mapped as the dictionary *)
(* says, its workspace taken from its namespace and its replacement link.  *)
(* (the UPDATEs of 0006, and LEGACY_TYPE_MAP, that only a test reads)      *)
UpgradeKeepsMemories ==
  [][version' = HeadRevision /\ version # HeadRevision =>
       \A i \in DOMAIN rows :
         /\ i \in DOMAIN rows'
         /\ rows'[i].type = IF rows[i].type \in DOMAIN LegacyTypeMap
                            THEN LegacyTypeMap[rows[i].type] ELSE rows[i].type
         /\ rows'[i].workspace = IF rows[i].namespace \in DOMAIN Stripped
                                 THEN Stripped[rows[i].namespace] ELSE rows[i].namespace
         /\ rows'[i].superseded_by = rows[i].superseded_by]_vars

(* No attempt moves a version it did not plan from: of attempts that race  *)
(* one wins and the others change nothing.  (the version row of alembic,   *)
(* updated inside the transaction)                                         *)
NoStaleMove ==
  [][version' # version =>
       \E a \in Attempts : /\ run[a].from = version
                           /\ run[a].goal = version'
                           /\ run[a].stage = "running" /\ run'[a].stage = "done"]_vars

Fails(a) == run[a].stage = "running" /\ run'[a].stage = "failed"

(* An attempt fails only because another one was faster, or because it     *)
(* starts from, or comes to, what the downgrade of the last revision       *)
(* leaves: any other script runs on the schema its neighbours leave.       *)
FailsForAReason ==
  [][\A a \in Attempts : Fails(a) =>
       \/ version # run[a].from
       \/ Own(schema) = Own(Degraded)
       \/ run[a].from = HeadRevision /\ run[a].at = HeadRevision - 1]_vars

-----------------------------------------------------------------------------
(* What the documentation says and the revisions do not do.                *)

(* "Apply schema changes with `alembic upgrade head`": an upgrade to head  *)
(* that no other attempt interferes with does not fail.                    *)
UpgradeApplies ==
  [][\A a \in Attempts :
       Fails(a) /\ run[a].goal = HeadRevision => version # run[a].from]_vars
=============================================================================
