------------------------- MODULE MigrationsInvariant -------------------------
(* Inductive invariants of Migrations.  MigrationsInv: what the locks of   *)
(* an attempt hold still while it goes from version to version, and what   *)
(* each operation that touches a kept column has done to the memories it   *)
(* sees.  SchemaInv: also what its operations have made of each table.     *)
EXTENDS Migrations

AlembicTable == "alembic_version"

(* Nothing of these objects belongs to the table of alembic itself.        *)
Apart(O) == \A o \in O : o.table # AlembicTable /\ \A c \in o.on : c[1] # AlembicTable

Rising(a) == run[a].from < run[a].goal
Falling(a) == run[a].goal < run[a].from

(* An attempt is between where it started and where it goes; it has the    *)
(* version row exactly once it has moved, and then nobody else moves.      *)
Planned(a) ==
  /\ run[a].stage # "running" => run[a].locks = {} /\ run[a].from = run[a].at
  /\ run[a].at = run[a].goal => run[a].step = 1
  /\ run[a].at # run[a].goal => run[a].step <= Len(Script(a)) + 1
  /\ \/ run[a].from <= run[a].at /\ run[a].at <= run[a].goal
     \/ run[a].goal <= run[a].at /\ run[a].at <= run[a].from
  /\ AlembicTable \notin run[a].locks => run[a].at = run[a].from
  /\ AlembicTable \in run[a].locks => version = run[a].from
  /\ run[a].from = run[a].goal => run[a].locks = {}
  /\ Apart(run[a].objects)

Exclusive == \A a, b \in Attempts : a # b => run[a].locks \cap run[b].locks = {}

(* A memory of a database at version v.                                    *)
Fits(row, v) ==
  /\ v < HeadRevision => row.workspace = Null
  /\ v < 2 => row.superseded_by = Null

RowsFit ==
  /\ version = 0 => DOMAIN rows = {}
  /\ \A i \in DOMAIN rows : Fits(rows[i], version)

(* On its way up, or down, a is past operation n of the script at v.       *)
PastUp(a, v, n) ==
  /\ Rising(a) /\ run[a].from <= v
  /\ run[a].at > v \/ (run[a].at = v /\ run[a].step > n)
PastDown(a, v, n) ==
  /\ Falling(a) /\ v <= run[a].from
  /\ run[a].at < v \/ (run[a].at = v /\ run[a].step > n)

(* The workspace that 0006 takes from a namespace.                         *)
WorkspaceOf(row) ==
  IF row.namespace \in DOMAIN Stripped THEN Stripped[row.namespace] ELSE row.namespace

(* The operations of 0006 by what they do to the kept columns: 1 adds      *)
(* workspace, 2 and 3 fill it, 4 changes types, 10 drops namespace.        *)
RaisedRow(a, old, new) ==
  /\ new.type = IF PastUp(a, 4, 4) THEN Retyped(old.type) ELSE old.type
  /\ ~ PastUp(a, 4, 10) => new.namespace = old.namespace
  /\ new.workspace = IF PastUp(a, 4, 3) THEN WorkspaceOf(old)
                     ELSE IF PastUp(a, 4, 2) /\ old.namespace \in DOMAIN Stripped
                            THEN Stripped[old.namespace]
                          ELSE IF PastUp(a, 4, 1) THEN Null ELSE old.workspace
  /\ \/ new.superseded_by = old.superseded_by
     \/ run[a].from < 2 /\ new.superseded_by = Null

Raised(a) ==
  Rising(a) =>
    /\ DOMAIN RowsSeen(a) = DOMAIN rows
    /\ PastUp(a, 4, 1) => "memories" \in run[a].locks
    /\ run[a].from > 0 => \A i \in DOMAIN rows : RaisedRow(a, rows[i], RowsSeen(a)[i])

(* The last operation of the downgrade of 0006 drops workspace, the 11th   *)
(* of that of 0002 superseded_by, the last of that of 0001 the table.      *)
LoweredRow(a, old, new) ==
  /\ IF run[a].from < HeadRevision THEN new.workspace = old.workspace
     ELSE PastDown(a, 5, 8) => new.workspace = Null
  /\ IF run[a].from < 2 THEN new.superseded_by = old.superseded_by
     ELSE PastDown(a, 2, 11) => new.superseded_by = Null

Lowered(a) ==
  Falling(a) =>
    /\ DOMAIN RowsSeen(a) \subseteq DOMAIN rows
    /\ PastDown(a, 5, 8) \/ PastDown(a, 2, 11) \/ PastDown(a, 1, 6) =>
         "memories" \in run[a].locks
    /\ PastDown(a, 1, 6) => DOMAIN RowsSeen(a) = {}
    /\ \A i \in DOMAIN RowsSeen(a) : LoweredRow(a, rows[i], RowsSeen(a)[i])

Shaped ==
  DOMAIN run = Attempts /\ \A a \in Attempts : DOMAIN run[a] = DOMAIN Waiting

MigrationsInv ==
  /\ MigrationsTypeOK /\ Shaped /\ Exclusive /\ Apart(schema) /\ RowsFit
  /\ \A a \in Attempts :
       /\ Planned(a) /\ Raised(a) /\ Lowered(a)
       /\ DOMAIN run[a].rows \subseteq Rows
       /\ \A i \in DOMAIN run[a].rows : DOMAIN run[a].rows[i] = Tracked

-----------------------------------------------------------------------------
(* Schemas.  They are compared table by table: an operation changes no     *)
(* table but those it locks, and makes of the objects of a table what it   *)
(* makes of them in any schema.  So what an attempt has made of a table    *)
(* depends on what it found there, and not on what others did since.       *)

OwnTables == {"memories", "hebbian_edges", "memory_relations", "dream_runs"}
TypeStatusName == Name(TypeStatusIndex)
NamespaceScopeName == <<"index", "memories", "ix_memories_namespace_scope">>

(* The objects of table t, but for the extensions and some names.          *)
Core(s, t, Z) == {o \in s : o.kind # "extension" /\ o.table = t /\ Name(o) \notin Z}
Alike(s, u, Z) == \A t \in OwnTables : Core(s, t, Z) = Core(u, t, Z)

(* What DROP INDEX IF EXISTS may have missed, in another version's schema. *)
Loose(a) ==
  {TypeStatusName} \cup
  IF Falling(a) /\ run[a].from = 1
    THEN {<<"index", "memories", "ix_memories_embedding_hnsw">>,
          <<"index", "memories", "ix_memories_raw_content_trgm">>}
    ELSE {}

(* The schema that the script in hand is for, and what it should be by now.*)
Base(a) == IF run[a].from = 5 /\ run[a].at = 4 THEN Degraded ELSE Ladder[run[a].at]
Course(a) == IF run[a].step = 1 THEN Base(a) ELSE Stages(Base(a), Script(a))[run[a].step - 1]

(* In each table it has locked a is on its course, if it found the table as*)
(* it is at the version it started from; the others are not to change yet. *)
Follows(a) ==
  LET course == Course(a) IN
  \A t \in OwnTables :
    IF t \in run[a].locks
    THEN Core(schema, t, Loose(a)) = Core(Ladder[run[a].from], t, Loose(a)) =>
           Core(run[a].objects, t, Loose(a)) = Core(course, t, Loose(a))
    ELSE Core(course, t, Loose(a)) = Core(Ladder[run[a].from], t, Loose(a))

(* The index that 0004 adds if it is missing is there from 0004 on.        *)
Indexed(a) ==
  /\ PastUp(a, 2, 6) => "memories" \in run[a].locks
  /\ /\ run[a].from < 3 \/ Has(schema, TypeStatusName)
     /\ run[a].at >= 3 \/ PastUp(a, 2, 6)
     /\ ~ PastDown(a, 3, 1)
     => Has(SchemaSeen(a), TypeStatusName)

(* From what the downgrade of 0006 leaves there is no way on.              *)
Barred(a) ==
  /\ run[a].from = 4 =>
       /\ "memories" \in run[a].locks \/ (run[a].at = 4 /\ run[a].step = 1)
       /\ ~ Has(schema, NamespaceScopeName) =>
            /\ run[a].at = 4 /\ run[a].step <= (IF Falling(a) THEN 1 ELSE 5)
            /\ ~ Has(SchemaSeen(a), NamespaceScopeName)
  /\ run[a].from = 5 /\ run[a].at < 5 => run[a].at = 4 /\ run[a].step = 1

(* Once the memories are gone nothing of their table is left, and before   *)
(* namespace is NOT NULL again it is filled.                               *)
Emptied(a) == PastDown(a, 1, 6) => \A o \in run[a].objects : o.table # "memories"
Refilled(a) ==
  run[a].from = 5 /\ run[a].at = 5 /\ run[a].step = 3 =>
    /\ "memories" \in run[a].locks
    /\ \A i \in DOMAIN RowsSeen(a) : RowsSeen(a)[i].namespace # Null

(* Only a foreign key is on columns of another table.                      *)
Placed(s) ==
  \A o \in s :
    /\ o.kind = "extension" \/ o.table \in OwnTables
    /\ o.kind = "key" \/ \A c \in o.on : c[1] = o.table
    /\ Name(o) = TypeStatusName => o = TypeStatusIndex

(* The committed schema.                                                   *)
Schematic ==
  /\ Placed(schema)
  /\ \/ /\ Alike(schema, Ladder[version], {TypeStatusName})
        /\ version >= 3 => Has(schema, TypeStatusName)
        /\ version = 0 => \A o \in schema : o.table # "memories"
     \/ /\ version = 4 /\ Alike(schema, Degraded, {TypeStatusName})
        /\ Has(schema, TypeStatusName)

(* The inductive invariant, of the schemas too.                            *)
SchemaInv ==
  /\ MigrationsInv /\ Schematic
  /\ \A a \in Attempts :
       /\ Placed(run[a].objects) /\ Follows(a) /\ Indexed(a) /\ Barred(a)
       /\ Emptied(a) /\ Refilled(a)
=============================================================================
