----------------------- MODULE MigrationsSchemaProofs -----------------------
(***************************************************************************)
(* Proofs about the scripts of Migrations: that each operation succeeds on *)
(* what those before it leave, and what a script makes of the schema.      *)
(*                                                                         *)
(* An object that any revision creates is determined by its name, so these *)
(* schemas are sets of names; on those a script is followed operation by   *)
(* operation.  Nothing here depends on a constant or a variable.           *)
(***************************************************************************)
EXTENDS MigrationsInvariant, TLAPS

-----------------------------------------------------------------------------
(* Objects by name.                                                        *)

(* The columns under an index, a check or a unique constraint.             *)
ColumnsUnder ==
  [ix_memories_namespace |-> {"namespace"},
   ix_memories_session_id |-> {"session_id"},
   ix_memories_raw_content_trgm |-> {"raw_content"},
   ix_memories_embedding_hnsw |-> {"embedding"},
   uq_hebbian_edges_pair |-> {"source_id", "target_id"},
   uq_memory_relations_source_target_type |-> {"source_id", "target_id", "relation_type"},
   ix_memories_status |-> {"status"},
   ix_memories_type |-> {"type"},
   ix_memories_superseded_by |-> {"superseded_by"},
   ix_memory_relations_source_id |-> {"source_id"},
   ix_memory_relations_target_id |-> {"target_id"},
   ix_memory_relations_relation_type |-> {"relation_type"},
   ix_dream_runs_namespace |-> {"namespace"},
   ix_dream_runs_status |-> {"status"},
   ix_dream_runs_started_at |-> {"started_at"},
   ix_memories_type_status |-> {"type", "status"},
   ck_memories_scope |-> {"scope"},
   ix_memories_scope |-> {"scope"},
   ix_memories_namespace_scope |-> {"namespace", "scope"},
   ix_memories_active_workspace |-> {"status", "workspace"},
   ix_memories_workspace |-> {"workspace"}]

Superseding == "fk_memories_superseded_by_memories"

(* What the object of this name is on.                                     *)
On(n) ==
  IF n[1] \in {"not null", "default"} THEN {Column(n[2], n[3])}
  ELSE IF n[1] \in {"index", "check", "unique"} THEN {Column(n[2], c) : c \in ColumnsUnder[n[3]]}
  ELSE IF n[1] = "key"
         THEN {Column(n[2], IF n[3] = Superseding THEN "superseded_by" ELSE n[3]), Column("memories", "id")}
  ELSE {}

ObjectOf(n) == Object(n[1], n[2], n[3], On(n))
Schema(I) == {ObjectOf(n) : n \in I}
Triples(I) == \A n \in I : n = <<n[1], n[2], n[3]>>

LEMMA ObjectOfIs ==
  ASSUME NEW n, n = <<n[1], n[2], n[3]>>
  PROVE  /\ ObjectOf(n).kind = n[1] /\ ObjectOf(n).table = n[2] /\ ObjectOf(n).name = n[3]
         /\ ObjectOf(n).on = On(n) /\ Name(ObjectOf(n)) = n
  BY DEF ObjectOf, Object, Name

LEMMA SchemaHas ==
  ASSUME NEW I, Triples(I), NEW n
  PROVE  Has(Schema(I), n) <=> n \in I
  BY ObjectOfIs DEF Has, Schema, Triples

LEMMA SchemaColumns ==
  ASSUME NEW I, Triples(I)
  PROVE  /\ \A t, c : Column(t, c) \in ColumnsOf(Schema(I)) <=> <<"column", t, c>> \in I
         /\ \A x \in ColumnsOf(Schema(I)) : x = <<x[1], x[2]>>
<1>1. ASSUME NEW t, NEW c, Column(t, c) \in ColumnsOf(Schema(I)) PROVE <<"column", t, c>> \in I
  BY <1>1, ObjectOfIs DEF ColumnsOf, Schema, Triples, Column
<1>2. ASSUME NEW t, NEW c, <<"column", t, c>> \in I PROVE Column(t, c) \in ColumnsOf(Schema(I))
  <2>1. ObjectOf(<<"column", t, c>>) \in Schema(I)
    BY <1>2 DEF Schema
  <2> QED BY <2>1, ObjectOfIs DEF ColumnsOf
<1>3. \A x \in ColumnsOf(Schema(I)) : x = <<x[1], x[2]>>
  BY DEF ColumnsOf, Column
<1> QED BY <1>1, <1>2, <1>3

LEMMA SchemaUnion ==
  ASSUME NEW I, NEW J
  PROVE  Schema(I \cup J) = Schema(I) \cup Schema(J)
  BY DEF Schema

LEMMA OnHome ==
  ASSUME NEW n, NEW x \in On(n)
  PROVE  /\ x = <<x[1], x[2]>>
         /\ x[1] = n[2] \/ x = Column("memories", "id")
<1>1. \/ x = Column("memories", "id")
      \/ \E c : x = Column(n[2], c)
  BY DEF On
<1> QED BY <1>1 DEF Column

(* An operation of a revision: it creates objects of the own tables, drops *)
(* one of them, or updates rows; only some indexes are dropped if they are *)
(* there.                                                                  *)
LooseNames ==
  {TypeStatusName, <<"index", "memories", "ix_memories_embedding_hnsw">>,
   <<"index", "memories", "ix_memories_raw_content_trgm">>}

Dropping(n, lenient) ==
  /\ n = <<n[1], n[2], n[3]>> /\ n[2] \in OwnTables
  /\ n[1] \in {"table", "column", "index", "check", "key"}
  /\ n[1] = "table" => n[3] = n[2]
  /\ lenient <=> n \in LooseNames

Proper(op) ==
  \/ /\ op.do = "create" /\ Placed(op.what)
     /\ op.lenient \/ \A o \in op.what : Name(o) # TypeStatusName /\ o.kind # "extension"
  \/ op.do = "drop" /\ \E n : op.what = {n} /\ Dropping(n, op.lenient)
  \/ op.do \notin {"create", "drop"}

LEMMA PlacedSchema ==
  ASSUME NEW N, Triples(N), \A n \in N : n[1] = "extension" \/ n[2] \in OwnTables
  PROVE  Placed(Schema(N))
<1>1. TypeStatusIndex = ObjectOf(TypeStatusName)
  BY DEF TypeStatusIndex, TypeStatusName, ObjectOf, On, Index, Object, Name, ColumnsUnder
<1>2. ASSUME NEW n \in N
      PROVE  /\ ObjectOf(n).kind = "extension" \/ ObjectOf(n).table \in OwnTables
             /\ ObjectOf(n).kind = "key" \/ \A c \in ObjectOf(n).on : c[1] = ObjectOf(n).table
             /\ Name(ObjectOf(n)) = TypeStatusName => ObjectOf(n) = TypeStatusIndex
  <2>1. /\ ObjectOf(n).kind = n[1] /\ ObjectOf(n).table = n[2] /\ ObjectOf(n).on = On(n)
        /\ Name(ObjectOf(n)) = n
    BY ObjectOfIs DEF Triples
  <2>2. n[1] # "key" => \A x \in On(n) : \E c : x = Column(n[2], c)
    BY DEF On
  <2>3. n[1] # "key" => \A x \in On(n) : x[1] = n[2]
    BY <2>2 DEF Column
  <2> QED BY <1>1, <2>1, <2>3
<1> QED BY <1>2 DEF Placed, Schema

(* Operation op leads from the schema of the names I to that of J.  Where  *)
(* it marks a column NOT NULL, the rows decide.                            *)
Filling(s, rows_, op) ==
  op.do = "create" =>
    \A o \in op.what : o.kind = "not null" /\ o.table = "memories" => Filled(s \cup op.what, rows_, o)
Fitting(s, op) == \A rows_ : Filling(s, rows_, op) => Succeeds(s, rows_, op)
Leads(I, op, J) ==
  /\ Proper(op) /\ Triples(J) /\ After(Schema(I), op) = Schema(J)
  /\ Fitting(Schema(I), op)

-----------------------------------------------------------------------------
(* What an operation does to the names.                                    *)

(* Objects may be created if none of them is there, and their tables and   *)
(* the columns they are on are, or come with them.                         *)
Creating(I, N) ==
  /\ Triples(I) /\ Triples(N)
  /\ \A n \in N : n \notin I /\ n # TypeStatusName
  /\ \A n \in N : n[1] # "extension" /\ n[2] \in OwnTables
  /\ \A n \in N : <<"table", n[2], n[2]>> \in I \cup N
  /\ \A n \in N : \A x \in On(n) : <<"column", x[1], x[2]>> \in I \cup N

LEMMA CreateLeads ==
  ASSUME NEW I, NEW N, Creating(I, N)
  PROVE  Leads(I, Create(Schema(N)), I \cup N)
<1> DEFINE op == Create(Schema(N))
<1>0. /\ op.do = "create" /\ op.what = Schema(N) /\ ~ op.lenient
      /\ Triples(I) /\ Triples(N) /\ Triples(I \cup N)
  BY DEF Create, Op, Creating, Triples
<1>1. \A o \in op.what : ~ Has(Schema(I), Name(o))
  <2>1. TAKE o \in op.what
  <2>2. PICK n \in N : o = ObjectOf(n)
    BY <1>0 DEF Schema
  <2>3. Name(o) = n
    BY <1>0, <2>2, ObjectOfIs DEF Triples
  <2> QED BY <1>0, <2>3, SchemaHas DEF Creating
<1>2. After(Schema(I), op) = Schema(I \cup N)
  BY <1>0, <1>1, SchemaUnion DEF After
<1>3. ASSUME NEW rows_, Filling(Schema(I), rows_, op)
      PROVE  Succeeds(Schema(I), rows_, op)
  <2>1. ASSUME NEW o \in op.what
        PROVE  /\ o.kind # "extension" => Has(Schema(I) \cup op.what, <<"table", o.table, o.table>>)
               /\ o.on \subseteq ColumnsOf(Schema(I) \cup op.what)
               /\ o.kind = "not null" /\ o.table = "memories" => Filled(Schema(I) \cup op.what, rows_, o)
    <3>1. PICK n \in N : o = ObjectOf(n)
      BY <1>0, <2>1 DEF Schema
    <3>2. o.kind = n[1] /\ o.table = n[2] /\ o.on = On(n)
      BY <1>0, <3>1, ObjectOfIs DEF Triples
    <3>3. Schema(I) \cup op.what = Schema(I \cup N)
      BY <1>0, SchemaUnion
    <3>4. o.kind # "extension" => Has(Schema(I) \cup op.what, <<"table", o.table, o.table>>)
      <4>1. n[1] # "extension" => <<"table", n[2], n[2]>> \in I \cup N
        BY DEF Creating
      <4>2. n[1] # "extension" => Has(Schema(I \cup N), <<"table", n[2], n[2]>>)
        BY <1>0, <4>1, SchemaHas
      <4> QED BY <3>2, <3>3, <4>2
    <3>5. ASSUME NEW x \in On(n) PROVE x \in ColumnsOf(Schema(I \cup N))
      <4>1. x = Column(x[1], x[2]) /\ <<"column", x[1], x[2]>> \in I \cup N
        BY <3>5, OnHome DEF Creating, Column
      <4> QED BY <1>0, <4>1, SchemaColumns
    <3>6. o.on \subseteq ColumnsOf(Schema(I) \cup op.what)
      BY <3>2, <3>3, <3>5
    <3> QED BY <1>0, <1>3, <2>1, <3>4, <3>6 DEF Filling
  <2> QED BY <1>0, <1>1, <2>1 DEF Succeeds, Creatable
<1>4. Proper(op)
  <2>1. Placed(Schema(N))
    BY <1>0, PlacedSchema DEF Creating
  <2>2. \A n \in N : Name(ObjectOf(n)) # TypeStatusName /\ ObjectOf(n).kind # "extension"
    BY <1>0, ObjectOfIs DEF Creating, Triples
  <2> QED BY <1>0, <2>1, <2>2 DEF Proper, Schema
<1> QED BY <1>0, <1>2, <1>3, <1>4 DEF Leads, Fitting

LEMMA CreateIfMissingLeads ==
  ASSUME NEW I, Triples(I), NEW n, n = <<n[1], n[2], n[3]>>, n[1] # "not null",
         n[1] = "extension" \/ n[2] \in OwnTables,
         n[1] # "extension" => <<"table", n[2], n[2]>> \in I,
         \A x \in On(n) : <<"column", x[1], x[2]>> \in I
  PROVE  Leads(I, CreateIfMissing(ObjectOf(n)), I \cup {n})
<1> DEFINE op == CreateIfMissing(ObjectOf(n))
           o == ObjectOf(n)
<1>0. /\ op.do = "create" /\ op.what = {o} /\ op.lenient
      /\ Triples(I \cup {n}) /\ Schema(I \cup {n}) = Schema(I) \cup {o}
  BY DEF CreateIfMissing, Op, Triples, Schema
<1>1. o.kind = n[1] /\ o.table = n[2] /\ o.on = On(n) /\ Name(o) = n
  BY ObjectOfIs
<1>2. After(Schema(I), op) = Schema(I \cup {n})
  <2>1. After(Schema(I), op) = Schema(I) \cup {p \in {o} : ~ Has(Schema(I), Name(p))}
    BY <1>0 DEF After
  <2>2. CASE n \in I
    <3>1. Has(Schema(I), Name(o))
      BY <1>1, <2>2, SchemaHas
    <3>2. o \in Schema(I)
      BY <2>2 DEF Schema
    <3> QED BY <1>0, <2>1, <3>1, <3>2
  <2>3. CASE n \notin I
    <3>1. ~ Has(Schema(I), Name(o))
      BY <1>1, <2>3, SchemaHas
    <3> QED BY <1>0, <2>1, <3>1
  <2> QED BY <2>2, <2>3
<1>3. ASSUME NEW rows_ PROVE Succeeds(Schema(I), rows_, op)
  <2>0. Triples(I \cup {n})
    BY <1>0
  <2>1. n[1] # "extension" => Has(Schema(I \cup {n}), <<"table", n[2], n[2]>>)
    <3>1. n[1] # "extension" => <<"table", n[2], n[2]>> \in I \cup {n}
      OBVIOUS
    <3> QED BY <2>0, <3>1, SchemaHas
  <2>2. ASSUME NEW x \in On(n) PROVE x \in ColumnsOf(Schema(I \cup {n}))
    <3>1. x = Column(x[1], x[2]) /\ <<"column", x[1], x[2]>> \in I \cup {n}
      BY <2>2, OnHome DEF Column
    <3>2. Column(x[1], x[2]) \in ColumnsOf(Schema(I \cup {n}))
      <4>1. <<"column", x[1], x[2]>> \in I \cup {n}
        BY <3>1
      <4> QED BY ONLY <2>0, <4>1, SchemaColumns
    <3> QED BY <3>1, <3>2
  <2> QED BY <1>0, <1>1, <2>1, <2>2 DEF Succeeds, Creatable
<1>4. Proper(op)
  <2>1. Placed(Schema({n}))
    BY PlacedSchema DEF Triples
  <2>2. Schema({n}) = op.what
    BY <1>0 DEF Schema
  <2> QED BY <1>0, <2>1, <2>2 DEF Proper
<1> QED BY <1>0, <1>2, <1>3, <1>4 DEF Leads, Fitting

LEMMA UpdateLeads ==
  ASSUME NEW I, Triples(I), NEW rule, rule \notin {"create", "drop"}
  PROVE  Leads(I, Update(rule), I)
  BY DEF Leads, Proper, Fitting, Succeeds, After, Update, Op

(* An index, a check or a key goes alone.                                  *)
LEMMA DropLeads ==
  ASSUME NEW I, Triples(I), NEW n \in I, n[1] \in {"index", "check", "key"}, NEW lenient,
         Dropping(n, lenient)
  PROVE  Leads(I, Op("drop", {n}, lenient), I \ {n})
<1> DEFINE op == Op("drop", {n}, lenient)
<1>0. op.do = "drop" /\ op.what = {n} /\ op.lenient = lenient /\ Triples(I \ {n}) /\ Proper(op)
  BY DEF Op, Triples, Proper
<1>1. \A m \in I : Within(n, ObjectOf(m)) <=> m = n
  BY ObjectOfIs DEF Within, Triples
<1>2. DoomedColumns(Schema(I), n) = {}
  BY <1>1, ObjectOfIs DEF DoomedColumns, ColumnsOf, Schema, Triples
<1>3. Doomed(Schema(I), n) = {ObjectOf(n)}
  BY <1>1, <1>2 DEF Doomed, Schema
<1>4. After(Schema(I), op) = Schema(I) \ {ObjectOf(n)}
  BY <1>0, <1>3 DEF After
<1>5. Schema(I) \ {ObjectOf(n)} = Schema(I \ {n})
  BY ObjectOfIs DEF Schema, Triples
<1>6. Has(Schema(I), n) /\ ~ Referenced(Schema(I), n)
  BY <1>2, SchemaHas DEF Referenced
<1> QED BY <1>0, <1>4, <1>5, <1>6 DEF Leads, Fitting, Succeeds, Droppable

(* A table goes with all that is in it.                                    *)
LEMMA DropTableLeads ==
  ASSUME NEW I, Triples(I), NEW t \in OwnTables, <<"table", t, t>> \in I,
         t = "memories" => \A u, x : u = t \/ <<"key", u, x>> \notin I
  PROVE  Leads(I, DropTable(t), {n \in I : n[2] # t})
<1> DEFINE op == DropTable(t)
           name == <<"table", t, t>>
           J == {n \in I : n[2] # t}
<1>0. op.do = "drop" /\ op.what = {name} /\ Triples(J) /\ Proper(op)
  <2>1. Dropping(name, FALSE)
    BY DEF Dropping, LooseNames, TypeStatusName, TypeStatusIndex, Index, Object, Name
  <2> QED BY <2>1 DEF DropTable, Drop, Op, Triples, Proper
<1>1. \A m \in I : Within(name, ObjectOf(m)) <=> m[2] = t
  BY ObjectOfIs DEF Within, Triples
<1>2. \A x \in DoomedColumns(Schema(I), name) : x[1] = t
  BY <1>1, ObjectOfIs DEF DoomedColumns, ColumnsOf, Schema, Triples, Column
<1>3. Doomed(Schema(I), name) = {ObjectOf(n) : n \in {m \in I : m[2] = t}}
  BY <1>1, ObjectOfIs DEF Doomed, Schema, Triples
<1>4. After(Schema(I), op) = Schema(J)
  <2>1. After(Schema(I), op) = Schema(I) \ Doomed(Schema(I), name)
    BY <1>0 DEF After
  <2>2. \A o : o \in Schema(I) \ Doomed(Schema(I), name) <=> o \in Schema(J)
    BY <1>3, ObjectOfIs DEF Schema, Triples
  <2> QED BY <2>1, <2>2
<1>5. ~ Referenced(Schema(I), name)
  <2>1. ASSUME NEW n \in I, n[2] # t, NEW x \in On(n), x \in DoomedColumns(Schema(I), name) PROVE FALSE
    <3>1. x[1] = t
      BY <1>2, <2>1
    <3>2. x = Column("memories", "id") /\ t = "memories"
      BY <2>1, <3>1, OnHome DEF Column
    <3>3. n[1] # "key"
      BY <2>1, <3>2 DEF Triples
    <3>4. \E c : x = Column(n[2], c)
      BY <2>1, <3>3 DEF On
    <3> QED BY <2>1, <3>1, <3>4 DEF Column
  <2>2. ASSUME NEW n \in I
        PROVE  ~ (ObjectOf(n).table # name[2] /\ ObjectOf(n).on \cap DoomedColumns(Schema(I), name) # {})
    BY <2>1, ObjectOfIs DEF Triples
  <2> QED BY <2>2 DEF Referenced, Schema
<1>6. Has(Schema(I), name)
  BY SchemaHas
<1> QED BY <1>0, <1>4, <1>5, <1>6 DEF Leads, Fitting, Succeeds, Droppable

(* A column goes with its marks, once nothing else in the table is on it.  *)
ColumnNames(t, C) == {<<"column", t, c>> : c \in C}
MarkNames(t, C) == {<<"not null", t, c>> : c \in C}
DefaultNames(t, C) == {<<"default", t, c>> : c \in C}

LEMMA DropColumnLeads ==
  ASSUME NEW I, Triples(I), NEW t \in OwnTables, NEW c, <<"column", t, c>> \in I,
         Column(t, c) # Column("memories", "id"),
         \A k \in {"index", "check", "unique", "key"} : \A x :
           <<k, t, x>> \in I => Column(t, c) \notin On(<<k, t, x>>)
  PROVE  Leads(I, DropColumn(t, c), I \ {<<"column", t, c>>, <<"not null", t, c>>, <<"default", t, c>>})
<1> DEFINE op == DropColumn(t, c)
           name == <<"column", t, c>>
           gone == {name, <<"not null", t, c>>, <<"default", t, c>>}
           J == I \ gone
<1>0. op.do = "drop" /\ op.what = {name} /\ Triples(J) /\ Proper(op)
  <2>1. Dropping(name, FALSE)
    BY DEF Dropping, LooseNames, TypeStatusName, TypeStatusIndex, Index, Object, Name
  <2> QED BY <2>1 DEF DropColumn, Drop, Op, Triples, Proper
<1>1. \A m \in I : Within(name, ObjectOf(m)) <=> m = name
  BY ObjectOfIs DEF Within, Triples
<1>2. DoomedColumns(Schema(I), name) = {Column(t, c)}
  <2>1. {o \in Schema(I) : Within(name, o)} = {ObjectOf(name)}
    BY <1>1 DEF Schema
  <2> QED BY <2>1, ObjectOfIs DEF DoomedColumns, ColumnsOf
<1>3. ASSUME NEW m \in I
      PROVE  ObjectOf(m) \in Doomed(Schema(I), name) <=> m \in gone
  <2>1. /\ ObjectOf(m) \in Schema(I) /\ ObjectOf(m).table = m[2] /\ ObjectOf(m).on = On(m)
        /\ m = <<m[1], m[2], m[3]>>
    BY ObjectOfIs DEF Schema, Triples
  <2>2. ObjectOf(m) \in Doomed(Schema(I), name) <=> m = name \/ (m[2] = t /\ Column(t, c) \in On(m))
    BY <1>1, <1>2, <2>1 DEF Doomed
  <2>3. ASSUME m[2] = t, Column(t, c) \in On(m) PROVE m \in gone
    <3>1. m[1] \in {"not null", "default"}
      <4>1. m[1] \in {"index", "check", "unique", "key"} => Column(t, c) \notin On(m)
        BY <2>1, <2>3
      <4> QED BY <2>3, <4>1 DEF On
    <3>2. On(m) = {Column(t, m[3])}
      BY <2>3, <3>1 DEF On
    <3>3. m[3] = c
      BY <2>3, <3>2 DEF Column
    <3> QED BY <2>1, <2>3, <3>1, <3>3
  <2>4. ASSUME m \in gone, m # name PROVE m[2] = t /\ Column(t, c) \in On(m)
    <3>1. m = <<"not null", t, c>> \/ m = <<"default", t, c>>
      BY <2>4
    <3>2. m[1] \in {"not null", "default"} /\ m[2] = t /\ m[3] = c
      <4>1. CASE m = <<"not null", t, c>>
        BY ONLY <4>1
      <4>2. CASE m = <<"default", t, c>>
        BY ONLY <4>2
      <4> QED BY <3>1, <4>1, <4>2
    <3> QED BY <3>2 DEF On
  <2> QED BY <2>2, <2>3, <2>4
<1>4. After(Schema(I), op) = Schema(J)
  <2>1. After(Schema(I), op) = Schema(I) \ Doomed(Schema(I), name)
    BY <1>0 DEF After
  <2>2. \A m \in I : ObjectOf(m) \in Doomed(Schema(I), name) <=> m \in gone
    BY <1>3
  <2> HIDE DEF name, gone
  <2>3. \A o : o \in Schema(I) \ Doomed(Schema(I), name) <=> o \in Schema(I \ gone)
    BY <2>2 DEF Schema
  <2> QED BY <2>1, <2>3
<1>5. ~ Referenced(Schema(I), name)
  <2>1. ASSUME NEW n \in I, n[2] # t PROVE Column(t, c) \notin On(n)
    BY <2>1, OnHome DEF Column
  <2>2. ASSUME NEW n \in I
        PROVE  ~ (ObjectOf(n).table # name[2] /\ ObjectOf(n).on \cap DoomedColumns(Schema(I), name) # {})
    BY <1>2, <2>1, ObjectOfIs DEF Triples
  <2> QED BY <2>2 DEF Referenced, Schema
<1>6. Has(Schema(I), name)
  BY SchemaHas
<1> QED BY <1>0, <1>4, <1>5, <1>6 DEF Leads, Fitting, Succeeds, Droppable

-----------------------------------------------------------------------------
(* The names that the blocks of a revision create.                         *)

RequiredNames(t, C) == ColumnNames(t, C) \cup MarkNames(t, C)
DefaultedNames(t, C) == RequiredNames(t, C) \cup DefaultNames(t, C)
TableName(t) == <<"table", t, t>>

LEMMA NamedObjects ==
  /\ \A t : ObjectOf(TableName(t)) = Object("table", t, t, {})
  /\ \A t, c : /\ ObjectOf(<<"column", t, c>>) = Object("column", t, c, {})
              /\ ObjectOf(<<"not null", t, c>>) = NotNull(t, c)
              /\ ObjectOf(<<"default", t, c>>) = Object("default", t, c, {Column(t, c)})
  /\ \A e : ObjectOf(<<"extension", "pg_extension", e>>) = Extension(e)
  /\ \A t, name : /\ ObjectOf(<<"index", t, name>>) = Index(t, name, ColumnsUnder[name])
                 /\ ObjectOf(<<"check", t, name>>) = Check(t, name, ColumnsUnder[name])
                 /\ ObjectOf(<<"unique", t, name>>) = Unique(t, name, ColumnsUnder[name])
  /\ \A t, c : c # Superseding => ObjectOf(<<"key", t, c>>) = ForeignKey(t, c, c)
  /\ \A t : ObjectOf(<<"key", t, Superseding>>) = ForeignKey(t, "superseded_by", Superseding)
<1>1. \A t : ObjectOf(TableName(t)) = Object("table", t, t, {})
  BY DEF TableName, ObjectOf, On
<1>2. \A t, c : ObjectOf(<<"column", t, c>>) = Object("column", t, c, {})
  BY DEF ObjectOf, On
<1>3. \A t, c : ObjectOf(<<"not null", t, c>>) = NotNull(t, c)
  BY DEF ObjectOf, On, NotNull
<1>4. \A t, c : ObjectOf(<<"default", t, c>>) = Object("default", t, c, {Column(t, c)})
  BY DEF ObjectOf, On
<1>5. \A e : ObjectOf(<<"extension", "pg_extension", e>>) = Extension(e)
  BY DEF ObjectOf, On, Extension
<1>6. \A t, name : ObjectOf(<<"index", t, name>>) = Index(t, name, ColumnsUnder[name])
  BY DEF ObjectOf, On, Index
<1>7. \A t, name : ObjectOf(<<"check", t, name>>) = Check(t, name, ColumnsUnder[name])
  BY DEF ObjectOf, On, Check
<1>8. \A t, name : ObjectOf(<<"unique", t, name>>) = Unique(t, name, ColumnsUnder[name])
  BY DEF ObjectOf, On, Unique
<1>9. \A t, c : c # Superseding => ObjectOf(<<"key", t, c>>) = ForeignKey(t, c, c)
  BY DEF ObjectOf, On, ForeignKey
<1>10. \A t : ObjectOf(<<"key", t, Superseding>>) = ForeignKey(t, "superseded_by", Superseding)
  BY DEF ObjectOf, On, ForeignKey
<1> QED BY <1>1, <1>2, <1>3, <1>4, <1>5, <1>6, <1>7, <1>8, <1>9, <1>10

LEMMA BlocksOf ==
  /\ \A t, C : /\ Nullable(t, C) = Schema(ColumnNames(t, C))
              /\ Required(t, C) = Schema(RequiredNames(t, C))
              /\ Defaulted(t, C) = Schema(DefaultedNames(t, C))
  /\ \A t, N : Table(t, Schema(N)) = Schema({TableName(t)} \cup N)
  /\ \A n : {ObjectOf(n)} = Schema({n})
<1>1. ASSUME NEW t, NEW C PROVE Nullable(t, C) = Schema(ColumnNames(t, C))
  <2>1. Schema(ColumnNames(t, C)) = {ObjectOf(<<"column", t, c>>) : c \in C}
    BY DEF Schema, ColumnNames
  <2> QED BY <2>1, NamedObjects DEF Nullable
<1>2. ASSUME NEW t, NEW C PROVE {NotNull(t, c) : c \in C} = Schema(MarkNames(t, C))
  <2>1. Schema(MarkNames(t, C)) = {ObjectOf(<<"not null", t, c>>) : c \in C}
    BY DEF Schema, MarkNames
  <2> QED BY <2>1, NamedObjects
<1>3. ASSUME NEW t, NEW C
      PROVE  {Object("default", t, c, {Column(t, c)}) : c \in C} = Schema(DefaultNames(t, C))
  <2>1. Schema(DefaultNames(t, C)) = {ObjectOf(<<"default", t, c>>) : c \in C}
    BY DEF Schema, DefaultNames
  <2> QED BY <2>1, NamedObjects
<1>4. ASSUME NEW t, NEW C PROVE Required(t, C) = Schema(RequiredNames(t, C))
  <2>1. Schema(RequiredNames(t, C)) = Schema(ColumnNames(t, C)) \cup Schema(MarkNames(t, C))
    BY SchemaUnion DEF RequiredNames
  <2>2. Nullable(t, C) = Schema(ColumnNames(t, C)) /\ {NotNull(t, c) : c \in C} = Schema(MarkNames(t, C))
    BY <1>1, <1>2
  <2> QED BY <2>1, <2>2 DEF Required
<1>5. ASSUME NEW t, NEW C PROVE Defaulted(t, C) = Schema(DefaultedNames(t, C))
  <2>1. Schema(DefaultedNames(t, C)) = Schema(RequiredNames(t, C)) \cup Schema(DefaultNames(t, C))
    BY SchemaUnion DEF DefaultedNames
  <2>2. /\ Required(t, C) = Schema(RequiredNames(t, C))
        /\ {Object("default", t, c, {Column(t, c)}) : c \in C} = Schema(DefaultNames(t, C))
    BY <1>3, <1>4
  <2> QED BY <2>1, <2>2 DEF Defaulted
<1>6. \A n : {ObjectOf(n)} = Schema({n})
  BY DEF Schema
<1>7. ASSUME NEW t, NEW N PROVE Table(t, Schema(N)) = Schema({TableName(t)} \cup N)
  <2>1. Schema({TableName(t)} \cup N) = {ObjectOf(TableName(t))} \cup Schema(N)
    <3>1. Schema({TableName(t)} \cup N) = Schema({TableName(t)}) \cup Schema(N)
      BY SchemaUnion
    <3> QED BY <1>6, <3>1
  <2> QED BY <2>1, NamedObjects DEF Table
<1> QED BY <1>1, <1>4, <1>5, <1>6, <1>7

KeyNames(t, C) == {<<"key", t, c>> : c \in C}

LEMMA KeysOf ==
  ASSUME NEW t, NEW C, Superseding \notin C
  PROVE  {ForeignKey(t, c, c) : c \in C} = Schema(KeyNames(t, C))
<1>1. Schema(KeyNames(t, C)) = {ObjectOf(<<"key", t, c>>) : c \in C}
  BY DEF Schema, KeyNames
<1>2. \A c \in C : ObjectOf(<<"key", t, c>>) = ForeignKey(t, c, c)
  BY NamedObjects
<1> QED BY <1>1, <1>2

LEMMA UniqueOf ==
  ASSUME NEW t, NEW name, NEW C, C = ColumnsUnder[name]
  PROVE  {Unique(t, name, C)} = Schema({<<"unique", t, name>>})
<1>1. ObjectOf(<<"unique", t, name>>) = Unique(t, name, C)
  BY NamedObjects
<1> QED BY <1>1, BlocksOf

(* A block of names of table t, whose marks and constraints are on columns *)
(* of the block, or of C.                                                  *)
Block(N, t, C) ==
  \A n \in N : /\ n = <<n[1], t, n[3]>> /\ n[1] \notin {"extension", "index"}
              /\ \A x \in On(n) : x \in C \/ <<"column", x[1], x[2]>> \in N

LEMMA Blocks ==
  ASSUME NEW t, NEW C
  PROVE  /\ \A D : /\ Block(ColumnNames(t, D), t, C)
                  /\ Block(RequiredNames(t, D), t, C)
                  /\ Block(DefaultedNames(t, D), t, C)
         /\ \A N, M : Block(N, t, C) /\ Block(M, t, C) => Block(N \cup M, t, C)
         /\ Block({TableName(t)}, t, C)
<1>1. \A c : On(<<"column", t, c>>) = {} /\ On(<<"table", t, c>>) = {}
  BY DEF On
<1>2. \A c : On(<<"not null", t, c>>) = {Column(t, c)} /\ On(<<"default", t, c>>) = {Column(t, c)}
  BY DEF On
<1>0. ASSUME NEW n, NEW c, n = <<"column", t, c>> \/ n = <<"not null", t, c>> \/ n = <<"default", t, c>>
      PROVE  /\ n = <<n[1], t, n[3]>> /\ n[1] \notin {"extension", "index"}
             /\ \A x \in On(n) : x[1] = t /\ x[2] = c
  <2>1. CASE n = <<"column", t, c>>
    BY <1>1, <2>1
  <2>2. CASE n = <<"not null", t, c>>
    <3>1. \A x \in {Column(t, c)} : x[1] = t /\ x[2] = c
      BY DEF Column
    <3> QED BY <1>2, <2>2, <3>1
  <2>3. CASE n = <<"default", t, c>>
    <3>1. \A x \in {Column(t, c)} : x[1] = t /\ x[2] = c
      BY DEF Column
    <3> QED BY <1>2, <2>3, <3>1
  <2> QED BY <1>0, <2>1, <2>2, <2>3
<1>3. ASSUME NEW D PROVE Block(ColumnNames(t, D), t, C)
  BY <1>1 DEF Block, ColumnNames
<1>4. ASSUME NEW D PROVE Block(RequiredNames(t, D), t, C)
  <2>1. ASSUME NEW n \in RequiredNames(t, D)
        PROVE  \E c \in D : n = <<"column", t, c>> \/ n = <<"not null", t, c>>
    BY DEF RequiredNames, ColumnNames, MarkNames
  <2>2. \A c \in D : <<"column", t, c>> \in RequiredNames(t, D)
    BY DEF RequiredNames, ColumnNames
  <2>3. ASSUME NEW n \in RequiredNames(t, D), NEW x \in On(n)
        PROVE  <<"column", x[1], x[2]>> \in RequiredNames(t, D)
    <3>1. PICK c \in D : n = <<"column", t, c>> \/ n = <<"not null", t, c>> \/ n = <<"default", t, c>>
      BY <2>1
    <3>2. x[1] = t /\ x[2] = c
      BY <1>0, <2>3, <3>1
    <3> QED BY <2>2, <3>2
  <2>4. \A n \in RequiredNames(t, D) : n = <<n[1], t, n[3]>> /\ n[1] \notin {"extension", "index"}
    BY <1>0, <2>1
  <2> QED BY <2>3, <2>4 DEF Block
<1>5. ASSUME NEW D PROVE Block(DefaultedNames(t, D), t, C)
  <2>1. ASSUME NEW n \in DefaultedNames(t, D)
        PROVE  \E c \in D : n = <<"column", t, c>> \/ n = <<"not null", t, c>> \/ n = <<"default", t, c>>
    BY DEF DefaultedNames, RequiredNames, ColumnNames, MarkNames, DefaultNames
  <2>2. \A c \in D : <<"column", t, c>> \in DefaultedNames(t, D)
    BY DEF DefaultedNames, RequiredNames, ColumnNames
  <2>3. ASSUME NEW n \in DefaultedNames(t, D), NEW x \in On(n)
        PROVE  <<"column", x[1], x[2]>> \in DefaultedNames(t, D)
    <3>1. PICK c \in D : n = <<"column", t, c>> \/ n = <<"not null", t, c>> \/ n = <<"default", t, c>>
      BY <2>1
    <3>2. x[1] = t /\ x[2] = c
      BY <1>0, <2>3, <3>1
    <3> QED BY <2>2, <3>2
  <2>4. \A n \in DefaultedNames(t, D) : n = <<n[1], t, n[3]>> /\ n[1] \notin {"extension", "index"}
    BY <1>0, <2>1
  <2> QED BY <2>3, <2>4 DEF Block
<1>6. \A N, M : Block(N, t, C) /\ Block(M, t, C) => Block(N \cup M, t, C)
  BY DEF Block
<1>7. Block({TableName(t)}, t, C)
  BY <1>1 DEF Block, TableName
<1> QED BY <1>3, <1>4, <1>5, <1>6, <1>7

LEMMA KeysBlock ==
  ASSUME NEW t, NEW K, NEW N, Block(N, t, K), NEW C, \A c \in C : <<"column", t, c>> \in N,
         Superseding \notin C, Column("memories", "id") \in K
  PROVE  Block(N \cup KeyNames(t, C), t, K)
<1>1. ASSUME NEW c \in C, NEW x \in On(<<"key", t, c>>)
      PROVE  x = Column(t, c) \/ x = Column("memories", "id")
  BY <1>1 DEF On
<1>2. ASSUME NEW n \in KeyNames(t, C)
      PROVE  /\ n = <<n[1], t, n[3]>> /\ n[1] \notin {"extension", "index"}
             /\ \A x \in On(n) : x \in K \/ <<"column", x[1], x[2]>> \in N
  <2>1. PICK c \in C : n = <<"key", t, c>>
    BY <1>2 DEF KeyNames
  <2>2. <<"column", Column(t, c)[1], Column(t, c)[2]>> \in N
    BY DEF Column
  <2> QED BY <1>1, <2>1, <2>2
<1> QED BY <1>2 DEF Block

LEMMA UniqueBlock ==
  ASSUME NEW t, NEW K, NEW N, Block(N, t, K), NEW name,
         \A c \in ColumnsUnder[name] : <<"column", t, c>> \in N
  PROVE  Block(N \cup {<<"unique", t, name>>}, t, K)
<1>1. \A x \in On(<<"unique", t, name>>) : <<"column", x[1], x[2]>> \in N
  BY DEF On, Column
<1> QED BY <1>1 DEF Block

LEMMA BlockLeads ==
  ASSUME NEW I, Triples(I), NEW t \in OwnTables, NEW N, NEW C,
         \A x \in C : <<"column", x[1], x[2]>> \in I,
         Block(N, t, C), TableName(t) \in I \cup N, \A n \in N : n \notin I
  PROVE  Leads(I, Create(Schema(N)), I \cup N)
<1>1. Creating(I, N)
  BY DEF Block, Creating, Triples, TableName, TypeStatusName, TypeStatusIndex, Index, Object, Name
<1> QED BY <1>1, CreateLeads

LEMMA NullableLeads ==
  ASSUME NEW I, Triples(I), NEW t \in OwnTables, NEW C, TableName(t) \in I, \A c \in C : <<"column", t, c>> \notin I
  PROVE  Leads(I, Create(Nullable(t, C)), I \cup ColumnNames(t, C))
<1>1. Block(ColumnNames(t, C), t, {})
  BY Blocks
<1>2. \A n \in ColumnNames(t, C) : n \notin I
  BY DEF ColumnNames
<1> QED BY <1>1, <1>2, BlockLeads, BlocksOf

LEMMA DefaultedLeads ==
  ASSUME NEW I, Triples(I), NEW t \in OwnTables, NEW C, TableName(t) \in I,
         \A c \in C : /\ <<"column", t, c>> \notin I /\ <<"not null", t, c>> \notin I
                     /\ <<"default", t, c>> \notin I
  PROVE  Leads(I, Create(Defaulted(t, C)), I \cup DefaultedNames(t, C))
<1>1. Block(DefaultedNames(t, C), t, {})
  BY Blocks
<1>2. \A n \in DefaultedNames(t, C) : n \notin I
  BY DEF DefaultedNames, RequiredNames, ColumnNames, MarkNames, DefaultNames
<1>3. Leads(I, Create(Schema(DefaultedNames(t, C))), I \cup DefaultedNames(t, C))
  <2>1. TableName(t) \in I \cup DefaultedNames(t, C) /\ \A x \in {} : <<"column", x[1], x[2]>> \in I
    OBVIOUS
  <2> QED BY ONLY Triples(I), <1>1, <1>2, <2>1, BlockLeads
<1> QED BY <1>3, BlocksOf

LEMMA TableLeads ==
  ASSUME NEW I, Triples(I), NEW t \in OwnTables, NEW N, NEW C,
         \A x \in C : <<"column", x[1], x[2]>> \in I,
         Block(N, t, C), \A k, x : <<k, t, x>> \notin I
  PROVE  Leads(I, Create(Table(t, Schema(N))), I \cup ({TableName(t)} \cup N))
<1>1. Block({TableName(t)} \cup N, t, C)
  BY Blocks
<1>2. \A n \in {TableName(t)} \cup N : n \notin I
  <2>1. \A n \in {TableName(t)} \cup N : n = <<n[1], t, n[3]>>
    BY <1>1 DEF Block
  <2> QED BY <2>1
<1>3. Leads(I, Create(Schema({TableName(t)} \cup N)), I \cup ({TableName(t)} \cup N))
  BY <1>1, <1>2, BlockLeads
<1> QED BY <1>3, BlocksOf

LEMMA OneLeads ==
  ASSUME NEW I, Triples(I), NEW n, n = <<n[1], n[2], n[3]>>, n \notin I, TableName(n[2]) \in I,
         n[1] # "extension", n[2] \in OwnTables, n # TypeStatusName,
         \A x \in On(n) : <<"column", x[1], x[2]>> \in I
  PROVE  Leads(I, Create({ObjectOf(n)}), I \cup {n})
<1>1. Creating(I, {n})
  BY DEF Creating, Triples, TableName
<1> QED BY <1>1, CreateLeads, BlocksOf

LEMMA IndexLeads ==
  ASSUME NEW I, Triples(I), NEW t \in OwnTables, NEW name, name # "ix_memories_type_status", NEW C, C = ColumnsUnder[name], TableName(t) \in I,
         <<"index", t, name>> \notin I, \A c \in C : <<"column", t, c>> \in I
  PROVE  Leads(I, CreateIndex(t, name, C), I \cup {<<"index", t, name>>})
<1>1. \A x \in On(<<"index", t, name>>) : <<"column", x[1], x[2]>> \in I
  BY DEF On, Column
<1>2. CreateIndex(t, name, C) = Create({ObjectOf(<<"index", t, name>>)})
  BY NamedObjects DEF CreateIndex
<1>3. <<"index", t, name>> # TypeStatusName
  BY DEF TypeStatusName, TypeStatusIndex, Index, Object, Name
<1> QED BY <1>1, <1>2, <1>3, OneLeads

LEMMA ExtensionLeads ==
  ASSUME NEW I, Triples(I), NEW e
  PROVE  Leads(I, CreateIfMissing(Extension(e)), I \cup {<<"extension", "pg_extension", e>>})
<1> DEFINE n == <<"extension", "pg_extension", e>>
<1>1. n[1] = "extension" /\ n = <<n[1], n[2], n[3]>>
  OBVIOUS
<1>2. On(n) = {}
  BY DEF On
<1>3. Leads(I, CreateIfMissing(ObjectOf(n)), I \cup {n})
  BY <1>1, <1>2, CreateIfMissingLeads
<1> QED BY <1>3, NamedObjects

LEMMA IndexIfMissingLeads ==
  ASSUME NEW I, Triples(I), NEW t \in OwnTables, NEW name, NEW C, C = ColumnsUnder[name], TableName(t) \in I,
         \A c \in C : <<"column", t, c>> \in I
  PROVE  Leads(I, CreateIfMissing(Index(t, name, C)), I \cup {<<"index", t, name>>})
<1> DEFINE n == <<"index", t, name>>
<1>1. n[1] = "index" /\ n[2] = t /\ n = <<n[1], n[2], n[3]>>
  OBVIOUS
<1>2. \A x \in On(n) : <<"column", x[1], x[2]>> \in I
  BY DEF On, Column
<1>3. Leads(I, CreateIfMissing(ObjectOf(n)), I \cup {n})
  BY <1>1, <1>2, CreateIfMissingLeads DEF TableName
<1> QED BY <1>3, NamedObjects

LEMMA SchemaUnion3 ==
  ASSUME NEW A, NEW B, NEW C
  PROVE  Schema(A \cup B \cup C) = Schema(A) \cup Schema(B) \cup Schema(C)
  BY DEF Schema

LEMMA SchemaUnion4 ==
  ASSUME NEW A, NEW B, NEW C, NEW D
  PROVE  Schema(A \cup B \cup C \cup D) = Schema(A) \cup Schema(B) \cup Schema(C) \cup Schema(D)
  BY DEF Schema

(* Dropping by name, and the other objects that a script creates alone.    *)
LEMMA DropIndexLeads ==
  ASSUME NEW I, Triples(I), NEW t \in OwnTables, NEW name,
         <<"index", t, name>> \in I, <<"index", t, name>> \notin LooseNames
  PROVE  Leads(I, DropIndex(t, name), I \ {<<"index", t, name>>})
<1> DEFINE n == <<"index", t, name>>
<1>1. Dropping(n, FALSE) /\ n[1] \in {"index", "check", "key"}
  BY DEF Dropping
<1>2. Leads(I, Op("drop", {n}, FALSE), I \ {n})
  BY ONLY Triples(I), n \in I, <1>1, DropLeads
<1> QED BY <1>2 DEF DropIndex, Drop

LEMMA DropIfExistsLeads ==
  ASSUME NEW I, Triples(I), NEW t \in OwnTables, NEW name,
         <<"index", t, name>> \in I, <<"index", t, name>> \in LooseNames
  PROVE  Leads(I, DropIfExists("index", t, name), I \ {<<"index", t, name>>})
<1> DEFINE n == <<"index", t, name>>
<1>1. Dropping(n, TRUE) /\ n[1] \in {"index", "check", "key"}
  BY DEF Dropping
<1>2. Leads(I, Op("drop", {n}, TRUE), I \ {n})
  BY ONLY Triples(I), n \in I, <1>1, DropLeads
<1> QED BY <1>2 DEF DropIfExists

LEMMA DropConstraintLeads ==
  ASSUME NEW I, Triples(I), NEW t \in OwnTables, NEW name, NEW kind \in {"check", "key"},
         <<kind, t, name>> \in I
  PROVE  Leads(I, Drop(kind, t, name), I \ {<<kind, t, name>>})
<1> DEFINE n == <<kind, t, name>>
<1>1. Dropping(n, FALSE) /\ n[1] \in {"index", "check", "key"}
  BY DEF Dropping, LooseNames, TypeStatusName, TypeStatusIndex, Index, Object, Name
<1>2. Leads(I, Op("drop", {n}, FALSE), I \ {n})
  BY ONLY Triples(I), n \in I, <1>1, DropLeads
<1> QED BY <1>2 DEF Drop

LEMMA CheckLeads ==
  ASSUME NEW I, Triples(I), NEW t \in OwnTables, NEW name, NEW C, C = ColumnsUnder[name],
         TableName(t) \in I, <<"check", t, name>> \notin I, \A c \in C : <<"column", t, c>> \in I
  PROVE  Leads(I, Create({Check(t, name, C)}), I \cup {<<"check", t, name>>})
<1>1. \A x \in On(<<"check", t, name>>) : <<"column", x[1], x[2]>> \in I
  BY DEF On, Column
<1>2. <<"check", t, name>> # TypeStatusName
  BY DEF TypeStatusName, TypeStatusIndex, Index, Object, Name
<1> QED BY <1>1, <1>2, OneLeads, NamedObjects

LEMMA SupersedingLeads ==
  ASSUME NEW I, Triples(I), TableName("memories") \in I, <<"key", "memories", Superseding>> \notin I,
         <<"column", "memories", "superseded_by">> \in I, <<"column", "memories", "id">> \in I
  PROVE  Leads(I, Create({ForeignKey("memories", "superseded_by", Superseding)}),
               I \cup {<<"key", "memories", Superseding>>})
<1> DEFINE n == <<"key", "memories", Superseding>>
<1>1. On(n) = {Column("memories", "superseded_by"), Column("memories", "id")}
  BY DEF On
<1>2. \A x \in {Column("memories", "superseded_by"), Column("memories", "id")} :
         <<"column", x[1], x[2]>> \in I
  <2>1. ASSUME NEW x, x = Column("memories", "superseded_by") PROVE <<"column", x[1], x[2]>> \in I
    BY <2>1 DEF Column
  <2>2. ASSUME NEW x, x = Column("memories", "id") PROVE <<"column", x[1], x[2]>> \in I
    BY <2>2 DEF Column
  <2> QED BY <2>1, <2>2
<1>3. n # TypeStatusName /\ n[2] \in OwnTables
  BY DEF TypeStatusName, TypeStatusIndex, Index, Object, Name, OwnTables
<1>4. ObjectOf(n) = ForeignKey("memories", "superseded_by", Superseding)
  BY NamedObjects
<1> QED BY <1>1, <1>2, <1>3, <1>4, OneLeads

LEMMA NotNullLeads ==
  ASSUME NEW I, Triples(I), NEW t \in OwnTables, NEW c, TableName(t) \in I,
         <<"not null", t, c>> \notin I, <<"column", t, c>> \in I
  PROVE  Leads(I, Create({NotNull(t, c)}), I \cup {<<"not null", t, c>>})
<1> DEFINE n == <<"not null", t, c>>
<1>1. On(n) = {Column(t, c)}
  BY DEF On
<1>2. ASSUME NEW x \in {Column(t, c)} PROVE <<"column", x[1], x[2]>> \in I
  <2>1. x = <<t, c>>
    BY DEF Column
  <2> QED BY <2>1
<1>3. n # TypeStatusName
  BY DEF TypeStatusName, TypeStatusIndex, Index, Object, Name
<1> QED BY <1>1, <1>2, <1>3, OneLeads, NamedObjects

-----------------------------------------------------------------------------
(* The revisions by name: the names that each has in its schema.           *)

ExtensionName(e) == <<"extension", "pg_extension", e>>
IndexName(t, name) == <<"index", t, name>>

InMemories ==
  RequiredNames("memories", {"id", "namespace", "raw_content", "embedding", "created_at",
                             "last_accessed_at"})
  \cup ColumnNames("memories", {"session_id"})
  \cup DefaultedNames("memories", {"type", "status", "base_importance", "access_count",
                                   "metadata_json"})
InEdges ==
  RequiredNames("hebbian_edges", {"source_id", "target_id", "last_co_accessed_at", "created_at"})
  \cup DefaultedNames("hebbian_edges", {"weight"})
  \cup KeyNames("hebbian_edges", {"source_id", "target_id"})
  \cup {<<"unique", "hebbian_edges", "uq_hebbian_edges_pair">>}
InRelations ==
  RequiredNames("memory_relations", {"id", "source_id", "target_id", "relation_type", "created_at"})
  \cup DefaultedNames("memory_relations", {"confidence", "metadata_json"})
  \cup ColumnNames("memory_relations", {"rationale"})
  \cup KeyNames("memory_relations", {"source_id", "target_id"})
  \cup {<<"unique", "memory_relations", "uq_memory_relations_source_target_type">>}
InDreamRuns ==
  RequiredNames("dream_runs", {"id", "namespace", "status"})
  \cup ColumnNames("dream_runs", {"completed_at", "error"})
  \cup DefaultedNames("dream_runs", {"started_at", "seed_memory_ids", "source_memory_ids",
                                     "created_memory_ids", "clusters_considered",
                                     "clusters_dreamed", "memories_created", "metadata_json"})

Extensions == {ExtensionName("vector"), ExtensionName("pg_trgm")}
Names0 == {}
Names1 ==
  Extensions \cup ({TableName("memories")} \cup InMemories)
  \cup ({TableName("hebbian_edges")} \cup InEdges)
  \cup {IndexName("memories", "ix_memories_namespace"), IndexName("memories", "ix_memories_session_id"),
        IndexName("memories", "ix_memories_raw_content_trgm"),
        IndexName("memories", "ix_memories_embedding_hnsw")}
Names2 ==
  Names1 \cup DefaultedNames("memories", {"confidence"})
  \cup ColumnNames("memories", {"source", "superseded_by", "deprecated_at", "status_reason"})
  \cup {<<"key", "memories", Superseding>>} \cup ({TableName("memory_relations")} \cup InRelations)
  \cup {IndexName("memories", "ix_memories_status"), IndexName("memories", "ix_memories_type"),
        IndexName("memories", "ix_memories_superseded_by"),
        IndexName("memory_relations", "ix_memory_relations_source_id"),
        IndexName("memory_relations", "ix_memory_relations_target_id"),
        IndexName("memory_relations", "ix_memory_relations_relation_type")}
Names3 ==
  Names2 \cup ({TableName("dream_runs")} \cup InDreamRuns)
  \cup {IndexName("dream_runs", "ix_dream_runs_namespace"),
        IndexName("dream_runs", "ix_dream_runs_status"),
        IndexName("dream_runs", "ix_dream_runs_started_at"),
        IndexName("memories", "ix_memories_type_status")}
Names4 ==
  Names3 \cup DefaultedNames("memories", {"scope"})
  \cup {<<"check", "memories", "ck_memories_scope">>, IndexName("memories", "ix_memories_scope"),
        IndexName("memories", "ix_memories_namespace_scope")}

(* 0006 takes what names a namespace or a scope, and the graph.            *)
Scoping ==
  DefaultedNames("memories", {"scope", "namespace"}) \cup DefaultedNames("dream_runs", {"namespace"})
  \cup {<<"check", "memories", "ck_memories_scope">>, IndexName("memories", "ix_memories_scope"),
        IndexName("memories", "ix_memories_namespace_scope"),
        IndexName("memories", "ix_memories_namespace"),
        IndexName("dream_runs", "ix_dream_runs_namespace")}
Names5 ==
  ({n \in Names4 : n[2] \notin {"hebbian_edges", "memory_relations"}} \ Scoping)
  \cup ColumnNames("memories", {"workspace"})
  \cup {IndexName("memories", "ix_memories_active_workspace"),
        IndexName("memories", "ix_memories_workspace")}
DegradedNames ==
  ({n \in Names4 : n[2] \notin {"hebbian_edges", "memory_relations"}}
   \ {<<"check", "memories", "ck_memories_scope">>, IndexName("memories", "ix_memories_scope"),
      IndexName("memories", "ix_memories_namespace_scope"),
      IndexName("memories", "ix_memories_namespace"),
      IndexName("dream_runs", "ix_dream_runs_namespace")})
  \cup DefaultNames("dream_runs", {"namespace"})

(* These are names; and sets of names are equal if they have the same ones.*)
LEMMA NamesTriples ==
  /\ Triples(Names0) /\ Triples(Names1) /\ Triples(Names2) /\ Triples(Names3) /\ Triples(Names4)
  /\ Triples(Names5) /\ Triples(DegradedNames) /\ Triples(Names0 \cup Extensions)
<1>1. \A N, M : Triples(N) /\ Triples(M) => Triples(N \cup M)
  BY DEF Triples
<1>2. \A t, C : /\ Triples(ColumnNames(t, C)) /\ Triples(MarkNames(t, C)) /\ Triples(DefaultNames(t, C))
                /\ Triples(KeyNames(t, C))
  <2>1. \A t, C : Triples(ColumnNames(t, C))
    BY DEF Triples, ColumnNames
  <2>2. ASSUME NEW t, NEW C, NEW n \in MarkNames(t, C) PROVE n = <<n[1], n[2], n[3]>>
    <3>1. PICK c \in C : n = <<"not null", t, c>>
      BY <2>2 DEF MarkNames
    <3> QED BY ONLY <3>1
  <2>3. \A t, C : Triples(DefaultNames(t, C))
    BY DEF Triples, DefaultNames
  <2>4. \A t, C : Triples(KeyNames(t, C))
    BY DEF Triples, KeyNames
  <2> QED BY <2>1, <2>2, <2>3, <2>4 DEF Triples
<1>3. \A t, C : Triples(RequiredNames(t, C)) /\ Triples(DefaultedNames(t, C))
  BY <1>1, <1>2 DEF RequiredNames, DefaultedNames
<1>4. \A k, t, x : Triples({<<k, t, x>>})
  BY DEF Triples
<1>5. \A N : Triples(N) => \A M : Triples(N \ M) /\ \A T : Triples({n \in N : n[2] \notin T})
  BY DEF Triples
<1>6. Triples(InMemories) /\ Triples(InEdges) /\ Triples(InRelations) /\ Triples(InDreamRuns)
  BY <1>1, <1>2, <1>3, <1>4 DEF InMemories, InEdges, InRelations, InDreamRuns
<1>7. Triples(Extensions) /\ Triples(Names0) /\ Triples(Names0 \cup Extensions)
  BY DEF Triples, Extensions, ExtensionName, Names0
<1>8. Triples(Names1)
  <2>1. Triples({IndexName("memories", "ix_memories_namespace"), IndexName("memories", "ix_memories_session_id"),
                 IndexName("memories", "ix_memories_raw_content_trgm"),
                 IndexName("memories", "ix_memories_embedding_hnsw")})
    BY DEF Triples, IndexName
  <2> QED BY <1>1, <1>4, <1>6, <1>7, <2>1 DEF Names1, TableName
<1>9. Triples(Names2)
  <2>1. Triples({IndexName("memories", "ix_memories_status"), IndexName("memories", "ix_memories_type"),
                 IndexName("memories", "ix_memories_superseded_by"),
                 IndexName("memory_relations", "ix_memory_relations_source_id"),
                 IndexName("memory_relations", "ix_memory_relations_target_id"),
                 IndexName("memory_relations", "ix_memory_relations_relation_type")})
    BY DEF Triples, IndexName
  <2> QED BY <1>1, <1>2, <1>3, <1>4, <1>6, <1>8, <2>1 DEF Names2, TableName
<1>10. Triples(Names3)
  <2>1. Triples({IndexName("dream_runs", "ix_dream_runs_namespace"),
                 IndexName("dream_runs", "ix_dream_runs_status"),
                 IndexName("dream_runs", "ix_dream_runs_started_at"),
                 IndexName("memories", "ix_memories_type_status")})
    BY DEF Triples, IndexName
  <2> QED BY <1>1, <1>4, <1>6, <1>9, <2>1 DEF Names3, TableName
<1>11. Triples(Names4)
  <2>1. Triples({<<"check", "memories", "ck_memories_scope">>, IndexName("memories", "ix_memories_scope"),
                 IndexName("memories", "ix_memories_namespace_scope")})
    BY DEF Triples, IndexName
  <2> QED BY <1>1, <1>3, <1>10, <2>1 DEF Names4
<1>12. Triples({n \in Names4 : n[2] \notin {"hebbian_edges", "memory_relations"}})
  BY <1>5, <1>11
<1>13. Triples(Names5)
  <2>1. Triples({IndexName("memories", "ix_memories_active_workspace"),
                 IndexName("memories", "ix_memories_workspace")})
    BY DEF Triples, IndexName
  <2> QED BY <1>1, <1>2, <1>5, <1>12, <2>1 DEF Names5
<1>14. Triples(DegradedNames)
  BY <1>1, <1>2, <1>5, <1>12 DEF DegradedNames
<1> QED BY <1>7, <1>8, <1>9, <1>10, <1>11, <1>13, <1>14

LEMMA SameNames ==
  ASSUME NEW N, NEW M, Triples(N), Triples(M), \A k, t, x : <<k, t, x>> \in N <=> <<k, t, x>> \in M
  PROVE  N = M
<1>1. \A n \in N : n \in M
  BY DEF Triples
<1>2. \A n \in M : n \in N
  BY DEF Triples
<1> QED BY <1>1, <1>2

(* What a table is created with.                                           *)
LEMMA InMemoriesOf ==
  /\ Schema(InMemories) =
       Required("memories", {"id", "namespace", "raw_content", "embedding", "created_at",
                             "last_accessed_at"})
       \cup Nullable("memories", {"session_id"})
       \cup Defaulted("memories", {"type", "status", "base_importance", "access_count",
                                   "metadata_json"})
  /\ Block(InMemories, "memories", {})
<1>1. Block(InMemories, "memories", {})
  BY Blocks DEF InMemories
<1> QED BY <1>1, BlocksOf, SchemaUnion3 DEF InMemories

LEMMA InEdgesOf ==
  /\ Schema(InEdges) =
       Required("hebbian_edges", {"source_id", "target_id", "last_co_accessed_at", "created_at"})
       \cup Defaulted("hebbian_edges", {"weight"})
       \cup {ForeignKey("hebbian_edges", c, c) : c \in {"source_id", "target_id"}}
       \cup {Unique("hebbian_edges", "uq_hebbian_edges_pair", {"source_id", "target_id"})}
  /\ Block(InEdges, "hebbian_edges", {Column("memories", "id")})
<1> DEFINE t == "hebbian_edges"
           R == RequiredNames(t, {"source_id", "target_id", "last_co_accessed_at", "created_at"})
           D == DefaultedNames(t, {"weight"})
           K == KeyNames(t, {"source_id", "target_id"})
           U == {<<"unique", t, "uq_hebbian_edges_pair">>}
           links == {Column("memories", "id")}
<1>1. Schema(InEdges) = Schema(R) \cup Schema(D) \cup Schema(K) \cup Schema(U)
  BY SchemaUnion4, SMTT(30) DEF InEdges
<1>2. {ForeignKey(t, c, c) : c \in {"source_id", "target_id"}} = Schema(K)
  BY KeysOf DEF Superseding
<1>3. {Unique(t, "uq_hebbian_edges_pair", {"source_id", "target_id"})} = Schema(U)
  BY UniqueOf DEF ColumnsUnder
<1>4. Block(R \cup D, t, links)
  BY Blocks
<1>5. \A c \in {"source_id", "target_id"} : <<"column", t, c>> \in R \cup D
  BY DEF RequiredNames, ColumnNames
<1>6. Block(R \cup D \cup K, t, links)
  BY <1>4, <1>5, KeysBlock DEF Superseding
<1>7. ColumnsUnder["uq_hebbian_edges_pair"] = {"source_id", "target_id"}
  BY DEF ColumnsUnder
<1>8. Block(R \cup D \cup K \cup U, t, links)
  BY <1>5, <1>6, <1>7, UniqueBlock
<1> QED BY <1>1, <1>2, <1>3, <1>8, BlocksOf DEF InEdges

LEMMA InRelationsOf ==
  /\ Schema(InRelations) =
       Required("memory_relations", {"id", "source_id", "target_id", "relation_type", "created_at"})
       \cup Defaulted("memory_relations", {"confidence", "metadata_json"})
       \cup Nullable("memory_relations", {"rationale"})
       \cup {ForeignKey("memory_relations", c, c) : c \in {"source_id", "target_id"}}
       \cup {Unique("memory_relations", "uq_memory_relations_source_target_type",
                    {"source_id", "target_id", "relation_type"})}
  /\ Block(InRelations, "memory_relations", {Column("memories", "id")})
<1> DEFINE t == "memory_relations"
           R == RequiredNames(t, {"id", "source_id", "target_id", "relation_type", "created_at"})
           D == DefaultedNames(t, {"confidence", "metadata_json"})
           N == ColumnNames(t, {"rationale"})
           K == KeyNames(t, {"source_id", "target_id"})
           U == {<<"unique", t, "uq_memory_relations_source_target_type">>}
           links == {Column("memories", "id")}
<1>1. Schema(InRelations) = Schema(R) \cup Schema(D) \cup Schema(N) \cup Schema(K) \cup Schema(U)
  <2> HIDE DEF R, D, N, K, U
  <2>1. InRelations = R \cup D \cup N \cup K \cup U
    BY DEF InRelations, R, D, N, K, U
  <2>2. Schema(R \cup D \cup N \cup K \cup U) = Schema(R \cup D \cup N \cup K) \cup Schema(U)
    BY SchemaUnion
  <2>3. Schema(R \cup D \cup N \cup K) = Schema(R) \cup Schema(D) \cup Schema(N) \cup Schema(K)
    BY SchemaUnion4
  <2> QED BY <2>1, <2>2, <2>3
<1>2. {ForeignKey(t, c, c) : c \in {"source_id", "target_id"}} = Schema(K)
  BY KeysOf DEF Superseding
<1>3. {Unique(t, "uq_memory_relations_source_target_type",
              {"source_id", "target_id", "relation_type"})} = Schema(U)
  BY UniqueOf DEF ColumnsUnder
<1>4. Block(R \cup D \cup N, t, links)
  BY Blocks
<1>5. \A c \in {"source_id", "target_id", "relation_type"} : <<"column", t, c>> \in R \cup D \cup N
  BY DEF RequiredNames, ColumnNames
<1>6. Block(R \cup D \cup N \cup K, t, links)
  BY <1>4, <1>5, KeysBlock DEF Superseding
<1>7. ColumnsUnder["uq_memory_relations_source_target_type"] = {"source_id", "target_id", "relation_type"}
  BY DEF ColumnsUnder
<1>8. Block(R \cup D \cup N \cup K \cup U, t, links)
  BY <1>5, <1>6, <1>7, UniqueBlock
<1> QED BY <1>1, <1>2, <1>3, <1>8, BlocksOf DEF InRelations

LEMMA InDreamRunsOf ==
  /\ Schema(InDreamRuns) =
       Required("dream_runs", {"id", "namespace", "status"})
       \cup Nullable("dream_runs", {"completed_at", "error"})
       \cup Defaulted("dream_runs", {"started_at", "seed_memory_ids", "source_memory_ids",
                                     "created_memory_ids", "clusters_considered",
                                     "clusters_dreamed", "memories_created", "metadata_json"})
  /\ Block(InDreamRuns, "dream_runs", {})
<1>1. Block(InDreamRuns, "dream_runs", {})
  BY Blocks DEF InDreamRuns
<1> QED BY <1>1, BlocksOf, SchemaUnion3 DEF InDreamRuns

-----------------------------------------------------------------------------
(* Each script, operation by operation, from the names of its revision.    *)

Leading(N, script, M) ==
  /\ Triples(N)
  /\ \E path : /\ path[1] = N /\ path[Len(script) + 1] = M
               /\ \A n \in 1 .. Len(script) : Leads(path[n], script[n], path[n + 1])


LEMMA Upgrade0001Leads ==
  Leading(Names0, Upgrade0001, Names1)
<1> DEFINE I0 == Names0
           I1 == I0 \cup {ExtensionName("vector")}
           I2 == I1 \cup {ExtensionName("pg_trgm")}
           I3 == I2 \cup ({TableName("memories")} \cup InMemories)
           I4 == I3 \cup ({TableName("hebbian_edges")} \cup InEdges)
           I5 == I4 \cup {IndexName("memories", "ix_memories_namespace")}
           I6 == I5 \cup {IndexName("memories", "ix_memories_session_id")}
           I7 == I6 \cup {IndexName("memories", "ix_memories_raw_content_trgm")}
           I8 == I7 \cup {IndexName("memories", "ix_memories_embedding_hnsw")}
<1>0. Triples(I0)
  BY NamesTriples
<1>1. Leads(I0, Upgrade0001[1], I1)
  <2> QED BY <1>0, ExtensionLeads DEF Upgrade0001, ExtensionName
<1>2. Leads(I1, Upgrade0001[2], I2)
  <2>0. Triples(I1)
    BY <1>1 DEF Leads
  <2> QED BY <2>0, ExtensionLeads DEF Upgrade0001, ExtensionName
<1>3. Leads(I2, Upgrade0001[3], I3)
  <2>0. Triples(I2)
    BY <1>2 DEF Leads
  <2>1. \A k, x : <<k, "memories", x>> \notin I2
    BY DEF TableName, IndexName, Extensions, ExtensionName, DefaultedNames, RequiredNames, ColumnNames,
       MarkNames, DefaultNames, KeyNames, InMemories, InEdges, InRelations, InDreamRuns, Names0, Superseding
  <2>2. Upgrade0001[3] = Create(Table("memories", Schema(InMemories)))
    BY InMemoriesOf DEF Upgrade0001
  <2>3. \A x \in {} : <<"column", x[1], x[2]>> \in I2
    OBVIOUS
  <2>4. Block(InMemories, "memories", {})
    BY InMemoriesOf
  <2>5. "memories" \in OwnTables /\ \A k, x : <<k, "memories", x>> \notin I2
    BY <2>1 DEF OwnTables
  <2>6. Leads(I2, Create(Table("memories", Schema(InMemories))), I3)
    BY ONLY <2>0, <2>3, <2>4, <2>5, TableLeads
  <2> QED BY <2>2, <2>6
<1>4. Leads(I3, Upgrade0001[4], I4)
  <2>0. Triples(I3)
    BY <1>3 DEF Leads
  <2>1. /\ \A k, x : <<k, "hebbian_edges", x>> \notin I3
        /\ <<"column", "memories", "id">> \in I3
    BY DEF TableName, IndexName, Extensions, ExtensionName, DefaultedNames, RequiredNames, ColumnNames,
       MarkNames, DefaultNames, KeyNames, InMemories, InEdges, InRelations, InDreamRuns, Names0, Superseding
  <2>2. Upgrade0001[4] = Create(Table("hebbian_edges", Schema(InEdges)))
    BY InEdgesOf DEF Upgrade0001
  <2>3. \A x \in {Column("memories", "id")} : <<"column", x[1], x[2]>> \in I3
    BY <2>1 DEF Column
  <2>4. Block(InEdges, "hebbian_edges", {Column("memories", "id")})
    BY InEdgesOf
  <2>5. "hebbian_edges" \in OwnTables /\ \A k, x : <<k, "hebbian_edges", x>> \notin I3
    BY <2>1 DEF OwnTables
  <2>6. Leads(I3, Create(Table("hebbian_edges", Schema(InEdges))), I4)
    BY ONLY <2>0, <2>3, <2>4, <2>5, TableLeads
  <2> QED BY <2>2, <2>6
<1>5. Leads(I4, Upgrade0001[5], I5)
  <2>0. Triples(I4)
    BY <1>4 DEF Leads
  <2>1. /\ TableName("memories") \in I4
        /\ <<"column", "memories", "namespace">> \in I4
        /\ <<"index", "memories", "ix_memories_namespace">> \notin I4
    BY DEF TableName, IndexName, Extensions, ExtensionName, DefaultedNames, RequiredNames, ColumnNames,
       MarkNames, DefaultNames, KeyNames, InMemories, InEdges, InRelations, InDreamRuns, Names0, Superseding
  <2> QED BY <2>0, <2>1, IndexLeads DEF Upgrade0001, OwnTables, IndexName, ColumnsUnder
<1>6. Leads(I5, Upgrade0001[6], I6)
  <2>0. Triples(I5)
    BY <1>5 DEF Leads
  <2>1. /\ TableName("memories") \in I5
        /\ <<"column", "memories", "session_id">> \in I5
        /\ <<"index", "memories", "ix_memories_session_id">> \notin I5
    BY DEF TableName, IndexName, Extensions, ExtensionName, DefaultedNames, RequiredNames, ColumnNames,
       MarkNames, DefaultNames, KeyNames, InMemories, InEdges, InRelations, InDreamRuns, Names0, Superseding
  <2> QED BY <2>0, <2>1, IndexLeads DEF Upgrade0001, OwnTables, IndexName, ColumnsUnder
<1>7. Leads(I6, Upgrade0001[7], I7)
  <2>0. Triples(I6)
    BY <1>6 DEF Leads
  <2>1. /\ TableName("memories") \in I6
        /\ <<"column", "memories", "raw_content">> \in I6
        /\ <<"index", "memories", "ix_memories_raw_content_trgm">> \notin I6
    BY DEF TableName, IndexName, Extensions, ExtensionName, DefaultedNames, RequiredNames, ColumnNames,
       MarkNames, DefaultNames, KeyNames, InMemories, InEdges, InRelations, InDreamRuns, Names0, Superseding
  <2> QED BY <2>0, <2>1, IndexLeads DEF Upgrade0001, OwnTables, IndexName, ColumnsUnder
<1>8. Leads(I7, Upgrade0001[8], I8)
  <2>0. Triples(I7)
    BY <1>7 DEF Leads
  <2>1. /\ TableName("memories") \in I7
        /\ <<"column", "memories", "embedding">> \in I7
        /\ <<"index", "memories", "ix_memories_embedding_hnsw">> \notin I7
    BY DEF TableName, IndexName, Extensions, ExtensionName, DefaultedNames, RequiredNames, ColumnNames,
       MarkNames, DefaultNames, KeyNames, InMemories, InEdges, InRelations, InDreamRuns, Names0, Superseding
  <2> QED BY <2>0, <2>1, IndexLeads DEF Upgrade0001, OwnTables, IndexName, ColumnsUnder
<1>9. I8 = Names1
  <2>1. Triples(I8) /\ Triples(Names1)
    BY <1>8, NamesTriples DEF Leads
  <2>2. \A k, t, x : <<k, t, x>> \in I8 <=> <<k, t, x>> \in Names1
    BY DEF TableName, IndexName, Extensions, ExtensionName, DefaultedNames, RequiredNames, ColumnNames,
       MarkNames, DefaultNames, KeyNames, InMemories, InEdges, InRelations, InDreamRuns, Names1, Names0,
       Superseding
  <2> QED BY <2>1, <2>2, SameNames
<1> DEFINE path == <<I0, I1, I2, I3, I4, I5, I6, I7, I8>>
<1> HIDE DEF I0, I1, I2, I3, I4, I5, I6, I7, I8
<1>10. \A n \in 1 .. 8 : Leads(path[n], Upgrade0001[n], path[n + 1])
  BY <1>1, <1>2, <1>3, <1>4, <1>5, <1>6, <1>7, <1>8
<1>11. Len(Upgrade0001) = 8
  BY DEF Upgrade0001
<1>12. path[1] = Names0 /\ path[9] = Names1
  BY <1>9 DEF I0
<1>13. Triples(Names0)
  BY <1>0 DEF I0
<1> HIDE DEF path
<1> QED BY <1>10, <1>11, <1>12, <1>13 DEF Leading

LEMMA Downgrade0001Leads ==
  Leading(Names1, Downgrade0001, Names0 \cup Extensions)
<1> DEFINE I0 == Names1
           I1 == I0 \ {<<"index", "memories", "ix_memories_embedding_hnsw">>}
           I2 == I1 \ {<<"index", "memories", "ix_memories_raw_content_trgm">>}
           I3 == I2 \ {<<"index", "memories", "ix_memories_session_id">>}
           I4 == I3 \ {<<"index", "memories", "ix_memories_namespace">>}
           I5 == {n \in I4 : n[2] # "hebbian_edges"}
           I6 == {n \in I5 : n[2] # "memories"}
<1>0. Triples(I0)
  BY NamesTriples
<1>1. Leads(I0, Downgrade0001[1], I1)
  <2>1. <<"index", "memories", "ix_memories_embedding_hnsw">> \in I0
    BY DEF TableName, IndexName, Extensions, ExtensionName, DefaultedNames, RequiredNames, ColumnNames,
       MarkNames, DefaultNames, KeyNames, InMemories, InEdges, InRelations, InDreamRuns, Names1, Superseding
  <2> QED BY <1>0, <2>1, DropIfExistsLeads DEF Downgrade0001, OwnTables, LooseNames, TypeStatusName,
     TypeStatusIndex, Index, Object, Name
<1>2. Leads(I1, Downgrade0001[2], I2)
  <2>0. Triples(I1)
    BY <1>1 DEF Leads
  <2>1. <<"index", "memories", "ix_memories_raw_content_trgm">> \in I1
    BY DEF TableName, IndexName, Extensions, ExtensionName, DefaultedNames, RequiredNames, ColumnNames,
       MarkNames, DefaultNames, KeyNames, InMemories, InEdges, InRelations, InDreamRuns, Names1, Superseding
  <2> QED BY <2>0, <2>1, DropIfExistsLeads DEF Downgrade0001, OwnTables, LooseNames, TypeStatusName,
     TypeStatusIndex, Index, Object, Name
<1>3. Leads(I2, Downgrade0001[3], I3)
  <2>0. Triples(I2)
    BY <1>2 DEF Leads
  <2>1. <<"index", "memories", "ix_memories_session_id">> \in I2
    BY DEF TableName, IndexName, Extensions, ExtensionName, DefaultedNames, RequiredNames, ColumnNames,
       MarkNames, DefaultNames, KeyNames, InMemories, InEdges, InRelations, InDreamRuns, Names1, Superseding
  <2> QED BY <2>0, <2>1, DropIndexLeads DEF Downgrade0001, OwnTables, LooseNames, TypeStatusName,
     TypeStatusIndex, Index, Object, Name
<1>4. Leads(I3, Downgrade0001[4], I4)
  <2>0. Triples(I3)
    BY <1>3 DEF Leads
  <2>1. <<"index", "memories", "ix_memories_namespace">> \in I3
    BY DEF TableName, IndexName, Extensions, ExtensionName, DefaultedNames, RequiredNames, ColumnNames,
       MarkNames, DefaultNames, KeyNames, InMemories, InEdges, InRelations, InDreamRuns, Names1, Superseding
  <2> QED BY <2>0, <2>1, DropIndexLeads DEF Downgrade0001, OwnTables, LooseNames, TypeStatusName,
     TypeStatusIndex, Index, Object, Name
<1>5. Leads(I4, Downgrade0001[5], I5)
  <2>0. Triples(I4)
    BY <1>4 DEF Leads
  <2>1. <<"table", "hebbian_edges", "hebbian_edges">> \in I4
    BY DEF TableName, IndexName, Extensions, ExtensionName, DefaultedNames, RequiredNames, ColumnNames,
       MarkNames, DefaultNames, KeyNames, InMemories, InEdges, InRelations, InDreamRuns, Names1, Superseding
  <2> QED BY <2>0, <2>1, DropTableLeads DEF Downgrade0001, OwnTables
<1>6. Leads(I5, Downgrade0001[6], I6)
  <2>0. Triples(I5)
    BY <1>5 DEF Leads
  <2>1. /\ <<"table", "memories", "memories">> \in I5
        /\ \A u, x : u = "memories" \/ <<"key", u, x>> \notin I5
    BY DEF TableName, IndexName, Extensions, ExtensionName, DefaultedNames, RequiredNames, ColumnNames,
       MarkNames, DefaultNames, KeyNames, InMemories, InEdges, InRelations, InDreamRuns, Names1, Superseding
  <2> QED BY <2>0, <2>1, DropTableLeads DEF Downgrade0001, OwnTables
<1>7. I6 = Names0 \cup Extensions
  <2>1. Triples(I6) /\ Triples(Names0 \cup Extensions)
    BY <1>6, NamesTriples DEF Leads
  <2>3. /\ \A k, x : <<k, "hebbian_edges", x>> \notin Names0 \cup Extensions
        /\ \A k, x : <<k, "memories", x>> \notin Names0 \cup Extensions
    BY DEF TableName, IndexName, Extensions, ExtensionName, DefaultedNames, RequiredNames, ColumnNames,
       MarkNames, DefaultNames, KeyNames, InMemories, InEdges, InRelations, InDreamRuns, Names0, Superseding
  <2>4. /\ \A k, t, x : <<k, t, x>> \in InMemories => t = "memories"
        /\ \A k, t, x : <<k, t, x>> \in InEdges => t = "hebbian_edges"
    BY InMemoriesOf, InEdgesOf DEF Block
  <2>5. ASSUME NEW k, NEW t, NEW x, <<k, t, x>> \in I6 PROVE <<k, t, x>> \in Names0 \cup Extensions
    BY <2>5, <2>3, <2>4 DEF TableName, IndexName, DefaultedNames, RequiredNames, ColumnNames, MarkNames,
       DefaultNames, Superseding, Names1, Names0, Extensions, ExtensionName
  <2>6. ASSUME NEW k, NEW t, NEW x, <<k, t, x>> \in Names0 \cup Extensions PROVE <<k, t, x>> \in I6
    BY <2>6, <2>3, <2>4 DEF TableName, IndexName, DefaultedNames, RequiredNames, ColumnNames, MarkNames,
       DefaultNames, Superseding, Names1, Names0, Extensions, ExtensionName
  <2> HIDE DEF I6
  <2>2. \A k, t, x : <<k, t, x>> \in I6 <=> <<k, t, x>> \in Names0 \cup Extensions
    BY <2>5, <2>6
  <2> QED BY <2>1, <2>2, SameNames
<1> DEFINE path == <<I0, I1, I2, I3, I4, I5, I6>>
<1> HIDE DEF I0, I1, I2, I3, I4, I5, I6
<1>8. \A n \in 1 .. 6 : Leads(path[n], Downgrade0001[n], path[n + 1])
  BY <1>1, <1>2, <1>3, <1>4, <1>5, <1>6
<1>9. Len(Downgrade0001) = 6
  BY DEF Downgrade0001
<1>10. path[1] = Names1 /\ path[7] = Names0 \cup Extensions
  BY <1>7 DEF I0
<1>11. Triples(Names1)
  BY <1>0 DEF I0
<1> HIDE DEF path
<1> QED BY <1>8, <1>9, <1>10, <1>11 DEF Leading

LEMMA Upgrade0002Leads ==
  Leading(Names1, Upgrade0002, Names2)
<1> DEFINE I0 == Names1
           I1 == I0 \cup DefaultedNames("memories", {"confidence"})
           I2 == I1 \cup ColumnNames("memories", {"source"})
           I3 == I2 \cup ColumnNames("memories", {"superseded_by"})
           I4 == I3 \cup ColumnNames("memories", {"deprecated_at"})
           I5 == I4 \cup ColumnNames("memories", {"status_reason"})
           I6 == I5 \cup {<<"key", "memories", Superseding>>}
           I7 == I6 \cup ({TableName("memory_relations")} \cup InRelations)
           I8 == I7 \cup {IndexName("memories", "ix_memories_status")}
           I9 == I8 \cup {IndexName("memories", "ix_memories_type")}
           I10 == I9 \cup {IndexName("memories", "ix_memories_superseded_by")}
           I11 == I10 \cup {IndexName("memory_relations", "ix_memory_relations_source_id")}
           I12 == I11 \cup {IndexName("memory_relations", "ix_memory_relations_target_id")}
           I13 == I12 \cup {IndexName("memory_relations", "ix_memory_relations_relation_type")}
<1>0. Triples(I0)
  BY NamesTriples
<1>1. Leads(I0, Upgrade0002[1], I1)
  <2>1. /\ TableName("memories") \in I0
        /\ <<"column", "memories", "confidence">> \notin I0
        /\ <<"not null", "memories", "confidence">> \notin I0
        /\ <<"default", "memories", "confidence">> \notin I0
    BY DEF TableName, IndexName, Extensions, ExtensionName, DefaultedNames, RequiredNames, ColumnNames,
       MarkNames, DefaultNames, KeyNames, InMemories, InEdges, InRelations, InDreamRuns, Names1, Superseding
  <2> QED BY <1>0, <2>1, DefaultedLeads DEF Upgrade0002, OwnTables
<1>2. Leads(I1, Upgrade0002[2], I2)
  <2>0. Triples(I1)
    BY <1>1 DEF Leads
  <2>1. /\ TableName("memories") \in I1
        /\ <<"column", "memories", "source">> \notin I1
    BY DEF TableName, IndexName, Extensions, ExtensionName, DefaultedNames, RequiredNames, ColumnNames,
       MarkNames, DefaultNames, KeyNames, InMemories, InEdges, InRelations, InDreamRuns, Names1, Superseding
  <2> QED BY <2>0, <2>1, NullableLeads DEF Upgrade0002, OwnTables
<1>3. Leads(I2, Upgrade0002[3], I3)
  <2>0. Triples(I2)
    BY <1>2 DEF Leads
  <2>1. /\ TableName("memories") \in I2
        /\ <<"column", "memories", "superseded_by">> \notin I2
    BY DEF TableName, IndexName, Extensions, ExtensionName, DefaultedNames, RequiredNames, ColumnNames,
       MarkNames, DefaultNames, KeyNames, InMemories, InEdges, InRelations, InDreamRuns, Names1, Superseding
  <2> QED BY <2>0, <2>1, NullableLeads DEF Upgrade0002, OwnTables
<1>4. Leads(I3, Upgrade0002[4], I4)
  <2>0. Triples(I3)
    BY <1>3 DEF Leads
  <2>1. /\ TableName("memories") \in I3
        /\ <<"column", "memories", "deprecated_at">> \notin I3
    BY DEF TableName, IndexName, Extensions, ExtensionName, DefaultedNames, RequiredNames, ColumnNames,
       MarkNames, DefaultNames, KeyNames, InMemories, InEdges, InRelations, InDreamRuns, Names1, Superseding
  <2> QED BY <2>0, <2>1, NullableLeads DEF Upgrade0002, OwnTables
<1>5. Leads(I4, Upgrade0002[5], I5)
  <2>0. Triples(I4)
    BY <1>4 DEF Leads
  <2>1. /\ TableName("memories") \in I4
        /\ <<"column", "memories", "status_reason">> \notin I4
    BY DEF TableName, IndexName, Extensions, ExtensionName, DefaultedNames, RequiredNames, ColumnNames,
       MarkNames, DefaultNames, KeyNames, InMemories, InEdges, InRelations, InDreamRuns, Names1, Superseding
  <2> QED BY <2>0, <2>1, NullableLeads DEF Upgrade0002, OwnTables
<1>6. Leads(I5, Upgrade0002[6], I6)
  <2>0. Triples(I5)
    BY <1>5 DEF Leads
  <2>1. /\ TableName("memories") \in I5
        /\ <<"key", "memories", Superseding>> \notin I5
        /\ <<"column", "memories", "superseded_by">> \in I5
        /\ <<"column", "memories", "id">> \in I5
    BY DEF TableName, IndexName, Extensions, ExtensionName, DefaultedNames, RequiredNames, ColumnNames,
       MarkNames, DefaultNames, KeyNames, InMemories, InEdges, InRelations, InDreamRuns, Names1, Superseding
  <2> QED BY <2>0, <2>1, SupersedingLeads DEF Upgrade0002, Superseding
<1>7. Leads(I6, Upgrade0002[7], I7)
  <2>0. Triples(I6)
    BY <1>6 DEF Leads
  <2>1. /\ \A k, x : <<k, "memory_relations", x>> \notin I6
        /\ <<"column", "memories", "id">> \in I6
    BY DEF TableName, IndexName, Extensions, ExtensionName, DefaultedNames, RequiredNames, ColumnNames,
       MarkNames, DefaultNames, KeyNames, InMemories, InEdges, InRelations, InDreamRuns, Names1, Superseding
  <2>2. Upgrade0002[7] = Create(Table("memory_relations", Schema(InRelations)))
    BY InRelationsOf DEF Upgrade0002
  <2>3. \A x \in {Column("memories", "id")} : <<"column", x[1], x[2]>> \in I6
    BY <2>1 DEF Column
  <2>4. Block(InRelations, "memory_relations", {Column("memories", "id")})
    BY InRelationsOf
  <2>5. "memory_relations" \in OwnTables /\ \A k, x : <<k, "memory_relations", x>> \notin I6
    BY <2>1 DEF OwnTables
  <2>6. Leads(I6, Create(Table("memory_relations", Schema(InRelations))), I7)
    BY ONLY <2>0, <2>3, <2>4, <2>5, TableLeads
  <2> QED BY <2>2, <2>6
<1>8. Leads(I7, Upgrade0002[8], I8)
  <2>0. Triples(I7)
    BY <1>7 DEF Leads
  <2>1. /\ TableName("memories") \in I7
        /\ <<"column", "memories", "status">> \in I7
        /\ <<"index", "memories", "ix_memories_status">> \notin I7
    BY DEF TableName, IndexName, Extensions, ExtensionName, DefaultedNames, RequiredNames, ColumnNames,
       MarkNames, DefaultNames, KeyNames, InMemories, InEdges, InRelations, InDreamRuns, Names1, Superseding
  <2> QED BY <2>0, <2>1, IndexLeads DEF Upgrade0002, OwnTables, IndexName, ColumnsUnder
<1>9. Leads(I8, Upgrade0002[9], I9)
  <2>0. Triples(I8)
    BY <1>8 DEF Leads
  <2>1. /\ TableName("memories") \in I8
        /\ <<"column", "memories", "type">> \in I8
        /\ <<"index", "memories", "ix_memories_type">> \notin I8
    BY DEF TableName, IndexName, Extensions, ExtensionName, DefaultedNames, RequiredNames, ColumnNames,
       MarkNames, DefaultNames, KeyNames, InMemories, InEdges, InRelations, InDreamRuns, Names1, Superseding
  <2> QED BY <2>0, <2>1, IndexLeads DEF Upgrade0002, OwnTables, IndexName, ColumnsUnder
<1>10. Leads(I9, Upgrade0002[10], I10)
  <2>0. Triples(I9)
    BY <1>9 DEF Leads
  <2>1. /\ TableName("memories") \in I9
        /\ <<"column", "memories", "superseded_by">> \in I9
        /\ <<"index", "memories", "ix_memories_superseded_by">> \notin I9
    BY DEF TableName, IndexName, Extensions, ExtensionName, DefaultedNames, RequiredNames, ColumnNames,
       MarkNames, DefaultNames, KeyNames, InMemories, InEdges, InRelations, InDreamRuns, Names1, Superseding
  <2> QED BY <2>0, <2>1, IndexLeads DEF Upgrade0002, OwnTables, IndexName, ColumnsUnder
<1>11. Leads(I10, Upgrade0002[11], I11)
  <2>0. Triples(I10)
    BY <1>10 DEF Leads
  <2>1. /\ TableName("memory_relations") \in I10
        /\ <<"column", "memory_relations", "source_id">> \in I10
        /\ <<"index", "memory_relations", "ix_memory_relations_source_id">> \notin I10
    BY DEF TableName, IndexName, Extensions, ExtensionName, DefaultedNames, RequiredNames, ColumnNames,
       MarkNames, DefaultNames, KeyNames, InMemories, InEdges, InRelations, InDreamRuns, Names1, Superseding
  <2> QED BY <2>0, <2>1, IndexLeads DEF Upgrade0002, OwnTables, IndexName, ColumnsUnder
<1>12. Leads(I11, Upgrade0002[12], I12)
  <2>0. Triples(I11)
    BY <1>11 DEF Leads
  <2>1. /\ TableName("memory_relations") \in I11
        /\ <<"column", "memory_relations", "target_id">> \in I11
        /\ <<"index", "memory_relations", "ix_memory_relations_target_id">> \notin I11
    BY DEF TableName, IndexName, Extensions, ExtensionName, DefaultedNames, RequiredNames, ColumnNames,
       MarkNames, DefaultNames, KeyNames, InMemories, InEdges, InRelations, InDreamRuns, Names1, Superseding
  <2> QED BY <2>0, <2>1, IndexLeads DEF Upgrade0002, OwnTables, IndexName, ColumnsUnder
<1>13. Leads(I12, Upgrade0002[13], I13)
  <2>0. Triples(I12)
    BY <1>12 DEF Leads
  <2>1. /\ TableName("memory_relations") \in I12
        /\ <<"column", "memory_relations", "relation_type">> \in I12
        /\ <<"index", "memory_relations", "ix_memory_relations_relation_type">> \notin I12
    BY DEF TableName, IndexName, Extensions, ExtensionName, DefaultedNames, RequiredNames, ColumnNames,
       MarkNames, DefaultNames, KeyNames, InMemories, InEdges, InRelations, InDreamRuns, Names1, Superseding
  <2> QED BY <2>0, <2>1, IndexLeads DEF Upgrade0002, OwnTables, IndexName, ColumnsUnder
<1>14. I13 = Names2
  <2>1. Triples(I13) /\ Triples(Names2)
    BY <1>13, NamesTriples DEF Leads
  <2>5. ASSUME NEW k, NEW t, NEW x, <<k, t, x>> \in I13 PROVE <<k, t, x>> \in Names2
    BY <2>5 DEF TableName, IndexName, DefaultedNames, RequiredNames, ColumnNames, MarkNames, DefaultNames,
       Superseding, Names2
  <2>6. ASSUME NEW k, NEW t, NEW x, <<k, t, x>> \in Names2 PROVE <<k, t, x>> \in I13
    BY <2>6 DEF TableName, IndexName, DefaultedNames, RequiredNames, ColumnNames, MarkNames, DefaultNames,
       Superseding, Names2
  <2> HIDE DEF I13
  <2>2. \A k, t, x : <<k, t, x>> \in I13 <=> <<k, t, x>> \in Names2
    BY <2>5, <2>6
  <2> QED BY <2>1, <2>2, SameNames
<1> DEFINE path == <<I0, I1, I2, I3, I4, I5, I6, I7, I8, I9, I10, I11, I12, I13>>
<1> HIDE DEF I0, I1, I2, I3, I4, I5, I6, I7, I8, I9, I10, I11, I12, I13
<1>15. \A n \in 1 .. 13 : Leads(path[n], Upgrade0002[n], path[n + 1])
  BY <1>1, <1>2, <1>3, <1>4, <1>5, <1>6, <1>7, <1>8, <1>9, <1>10, <1>11, <1>12, <1>13
<1>16. Len(Upgrade0002) = 13
  BY DEF Upgrade0002
<1>17. path[1] = Names1 /\ path[14] = Names2
  BY <1>14 DEF I0
<1>18. Triples(Names1)
  BY <1>0 DEF I0
<1> HIDE DEF path
<1> QED BY <1>15, <1>16, <1>17, <1>18 DEF Leading

LEMMA Downgrade0002Leads ==
  Leading(Names2, Downgrade0002, Names1)
<1> DEFINE I0 == Names2
           I1 == I0 \ {<<"index", "memory_relations", "ix_memory_relations_relation_type">>}
           I2 == I1 \ {<<"index", "memory_relations", "ix_memory_relations_target_id">>}
           I3 == I2 \ {<<"index", "memory_relations", "ix_memory_relations_source_id">>}
           I4 == I3 \ {<<"index", "memories", "ix_memories_superseded_by">>}
           I5 == I4 \ {<<"index", "memories", "ix_memories_type">>}
           I6 == I5 \ {<<"index", "memories", "ix_memories_status">>}
           I7 == {n \in I6 : n[2] # "memory_relations"}
           I8 == I7 \ {<<"key", "memories", Superseding>>}
           I9 == I8 \ {<<"column", "memories", "status_reason">>, <<"not null", "memories", "status_reason">>, <<"default", "memories", "status_reason">>}
           I10 == I9 \ {<<"column", "memories", "deprecated_at">>, <<"not null", "memories", "deprecated_at">>, <<"default", "memories", "deprecated_at">>}
           I11 == I10 \ {<<"column", "memories", "superseded_by">>, <<"not null", "memories", "superseded_by">>, <<"default", "memories", "superseded_by">>}
           I12 == I11 \ {<<"column", "memories", "source">>, <<"not null", "memories", "source">>, <<"default", "memories", "source">>}
           I13 == I12 \ {<<"column", "memories", "confidence">>, <<"not null", "memories", "confidence">>, <<"default", "memories", "confidence">>}
<1>0. Triples(I0)
  BY NamesTriples
<1>1. Leads(I0, Downgrade0002[1], I1)
  <2>1. <<"index", "memory_relations", "ix_memory_relations_relation_type">> \in I0
    BY DEF TableName, IndexName, Extensions, ExtensionName, DefaultedNames, RequiredNames, ColumnNames,
       MarkNames, DefaultNames, KeyNames, InMemories, InEdges, InRelations, InDreamRuns, Names2, Names1,
       Superseding
  <2> QED BY <1>0, <2>1, DropIndexLeads DEF Downgrade0002, OwnTables, LooseNames, TypeStatusName,
     TypeStatusIndex, Index, Object, Name
<1>2. Leads(I1, Downgrade0002[2], I2)
  <2>0. Triples(I1)
    BY <1>1 DEF Leads
  <2>1. <<"index", "memory_relations", "ix_memory_relations_target_id">> \in I1
    BY DEF TableName, IndexName, Extensions, ExtensionName, DefaultedNames, RequiredNames, ColumnNames,
       MarkNames, DefaultNames, KeyNames, InMemories, InEdges, InRelations, InDreamRuns, Names2, Names1,
       Superseding
  <2> QED BY <2>0, <2>1, DropIndexLeads DEF Downgrade0002, OwnTables, LooseNames, TypeStatusName,
     TypeStatusIndex, Index, Object, Name
<1>3. Leads(I2, Downgrade0002[3], I3)
  <2>0. Triples(I2)
    BY <1>2 DEF Leads
  <2>1. <<"index", "memory_relations", "ix_memory_relations_source_id">> \in I2
    BY DEF TableName, IndexName, Extensions, ExtensionName, DefaultedNames, RequiredNames, ColumnNames,
       MarkNames, DefaultNames, KeyNames, InMemories, InEdges, InRelations, InDreamRuns, Names2, Names1,
       Superseding
  <2> QED BY <2>0, <2>1, DropIndexLeads DEF Downgrade0002, OwnTables, LooseNames, TypeStatusName,
     TypeStatusIndex, Index, Object, Name
<1>4. Leads(I3, Downgrade0002[4], I4)
  <2>0. Triples(I3)
    BY <1>3 DEF Leads
  <2>1. <<"index", "memories", "ix_memories_superseded_by">> \in I3
    BY DEF TableName, IndexName, Extensions, ExtensionName, DefaultedNames, RequiredNames, ColumnNames,
       MarkNames, DefaultNames, KeyNames, InMemories, InEdges, InRelations, InDreamRuns, Names2, Names1,
       Superseding
  <2> QED BY <2>0, <2>1, DropIndexLeads DEF Downgrade0002, OwnTables, LooseNames, TypeStatusName,
     TypeStatusIndex, Index, Object, Name
<1>5. Leads(I4, Downgrade0002[5], I5)
  <2>0. Triples(I4)
    BY <1>4 DEF Leads
  <2>1. <<"index", "memories", "ix_memories_type">> \in I4
    BY DEF TableName, IndexName, Extensions, ExtensionName, DefaultedNames, RequiredNames, ColumnNames,
       MarkNames, DefaultNames, KeyNames, InMemories, InEdges, InRelations, InDreamRuns, Names2, Names1,
       Superseding
  <2> QED BY <2>0, <2>1, DropIndexLeads DEF Downgrade0002, OwnTables, LooseNames, TypeStatusName,
     TypeStatusIndex, Index, Object, Name
<1>6. Leads(I5, Downgrade0002[6], I6)
  <2>0. Triples(I5)
    BY <1>5 DEF Leads
  <2>1. <<"index", "memories", "ix_memories_status">> \in I5
    BY DEF TableName, IndexName, Extensions, ExtensionName, DefaultedNames, RequiredNames, ColumnNames,
       MarkNames, DefaultNames, KeyNames, InMemories, InEdges, InRelations, InDreamRuns, Names2, Names1,
       Superseding
  <2> QED BY <2>0, <2>1, DropIndexLeads DEF Downgrade0002, OwnTables, LooseNames, TypeStatusName,
     TypeStatusIndex, Index, Object, Name
<1>7. Leads(I6, Downgrade0002[7], I7)
  <2>0. Triples(I6)
    BY <1>6 DEF Leads
  <2>1. <<"table", "memory_relations", "memory_relations">> \in I6
    BY DEF TableName, IndexName, Extensions, ExtensionName, DefaultedNames, RequiredNames, ColumnNames,
       MarkNames, DefaultNames, KeyNames, InMemories, InEdges, InRelations, InDreamRuns, Names2, Names1,
       Superseding
  <2> QED BY <2>0, <2>1, DropTableLeads DEF Downgrade0002, OwnTables
<1>8. Leads(I7, Downgrade0002[8], I8)
  <2>0. Triples(I7)
    BY <1>7 DEF Leads
  <2>1. <<"key", "memories", Superseding>> \in I7
    BY DEF TableName, IndexName, Extensions, ExtensionName, DefaultedNames, RequiredNames, ColumnNames,
       MarkNames, DefaultNames, KeyNames, InMemories, InEdges, InRelations, InDreamRuns, Names2, Names1,
       Superseding
  <2> QED BY <2>0, <2>1, DropConstraintLeads DEF Downgrade0002, OwnTables, Superseding
<1>9. Leads(I8, Downgrade0002[9], I9)
  <2>0. Triples(I8)
    BY <1>8 DEF Leads
  <2>1. /\ <<"column", "memories", "status_reason">> \in I8
        /\ \A k \in {"index", "check", "unique", "key"} : \A x :
          <<k, "memories", x>> \in I8 => Column("memories", "status_reason") \notin On(<<k, "memories", x>>)
    BY DEF TableName, IndexName, Extensions, ExtensionName, DefaultedNames, RequiredNames, ColumnNames,
       MarkNames, DefaultNames, KeyNames, InMemories, InEdges, InRelations, InDreamRuns, Names2, Names1, On,
       ColumnsUnder, Column, Superseding
  <2> QED BY <2>0, <2>1, DropColumnLeads DEF Downgrade0002, OwnTables, Column
<1>10. Leads(I9, Downgrade0002[10], I10)
  <2>0. Triples(I9)
    BY <1>9 DEF Leads
  <2>1. /\ <<"column", "memories", "deprecated_at">> \in I9
        /\ \A k \in {"index", "check", "unique", "key"} : \A x :
          <<k, "memories", x>> \in I9 => Column("memories", "deprecated_at") \notin On(<<k, "memories", x>>)
    BY DEF TableName, IndexName, Extensions, ExtensionName, DefaultedNames, RequiredNames, ColumnNames,
       MarkNames, DefaultNames, KeyNames, InMemories, InEdges, InRelations, InDreamRuns, Names2, Names1, On,
       ColumnsUnder, Column, Superseding
  <2> QED BY <2>0, <2>1, DropColumnLeads DEF Downgrade0002, OwnTables, Column
<1>11. Leads(I10, Downgrade0002[11], I11)
  <2>0. Triples(I10)
    BY <1>10 DEF Leads
  <2>1. /\ <<"column", "memories", "superseded_by">> \in I10
        /\ \A k \in {"index", "check", "unique", "key"} : \A x :
          <<k, "memories", x>> \in I10 => Column("memories", "superseded_by") \notin On(<<k, "memories", x>>)
    BY DEF TableName, IndexName, Extensions, ExtensionName, DefaultedNames, RequiredNames, ColumnNames,
       MarkNames, DefaultNames, KeyNames, InMemories, InEdges, InRelations, InDreamRuns, Names2, Names1, On,
       ColumnsUnder, Column, Superseding
  <2> QED BY <2>0, <2>1, DropColumnLeads DEF Downgrade0002, OwnTables, Column
<1>12. Leads(I11, Downgrade0002[12], I12)
  <2>0. Triples(I11)
    BY <1>11 DEF Leads
  <2>1. /\ <<"column", "memories", "source">> \in I11
        /\ \A k \in {"index", "check", "unique", "key"} : \A x :
          <<k, "memories", x>> \in I11 => Column("memories", "source") \notin On(<<k, "memories", x>>)
    BY DEF TableName, IndexName, Extensions, ExtensionName, DefaultedNames, RequiredNames, ColumnNames,
       MarkNames, DefaultNames, KeyNames, InMemories, InEdges, InRelations, InDreamRuns, Names2, Names1, On,
       ColumnsUnder, Column, Superseding
  <2> QED BY <2>0, <2>1, DropColumnLeads DEF Downgrade0002, OwnTables, Column
<1>13. Leads(I12, Downgrade0002[13], I13)
  <2>0. Triples(I12)
    BY <1>12 DEF Leads
  <2>1. /\ <<"column", "memories", "confidence">> \in I12
        /\ \A k \in {"index", "check", "unique", "key"} : \A x :
          <<k, "memories", x>> \in I12 => Column("memories", "confidence") \notin On(<<k, "memories", x>>)
    BY DEF TableName, IndexName, Extensions, ExtensionName, DefaultedNames, RequiredNames, ColumnNames,
       MarkNames, DefaultNames, KeyNames, InMemories, InEdges, InRelations, InDreamRuns, Names2, Names1, On,
       ColumnsUnder, Column, Superseding
  <2> QED BY <2>0, <2>1, DropColumnLeads DEF Downgrade0002, OwnTables, Column
<1>14. I13 = Names1
  <2>1. Triples(I13) /\ Triples(Names1)
    BY <1>13, NamesTriples DEF Leads
  <2>3. /\ <<"index", "memories", "ix_memories_superseded_by">> \notin Names1
        /\ <<"index", "memories", "ix_memories_type">> \notin Names1
        /\ <<"index", "memories", "ix_memories_status">> \notin Names1
        /\ \A k, x : <<k, "memory_relations", x>> \notin Names1
        /\ <<"key", "memories", Superseding>> \notin Names1
        /\ <<"column", "memories", "status_reason">> \notin Names1
        /\ <<"not null", "memories", "status_reason">> \notin Names1
        /\ <<"default", "memories", "status_reason">> \notin Names1
        /\ <<"column", "memories", "deprecated_at">> \notin Names1
        /\ <<"not null", "memories", "deprecated_at">> \notin Names1
        /\ <<"default", "memories", "deprecated_at">> \notin Names1
        /\ <<"column", "memories", "superseded_by">> \notin Names1
        /\ <<"not null", "memories", "superseded_by">> \notin Names1
        /\ <<"default", "memories", "superseded_by">> \notin Names1
        /\ <<"column", "memories", "source">> \notin Names1
        /\ <<"not null", "memories", "source">> \notin Names1
        /\ <<"default", "memories", "source">> \notin Names1
        /\ <<"column", "memories", "confidence">> \notin Names1
        /\ <<"not null", "memories", "confidence">> \notin Names1
        /\ <<"default", "memories", "confidence">> \notin Names1
    BY DEF TableName, IndexName, Extensions, ExtensionName, DefaultedNames, RequiredNames, ColumnNames,
       MarkNames, DefaultNames, KeyNames, InMemories, InEdges, InRelations, InDreamRuns, Names1, Superseding
  <2>4. \A k, t, x : <<k, t, x>> \in InRelations => t = "memory_relations"
    BY InRelationsOf DEF Block
  <2>5. ASSUME NEW k, NEW t, NEW x, <<k, t, x>> \in I13 PROVE <<k, t, x>> \in Names1
    <3>1. <<k, t, x>> \in Names2 /\ t # "memory_relations"
      BY <2>5
    <3>2. k \in {"column", "not null", "default"} /\ t = "memories" =>
            x \notin {"confidence", "source", "superseded_by", "deprecated_at", "status_reason"}
      BY <2>5
    <3>3. /\ k = "index" /\ t = "memories" =>
               x \notin {"ix_memories_status", "ix_memories_type", "ix_memories_superseded_by"}
          /\ <<k, t, x>> # <<"key", "memories", Superseding>>
      BY <2>5
    <3> HIDE DEF I13
    <3> QED BY <2>4, <3>1, <3>2, <3>3 DEF TableName, IndexName, DefaultedNames, RequiredNames, ColumnNames,
          MarkNames, DefaultNames, Names2
  <2>6. ASSUME NEW k, NEW t, NEW x, <<k, t, x>> \in Names1 PROVE <<k, t, x>> \in I13
    BY <2>6, <2>3, <2>4 DEF TableName, IndexName, DefaultedNames, RequiredNames, ColumnNames, MarkNames,
       DefaultNames, Superseding, Names2
  <2> HIDE DEF I13
  <2>2. \A k, t, x : <<k, t, x>> \in I13 <=> <<k, t, x>> \in Names1
    BY <2>5, <2>6
  <2> QED BY <2>1, <2>2, SameNames
<1> DEFINE path == <<I0, I1, I2, I3, I4, I5, I6, I7, I8, I9, I10, I11, I12, I13>>
<1> HIDE DEF I0, I1, I2, I3, I4, I5, I6, I7, I8, I9, I10, I11, I12, I13
<1>15. \A n \in 1 .. 13 : Leads(path[n], Downgrade0002[n], path[n + 1])
  BY <1>1, <1>2, <1>3, <1>4, <1>5, <1>6, <1>7, <1>8, <1>9, <1>10, <1>11, <1>12, <1>13
<1>16. Len(Downgrade0002) = 13
  BY DEF Downgrade0002
<1>17. path[1] = Names2 /\ path[14] = Names1
  BY <1>14 DEF I0
<1>18. Triples(Names2)
  BY <1>0 DEF I0
<1> HIDE DEF path
<1> QED BY <1>15, <1>16, <1>17, <1>18 DEF Leading

LEMMA Upgrade0004Leads ==
  Leading(Names2, Upgrade0004, Names3)
<1> DEFINE I0 == Names2
           I1 == I0 \cup ({TableName("dream_runs")} \cup InDreamRuns)
           I2 == I1 \cup {IndexName("dream_runs", "ix_dream_runs_namespace")}
           I3 == I2 \cup {IndexName("dream_runs", "ix_dream_runs_status")}
           I4 == I3 \cup {IndexName("dream_runs", "ix_dream_runs_started_at")}
           I5 == I4 \cup {IndexName("memories", "ix_memories_status")}
           I6 == I5 \cup {IndexName("memories", "ix_memories_type_status")}
<1>0. Triples(I0)
  BY NamesTriples
<1>1. Leads(I0, Upgrade0004[1], I1)
  <2>1. \A k, x : <<k, "dream_runs", x>> \notin I0
    BY DEF TableName, IndexName, Extensions, ExtensionName, DefaultedNames, RequiredNames, ColumnNames,
       MarkNames, DefaultNames, KeyNames, InMemories, InEdges, InRelations, InDreamRuns, Names2, Names1,
       Superseding
  <2>2. Upgrade0004[1] = Create(Table("dream_runs", Schema(InDreamRuns)))
    BY InDreamRunsOf DEF Upgrade0004
  <2>3. \A x \in {} : <<"column", x[1], x[2]>> \in I0
    OBVIOUS
  <2>4. Block(InDreamRuns, "dream_runs", {})
    BY InDreamRunsOf
  <2>5. "dream_runs" \in OwnTables /\ \A k, x : <<k, "dream_runs", x>> \notin I0
    BY <2>1 DEF OwnTables
  <2>6. Leads(I0, Create(Table("dream_runs", Schema(InDreamRuns))), I1)
    BY ONLY <1>0, <2>3, <2>4, <2>5, TableLeads
  <2> QED BY <2>2, <2>6
<1>2. Leads(I1, Upgrade0004[2], I2)
  <2>0. Triples(I1)
    BY <1>1 DEF Leads
  <2>1. /\ TableName("dream_runs") \in I1
        /\ <<"column", "dream_runs", "namespace">> \in I1
        /\ <<"index", "dream_runs", "ix_dream_runs_namespace">> \notin I1
    BY DEF TableName, IndexName, Extensions, ExtensionName, DefaultedNames, RequiredNames, ColumnNames,
       MarkNames, DefaultNames, KeyNames, InMemories, InEdges, InRelations, InDreamRuns, Names2, Names1,
       Superseding
  <2> QED BY <2>0, <2>1, IndexLeads DEF Upgrade0004, OwnTables, IndexName, ColumnsUnder
<1>3. Leads(I2, Upgrade0004[3], I3)
  <2>0. Triples(I2)
    BY <1>2 DEF Leads
  <2>1. /\ TableName("dream_runs") \in I2
        /\ <<"column", "dream_runs", "status">> \in I2
        /\ <<"index", "dream_runs", "ix_dream_runs_status">> \notin I2
    BY DEF TableName, IndexName, Extensions, ExtensionName, DefaultedNames, RequiredNames, ColumnNames,
       MarkNames, DefaultNames, KeyNames, InMemories, InEdges, InRelations, InDreamRuns, Names2, Names1,
       Superseding
  <2> QED BY <2>0, <2>1, IndexLeads DEF Upgrade0004, OwnTables, IndexName, ColumnsUnder
<1>4. Leads(I3, Upgrade0004[4], I4)
  <2>0. Triples(I3)
    BY <1>3 DEF Leads
  <2>1. /\ TableName("dream_runs") \in I3
        /\ <<"column", "dream_runs", "started_at">> \in I3
        /\ <<"index", "dream_runs", "ix_dream_runs_started_at">> \notin I3
    BY DEF TableName, IndexName, Extensions, ExtensionName, DefaultedNames, RequiredNames, ColumnNames,
       MarkNames, DefaultNames, KeyNames, InMemories, InEdges, InRelations, InDreamRuns, Names2, Names1,
       Superseding
  <2> QED BY <2>0, <2>1, IndexLeads DEF Upgrade0004, OwnTables, IndexName, ColumnsUnder
<1>5. Leads(I4, Upgrade0004[5], I5)
  <2>0. Triples(I4)
    BY <1>4 DEF Leads
  <2>1. /\ TableName("memories") \in I4
        /\ <<"column", "memories", "status">> \in I4
    BY DEF TableName, IndexName, Extensions, ExtensionName, DefaultedNames, RequiredNames, ColumnNames,
       MarkNames, DefaultNames, KeyNames, InMemories, InEdges, InRelations, InDreamRuns, Names2, Names1,
       Superseding
  <2> QED BY <2>0, <2>1, IndexIfMissingLeads DEF Upgrade0004, OwnTables, IndexName, ColumnsUnder,
     TypeStatusIndex
<1>6. Leads(I5, Upgrade0004[6], I6)
  <2>0. Triples(I5)
    BY <1>5 DEF Leads
  <2>1. /\ TableName("memories") \in I5
        /\ <<"column", "memories", "type">> \in I5
        /\ <<"column", "memories", "status">> \in I5
    BY DEF TableName, IndexName, Extensions, ExtensionName, DefaultedNames, RequiredNames, ColumnNames,
       MarkNames, DefaultNames, KeyNames, InMemories, InEdges, InRelations, InDreamRuns, Names2, Names1,
       Superseding
  <2> QED BY <2>0, <2>1, IndexIfMissingLeads DEF Upgrade0004, OwnTables, IndexName, ColumnsUnder,
     TypeStatusIndex
<1>7. I6 = Names3
  <2>1. Triples(I6) /\ Triples(Names3)
    BY <1>6, NamesTriples DEF Leads
  <2>3. /\ <<"index", "memories", "ix_memories_status">> \in Names2
    BY DEF TableName, IndexName, Extensions, ExtensionName, DefaultedNames, RequiredNames, ColumnNames,
       MarkNames, DefaultNames, KeyNames, InMemories, InEdges, InRelations, InDreamRuns, Names2, Names1,
       Superseding
  <2>5. ASSUME NEW k, NEW t, NEW x, <<k, t, x>> \in I6 PROVE <<k, t, x>> \in Names3
    BY <2>5, <2>3 DEF TableName, IndexName, DefaultedNames, RequiredNames, ColumnNames, MarkNames,
       DefaultNames, Superseding, Names3
  <2>6. ASSUME NEW k, NEW t, NEW x, <<k, t, x>> \in Names3 PROVE <<k, t, x>> \in I6
    BY <2>6, <2>3 DEF TableName, IndexName, DefaultedNames, RequiredNames, ColumnNames, MarkNames,
       DefaultNames, Superseding, Names3
  <2> HIDE DEF I6
  <2>2. \A k, t, x : <<k, t, x>> \in I6 <=> <<k, t, x>> \in Names3
    BY <2>5, <2>6
  <2> QED BY <2>1, <2>2, SameNames
<1> DEFINE path == <<I0, I1, I2, I3, I4, I5, I6>>
<1> HIDE DEF I0, I1, I2, I3, I4, I5, I6
<1>8. \A n \in 1 .. 6 : Leads(path[n], Upgrade0004[n], path[n + 1])
  BY <1>1, <1>2, <1>3, <1>4, <1>5, <1>6
<1>9. Len(Upgrade0004) = 6
  BY DEF Upgrade0004
<1>10. path[1] = Names2 /\ path[7] = Names3
  BY <1>7 DEF I0
<1>11. Triples(Names2)
  BY <1>0 DEF I0
<1> HIDE DEF path
<1> QED BY <1>8, <1>9, <1>10, <1>11 DEF Leading

LEMMA Downgrade0004Leads ==
  Leading(Names3, Downgrade0004, Names2)
<1> DEFINE I0 == Names3
           I1 == I0 \ {<<"index", "memories", "ix_memories_type_status">>}
           I2 == I1 \ {<<"index", "dream_runs", "ix_dream_runs_started_at">>}
           I3 == I2 \ {<<"index", "dream_runs", "ix_dream_runs_status">>}
           I4 == I3 \ {<<"index", "dream_runs", "ix_dream_runs_namespace">>}
           I5 == {n \in I4 : n[2] # "dream_runs"}
<1>0. Triples(I0)
  BY NamesTriples
<1>1. Leads(I0, Downgrade0004[1], I1)
  <2>1. <<"index", "memories", "ix_memories_type_status">> \in I0
    BY DEF TableName, IndexName, Extensions, ExtensionName, DefaultedNames, RequiredNames, ColumnNames,
       MarkNames, DefaultNames, KeyNames, InMemories, InEdges, InRelations, InDreamRuns, Names3, Names2,
       Names1, Superseding
  <2> QED BY <1>0, <2>1, DropIfExistsLeads DEF Downgrade0004, OwnTables, LooseNames, TypeStatusName,
     TypeStatusIndex, Index, Object, Name
<1>2. Leads(I1, Downgrade0004[2], I2)
  <2>0. Triples(I1)
    BY <1>1 DEF Leads
  <2>1. <<"index", "dream_runs", "ix_dream_runs_started_at">> \in I1
    BY DEF TableName, IndexName, Extensions, ExtensionName, DefaultedNames, RequiredNames, ColumnNames,
       MarkNames, DefaultNames, KeyNames, InMemories, InEdges, InRelations, InDreamRuns, Names3, Names2,
       Names1, Superseding
  <2> QED BY <2>0, <2>1, DropIndexLeads DEF Downgrade0004, OwnTables, LooseNames, TypeStatusName,
     TypeStatusIndex, Index, Object, Name
<1>3. Leads(I2, Downgrade0004[3], I3)
  <2>0. Triples(I2)
    BY <1>2 DEF Leads
  <2>1. <<"index", "dream_runs", "ix_dream_runs_status">> \in I2
    BY DEF TableName, IndexName, Extensions, ExtensionName, DefaultedNames, RequiredNames, ColumnNames,
       MarkNames, DefaultNames, KeyNames, InMemories, InEdges, InRelations, InDreamRuns, Names3, Names2,
       Names1, Superseding
  <2> QED BY <2>0, <2>1, DropIndexLeads DEF Downgrade0004, OwnTables, LooseNames, TypeStatusName,
     TypeStatusIndex, Index, Object, Name
<1>4. Leads(I3, Downgrade0004[4], I4)
  <2>0. Triples(I3)
    BY <1>3 DEF Leads
  <2>1. <<"index", "dream_runs", "ix_dream_runs_namespace">> \in I3
    BY DEF TableName, IndexName, Extensions, ExtensionName, DefaultedNames, RequiredNames, ColumnNames,
       MarkNames, DefaultNames, KeyNames, InMemories, InEdges, InRelations, InDreamRuns, Names3, Names2,
       Names1, Superseding
  <2> QED BY <2>0, <2>1, DropIndexLeads DEF Downgrade0004, OwnTables, LooseNames, TypeStatusName,
     TypeStatusIndex, Index, Object, Name
<1>5. Leads(I4, Downgrade0004[5], I5)
  <2>0. Triples(I4)
    BY <1>4 DEF Leads
  <2>1. <<"table", "dream_runs", "dream_runs">> \in I4
    BY DEF TableName, IndexName, Extensions, ExtensionName, DefaultedNames, RequiredNames, ColumnNames,
       MarkNames, DefaultNames, KeyNames, InMemories, InEdges, InRelations, InDreamRuns, Names3, Names2,
       Names1, Superseding
  <2> QED BY <2>0, <2>1, DropTableLeads DEF Downgrade0004, OwnTables
<1>6. I5 = Names2
  <2>1. Triples(I5) /\ Triples(Names2)
    BY <1>5, NamesTriples DEF Leads
  <2>3. /\ <<"index", "memories", "ix_memories_type_status">> \notin Names2
        /\ \A k, x : <<k, "dream_runs", x>> \notin Names2
    BY DEF TableName, IndexName, Extensions, ExtensionName, DefaultedNames, RequiredNames, ColumnNames,
       MarkNames, DefaultNames, KeyNames, InMemories, InEdges, InRelations, InDreamRuns, Names2, Names1,
       Superseding
  <2>4. \A k, t, x : <<k, t, x>> \in InDreamRuns => t = "dream_runs"
    BY InDreamRunsOf DEF Block
  <2>5. ASSUME NEW k, NEW t, NEW x, <<k, t, x>> \in I5 PROVE <<k, t, x>> \in Names2
    BY <2>5, <2>3, <2>4 DEF TableName, IndexName, DefaultedNames, RequiredNames, ColumnNames, MarkNames,
       DefaultNames, Superseding, Names3
  <2>6. ASSUME NEW k, NEW t, NEW x, <<k, t, x>> \in Names2 PROVE <<k, t, x>> \in I5
    BY <2>6, <2>3, <2>4 DEF TableName, IndexName, DefaultedNames, RequiredNames, ColumnNames, MarkNames,
       DefaultNames, Superseding, Names3
  <2> HIDE DEF I5
  <2>2. \A k, t, x : <<k, t, x>> \in I5 <=> <<k, t, x>> \in Names2
    BY <2>5, <2>6
  <2> QED BY <2>1, <2>2, SameNames
<1> DEFINE path == <<I0, I1, I2, I3, I4, I5>>
<1> HIDE DEF I0, I1, I2, I3, I4, I5
<1>7. \A n \in 1 .. 5 : Leads(path[n], Downgrade0004[n], path[n + 1])
  BY <1>1, <1>2, <1>3, <1>4, <1>5
<1>8. Len(Downgrade0004) = 5
  BY DEF Downgrade0004
<1>9. path[1] = Names3 /\ path[6] = Names2
  BY <1>6 DEF I0
<1>10. Triples(Names3)
  BY <1>0 DEF I0
<1> HIDE DEF path
<1> QED BY <1>7, <1>8, <1>9, <1>10 DEF Leading

LEMMA Upgrade0005Leads ==
  Leading(Names3, Upgrade0005, Names4)
<1> DEFINE I0 == Names3
           I1 == I0 \cup DefaultedNames("memories", {"scope"})
           I2 == I1 \cup {<<"check", "memories", "ck_memories_scope">>}
           I3 == I2 \cup {IndexName("memories", "ix_memories_scope")}
           I4 == I3 \cup {IndexName("memories", "ix_memories_namespace_scope")}
<1>0. Triples(I0)
  BY NamesTriples
<1>1. Leads(I0, Upgrade0005[1], I1)
  <2>1. /\ TableName("memories") \in I0
        /\ <<"column", "memories", "scope">> \notin I0
        /\ <<"not null", "memories", "scope">> \notin I0
        /\ <<"default", "memories", "scope">> \notin I0
    BY DEF TableName, IndexName, Extensions, ExtensionName, DefaultedNames, RequiredNames, ColumnNames,
       MarkNames, DefaultNames, KeyNames, InMemories, InEdges, InRelations, InDreamRuns, Names3, Names2,
       Names1, Superseding
  <2> QED BY <1>0, <2>1, DefaultedLeads DEF Upgrade0005, OwnTables
<1>2. Leads(I1, Upgrade0005[2], I2)
  <2>0. Triples(I1)
    BY <1>1 DEF Leads
  <2>1. /\ TableName("memories") \in I1
        /\ <<"column", "memories", "scope">> \in I1
        /\ <<"check", "memories", "ck_memories_scope">> \notin I1
    BY DEF TableName, IndexName, Extensions, ExtensionName, DefaultedNames, RequiredNames, ColumnNames,
       MarkNames, DefaultNames, KeyNames, InMemories, InEdges, InRelations, InDreamRuns, Names3, Names2,
       Names1, Superseding
  <2> QED BY <2>0, <2>1, CheckLeads DEF Upgrade0005, OwnTables, ColumnsUnder
<1>3. Leads(I2, Upgrade0005[3], I3)
  <2>0. Triples(I2)
    BY <1>2 DEF Leads
  <2>1. /\ TableName("memories") \in I2
        /\ <<"column", "memories", "scope">> \in I2
        /\ <<"index", "memories", "ix_memories_scope">> \notin I2
    BY DEF TableName, IndexName, Extensions, ExtensionName, DefaultedNames, RequiredNames, ColumnNames,
       MarkNames, DefaultNames, KeyNames, InMemories, InEdges, InRelations, InDreamRuns, Names3, Names2,
       Names1, Superseding
  <2> QED BY <2>0, <2>1, IndexLeads DEF Upgrade0005, OwnTables, IndexName, ColumnsUnder
<1>4. Leads(I3, Upgrade0005[4], I4)
  <2>0. Triples(I3)
    BY <1>3 DEF Leads
  <2>1. /\ TableName("memories") \in I3
        /\ <<"column", "memories", "namespace">> \in I3
        /\ <<"column", "memories", "scope">> \in I3
        /\ <<"index", "memories", "ix_memories_namespace_scope">> \notin I3
    BY DEF TableName, IndexName, Extensions, ExtensionName, DefaultedNames, RequiredNames, ColumnNames,
       MarkNames, DefaultNames, KeyNames, InMemories, InEdges, InRelations, InDreamRuns, Names3, Names2,
       Names1, Superseding
  <2> QED BY <2>0, <2>1, IndexLeads DEF Upgrade0005, OwnTables, IndexName, ColumnsUnder
<1>5. I4 = Names4
  <2>1. Triples(I4) /\ Triples(Names4)
    BY <1>4, NamesTriples DEF Leads
  <2>5. ASSUME NEW k, NEW t, NEW x, <<k, t, x>> \in I4 PROVE <<k, t, x>> \in Names4
    BY <2>5 DEF TableName, IndexName, DefaultedNames, RequiredNames, ColumnNames, MarkNames, DefaultNames,
       Superseding, Names4
  <2>6. ASSUME NEW k, NEW t, NEW x, <<k, t, x>> \in Names4 PROVE <<k, t, x>> \in I4
    BY <2>6 DEF TableName, IndexName, DefaultedNames, RequiredNames, ColumnNames, MarkNames, DefaultNames,
       Superseding, Names4
  <2> HIDE DEF I4
  <2>2. \A k, t, x : <<k, t, x>> \in I4 <=> <<k, t, x>> \in Names4
    BY <2>5, <2>6
  <2> QED BY <2>1, <2>2, SameNames
<1> DEFINE path == <<I0, I1, I2, I3, I4>>
<1> HIDE DEF I0, I1, I2, I3, I4
<1>6. \A n \in 1 .. 4 : Leads(path[n], Upgrade0005[n], path[n + 1])
  BY <1>1, <1>2, <1>3, <1>4
<1>7. Len(Upgrade0005) = 4
  BY DEF Upgrade0005
<1>8. path[1] = Names3 /\ path[5] = Names4
  BY <1>5 DEF I0
<1>9. Triples(Names3)
  BY <1>0 DEF I0
<1> HIDE DEF path
<1> QED BY <1>6, <1>7, <1>8, <1>9 DEF Leading

LEMMA Downgrade0005Leads ==
  Leading(Names4, Downgrade0005, Names3)
<1> DEFINE I0 == Names4
           I1 == I0 \ {<<"index", "memories", "ix_memories_namespace_scope">>}
           I2 == I1 \ {<<"index", "memories", "ix_memories_scope">>}
           I3 == I2 \ {<<"check", "memories", "ck_memories_scope">>}
           I4 == I3 \ {<<"column", "memories", "scope">>, <<"not null", "memories", "scope">>, <<"default", "memories", "scope">>}
<1>0. Triples(I0)
  BY NamesTriples
<1>1. Leads(I0, Downgrade0005[1], I1)
  <2>1. <<"index", "memories", "ix_memories_namespace_scope">> \in I0
    BY DEF TableName, IndexName, Extensions, ExtensionName, DefaultedNames, RequiredNames, ColumnNames,
       MarkNames, DefaultNames, KeyNames, InMemories, InEdges, InRelations, InDreamRuns, Names4, Names3,
       Names2, Names1, Superseding
  <2> QED BY <1>0, <2>1, DropIndexLeads DEF Downgrade0005, OwnTables, LooseNames, TypeStatusName,
     TypeStatusIndex, Index, Object, Name
<1>2. Leads(I1, Downgrade0005[2], I2)
  <2>0. Triples(I1)
    BY <1>1 DEF Leads
  <2>1. <<"index", "memories", "ix_memories_scope">> \in I1
    BY DEF TableName, IndexName, Extensions, ExtensionName, DefaultedNames, RequiredNames, ColumnNames,
       MarkNames, DefaultNames, KeyNames, InMemories, InEdges, InRelations, InDreamRuns, Names4, Names3,
       Names2, Names1, Superseding
  <2> QED BY <2>0, <2>1, DropIndexLeads DEF Downgrade0005, OwnTables, LooseNames, TypeStatusName,
     TypeStatusIndex, Index, Object, Name
<1>3. Leads(I2, Downgrade0005[3], I3)
  <2>0. Triples(I2)
    BY <1>2 DEF Leads
  <2>1. <<"check", "memories", "ck_memories_scope">> \in I2
    BY DEF TableName, IndexName, Extensions, ExtensionName, DefaultedNames, RequiredNames, ColumnNames,
       MarkNames, DefaultNames, KeyNames, InMemories, InEdges, InRelations, InDreamRuns, Names4, Names3,
       Names2, Names1, Superseding
  <2> QED BY <2>0, <2>1, DropConstraintLeads DEF Downgrade0005, OwnTables
<1>4. Leads(I3, Downgrade0005[4], I4)
  <2>0. Triples(I3)
    BY <1>3 DEF Leads
  <2>1. /\ <<"column", "memories", "scope">> \in I3
        /\ \A k \in {"index", "check", "unique", "key"} : \A x :
          <<k, "memories", x>> \in I3 => Column("memories", "scope") \notin On(<<k, "memories", x>>)
    BY DEF TableName, IndexName, Extensions, ExtensionName, DefaultedNames, RequiredNames, ColumnNames,
       MarkNames, DefaultNames, KeyNames, InMemories, InEdges, InRelations, InDreamRuns, Names4, Names3,
       Names2, Names1, On, ColumnsUnder, Column, Superseding
  <2> QED BY <2>0, <2>1, DropColumnLeads DEF Downgrade0005, OwnTables, Column
<1>5. I4 = Names3
  <2>1. Triples(I4) /\ Triples(Names3)
    BY <1>4, NamesTriples DEF Leads
  <2>3. /\ <<"index", "memories", "ix_memories_namespace_scope">> \notin Names3
        /\ <<"index", "memories", "ix_memories_scope">> \notin Names3
        /\ <<"check", "memories", "ck_memories_scope">> \notin Names3
        /\ <<"column", "memories", "scope">> \notin Names3
        /\ <<"not null", "memories", "scope">> \notin Names3
        /\ <<"default", "memories", "scope">> \notin Names3
    BY DEF TableName, IndexName, Extensions, ExtensionName, DefaultedNames, RequiredNames, ColumnNames,
       MarkNames, DefaultNames, KeyNames, InMemories, InEdges, InRelations, InDreamRuns, Names3, Names2,
       Names1, Superseding
  <2>5. ASSUME NEW k, NEW t, NEW x, <<k, t, x>> \in I4 PROVE <<k, t, x>> \in Names3
    BY <2>5, <2>3 DEF TableName, IndexName, DefaultedNames, RequiredNames, ColumnNames, MarkNames,
       DefaultNames, Superseding, Names4
  <2>6. ASSUME NEW k, NEW t, NEW x, <<k, t, x>> \in Names3 PROVE <<k, t, x>> \in I4
    BY <2>6, <2>3 DEF TableName, IndexName, DefaultedNames, RequiredNames, ColumnNames, MarkNames,
       DefaultNames, Superseding, Names4
  <2> HIDE DEF I4
  <2>2. \A k, t, x : <<k, t, x>> \in I4 <=> <<k, t, x>> \in Names3
    BY <2>5, <2>6
  <2> QED BY <2>1, <2>2, SameNames
<1> DEFINE path == <<I0, I1, I2, I3, I4>>
<1> HIDE DEF I0, I1, I2, I3, I4
<1>6. \A n \in 1 .. 4 : Leads(path[n], Downgrade0005[n], path[n + 1])
  BY <1>1, <1>2, <1>3, <1>4
<1>7. Len(Downgrade0005) = 4
  BY DEF Downgrade0005
<1>8. path[1] = Names4 /\ path[5] = Names3
  BY <1>5 DEF I0
<1>9. Triples(Names4)
  BY <1>0 DEF I0
<1> HIDE DEF path
<1> QED BY <1>6, <1>7, <1>8, <1>9 DEF Leading

LEMMA Upgrade0006Leads ==
  Leading(Names4, Upgrade0006, Names5)
<1> DEFINE I0 == Names4
           I1 == I0 \cup ColumnNames("memories", {"workspace"})
           I2 == I1
           I3 == I2
           I4 == I3
           I5 == I4 \ {<<"index", "memories", "ix_memories_namespace_scope">>}
           I6 == I5 \ {<<"index", "memories", "ix_memories_scope">>}
           I7 == I6 \ {<<"check", "memories", "ck_memories_scope">>}
           I8 == I7 \ {<<"column", "memories", "scope">>, <<"not null", "memories", "scope">>, <<"default", "memories", "scope">>}
           I9 == I8 \ {<<"index", "memories", "ix_memories_namespace">>}
           I10 == I9 \ {<<"column", "memories", "namespace">>, <<"not null", "memories", "namespace">>, <<"default", "memories", "namespace">>}
           I11 == {n \in I10 : n[2] # "memory_relations"}
           I12 == {n \in I11 : n[2] # "hebbian_edges"}
           I13 == I12 \ {<<"index", "dream_runs", "ix_dream_runs_namespace">>}
           I14 == I13 \ {<<"column", "dream_runs", "namespace">>, <<"not null", "dream_runs", "namespace">>, <<"default", "dream_runs", "namespace">>}
           I15 == I14 \cup {IndexName("memories", "ix_memories_active_workspace")}
           I16 == I15 \cup {IndexName("memories", "ix_memories_workspace")}
<1>0. Triples(I0)
  BY NamesTriples
<1>1. Leads(I0, Upgrade0006[1], I1)
  <2>1. /\ TableName("memories") \in I0
        /\ <<"column", "memories", "workspace">> \notin I0
    BY DEF TableName, IndexName, Extensions, ExtensionName, DefaultedNames, RequiredNames, ColumnNames,
       MarkNames, DefaultNames, KeyNames, InMemories, InEdges, InRelations, InDreamRuns, Names4, Names3,
       Names2, Names1, Superseding
  <2> QED BY <1>0, <2>1, NullableLeads DEF Upgrade0006, OwnTables
<1>2. Leads(I1, Upgrade0006[2], I2)
  <2>0. Triples(I1)
    BY <1>1 DEF Leads
  <2> QED BY <2>0, UpdateLeads DEF Upgrade0006
<1>3. Leads(I2, Upgrade0006[3], I3)
  <2>0. Triples(I2)
    BY <1>2 DEF Leads
  <2> QED BY <2>0, UpdateLeads DEF Upgrade0006
<1>4. Leads(I3, Upgrade0006[4], I4)
  <2>0. Triples(I3)
    BY <1>3 DEF Leads
  <2> QED BY <2>0, UpdateLeads DEF Upgrade0006
<1>5. Leads(I4, Upgrade0006[5], I5)
  <2>0. Triples(I4)
    BY <1>4 DEF Leads
  <2>1. <<"index", "memories", "ix_memories_namespace_scope">> \in I4
    BY DEF TableName, IndexName, Extensions, ExtensionName, DefaultedNames, RequiredNames, ColumnNames,
       MarkNames, DefaultNames, KeyNames, InMemories, InEdges, InRelations, InDreamRuns, Names4, Names3,
       Names2, Names1, Superseding
  <2> QED BY <2>0, <2>1, DropIndexLeads DEF Upgrade0006, OwnTables, LooseNames, TypeStatusName,
     TypeStatusIndex, Index, Object, Name
<1>6. Leads(I5, Upgrade0006[6], I6)
  <2>0. Triples(I5)
    BY <1>5 DEF Leads
  <2>1. <<"index", "memories", "ix_memories_scope">> \in I5
    BY DEF TableName, IndexName, Extensions, ExtensionName, DefaultedNames, RequiredNames, ColumnNames,
       MarkNames, DefaultNames, KeyNames, InMemories, InEdges, InRelations, InDreamRuns, Names4, Names3,
       Names2, Names1, Superseding
  <2> QED BY <2>0, <2>1, DropIndexLeads DEF Upgrade0006, OwnTables, LooseNames, TypeStatusName,
     TypeStatusIndex, Index, Object, Name
<1>7. Leads(I6, Upgrade0006[7], I7)
  <2>0. Triples(I6)
    BY <1>6 DEF Leads
  <2>1. <<"check", "memories", "ck_memories_scope">> \in I6
    BY DEF TableName, IndexName, Extensions, ExtensionName, DefaultedNames, RequiredNames, ColumnNames,
       MarkNames, DefaultNames, KeyNames, InMemories, InEdges, InRelations, InDreamRuns, Names4, Names3,
       Names2, Names1, Superseding
  <2> QED BY <2>0, <2>1, DropConstraintLeads DEF Upgrade0006, OwnTables
<1>8. Leads(I7, Upgrade0006[8], I8)
  <2>0. Triples(I7)
    BY <1>7 DEF Leads
  <2>1. /\ <<"column", "memories", "scope">> \in I7
        /\ \A k \in {"index", "check", "unique", "key"} : \A x :
          <<k, "memories", x>> \in I7 => Column("memories", "scope") \notin On(<<k, "memories", x>>)
    BY DEF TableName, IndexName, Extensions, ExtensionName, DefaultedNames, RequiredNames, ColumnNames,
       MarkNames, DefaultNames, KeyNames, InMemories, InEdges, InRelations, InDreamRuns, Names4, Names3,
       Names2, Names1, On, ColumnsUnder, Column, Superseding
  <2> QED BY <2>0, <2>1, DropColumnLeads DEF Upgrade0006, OwnTables, Column
<1>9. Leads(I8, Upgrade0006[9], I9)
  <2>0. Triples(I8)
    BY <1>8 DEF Leads
  <2>1. <<"index", "memories", "ix_memories_namespace">> \in I8
    BY DEF TableName, IndexName, Extensions, ExtensionName, DefaultedNames, RequiredNames, ColumnNames,
       MarkNames, DefaultNames, KeyNames, InMemories, InEdges, InRelations, InDreamRuns, Names4, Names3,
       Names2, Names1, Superseding
  <2> QED BY <2>0, <2>1, DropIndexLeads DEF Upgrade0006, OwnTables, LooseNames, TypeStatusName,
     TypeStatusIndex, Index, Object, Name
<1>10. Leads(I9, Upgrade0006[10], I10)
  <2>0. Triples(I9)
    BY <1>9 DEF Leads
  <2>1. /\ <<"column", "memories", "namespace">> \in I9
        /\ \A k \in {"index", "check", "unique", "key"} : \A x :
          <<k, "memories", x>> \in I9 => Column("memories", "namespace") \notin On(<<k, "memories", x>>)
    BY DEF TableName, IndexName, Extensions, ExtensionName, DefaultedNames, RequiredNames, ColumnNames,
       MarkNames, DefaultNames, KeyNames, InMemories, InEdges, InRelations, InDreamRuns, Names4, Names3,
       Names2, Names1, On, ColumnsUnder, Column, Superseding
  <2> QED BY <2>0, <2>1, DropColumnLeads DEF Upgrade0006, OwnTables, Column
<1>11. Leads(I10, Upgrade0006[11], I11)
  <2>0. Triples(I10)
    BY <1>10 DEF Leads
  <2>1. <<"table", "memory_relations", "memory_relations">> \in I10
    BY DEF TableName, IndexName, Extensions, ExtensionName, DefaultedNames, RequiredNames, ColumnNames,
       MarkNames, DefaultNames, KeyNames, InMemories, InEdges, InRelations, InDreamRuns, Names4, Names3,
       Names2, Names1, Superseding
  <2> QED BY <2>0, <2>1, DropTableLeads DEF Upgrade0006, OwnTables
<1>12. Leads(I11, Upgrade0006[12], I12)
  <2>0. Triples(I11)
    BY <1>11 DEF Leads
  <2>1. <<"table", "hebbian_edges", "hebbian_edges">> \in I11
    BY DEF TableName, IndexName, Extensions, ExtensionName, DefaultedNames, RequiredNames, ColumnNames,
       MarkNames, DefaultNames, KeyNames, InMemories, InEdges, InRelations, InDreamRuns, Names4, Names3,
       Names2, Names1, Superseding
  <2> QED BY <2>0, <2>1, DropTableLeads DEF Upgrade0006, OwnTables
<1>13. Leads(I12, Upgrade0006[13], I13)
  <2>0. Triples(I12)
    BY <1>12 DEF Leads
  <2>1. <<"index", "dream_runs", "ix_dream_runs_namespace">> \in I12
    BY DEF TableName, IndexName, Extensions, ExtensionName, DefaultedNames, RequiredNames, ColumnNames,
       MarkNames, DefaultNames, KeyNames, InMemories, InEdges, InRelations, InDreamRuns, Names4, Names3,
       Names2, Names1, Superseding
  <2> QED BY <2>0, <2>1, DropIndexLeads DEF Upgrade0006, OwnTables, LooseNames, TypeStatusName,
     TypeStatusIndex, Index, Object, Name
<1>14. Leads(I13, Upgrade0006[14], I14)
  <2>0. Triples(I13)
    BY <1>13 DEF Leads
  <2>1. /\ <<"column", "dream_runs", "namespace">> \in I13
        /\ \A k \in {"index", "check", "unique", "key"} : \A x :
          <<k, "dream_runs", x>> \in I13 => Column("dream_runs", "namespace") \notin On(<<k, "dream_runs", x>>)
    BY DEF TableName, IndexName, Extensions, ExtensionName, DefaultedNames, RequiredNames, ColumnNames,
       MarkNames, DefaultNames, KeyNames, InMemories, InEdges, InRelations, InDreamRuns, Names4, Names3,
       Names2, Names1, On, ColumnsUnder, Column, Superseding
  <2> QED BY <2>0, <2>1, DropColumnLeads DEF Upgrade0006, OwnTables, Column
<1>15. Leads(I14, Upgrade0006[15], I15)
  <2>0. Triples(I14)
    BY <1>14 DEF Leads
  <2>1. /\ TableName("memories") \in I14
        /\ <<"column", "memories", "status">> \in I14
        /\ <<"column", "memories", "workspace">> \in I14
        /\ <<"index", "memories", "ix_memories_active_workspace">> \notin I14
    BY DEF TableName, IndexName, Extensions, ExtensionName, DefaultedNames, RequiredNames, ColumnNames,
       MarkNames, DefaultNames, KeyNames, InMemories, InEdges, InRelations, InDreamRuns, Names4, Names3,
       Names2, Names1, Superseding
  <2> QED BY <2>0, <2>1, IndexLeads DEF Upgrade0006, OwnTables, IndexName, ColumnsUnder
<1>16. Leads(I15, Upgrade0006[16], I16)
  <2>0. Triples(I15)
    BY <1>15 DEF Leads
  <2>1. /\ TableName("memories") \in I15
        /\ <<"column", "memories", "workspace">> \in I15
        /\ <<"index", "memories", "ix_memories_workspace">> \notin I15
    BY DEF TableName, IndexName, Extensions, ExtensionName, DefaultedNames, RequiredNames, ColumnNames,
       MarkNames, DefaultNames, KeyNames, InMemories, InEdges, InRelations, InDreamRuns, Names4, Names3,
       Names2, Names1, Superseding
  <2> QED BY <2>0, <2>1, IndexLeads DEF Upgrade0006, OwnTables, IndexName, ColumnsUnder
<1>17. I16 = Names5
  <2>1. Triples(I16) /\ Triples(Names5)
    BY <1>16, NamesTriples DEF Leads
  <2>5. ASSUME NEW k, NEW t, NEW x, <<k, t, x>> \in I16 PROVE <<k, t, x>> \in Names5
    BY <2>5 DEF TableName, IndexName, DefaultedNames, RequiredNames, ColumnNames, MarkNames, DefaultNames,
       Superseding, Names5, Scoping
  <2>6. ASSUME NEW k, NEW t, NEW x, <<k, t, x>> \in Names5 PROVE <<k, t, x>> \in I16
    BY <2>6, ZenonT(30) DEF TableName, IndexName, DefaultedNames, RequiredNames, ColumnNames, MarkNames, DefaultNames,
       Superseding, Names5, Scoping
  <2> HIDE DEF I16
  <2>2. \A k, t, x : <<k, t, x>> \in I16 <=> <<k, t, x>> \in Names5
    BY <2>5, <2>6
  <2> QED BY <2>1, <2>2, SameNames
<1> DEFINE path == <<I0, I1, I2, I3, I4, I5, I6, I7, I8, I9, I10, I11, I12, I13, I14, I15, I16>>
<1> HIDE DEF I0, I1, I2, I3, I4, I5, I6, I7, I8, I9, I10, I11, I12, I13, I14, I15, I16
<1>18. \A n \in 1 .. 16 : Leads(path[n], Upgrade0006[n], path[n + 1])
  BY <1>1, <1>2, <1>3, <1>4, <1>5, <1>6, <1>7, <1>8, <1>9, <1>10, <1>11, <1>12, <1>13, <1>14, <1>15, <1>16
<1>19. Len(Upgrade0006) = 16
  BY DEF Upgrade0006
<1>20. path[1] = Names4 /\ path[17] = Names5
  BY <1>17 DEF I0
<1>21. Triples(Names4)
  BY <1>0 DEF I0
<1> HIDE DEF path
<1> QED BY <1>18, <1>19, <1>20, <1>21 DEF Leading

LEMMA Downgrade0006Leads ==
  Leading(Names5, Downgrade0006, DegradedNames)
<1> DEFINE I0 == Names5
           I1 == I0 \cup ColumnNames("memories", {"namespace"})
           I2 == I1
           I3 == I2 \cup {<<"not null", "memories", "namespace">>}
           I4 == I3 \cup DefaultedNames("memories", {"scope"})
           I5 == I4 \cup DefaultedNames("dream_runs", {"namespace"})
           I6 == I5 \ {<<"index", "memories", "ix_memories_workspace">>}
           I7 == I6 \ {<<"index", "memories", "ix_memories_active_workspace">>}
           I8 == I7 \ {<<"column", "memories", "workspace">>, <<"not null", "memories", "workspace">>, <<"default", "memories", "workspace">>}
<1>0. Triples(I0)
  BY NamesTriples
<1>1. Leads(I0, Downgrade0006[1], I1)
  <2>1. /\ TableName("memories") \in I0
        /\ <<"column", "memories", "namespace">> \notin I0
    BY DEF TableName, IndexName, Extensions, ExtensionName, DefaultedNames, RequiredNames, ColumnNames,
       MarkNames, DefaultNames, KeyNames, InMemories, InEdges, InRelations, InDreamRuns, Scoping, Names5,
       Names4, Names3, Names2, Names1, Superseding
  <2> QED BY <1>0, <2>1, NullableLeads DEF Downgrade0006, OwnTables
<1>2. Leads(I1, Downgrade0006[2], I2)
  <2>0. Triples(I1)
    BY <1>1 DEF Leads
  <2> QED BY <2>0, UpdateLeads DEF Downgrade0006
<1>3. Leads(I2, Downgrade0006[3], I3)
  <2>0. Triples(I2)
    BY <1>2 DEF Leads
  <2>1. /\ TableName("memories") \in I2
        /\ <<"column", "memories", "namespace">> \in I2
        /\ <<"not null", "memories", "namespace">> \notin I2
    BY DEF TableName, IndexName, Extensions, ExtensionName, DefaultedNames, RequiredNames, ColumnNames,
       MarkNames, DefaultNames, KeyNames, InMemories, InEdges, InRelations, InDreamRuns, Scoping, Names5,
       Names4, Names3, Names2, Names1, Superseding
  <2> QED BY <2>0, <2>1, NotNullLeads DEF Downgrade0006, OwnTables
<1>4. Leads(I3, Downgrade0006[4], I4)
  <2>0. Triples(I3)
    BY <1>3 DEF Leads
  <2>1. /\ TableName("memories") \in I3
        /\ <<"column", "memories", "scope">> \notin I3
        /\ <<"not null", "memories", "scope">> \notin I3
        /\ <<"default", "memories", "scope">> \notin I3
    BY DEF TableName, IndexName, Extensions, ExtensionName, DefaultedNames, RequiredNames, ColumnNames,
       MarkNames, DefaultNames, KeyNames, InMemories, InEdges, InRelations, InDreamRuns, Scoping, Names5,
       Names4, Names3, Names2, Names1, Superseding
  <2> QED BY <2>0, <2>1, DefaultedLeads DEF Downgrade0006, OwnTables
<1>5. Leads(I4, Downgrade0006[5], I5)
  <2>0. Triples(I4)
    BY <1>4 DEF Leads
  <2>1. /\ TableName("dream_runs") \in I4
        /\ <<"column", "dream_runs", "namespace">> \notin I4
        /\ <<"not null", "dream_runs", "namespace">> \notin I4
        /\ <<"default", "dream_runs", "namespace">> \notin I4
    BY DEF TableName, IndexName, Extensions, ExtensionName, DefaultedNames, RequiredNames, ColumnNames,
       MarkNames, DefaultNames, KeyNames, InMemories, InEdges, InRelations, InDreamRuns, Scoping, Names5,
       Names4, Names3, Names2, Names1, Superseding
  <2> QED BY <2>0, <2>1, DefaultedLeads DEF Downgrade0006, OwnTables
<1>6. Leads(I5, Downgrade0006[6], I6)
  <2>0. Triples(I5)
    BY <1>5 DEF Leads
  <2>1. <<"index", "memories", "ix_memories_workspace">> \in I5
    BY DEF TableName, IndexName, Extensions, ExtensionName, DefaultedNames, RequiredNames, ColumnNames,
       MarkNames, DefaultNames, KeyNames, InMemories, InEdges, InRelations, InDreamRuns, Scoping, Names5,
       Names4, Names3, Names2, Names1, Superseding
  <2> QED BY <2>0, <2>1, DropIndexLeads DEF Downgrade0006, OwnTables, LooseNames, TypeStatusName,
     TypeStatusIndex, Index, Object, Name
<1>7. Leads(I6, Downgrade0006[7], I7)
  <2>0. Triples(I6)
    BY <1>6 DEF Leads
  <2>1. <<"index", "memories", "ix_memories_active_workspace">> \in I6
    BY DEF TableName, IndexName, Extensions, ExtensionName, DefaultedNames, RequiredNames, ColumnNames,
       MarkNames, DefaultNames, KeyNames, InMemories, InEdges, InRelations, InDreamRuns, Scoping, Names5,
       Names4, Names3, Names2, Names1, Superseding
  <2> QED BY <2>0, <2>1, DropIndexLeads DEF Downgrade0006, OwnTables, LooseNames, TypeStatusName,
     TypeStatusIndex, Index, Object, Name
<1>8. Leads(I7, Downgrade0006[8], I8)
  <2>0. Triples(I7)
    BY <1>7 DEF Leads
  <2>1. /\ <<"column", "memories", "workspace">> \in I7
        /\ \A k \in {"index", "check", "unique", "key"} : \A x :
          <<k, "memories", x>> \in I7 => Column("memories", "workspace") \notin On(<<k, "memories", x>>)
    BY DEF TableName, IndexName, Extensions, ExtensionName, DefaultedNames, RequiredNames, ColumnNames,
       MarkNames, DefaultNames, KeyNames, InMemories, InEdges, InRelations, InDreamRuns, Scoping, Names5,
       Names4, Names3, Names2, Names1, On, ColumnsUnder, Column, Superseding
  <2> QED BY <2>0, <2>1, DropColumnLeads DEF Downgrade0006, OwnTables, Column
<1>9. I8 = DegradedNames
  <2>1. Triples(I8) /\ Triples(DegradedNames)
    BY <1>8, NamesTriples DEF Leads
  <2>3. /\ <<"column", "memories", "scope">> \in Names4
        /\ <<"column", "memories", "namespace">> \in Names4
        /\ <<"column", "dream_runs", "namespace">> \in Names4
        /\ <<"not null", "memories", "scope">> \in Names4
        /\ <<"not null", "memories", "namespace">> \in Names4
        /\ <<"not null", "dream_runs", "namespace">> \in Names4
        /\ <<"default", "memories", "scope">> \in Names4
        /\ <<"default", "memories", "namespace">> \notin Names4
        /\ <<"column", "memories", "workspace">> \notin Names4
        /\ <<"not null", "memories", "workspace">> \notin Names4
        /\ <<"default", "memories", "workspace">> \notin Names4
        /\ <<"index", "memories", "ix_memories_workspace">> \notin Names4
        /\ <<"index", "memories", "ix_memories_active_workspace">> \notin Names4
    BY SMTT(30) DEF TableName, IndexName, Extensions, ExtensionName, DefaultedNames, RequiredNames, ColumnNames,
       MarkNames, DefaultNames, KeyNames, InMemories, InEdges, InRelations, InDreamRuns, Names4, Names3,
       Names2, Names1, Superseding
  <2>5. ASSUME NEW k, NEW t, NEW x, <<k, t, x>> \in I8 PROVE <<k, t, x>> \in DegradedNames
    <3>1. /\ <<k, t, x>> \notin {IndexName("memories", "ix_memories_workspace"),
                              IndexName("memories", "ix_memories_active_workspace")}
          /\ <<k, t, x>> # <<"column", "memories", "workspace">>
      BY <2>5 DEF IndexName
    <3>2. CASE <<k, t, x>> \in Names5
      <4>1. <<k, t, x>> \in Names4 /\ t \notin {"hebbian_edges", "memory_relations"} /\ <<k, t, x>> \notin Scoping
        BY <3>1, <3>2 DEF Names5, ColumnNames
      <4> QED BY <4>1 DEF DegradedNames, Scoping
    <3>3. CASE <<k, t, x>> \notin Names5
      <4>1. \/ <<k, t, x>> \in ColumnNames("memories", {"namespace"})
            \/ <<k, t, x>> = <<"not null", "memories", "namespace">>
            \/ <<k, t, x>> \in DefaultedNames("memories", {"scope"})
            \/ <<k, t, x>> \in DefaultedNames("dream_runs", {"namespace"})
        BY <2>5, <3>3
      <4> HIDE DEF I8
      <4>2. CASE <<k, t, x>> \in ColumnNames("memories", {"namespace"})
                 \/ <<k, t, x>> = <<"not null", "memories", "namespace">>
        BY <2>3, <4>2 DEF ColumnNames, DegradedNames, IndexName
      <4>3. CASE <<k, t, x>> \in DefaultedNames("memories", {"scope"})
        BY <2>3, <4>3 DEF DefaultedNames, RequiredNames, ColumnNames, MarkNames, DefaultNames, DegradedNames, IndexName
      <4>4. CASE <<k, t, x>> \in DefaultedNames("dream_runs", {"namespace"})
        BY <2>3, <4>4 DEF DefaultedNames, RequiredNames, ColumnNames, MarkNames, DefaultNames, DegradedNames, IndexName
      <4> QED BY <4>1, <4>2, <4>3, <4>4
    <3> QED BY <3>2, <3>3
  <2>6. ASSUME NEW k, NEW t, NEW x, <<k, t, x>> \in DegradedNames PROVE <<k, t, x>> \in I8
    BY <2>6, <2>3 DEF TableName, IndexName, DefaultedNames, RequiredNames, ColumnNames, MarkNames,
       DefaultNames, Superseding, Names5, Scoping, DegradedNames
  <2> HIDE DEF I8
  <2>2. \A k, t, x : <<k, t, x>> \in I8 <=> <<k, t, x>> \in DegradedNames
    BY <2>5, <2>6
  <2> QED BY <2>1, <2>2, SameNames
<1> DEFINE path == <<I0, I1, I2, I3, I4, I5, I6, I7, I8>>
<1> HIDE DEF I0, I1, I2, I3, I4, I5, I6, I7, I8
<1>10. \A n \in 1 .. 8 : Leads(path[n], Downgrade0006[n], path[n + 1])
  BY <1>1, <1>2, <1>3, <1>4, <1>5, <1>6, <1>7, <1>8
<1>11. Len(Downgrade0006) = 8
  BY DEF Downgrade0006
<1>12. path[1] = Names5 /\ path[9] = DegradedNames
  BY <1>9 DEF I0
<1>13. Triples(Names5)
  BY <1>0 DEF I0
<1> HIDE DEF path
<1> QED BY <1>10, <1>11, <1>12, <1>13 DEF Leading

-----------------------------------------------------------------------------
(* What a script makes of a schema, stage by stage.                        *)

(* No script has more than 16 operations.                                  *)
LEMMA StepByStep ==
  ASSUME NEW size \in 0 .. 16, NEW S, 0 \in S, \A n \in 1 .. size : n - 1 \in S => n \in S
  PROVE  \A n \in 0 .. size : n \in S
<1> DEFINE Good(n) == n <= size => n \in S
<1>1. ASSUME NEW n \in 1 .. 16, Good(n - 1) PROVE Good(n)
  BY <1>1
<1>2. Good(0)
  OBVIOUS
<1>3. \A n \in 0 .. 16 : Good(n)
  <2> HIDE DEF Good
  <2>1. Good(1) /\ Good(2) /\ Good(3) /\ Good(4)
    BY <1>1, <1>2
  <2>2. Good(5) /\ Good(6) /\ Good(7) /\ Good(8)
    BY <1>1, <2>1
  <2>3. Good(9) /\ Good(10) /\ Good(11) /\ Good(12)
    BY <1>1, <2>2
  <2>4. Good(13) /\ Good(14) /\ Good(15) /\ Good(16)
    BY <1>1, <2>3
  <2> QED BY <1>2, <2>1, <2>2, <2>3, <2>4
<1> QED BY <1>3

LEMMA StagesAre ==
  ASSUME NEW s, NEW script, Len(script) \in 0 .. 16
  PROVE  /\ Stages(s, script)[0] = s
         /\ \A n \in 1 .. Len(script) :
              Stages(s, script)[n] = After(Stages(s, script)[n - 1], script[n])
<1> DEFINE size == Len(script)
           Staged(f, m) == f = [n \in 0 .. m |-> IF n = 0 THEN s ELSE After(f[n - 1], script[n])]
           S == {m \in 0 .. size : \E f : Staged(f, m)}
<1>1. 0 \in S
  <2>1. \E f : Staged(f, 0)
    <3>1. Staged([n \in 0 .. 0 |-> s], 0)
      OBVIOUS
    <3> QED BY <3>1
  <2> HIDE DEF Staged
  <2> QED BY <2>1
<1>2. ASSUME NEW m \in 1 .. size, m - 1 \in S PROVE m \in S
  <2>1. PICK f : Staged(f, m - 1)
    BY <1>2
  <2> DEFINE g == [n \in 0 .. m |-> IF n = m THEN After(f[m - 1], script[m]) ELSE f[n]]
  <2>2. \A n \in 0 .. m - 1 : f[n] = IF n = 0 THEN s ELSE After(f[n - 1], script[n])
    BY <2>1
  <2>3. \A n \in 0 .. m : g[n] = IF n = 0 THEN s ELSE After(g[n - 1], script[n])
    BY <2>2
  <2>4. \E h : Staged(h, m)
    <3>1. Staged(g, m)
      BY <2>3
    <3> QED BY <3>1
  <2> HIDE DEF Staged
  <2> QED BY <2>4
<1>3. size \in S
  <2> HIDE DEF S
  <2>1. \A n \in 0 .. size : n \in S
    BY <1>1, <1>2, StepByStep
  <2> QED BY <2>1
<1> DEFINE stages == CHOOSE f : Staged(f, size)
<1>4. Staged(stages, size) /\ Stages(s, script) = stages
  BY <1>3 DEF Stages
<1> HIDE DEF stages
<1>5. \A n \in 0 .. size : stages[n] = IF n = 0 THEN s ELSE After(stages[n - 1], script[n])
  BY <1>4
<1> QED BY <1>4, <1>5

LEMMA LadderIs ==
  Ladder[0] = {} /\ \A v \in 1 .. HeadRevision : Ladder[v] = Built(Ladder[v - 1], Upgrades[v])
<1> DEFINE L1 == Built({}, Upgrades[1])
           L2 == Built(L1, Upgrades[2])
           L3 == Built(L2, Upgrades[3])
           L4 == Built(L3, Upgrades[4])
           L5 == Built(L4, Upgrades[5])
           climbs(f) == f = [v \in Versions |-> IF v = 0 THEN {} ELSE Built(f[v - 1], Upgrades[v])]
           ladder == [v \in Versions |->
                        IF v = 0 THEN {} ELSE IF v = 1 THEN L1 ELSE IF v = 2 THEN L2
                        ELSE IF v = 3 THEN L3 ELSE IF v = 4 THEN L4 ELSE L5]
<1>1. climbs(ladder)
  <2>1. /\ ladder[0] = {} /\ ladder[1] = Built(ladder[0], Upgrades[1])
        /\ ladder[2] = Built(ladder[1], Upgrades[2]) /\ ladder[3] = Built(ladder[2], Upgrades[3])
        /\ ladder[4] = Built(ladder[3], Upgrades[4]) /\ ladder[5] = Built(ladder[4], Upgrades[5])
    BY DEF Versions, HeadRevision
  <2> DEFINE rung == [v \in Versions |-> IF v = 0 THEN {} ELSE Built(ladder[v - 1], Upgrades[v])]
  <2>2. \A v \in Versions : ladder[v] = rung[v]
    <3> HIDE DEF ladder
    <3> QED BY <2>1 DEF Versions, HeadRevision
  <2> QED BY <2>2
<1>2. Rung = CHOOSE f : climbs(f)
  BY DEF Rung
<1>3. climbs(Rung)
  BY <1>1, <1>2
<1>4. \A v \in Versions : Rung[v] = IF v = 0 THEN {} ELSE Built(Rung[v - 1], Upgrades[v])
  BY <1>3
<1>5. \A v \in Versions : Ladder[v] = Rung[v]
  BY DEF Ladder
<1> QED BY <1>4, <1>5 DEF Versions, HeadRevision

LEMMA AfterPlaced ==
  ASSUME NEW s, Placed(s), NEW op, Proper(op)
  PROVE  Placed(After(s, op))
  BY DEF Placed, Proper, After

(* A script of which each operation is known by names: no operation fails, *)
(* if the rows allow its NOT NULL marks.                                   *)
Runs(s, script) ==
  /\ Len(script) \in 1 .. 16
  /\ \A n \in 0 .. Len(script) : Placed(Stages(s, script)[n])
  /\ \A n \in 1 .. Len(script) :
       Proper(script[n]) /\ Fitting(Stages(s, script)[n - 1], script[n])

LEMMA LeadingRuns ==
  ASSUME NEW N, NEW M, NEW script, Leading(N, script, M), Len(script) \in 1 .. 16, Placed(Schema(N))
  PROVE  Runs(Schema(N), script) /\ Built(Schema(N), script) = Schema(M)
<1> DEFINE size == Len(script)
           stages == Stages(Schema(N), script)
<1>1. PICK path : /\ path[1] = N /\ path[size + 1] = M
                  /\ \A n \in 1 .. size : Leads(path[n], script[n], path[n + 1])
  BY DEF Leading
<1> DEFINE S == {n \in 0 .. size : stages[n] = Schema(path[n + 1]) /\ Placed(stages[n])}
<1>2. stages[0] = Schema(N) /\ \A n \in 1 .. size : stages[n] = After(stages[n - 1], script[n])
  BY StagesAre
<1> HIDE DEF stages
<1>3. 0 \in S
  BY <1>1, <1>2
<1>4. ASSUME NEW n \in 1 .. size, n - 1 \in S PROVE n \in S
  <2>1. stages[n - 1] = Schema(path[n]) /\ Placed(stages[n - 1])
    BY <1>4
  <2>2. After(Schema(path[n]), script[n]) = Schema(path[n + 1]) /\ Proper(script[n])
    BY <1>1 DEF Leads
  <2>3. stages[n] = Schema(path[n + 1])
    BY <1>2, <2>1, <2>2
  <2>4. Placed(stages[n])
    BY <1>2, <2>1, <2>2, AfterPlaced
  <2> QED BY <2>3, <2>4
<1>5. \A n \in 0 .. size : n \in S
  <2> HIDE DEF S
  <2>1. size \in 0 .. 16
    OBVIOUS
  <2> HIDE DEF size
  <2> QED BY <2>1, <1>3, <1>4, StepByStep
<1>6. \A n \in 1 .. size : stages[n - 1] = Schema(path[n])
  BY <1>5
<1>7. \A n \in 1 .. size : Proper(script[n]) /\ Fitting(stages[n - 1], script[n])
  BY <1>1, <1>6 DEF Leads
<1>8. stages[size] = Schema(M)
  BY <1>1, <1>5
<1> QED BY <1>5, <1>7, <1>8 DEF Runs, Built, stages

NamesAt(v) ==
  IF v = 0 THEN Names0 ELSE IF v = 1 THEN Names1 ELSE IF v = 2 THEN Names2
  ELSE IF v = 3 THEN Names3 ELSE IF v = 4 THEN Names4 ELSE Names5

LEMMA ScriptLengths ==
  /\ Len(Upgrade0001) = 8 /\ Len(Upgrade0002) = 13 /\ Len(Upgrade0004) = 6
  /\ Len(Upgrade0005) = 4 /\ Len(Upgrade0006) = 16
  /\ Len(Downgrade0001) = 6 /\ Len(Downgrade0002) = 13 /\ Len(Downgrade0004) = 5
  /\ Len(Downgrade0005) = 4 /\ Len(Downgrade0006) = 8
<1>1. /\ Len(Upgrade0001) = 8 /\ Len(Upgrade0005) = 4 /\ Len(Downgrade0001) = 6
      /\ Len(Downgrade0004) = 5 /\ Len(Downgrade0005) = 4 /\ Len(Downgrade0006) = 8
  BY DEF Upgrade0001, Upgrade0005, Downgrade0001, Downgrade0004, Downgrade0005, Downgrade0006
<1>2. Len(Upgrade0002) = 13
  BY DEF Upgrade0002
<1>3. Len(Upgrade0004) = 6 /\ Len(Downgrade0002) = 13
  BY DEF Upgrade0004, Downgrade0002
<1>4. Len(Upgrade0006) = 16
  BY DEF Upgrade0006
<1> QED BY <1>1, <1>2, <1>3, <1>4

(* The schema of each version, and of the downgrade of 0006, by names.     *)
LEMMA LadderNames ==
  /\ \A v \in Versions : Ladder[v] = Schema(NamesAt(v)) /\ Placed(Ladder[v])
  /\ Degraded = Schema(DegradedNames) /\ Placed(Degraded)
  /\ \A v \in 1 .. HeadRevision : Runs(Ladder[v - 1], Upgrades[v]) /\ Runs(Ladder[v], Downgrades[v])
  /\ \A v \in 2 .. 4 : Built(Ladder[v], Downgrades[v]) = Ladder[v - 1]
  /\ Built(Ladder[1], Downgrades[1]) = Schema(Names0 \cup Extensions)
<1>0. Placed({})
  BY DEF Placed
<1>1. Ladder[0] = Schema(Names0) /\ Placed(Ladder[0])
  BY <1>0, LadderIs DEF Schema, Names0
<1>2. /\ Runs(Ladder[0], Upgrade0001) /\ Ladder[1] = Schema(Names1) /\ Placed(Ladder[1])
  <2>1. Runs(Schema(Names0), Upgrade0001) /\ Built(Schema(Names0), Upgrade0001) = Schema(Names1)
    BY <1>1, Upgrade0001Leads, LeadingRuns, ScriptLengths
  <2>2. Ladder[1] = Built(Ladder[0], Upgrade0001)
    BY LadderIs DEF Upgrades, HeadRevision
  <2> QED BY <1>1, <2>1, <2>2, ScriptLengths DEF Runs, Built
<1>3. /\ Runs(Ladder[1], Upgrade0002) /\ Ladder[2] = Schema(Names2) /\ Placed(Ladder[2])
  <2>1. Runs(Schema(Names1), Upgrade0002) /\ Built(Schema(Names1), Upgrade0002) = Schema(Names2)
    BY <1>2, Upgrade0002Leads, LeadingRuns, ScriptLengths
  <2>2. Ladder[2] = Built(Ladder[1], Upgrade0002)
    BY LadderIs DEF Upgrades, HeadRevision
  <2> QED BY <1>2, <2>1, <2>2, ScriptLengths DEF Runs, Built
<1>4. /\ Runs(Ladder[2], Upgrade0004) /\ Ladder[3] = Schema(Names3) /\ Placed(Ladder[3])
  <2>1. Runs(Schema(Names2), Upgrade0004) /\ Built(Schema(Names2), Upgrade0004) = Schema(Names3)
    BY <1>3, Upgrade0004Leads, LeadingRuns, ScriptLengths
  <2>2. Ladder[3] = Built(Ladder[2], Upgrade0004)
    BY LadderIs DEF Upgrades, HeadRevision
  <2> QED BY <1>3, <2>1, <2>2, ScriptLengths DEF Runs, Built
<1>5. /\ Runs(Ladder[3], Upgrade0005) /\ Ladder[4] = Schema(Names4) /\ Placed(Ladder[4])
  <2>1. Runs(Schema(Names3), Upgrade0005) /\ Built(Schema(Names3), Upgrade0005) = Schema(Names4)
    BY <1>4, Upgrade0005Leads, LeadingRuns, ScriptLengths
  <2>2. Ladder[4] = Built(Ladder[3], Upgrade0005)
    BY LadderIs DEF Upgrades, HeadRevision
  <2> QED BY <1>4, <2>1, <2>2, ScriptLengths DEF Runs, Built
<1>6. /\ Runs(Ladder[4], Upgrade0006) /\ Ladder[5] = Schema(Names5) /\ Placed(Ladder[5])
  <2>1. Runs(Schema(Names4), Upgrade0006) /\ Built(Schema(Names4), Upgrade0006) = Schema(Names5)
    BY <1>5, Upgrade0006Leads, LeadingRuns, ScriptLengths
  <2>2. Ladder[5] = Built(Ladder[4], Upgrade0006)
    BY LadderIs DEF Upgrades, HeadRevision
  <2> QED BY <1>5, <2>1, <2>2, ScriptLengths DEF Runs, Built
<1>7. /\ Runs(Ladder[5], Downgrade0006) /\ Degraded = Schema(DegradedNames) /\ Placed(Degraded)
  <2>1. Runs(Schema(Names5), Downgrade0006) /\ Built(Schema(Names5), Downgrade0006) = Schema(DegradedNames)
    BY <1>6, Downgrade0006Leads, LeadingRuns, ScriptLengths
  <2> QED BY <1>6, <2>1, ScriptLengths DEF Runs, Built, Degraded, HeadRevision
<1>8. Runs(Ladder[4], Downgrade0005) /\ Built(Ladder[4], Downgrade0005) = Ladder[3]
  BY <1>4, <1>5, Downgrade0005Leads, LeadingRuns, ScriptLengths
<1>9. Runs(Ladder[3], Downgrade0004) /\ Built(Ladder[3], Downgrade0004) = Ladder[2]
  BY <1>3, <1>4, Downgrade0004Leads, LeadingRuns, ScriptLengths
<1>10. Runs(Ladder[2], Downgrade0002) /\ Built(Ladder[2], Downgrade0002) = Ladder[1]
  BY <1>2, <1>3, Downgrade0002Leads, LeadingRuns, ScriptLengths
<1>11. Runs(Ladder[1], Downgrade0001) /\ Built(Ladder[1], Downgrade0001) = Schema(Names0 \cup Extensions)
  BY <1>2, Downgrade0001Leads, LeadingRuns, ScriptLengths
<1>12. \A v \in Versions : Ladder[v] = Schema(NamesAt(v)) /\ Placed(Ladder[v])
  BY <1>1, <1>2, <1>3, <1>4, <1>5, <1>6 DEF NamesAt, Versions, HeadRevision
<1>13. \A v \in 1 .. HeadRevision : Runs(Ladder[v - 1], Upgrades[v])
  BY <1>2, <1>3, <1>4, <1>5, <1>6 DEF Upgrades, HeadRevision
<1>14. \A v \in 1 .. HeadRevision : Runs(Ladder[v], Downgrades[v])
  BY <1>7, <1>8, <1>9, <1>10, <1>11 DEF Downgrades, HeadRevision
<1>15. \A v \in 2 .. 4 : Built(Ladder[v], Downgrades[v]) = Ladder[v - 1]
  BY <1>8, <1>9, <1>10 DEF Downgrades
<1>16. Built(Ladder[1], Downgrades[1]) = Schema(Names0 \cup Extensions)
  BY <1>11 DEF Downgrades
<1> QED BY <1>7, <1>12, <1>13, <1>14, <1>15, <1>16

-----------------------------------------------------------------------------
(* What the schemas of some versions have, and have not.                   *)

LEMMA SpecialNames ==
  /\ TypeStatusName = <<"index", "memories", "ix_memories_type_status">>
  /\ ObjectOf(TypeStatusName) = TypeStatusIndex
<1>1. TypeStatusName = <<"index", "memories", "ix_memories_type_status">>
  BY DEF TypeStatusName, TypeStatusIndex, Index, Object, Name
<1> QED BY <1>1 DEF TypeStatusIndex, ObjectOf, On, Index, Object, ColumnsUnder

LEMMA LadderHas ==
  /\ \A v \in 3 .. HeadRevision : TypeStatusIndex \in Ladder[v]
  /\ \A v \in 0 .. 2 : ~ Has(Ladder[v], TypeStatusName)
  /\ TypeStatusIndex \in Degraded /\ ~ Has(Degraded, NamespaceScopeName)
<1> DEFINE ts == <<"index", "memories", "ix_memories_type_status">>
           ns == <<"index", "memories", "ix_memories_namespace_scope">>
<1>1. ts \in Names3 /\ ts \in Names4 /\ ts \in Names5 /\ ts \in DegradedNames
  BY DEF Names3, Names4, Names5, DegradedNames, Scoping, IndexName, DefaultedNames, RequiredNames, ColumnNames,
     MarkNames, DefaultNames
<1>2. ts \notin Names0 /\ ts \notin Names1 /\ ts \notin Names2
  BY DEF TableName, IndexName, Extensions, ExtensionName, DefaultedNames, RequiredNames, ColumnNames, MarkNames,
     DefaultNames, KeyNames, InMemories, InEdges, InRelations, Names0, Names1, Names2, Superseding
<1>3. ns \notin DegradedNames
  BY DEF DegradedNames, IndexName, DefaultNames
<1>4. NamespaceScopeName = ns /\ TypeStatusName = ts
  BY SpecialNames DEF NamespaceScopeName
<1>5. \A N : ts \in N => TypeStatusIndex \in Schema(N)
  BY <1>4, SpecialNames DEF Schema
<1> HIDE DEF ts, ns
<1>6. \A v \in 3 .. HeadRevision : ts \in NamesAt(v)
  BY <1>1 DEF NamesAt, HeadRevision
<1>7. \A v \in 0 .. 2 : ts \notin NamesAt(v) /\ Triples(NamesAt(v))
  BY <1>2, NamesTriples DEF NamesAt
<1>8. \A v \in 3 .. HeadRevision : TypeStatusIndex \in Ladder[v]
  BY <1>5, <1>6, LadderNames DEF Versions, HeadRevision
<1>9. \A v \in 0 .. 2 : ~ Has(Ladder[v], TypeStatusName)
  BY <1>4, <1>7, LadderNames, SchemaHas DEF Versions, HeadRevision
<1>10. TypeStatusIndex \in Degraded /\ ~ Has(Degraded, NamespaceScopeName)
  BY <1>1, <1>3, <1>4, <1>5, LadderNames, SchemaHas, NamesTriples
<1> QED BY <1>8, <1>9, <1>10

(* The ORM classes know the columns at the head that need a value.         *)
LEMMA HeadFits == OrmFits(Ladder[HeadRevision])
<1>0. Ladder[HeadRevision] = Schema(Names5) /\ Triples(Names5)
  BY LadderNames, NamesTriples DEF NamesAt, Versions, HeadRevision
<1>1. \A c \in MemoryColumns : <<"column", "memories", c>> \in Names5
  BY DEF TableName, IndexName, Extensions, ExtensionName, DefaultedNames, RequiredNames, ColumnNames, MarkNames,
     DefaultNames, KeyNames, InMemories, InEdges, InRelations, InDreamRuns, Names1, Names2, Names3, Names4,
     Names5, Scoping, Superseding, MemoryColumns
<1>2. \A c \in DreamRunColumns : <<"column", "dream_runs", c>> \in Names5
  BY DEF TableName, IndexName, Extensions, ExtensionName, DefaultedNames, RequiredNames, ColumnNames, MarkNames,
     DefaultNames, KeyNames, InMemories, InEdges, InRelations, InDreamRuns, Names1, Names2, Names3, Names4,
     Names5, Scoping, Superseding, DreamRunColumns
<1>3. ASSUME NEW t, NEW c, <<"not null", t, c>> \in Names5
      PROVE  /\ t = "memories" => c \in MemoryColumns
             /\ t = "dream_runs" => c \in DreamRunColumns
  <2> DEFINE mark == <<"not null", t, c>>
  <2>1. mark \in Names4 /\ mark \notin DefaultedNames("memories", {"scope", "namespace"})
        /\ mark \notin DefaultedNames("dream_runs", {"namespace"})
    BY <1>3 DEF Names5, Scoping, ColumnNames, IndexName
  <2>2. /\ t = "memories" => c \notin {"scope", "namespace"}
        /\ t = "dream_runs" => c # "namespace"
    BY <2>1 DEF DefaultedNames, RequiredNames, MarkNames
  <2>3. \/ mark \in InMemories \/ mark \in InEdges \/ mark \in InRelations \/ mark \in InDreamRuns
        \/ mark \in DefaultedNames("memories", {"confidence"})
        \/ mark \in DefaultedNames("memories", {"scope"})
    BY <2>1 DEF Names4, Names3, Names2, Names1, Extensions, ExtensionName, TableName, IndexName, ColumnNames
  <2>4. CASE mark \in InMemories
    BY <2>2, <2>4 DEF InMemories, DefaultedNames, RequiredNames, ColumnNames, MarkNames, DefaultNames, MemoryColumns
  <2>5. CASE mark \in InDreamRuns
    BY <2>2, <2>5 DEF InDreamRuns, DefaultedNames, RequiredNames, ColumnNames, MarkNames, DefaultNames, DreamRunColumns
  <2>6. CASE mark \in InEdges \/ mark \in InRelations
    <3>1. t = "hebbian_edges" \/ t = "memory_relations"
      BY <2>6, InEdgesOf, InRelationsOf DEF Block
    <3> QED BY <3>1
  <2>7. CASE mark \in DefaultedNames("memories", {"confidence"})
    BY <2>7 DEF DefaultedNames, RequiredNames, ColumnNames, MarkNames, DefaultNames, MemoryColumns
  <2>8. CASE mark \in DefaultedNames("memories", {"scope"})
    BY <2>2, <2>8 DEF DefaultedNames, RequiredNames, ColumnNames, MarkNames, DefaultNames
  <2> QED BY <2>3, <2>4, <2>5, <2>6, <2>7, <2>8
<1>5. OrmColumns \subseteq ColumnsOf(Schema(Names5))
  <2>1. ASSUME NEW c \in MemoryColumns PROVE Column("memories", c) \in ColumnsOf(Schema(Names5))
    BY <1>0, <1>1, SchemaColumns
  <2>2. ASSUME NEW c \in DreamRunColumns PROVE Column("dream_runs", c) \in ColumnsOf(Schema(Names5))
    BY <1>0, <1>2, SchemaColumns
  <2> QED BY <2>1, <2>2 DEF OrmColumns
<1>6. ASSUME NEW o \in Schema(Names5), o.kind = "not null", o.table \in {"memories", "dream_runs"}
      PROVE  Column(o.table, o.name) \in OrmColumns
  <2>1. PICK n \in Names5 : o = ObjectOf(n)
    BY <1>6 DEF Schema
  <2>2. n = <<"not null", o.table, o.name>>
    BY <1>0, <1>6, <2>1, ObjectOfIs DEF Triples
  <2>3. CASE o.table = "memories"
    BY <1>3, <2>2, <2>3 DEF OrmColumns
  <2>4. CASE o.table = "dream_runs"
    BY <1>3, <2>2, <2>4 DEF OrmColumns
  <2> QED BY <1>6, <2>3, <2>4
<1> QED BY <1>0, <1>5, <1>6 DEF OrmFits

-----------------------------------------------------------------------------
(* What most operations have in common, and which are the others.          *)

(* Names that hold the index on type and status: it goes with them.        *)
Holding ==
  {TypeStatusName, <<"table", "memories", "memories">>, <<"column", "memories", "type">>,
   <<"column", "memories", "status">>}

(* It brings the defaults that its NOT NULL marks need, leaves the index on*)
(* type and status, and drops nothing else but what must be there.         *)
SelfFilled(op) == \A s, rows_ : Filling(s, rows_, op)
Keeping(op) == op.do = "drop" => op.what \cap Holding = {}
Strict(op) == op.do = "drop" /\ op.lenient => op.what = {TypeStatusName}
Ordinary(op) == SelfFilled(op) /\ Keeping(op) /\ Strict(op)

LEMMA UnmarkedOrdinary ==
  ASSUME NEW O, \A o \in O : o.kind # "not null" \/ o.table # "memories", NEW lenient
  PROVE  Ordinary(Op("create", O, lenient))
  BY DEF Ordinary, SelfFilled, Keeping, Strict, Filling, Op

LEMMA CreateOrdinary ==
  /\ \A e : Ordinary(CreateIfMissing(Extension(e)))
  /\ \A t, name, C : Ordinary(CreateIndex(t, name, C))
  /\ \A t, name, C : Ordinary(CreateIfMissing(Index(t, name, C)))
  /\ \A t, name, C : Ordinary(Create({Check(t, name, C)}))
  /\ \A t, c, name : Ordinary(Create({ForeignKey(t, c, name)}))
  /\ \A t, C : Ordinary(Create(Nullable(t, C)))
<1>1. ASSUME NEW kind, kind # "not null", NEW t, NEW name, NEW on, NEW lenient
      PROVE  Ordinary(Op("create", {Object(kind, t, name, on)}, lenient))
  <2>1. \A o \in {Object(kind, t, name, on)} : o.kind # "not null" \/ o.table # "memories"
    <3>1. Object(kind, t, name, on).kind = kind
      BY DEF Object
    <3> QED BY <1>1, <3>1
  <2> QED BY <2>1, UnmarkedOrdinary
<1>2. \A e : Ordinary(CreateIfMissing(Extension(e)))
  BY <1>1 DEF CreateIfMissing, Extension
<1>3. \A t, name, C : /\ Ordinary(CreateIndex(t, name, C)) /\ Ordinary(CreateIfMissing(Index(t, name, C)))
                      /\ Ordinary(Create({Check(t, name, C)}))
  BY <1>1 DEF CreateIfMissing, CreateIndex, Create, Index, Check
<1>4. \A t, c, name : Ordinary(Create({ForeignKey(t, c, name)}))
  BY <1>1 DEF Create, ForeignKey
<1>5. ASSUME NEW t, NEW C PROVE Ordinary(Create(Nullable(t, C)))
  <2>1. \A o \in Nullable(t, C) : o.kind # "not null" \/ o.table # "memories"
    <3>1. \A c : Object("column", t, c, {}).kind # "not null"
      BY DEF Object
    <3> QED BY <3>1 DEF Nullable
  <2> QED BY <2>1, UnmarkedOrdinary DEF Create
<1> QED BY <1>2, <1>3, <1>4, <1>5

LEMMA DefaultedOrdinary == \A t, C : Ordinary(Create(Defaulted(t, C)))
<1> SUFFICES ASSUME NEW t, NEW C PROVE Ordinary(Create(Defaulted(t, C)))
  OBVIOUS
<1>1. ASSUME NEW s, NEW rows_, NEW o \in Defaulted(t, C), o.kind = "not null"
      PROVE  Filled(s \cup Defaulted(t, C), rows_, o)
  <2>1. PICK c \in C : o = NotNull(t, c)
    <3>1. \A c : Object("column", t, c, {}).kind # "not null"
      BY DEF Object
    <3>2. \A c : Object("default", t, c, {Column(t, c)}).kind # "not null"
      BY DEF Object
    <3> QED BY <1>1, <3>1, <3>2 DEF Defaulted, Required, Nullable
  <2> DEFINE d == Object("default", t, c, {Column(t, c)})
  <2>2. d \in Defaulted(t, C)
    BY DEF Defaulted
  <2>3. d.kind = "default" /\ d.table = o.table /\ d.name = o.name
    BY <2>1 DEF NotNull, Object
  <2> QED BY <2>2, <2>3 DEF Filled
<1>2. /\ Create(Defaulted(t, C)).do = "create" /\ Create(Defaulted(t, C)).what = Defaulted(t, C)
  BY DEF Create, Op
<1> QED BY <1>1, <1>2 DEF Ordinary, SelfFilled, Keeping, Strict, Filling

LEMMA TableOrdinary ==
  ASSUME NEW t, t # "memories", NEW N, NEW C, Block(N, t, C)
  PROVE  Ordinary(Create(Table(t, Schema(N))))
<1>1. \A o \in Table(t, Schema(N)) : o.table # "memories"
  <2>1. \A n \in N : ObjectOf(n).table = t
    BY DEF Block, ObjectOf, Object
  <2>2. Object("table", t, t, {}).table = t
    BY DEF Object
  <2> QED BY <2>1, <2>2 DEF Table, Schema
<1> QED BY <1>1, UnmarkedOrdinary DEF Create

LEMMA DropOrdinary ==
  /\ \A kind, t, name : <<kind, t, name>> \notin Holding => Ordinary(Drop(kind, t, name))
  /\ \A rule : rule \notin {"create", "drop"} => Ordinary(Update(rule))
  BY DEF Ordinary, SelfFilled, Keeping, Strict, Filling, Drop, Update, Op

LEMMA Ordinary0001 ==
  /\ \A n \in {1, 2, 4, 5, 6, 7, 8} : Ordinary(Upgrade0001[n])
  /\ \A n \in 3 .. 5 : Ordinary(Downgrade0001[n])
<1>1. Ordinary(Upgrade0001[4])
  <2>1. Upgrade0001[4] = Create(Table("hebbian_edges", Schema(InEdges)))
    BY InEdgesOf DEF Upgrade0001
  <2>2. Block(InEdges, "hebbian_edges", {Column("memories", "id")})
    BY InEdgesOf
  <2> QED BY <2>1, <2>2, TableOrdinary
<1>2. /\ Ordinary(Upgrade0001[1]) /\ Ordinary(Upgrade0001[2]) /\ Ordinary(Upgrade0001[5]) /\ Ordinary(Upgrade0001[6])
      /\ Ordinary(Upgrade0001[7]) /\ Ordinary(Upgrade0001[8])
  BY CreateOrdinary DEF Upgrade0001
<1>3. \A n \in 3 .. 5 : Ordinary(Downgrade0001[n])
  BY DropOrdinary, SpecialNames DEF Downgrade0001, DropIndex, DropTable, Holding
<1> QED BY <1>1, <1>2, <1>3

LEMMA Ordinary0002 ==
  /\ \A n \in 1 .. 13 : Ordinary(Upgrade0002[n])
  /\ \A n \in 1 .. 13 : Ordinary(Downgrade0002[n])
<1>1. Ordinary(Upgrade0002[7])
  <2>1. Upgrade0002[7] = Create(Table("memory_relations", Schema(InRelations)))
    BY InRelationsOf DEF Upgrade0002
  <2>2. Block(InRelations, "memory_relations", {Column("memories", "id")})
    BY InRelationsOf
  <2> QED BY <2>1, <2>2, TableOrdinary
<1>2. /\ Ordinary(Upgrade0002[1]) /\ Ordinary(Upgrade0002[2]) /\ Ordinary(Upgrade0002[3]) /\ Ordinary(Upgrade0002[4])
      /\ Ordinary(Upgrade0002[5]) /\ Ordinary(Upgrade0002[6]) /\ Ordinary(Upgrade0002[8]) /\ Ordinary(Upgrade0002[9])
      /\ Ordinary(Upgrade0002[10]) /\ Ordinary(Upgrade0002[11]) /\ Ordinary(Upgrade0002[12]) /\ Ordinary(Upgrade0002[13])
  BY CreateOrdinary, DefaultedOrdinary DEF Upgrade0002
<1>3. \A n \in 1 .. 6 : Ordinary(Downgrade0002[n])
  BY DropOrdinary, SpecialNames DEF Downgrade0002, DropIndex, Holding
<1>4. \A n \in 7 .. 13 : Ordinary(Downgrade0002[n])
  BY DropOrdinary, SpecialNames DEF Downgrade0002, DropTable, DropColumn, Holding
<1> QED BY <1>1, <1>2, <1>3, <1>4

LEMMA Ordinary0004 ==
  /\ \A n \in 1 .. 6 : Ordinary(Upgrade0004[n])
  /\ \A n \in 2 .. 5 : Ordinary(Downgrade0004[n])
<1>1. Ordinary(Upgrade0004[1])
  <2>1. Upgrade0004[1] = Create(Table("dream_runs", Schema(InDreamRuns)))
    BY InDreamRunsOf DEF Upgrade0004
  <2>2. Block(InDreamRuns, "dream_runs", {})
    BY InDreamRunsOf
  <2> QED BY <2>1, <2>2, TableOrdinary
<1>2. /\ Ordinary(Upgrade0004[2]) /\ Ordinary(Upgrade0004[3]) /\ Ordinary(Upgrade0004[4]) /\ Ordinary(Upgrade0004[5])
      /\ Ordinary(Upgrade0004[6])
  BY CreateOrdinary DEF Upgrade0004, TypeStatusIndex
<1>3. \A n \in 2 .. 5 : Ordinary(Downgrade0004[n])
  BY DropOrdinary, SpecialNames DEF Downgrade0004, DropIndex, DropTable, Holding
<1> QED BY <1>1, <1>2, <1>3

LEMMA Ordinary0005 ==
  /\ \A n \in 1 .. 4 : Ordinary(Upgrade0005[n])
  /\ \A n \in 1 .. 4 : Ordinary(Downgrade0005[n])
<1>1. Ordinary(Upgrade0005[1]) /\ Ordinary(Upgrade0005[2]) /\ Ordinary(Upgrade0005[3]) /\ Ordinary(Upgrade0005[4])
  BY CreateOrdinary, DefaultedOrdinary DEF Upgrade0005
<1>2. \A n \in 1 .. 4 : Ordinary(Downgrade0005[n])
  BY DropOrdinary, SpecialNames DEF Downgrade0005, DropIndex, DropColumn, Holding
<1> QED BY <1>1, <1>2

LEMMA Ordinary0006 ==
  /\ \A n \in 1 .. 16 : Ordinary(Upgrade0006[n])
  /\ \A n \in {1, 2, 4, 5, 6, 7, 8} : Ordinary(Downgrade0006[n])
<1>1. /\ Ordinary(Upgrade0006[1]) /\ Ordinary(Upgrade0006[2]) /\ Ordinary(Upgrade0006[3]) /\ Ordinary(Upgrade0006[4])
      /\ Ordinary(Upgrade0006[15]) /\ Ordinary(Upgrade0006[16])
  BY CreateOrdinary, DropOrdinary DEF Upgrade0006
<1>2. /\ Ordinary(Upgrade0006[5]) /\ Ordinary(Upgrade0006[6]) /\ Ordinary(Upgrade0006[7]) /\ Ordinary(Upgrade0006[8])
      /\ Ordinary(Upgrade0006[9])
  BY DropOrdinary, SpecialNames DEF Upgrade0006, DropIndex, DropColumn, Holding
<1>3. /\ Ordinary(Upgrade0006[10]) /\ Ordinary(Upgrade0006[11]) /\ Ordinary(Upgrade0006[12]) /\ Ordinary(Upgrade0006[13])
      /\ Ordinary(Upgrade0006[14])
  BY DropOrdinary, SpecialNames DEF Upgrade0006, DropIndex, DropColumn, DropTable, Holding
<1>4. Ordinary(Downgrade0006[1]) /\ Ordinary(Downgrade0006[2]) /\ Ordinary(Downgrade0006[4]) /\ Ordinary(Downgrade0006[5])
  BY CreateOrdinary, DefaultedOrdinary, DropOrdinary DEF Downgrade0006
<1>5. \A n \in 6 .. 8 : Ordinary(Downgrade0006[n])
  BY DropOrdinary, SpecialNames DEF Downgrade0006, DropIndex, DropColumn, Holding
<1> QED BY <1>1, <1>2, <1>3, <1>4, <1>5

-----------------------------------------------------------------------------
(* An operation on schemas that are alike.                                 *)

LEMMA IndexesLoose == \A z \in LooseNames : z[1] = "index"
  BY SpecialNames DEF LooseNames

LEMMA NameParts == \A o : Name(o) = <<o.kind, o.table, o.name>> /\ Name(o)[1] = o.kind /\ Name(o)[2] = o.table
  BY DEF Name

(* What is alike has the same objects by name, and the same columns.       *)
LEMMA CoreHas ==
  ASSUME NEW s, NEW u, NEW t, NEW Z, Core(s, t, Z) = Core(u, t, Z),
         NEW n, n[1] # "extension", n[2] = t, n \notin Z, Has(s, n)
  PROVE  Has(u, n)
<1>1. PICK o \in s : Name(o) = n
  BY DEF Has
<1>2. o \in Core(s, t, Z)
  BY <1>1, NameParts DEF Core
<1>3. o \in u
  BY <1>2 DEF Core
<1> QED BY <1>1, <1>3 DEF Has

LEMMA CoreDooms ==
  ASSUME NEW s, NEW u, NEW t, NEW Z, Z \subseteq LooseNames, Core(s, t, Z) = Core(u, t, Z),
         NEW n, n[2] = t
  PROVE  /\ DoomedColumns(s, n) = DoomedColumns(u, n)
         /\ \A c \in DoomedColumns(s, n) : c[1] = t
<1>1. ASSUME NEW x, NEW y, Core(x, t, Z) = Core(y, t, Z)
      PROVE  \A c \in DoomedColumns(x, n) : c \in DoomedColumns(y, n) /\ c[1] = t
  <2>1. SUFFICES ASSUME NEW c \in DoomedColumns(x, n) PROVE c \in DoomedColumns(y, n) /\ c[1] = t
    OBVIOUS
  <2>2. PICK p \in x : p.kind = "column" /\ Within(n, p) /\ c = Column(p.table, p.name)
    BY <2>1 DEF DoomedColumns, ColumnsOf
  <2>3. p.table = t
    BY <2>2, NameParts DEF Within
  <2>4. Name(p) \notin Z
    BY <2>2, IndexesLoose, NameParts
  <2>5. p \in y
    BY <1>1, <2>2, <2>3, <2>4 DEF Core
  <2> QED BY <2>2, <2>3, <2>5 DEF DoomedColumns, ColumnsOf, Column
<1> QED BY <1>1

LEMMA CoreAfter ==
  ASSUME NEW op, Proper(op), NEW t, NEW Z, Z \subseteq LooseNames,
         NEW s, NEW u, Core(s, t, Z) = Core(u, t, Z)
  PROVE  Core(After(s, op), t, Z) = Core(After(u, op), t, Z)
<1>1. ASSUME NEW x, NEW y, Core(x, t, Z) = Core(y, t, Z), NEW o \in Core(After(x, op), t, Z)
      PROVE  o \in Core(After(y, op), t, Z)
  <2>1. o \in After(x, op) /\ o.kind # "extension" /\ o.table = t /\ Name(o) \notin Z
    BY <1>1 DEF Core
  <2>2. o \in x => o \in y
    BY <1>1, <2>1 DEF Core
  <2>3. SUFFICES o \in After(y, op)
    BY <2>1 DEF Core
  <2>4. CASE op.do = "create"
    <3>1. o \in x \/ (o \in op.what /\ ~ Has(x, Name(o)))
      BY <2>1, <2>4 DEF After
    <3>2. Has(y, Name(o)) => Has(x, Name(o))
      BY <1>1, <2>1, NameParts, CoreHas
    <3> QED BY <2>2, <2>4, <3>1, <3>2 DEF After
  <2>5. CASE op.do = "drop"
    <3>1. PICK n : op.what = {n} /\ Dropping(n, op.lenient)
      BY <2>5 DEF Proper
    <3>2. \A s_ : After(s_, op) = s_ \ Doomed(s_, n)
      BY <2>5, <3>1 DEF After
    <3>3. o \in y /\ o \in x
      BY <2>1, <2>2, <3>2
    <3>4. o \notin Doomed(x, n)
      BY <2>1, <3>2
    <3>5. o \notin Doomed(y, n)
      <4>1. CASE n[2] = t
        <5>1. DoomedColumns(x, n) = DoomedColumns(y, n)
          BY <1>1, <4>1, CoreDooms
        <5> QED BY <3>3, <3>4, <5>1 DEF Doomed
      <4>2. CASE n[2] # t
        <5>1. ~ Within(n, o)
          BY <2>1, <4>2, NameParts DEF Within
        <5> QED BY <2>1, <4>2, <5>1 DEF Doomed
      <4> QED BY <4>1, <4>2
    <3> QED BY <3>2, <3>3, <3>5
  <2>6. CASE op.do \notin {"create", "drop"}
    BY <2>1, <2>2, <2>6 DEF After
  <2> QED BY <2>4, <2>5, <2>6
<1>2. \A o \in Core(After(s, op), t, Z) : o \in Core(After(u, op), t, Z)
  BY <1>1
<1>3. \A o \in Core(After(u, op), t, Z) : o \in Core(After(s, op), t, Z)
  BY <1>1
<1> QED BY <1>2, <1>3

(* A table that a successful operation need not lock it does not change,   *)
(* if what it drops if it is there is not counted.                         *)
LEMMA CoreUntouched ==
  ASSUME NEW op, Proper(op), NEW s, NEW rows_, Succeeds(s, rows_, op),
         NEW t, t \in OwnTables, t \notin Touched(s, op), NEW Z, Z \subseteq LooseNames,
         op.do = "drop" /\ op.lenient => op.what \subseteq Z \/ t # "memories", NEW u
  PROVE  Core(After(u, op), t, Z) = Core(u, t, Z)
<1>1. CASE op.do = "create"
  <2>1. \A o \in op.what : o.table # t
    BY <1>1 DEF Touched, Tables
  <2> QED BY <1>1, <2>1 DEF After, Core
<1>2. CASE op.do = "drop"
  <2>1. PICK n : op.what = {n} /\ Dropping(n, op.lenient)
    BY <1>2 DEF Proper
  <2>2. After(u, op) = u \ Doomed(u, n) /\ Touched(s, op) = Tables(Doomed(s, n))
    BY <1>2, <2>1 DEF After, Touched
  <2>3. CASE n[2] # t
    <3>1. \A o \in Core(u, t, Z) : o \notin Doomed(u, n)
      BY <2>3, NameParts DEF Core, Doomed, Within
    <3> QED BY <2>2, <3>1 DEF Core
  <2>4. CASE n[2] = t
    <3>1. ~ Has(s, n)
      <4>1. SUFFICES ASSUME NEW o \in s, Name(o) = n PROVE FALSE
        BY DEF Has
      <4>2. o \in Doomed(s, n) /\ o.table = t
        BY <2>4, <4>1, NameParts DEF Doomed, Within
      <4> QED BY <2>2, <4>2 DEF Tables
    <3>2. op.lenient
      BY <1>2, <2>1, <3>1 DEF Succeeds, Droppable
    <3>3. n \in LooseNames
      BY <2>1, <3>2 DEF Dropping
    <3>4. n[2] = "memories" /\ n[1] = "index"
      BY <3>3, SpecialNames DEF LooseNames
    <3>5. n \in Z
      BY <1>2, <2>1, <2>4, <3>2, <3>4
    <3>6. DoomedColumns(u, n) = {}
      <4>1. ASSUME NEW o \in u, o.kind = "column", Within(n, o) PROVE FALSE
        BY <3>4, <4>1, NameParts DEF Within
      <4> QED BY <4>1 DEF DoomedColumns, ColumnsOf
    <3>7. \A o \in Core(u, t, Z) : o \notin Doomed(u, n)
      BY <3>4, <3>5, <3>6 DEF Core, Doomed, Within
    <3> QED BY <2>2, <3>7 DEF Core
  <2> QED BY <2>3, <2>4
<1>3. CASE op.do \notin {"create", "drop"}
  BY <1>3 DEF After
<1> QED BY <1>1, <1>2, <1>3

(* An operation that succeeds succeeds on what is alike.                   *)
LEMMA SucceedsAlike ==
  ASSUME NEW op, Proper(op), NEW Z, Z \subseteq LooseNames, op.do = "create" => Z = {TypeStatusName},
         NEW s, Placed(s), NEW u, Placed(u), Alike(s, u, Z), NEW rows_, Succeeds(u, rows_, op)
  PROVE  Succeeds(s, rows_, op)
<1>0. ASSUME NEW x, NEW y, Alike(x, y, Z), Placed(x), NEW o \in x, o.kind \notin {"extension", "index"}
      PROVE  o \in y
  <2>1. o.table \in OwnTables /\ Name(o) \notin Z
    BY <1>0, IndexesLoose, NameParts DEF Placed
  <2>2. o \in Core(x, o.table, Z)
    BY <1>0, <2>1 DEF Core
  <2>3. Core(x, o.table, Z) = Core(y, o.table, Z)
    BY <1>0, <2>1 DEF Alike
  <2> QED BY <2>2, <2>3 DEF Core
<1>1. /\ \A o \in s : o.kind \notin {"extension", "index"} => o \in u
      /\ \A o \in u : o.kind \notin {"extension", "index"} => o \in s
  <2>1. Alike(u, s, Z)
    BY DEF Alike
  <2> QED BY <1>0, <2>1
<1>2. CASE op.do = "create"
  <2> DEFINE v == u \cup op.what
             w == s \cup op.what
  <2>0. \A o \in v : o.kind \notin {"extension", "index"} => o \in w
    BY <1>1
  <2>1. ColumnsOf(v) \subseteq ColumnsOf(w)
    BY <2>0 DEF ColumnsOf
  <2>2. \A t : Has(v, <<"table", t, t>>) => Has(w, <<"table", t, t>>)
    BY <2>0, NameParts DEF Has
  <2>3. \A o : Filled(v, rows_, o) => Filled(w, rows_, o)
    BY <2>0 DEF Filled
  <2>4. /\ op.lenient \/ \A o \in op.what : ~ Has(u, Name(o))
        /\ \A o \in op.what :
             /\ o.kind # "extension" => Has(v, <<"table", o.table, o.table>>)
             /\ o.on \subseteq ColumnsOf(v)
             /\ o.kind = "not null" /\ o.table = "memories" => Filled(v, rows_, o)
    BY <1>2 DEF Succeeds, Creatable
  <2>5. op.lenient \/ \A o \in op.what : ~ Has(s, Name(o))
    <3>1. SUFFICES ASSUME ~ op.lenient, NEW o \in op.what, Has(s, Name(o)) PROVE FALSE
      OBVIOUS
    <3>2. o.table \in OwnTables /\ o.kind # "extension" /\ Name(o) \notin Z
      BY <1>2, <3>1 DEF Proper, Placed
    <3>3. Core(s, o.table, Z) = Core(u, o.table, Z)
      BY <3>2 DEF Alike
    <3>4. Has(u, Name(o))
      BY <3>1, <3>2, <3>3, NameParts, CoreHas
    <3> QED BY <2>4, <3>1, <3>4
  <2> HIDE DEF v, w
  <2>6. \A o \in op.what :
             /\ o.kind # "extension" => Has(w, <<"table", o.table, o.table>>)
             /\ o.on \subseteq ColumnsOf(w)
             /\ o.kind = "not null" /\ o.table = "memories" => Filled(w, rows_, o)
    BY <2>1, <2>2, <2>3, <2>4
  <2> QED BY <1>2, <2>5, <2>6 DEF Succeeds, Creatable, w
<1>3. CASE op.do = "drop"
  <2>1. PICK n : op.what = {n} /\ Dropping(n, op.lenient)
    BY <1>3 DEF Proper
  <2>2. /\ n[2] \in OwnTables /\ n[1] # "extension" /\ (op.lenient <=> n \in LooseNames)
        /\ op.lenient \/ Has(u, n)
        /\ ~ Referenced(u, n)
    BY <1>3, <2>1 DEF Dropping, Succeeds, Droppable
  <2>3. Core(s, n[2], Z) = Core(u, n[2], Z)
    BY <2>2 DEF Alike
  <2>4. op.lenient \/ Has(s, n)
    BY <2>2, <2>3, CoreHas
  <2>5. DoomedColumns(s, n) = DoomedColumns(u, n) /\ \A c \in DoomedColumns(s, n) : c[1] = n[2]
    BY <2>3, CoreDooms
  <2>6. ~ Referenced(s, n)
    <3>1. SUFFICES ASSUME NEW o \in s, o.table # n[2], o.on \cap DoomedColumns(s, n) # {} PROVE FALSE
      BY DEF Referenced
    <3>2. PICK c \in o.on : c \in DoomedColumns(s, n)
      BY <3>1
    <3>3. o.kind = "key"
      BY <2>5, <3>1, <3>2 DEF Placed
    <3>4. o \in u
      BY <1>1, <3>3
    <3> QED BY <2>2, <2>5, <3>1, <3>4 DEF Referenced
  <2> QED BY <1>3, <2>1, <2>4, <2>6 DEF Succeeds, Droppable
<1>4. CASE op.do \notin {"create", "drop"}
  BY <1>4 DEF Succeeds
<1> QED BY <1>2, <1>3, <1>4

(* The index on type and status stays, unless what holds it is dropped.    *)
LEMMA IndexStays ==
  ASSUME NEW op, Proper(op), Keeping(op), NEW s, Placed(s), Has(s, TypeStatusName)
  PROVE  Has(After(s, op), TypeStatusName)
<1>1. TypeStatusIndex \in s /\ Name(TypeStatusIndex) = TypeStatusName
  BY DEF Has, Placed, TypeStatusName
<1>2. SUFFICES TypeStatusIndex \in After(s, op)
  BY <1>1 DEF Has
<1>3. CASE op.do = "drop"
  <2>1. PICK n : op.what = {n} /\ Dropping(n, op.lenient)
    BY <1>3 DEF Proper
  <2>2. n \notin Holding /\ n = <<n[1], n[2], n[3]>> /\ (n[1] = "table" => n[3] = n[2])
    BY <1>3, <2>1 DEF Keeping, Dropping
  <2>3. /\ TypeStatusIndex.table = "memories"
        /\ TypeStatusIndex.on = {<<"memories", "type">>, <<"memories", "status">>}
    BY DEF TypeStatusIndex, Index, Object, Column
  <2>4. ~ Within(n, TypeStatusIndex)
    BY <1>1, <2>1, <2>2, <2>3 DEF Within, Holding, Dropping
  <2>5. n[2] = "memories" => TypeStatusIndex.on \cap DoomedColumns(s, n) = {}
    <3>1. SUFFICES ASSUME n[2] = "memories", NEW c \in TypeStatusIndex.on, c \in DoomedColumns(s, n) PROVE FALSE
      OBVIOUS
    <3>2. PICK p \in s : p.kind = "column" /\ Within(n, p) /\ c = Column(p.table, p.name)
      BY <3>1 DEF DoomedColumns, ColumnsOf
    <3>3. n[1] # "table"
      BY <2>1, <2>2, <3>1 DEF Holding, Dropping
    <3>4. n = <<"column", p.table, p.name>>
      BY <3>2, <3>3, NameParts DEF Within
    <3>5. c = <<p.table, p.name>>
      BY <3>2 DEF Column
    <3>6. c = <<"memories", "type">> \/ c = <<"memories", "status">>
      BY <2>3, <3>1
    <3>7. n = <<"column", "memories", "type">> \/ n = <<"column", "memories", "status">>
      BY <3>4, <3>5, <3>6
    <3> QED BY <2>2, <3>7 DEF Holding
  <2>6. TypeStatusIndex \notin Doomed(s, n)
    BY <2>3, <2>4, <2>5 DEF Doomed
  <2> QED BY <1>1, <1>3, <2>1, <2>6 DEF After
<1>4. CASE op.do # "drop"
  BY <1>1, <1>4 DEF After
<1> QED BY <1>3, <1>4
=============================================================================
