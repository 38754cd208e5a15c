--------------------------- MODULE MigrationsProofs ---------------------------
(***************************************************************************)
(* Proofs about Migrations, for any number of attempts, from any versions  *)
(* to any, and any memories.                                               *)
(***************************************************************************)
EXTENDS MigrationsSchemaProofs

-----------------------------------------------------------------------------
(* The revisions.                                                          *)

(* An operation that leaves alembic's own table alone.                     *)
Plain(op) == op.do = "create" => Apart(op.what)

LEMMA ObjectsApart ==
  ASSUME NEW t, t # "alembic_version"
  PROVE  /\ \A C : Apart(Nullable(t, C))
         /\ \A c : Apart({NotNull(t, c)})
         /\ \A C : Apart(Required(t, C))
         /\ \A C : Apart(Defaulted(t, C))
         /\ \A O : Apart(O) => Apart(Table(t, O))
         /\ \A name, C : Apart({Index(t, name, C)}) /\ Apart({Check(t, name, C)}) /\ Apart({Unique(t, name, C)})
         /\ \A c, name : Apart({ForeignKey(t, c, name)})
         /\ \A C : Apart({ForeignKey(t, c, c) : c \in C})
<1>1. ASSUME NEW kind, NEW name, NEW on, \A c \in on : c[1] # "alembic_version"
      PROVE  Apart({Object(kind, t, name, on)})
  BY <1>1 DEF Apart, AlembicTable, Object
<1>2. \A c : Column(t, c)[1] # "alembic_version" /\ Column("memories", c)[1] # "alembic_version"
  BY DEF Column
<1>3. ASSUME NEW C PROVE \A c \in {Column(t, d) : d \in C} : c[1] # "alembic_version"
  BY <1>2
<1>4. ASSUME NEW C PROVE Apart(Nullable(t, C))
  BY DEF Apart, AlembicTable, Object, Nullable
<1>5. ASSUME NEW c PROVE Apart({NotNull(t, c)})
  BY <1>1, <1>2 DEF NotNull
<1>6. ASSUME NEW C PROVE Apart(Required(t, C))
  BY <1>4, <1>5 DEF Required, Apart
<1>7. ASSUME NEW C PROVE Apart(Defaulted(t, C))
  <2>1. \A c : Apart({Object("default", t, c, {Column(t, c)})})
    BY <1>1, <1>2
  <2> QED BY <1>6, <2>1 DEF Defaulted, Apart
<1>8. ASSUME NEW O, Apart(O) PROVE Apart(Table(t, O))
  <2>1. Apart({Object("table", t, t, {})})
    BY <1>1
  <2> QED BY <1>8, <2>1 DEF Table, Apart
<1>9. ASSUME NEW name, NEW C
      PROVE  Apart({Index(t, name, C)}) /\ Apart({Check(t, name, C)}) /\ Apart({Unique(t, name, C)})
  BY <1>1, <1>3 DEF Index, Check, Unique
<1>10. ASSUME NEW c, NEW name PROVE Apart({ForeignKey(t, c, name)})
  BY <1>1, <1>2 DEF ForeignKey
<1>11. ASSUME NEW C PROVE Apart({ForeignKey(t, c, c) : c \in C})
  BY <1>10 DEF Apart
<1> QED BY <1>4, <1>5, <1>6, <1>7, <1>8, <1>9, <1>10, <1>11

LEMMA ExtensionsApart == \A e : Apart({Extension(e)})
  BY DEF Apart, AlembicTable, Extension, Object

LEMMA OperationsPlain ==
  /\ \A O : Plain(Create(O)) <=> Apart(O)
  /\ \A o : Plain(CreateIfMissing(o)) <=> Apart({o})
  /\ \A kind, t, name : Plain(Drop(kind, t, name)) /\ Plain(DropIfExists(kind, t, name))
  /\ \A t, name : Plain(DropColumn(t, name)) /\ Plain(DropIndex(t, name)) /\ Plain(DropTable(t))
  /\ \A t, name, C : Plain(CreateIndex(t, name, C)) <=> Apart({Index(t, name, C)})
  /\ \A rule : rule # "create" => Plain(Update(rule))
  BY DEF Plain, Create, CreateIfMissing, Drop, DropIfExists, DropColumn, DropIndex, DropTable, CreateIndex, Update, Op

LEMMA ApartUnion == ASSUME NEW O, NEW P, Apart(O), Apart(P) PROVE Apart(O \cup P)
  BY DEF Apart

LEMMA PlainUpgrade0001 ==
  Len(Upgrade0001) = 8 /\ \A n \in 1 .. 8 : Plain(Upgrade0001[n])
<1>1. Len(Upgrade0001) = 8
  BY DEF Upgrade0001
<1>2. /\ Plain(Upgrade0001[1]) /\ Plain(Upgrade0001[2]) /\ Plain(Upgrade0001[3]) /\ Plain(Upgrade0001[4])
      /\ Plain(Upgrade0001[5]) /\ Plain(Upgrade0001[6]) /\ Plain(Upgrade0001[7]) /\ Plain(Upgrade0001[8])
  BY ObjectsApart, ExtensionsApart, OperationsPlain, ApartUnion DEF Upgrade0001
<1> QED BY <1>1, <1>2

LEMMA PlainDowngrade0001 ==
  Len(Downgrade0001) = 6 /\ \A n \in 1 .. 6 : Plain(Downgrade0001[n])
<1>1. Len(Downgrade0001) = 6
  BY DEF Downgrade0001
<1>2. /\ Plain(Downgrade0001[1]) /\ Plain(Downgrade0001[2]) /\ Plain(Downgrade0001[3]) /\ Plain(Downgrade0001[4])
      /\ Plain(Downgrade0001[5]) /\ Plain(Downgrade0001[6])
  BY ObjectsApart, OperationsPlain, ApartUnion DEF Downgrade0001
<1> QED BY <1>1, <1>2

LEMMA PlainUpgrade0002 ==
  Len(Upgrade0002) = 13 /\ \A n \in 1 .. 13 : Plain(Upgrade0002[n])
<1>1. Len(Upgrade0002) = 13
  BY DEF Upgrade0002
<1>2. /\ Plain(Upgrade0002[1]) /\ Plain(Upgrade0002[2]) /\ Plain(Upgrade0002[3]) /\ Plain(Upgrade0002[4])
      /\ Plain(Upgrade0002[5]) /\ Plain(Upgrade0002[6]) /\ Plain(Upgrade0002[7]) /\ Plain(Upgrade0002[8])
      /\ Plain(Upgrade0002[9]) /\ Plain(Upgrade0002[10]) /\ Plain(Upgrade0002[11]) /\ Plain(Upgrade0002[12])
      /\ Plain(Upgrade0002[13])
  BY ObjectsApart, OperationsPlain, ApartUnion DEF Upgrade0002
<1> QED BY <1>1, <1>2

LEMMA PlainDowngrade0002 ==
  Len(Downgrade0002) = 13 /\ \A n \in 1 .. 13 : Plain(Downgrade0002[n])
<1>1. Len(Downgrade0002) = 13
  BY DEF Downgrade0002
<1>2. /\ Plain(Downgrade0002[1]) /\ Plain(Downgrade0002[2]) /\ Plain(Downgrade0002[3]) /\ Plain(Downgrade0002[4])
      /\ Plain(Downgrade0002[5]) /\ Plain(Downgrade0002[6]) /\ Plain(Downgrade0002[7]) /\ Plain(Downgrade0002[8])
      /\ Plain(Downgrade0002[9]) /\ Plain(Downgrade0002[10]) /\ Plain(Downgrade0002[11]) /\ Plain(Downgrade0002[12])
      /\ Plain(Downgrade0002[13])
  BY ObjectsApart, OperationsPlain, ApartUnion DEF Downgrade0002
<1> QED BY <1>1, <1>2

LEMMA PlainUpgrade0004 ==
  Len(Upgrade0004) = 6 /\ \A n \in 1 .. 6 : Plain(Upgrade0004[n])
<1>1. Len(Upgrade0004) = 6
  BY DEF Upgrade0004
<1>2. /\ Plain(Upgrade0004[1]) /\ Plain(Upgrade0004[2]) /\ Plain(Upgrade0004[3]) /\ Plain(Upgrade0004[4])
      /\ Plain(Upgrade0004[5]) /\ Plain(Upgrade0004[6])
  BY ObjectsApart, OperationsPlain, ApartUnion DEF Upgrade0004, TypeStatusIndex
<1> QED BY <1>1, <1>2

LEMMA PlainDowngrade0004 ==
  Len(Downgrade0004) = 5 /\ \A n \in 1 .. 5 : Plain(Downgrade0004[n])
<1>1. Len(Downgrade0004) = 5
  BY DEF Downgrade0004
<1>2. /\ Plain(Downgrade0004[1]) /\ Plain(Downgrade0004[2]) /\ Plain(Downgrade0004[3]) /\ Plain(Downgrade0004[4])
      /\ Plain(Downgrade0004[5])
  BY ObjectsApart, OperationsPlain, ApartUnion DEF Downgrade0004
<1> QED BY <1>1, <1>2

LEMMA PlainUpgrade0005 ==
  Len(Upgrade0005) = 4 /\ \A n \in 1 .. 4 : Plain(Upgrade0005[n])
<1>1. Len(Upgrade0005) = 4
  BY DEF Upgrade0005
<1>2. /\ Plain(Upgrade0005[1]) /\ Plain(Upgrade0005[2]) /\ Plain(Upgrade0005[3]) /\ Plain(Upgrade0005[4])
  BY ObjectsApart, OperationsPlain, ApartUnion DEF Upgrade0005
<1> QED BY <1>1, <1>2

LEMMA PlainDowngrade0005 ==
  Len(Downgrade0005) = 4 /\ \A n \in 1 .. 4 : Plain(Downgrade0005[n])
<1>1. Len(Downgrade0005) = 4
  BY DEF Downgrade0005
<1>2. /\ Plain(Downgrade0005[1]) /\ Plain(Downgrade0005[2]) /\ Plain(Downgrade0005[3]) /\ Plain(Downgrade0005[4])
  BY ObjectsApart, OperationsPlain, ApartUnion DEF Downgrade0005
<1> QED BY <1>1, <1>2

LEMMA PlainUpgrade0006 ==
  Len(Upgrade0006) = 16 /\ \A n \in 1 .. 16 : Plain(Upgrade0006[n])
<1>1. Len(Upgrade0006) = 16
  BY DEF Upgrade0006
<1>2. /\ Plain(Upgrade0006[1]) /\ Plain(Upgrade0006[2]) /\ Plain(Upgrade0006[3]) /\ Plain(Upgrade0006[4])
      /\ Plain(Upgrade0006[5]) /\ Plain(Upgrade0006[6]) /\ Plain(Upgrade0006[7]) /\ Plain(Upgrade0006[8])
      /\ Plain(Upgrade0006[9]) /\ Plain(Upgrade0006[10]) /\ Plain(Upgrade0006[11]) /\ Plain(Upgrade0006[12])
      /\ Plain(Upgrade0006[13]) /\ Plain(Upgrade0006[14]) /\ Plain(Upgrade0006[15]) /\ Plain(Upgrade0006[16])
  BY ObjectsApart, OperationsPlain, ApartUnion DEF Upgrade0006
<1> QED BY <1>1, <1>2

LEMMA PlainDowngrade0006 ==
  Len(Downgrade0006) = 8 /\ \A n \in 1 .. 8 : Plain(Downgrade0006[n])
<1>1. Len(Downgrade0006) = 8
  BY DEF Downgrade0006
<1>2. /\ Plain(Downgrade0006[1]) /\ Plain(Downgrade0006[2]) /\ Plain(Downgrade0006[3]) /\ Plain(Downgrade0006[4])
      /\ Plain(Downgrade0006[5]) /\ Plain(Downgrade0006[6]) /\ Plain(Downgrade0006[7]) /\ Plain(Downgrade0006[8])
  BY ObjectsApart, OperationsPlain, ApartUnion DEF Downgrade0006
<1> QED BY <1>1, <1>2

(* Every script is short, and leaves alembic's own table alone.            *)
PlainScript(script) ==
  Len(script) \in 1 .. 16 /\ \A n \in 1 .. Len(script) : Plain(script[n])

LEMMA ScriptsPlain ==
  ASSUME NEW v \in 1 .. HeadRevision
  PROVE  PlainScript(Upgrades[v]) /\ PlainScript(Downgrades[v])
<1>1. /\ PlainScript(Upgrade0001) /\ PlainScript(Upgrade0002) /\ PlainScript(Upgrade0004)
      /\ PlainScript(Upgrade0005) /\ PlainScript(Upgrade0006)
  BY PlainUpgrade0001, PlainUpgrade0002, PlainUpgrade0004, PlainUpgrade0005, PlainUpgrade0006
     DEF PlainScript
<1>2. /\ PlainScript(Downgrade0001) /\ PlainScript(Downgrade0002) /\ PlainScript(Downgrade0004)
      /\ PlainScript(Downgrade0005) /\ PlainScript(Downgrade0006)
  BY PlainDowngrade0001, PlainDowngrade0002, PlainDowngrade0004, PlainDowngrade0005, PlainDowngrade0006
     DEF PlainScript
<1> QED BY <1>1, <1>2 DEF Upgrades, Downgrades, HeadRevision

LEMMA AfterApart ==
  ASSUME NEW s, Apart(s), NEW op, Plain(op)
  PROVE  Apart(After(s, op))
  BY DEF Apart, Plain, After

LEMMA BuiltApart ==
  ASSUME NEW s, Apart(s), NEW script, PlainScript(script)
  PROVE  Apart(Built(s, script))
<1> DEFINE stages == Stages(s, script)
           S == {n \in 0 .. Len(script) : Apart(stages[n])}
<1>1. stages[0] = s /\ \A n \in 1 .. Len(script) : stages[n] = After(stages[n - 1], script[n])
  BY StagesAre DEF PlainScript
<1> HIDE DEF stages
<1>2. 0 \in S
  BY <1>1 DEF PlainScript
<1>3. ASSUME NEW n \in 1 .. Len(script), n - 1 \in S PROVE n \in S
  <2>1. Plain(script[n]) /\ Apart(stages[n - 1]) /\ n \in 0 .. Len(script)
    BY <1>3 DEF PlainScript
  <2> QED BY <1>1, <2>1, AfterApart
<1> HIDE DEF S
<1>4. \A n \in 0 .. Len(script) : n \in S
  <2>1. Len(script) \in 0 .. 16
    BY DEF PlainScript
  <2> QED BY <1>2, <1>3, <2>1, StepByStep
<1>5. Apart(stages[Len(script)])
  BY <1>4 DEF S, PlainScript
<1> QED BY <1>5 DEF Built, stages

(* No revision has alembic's own table.                                    *)
LEMMA LadderApart == \A v \in Versions : Apart(Ladder[v])
<1>1. ASSUME NEW v \in 1 .. 5, Apart(Ladder[v - 1]) PROVE Apart(Ladder[v])
  BY <1>1, LadderIs, BuiltApart, ScriptsPlain DEF HeadRevision
<1>2. Apart(Ladder[0])
  BY LadderIs DEF Apart
<1>3. Apart(Ladder[1]) /\ Apart(Ladder[2]) /\ Apart(Ladder[3])
  BY <1>1, <1>2
<1>4. Apart(Ladder[4]) /\ Apart(Ladder[5])
  BY <1>1, <1>3
<1> QED BY <1>2, <1>3, <1>4 DEF Versions, HeadRevision

-----------------------------------------------------------------------------
(* What the revisions do to the rows.                                      *)

(* Among these objects is column c of memories; none is but perhaps x.     *)
AddsColumn(O, c) == Object("column", "memories", c, {}) \in O
AddsBut(O, x) == \A c \in Tracked \ {x} : ~ AddsColumn(O, c)

(* An operation that leaves the kept columns of memories alone, but for x. *)
SparesBut(op, x) ==
  /\ op.do = "create" => AddsBut(op.what, x)
  /\ op.do = "drop" =>
       /\ <<"table", "memories", "memories">> \notin op.what
       /\ \A c \in Tracked \ {x} : <<"column", "memories", c>> \notin op.what
  /\ op.do \in {"workspace of repo", "workspace of the rest"} => x = "workspace"
  /\ op.do = "type" => x = "type"
  /\ op.do = "namespace" => x = "namespace"

LEMMA ColumnsAdded ==
  ASSUME NEW x
  PROVE  /\ \A t, C : t # "memories" => /\ AddsBut(Nullable(t, C), x)
                                       /\ AddsBut(Required(t, C), x)
                                       /\ AddsBut(Defaulted(t, C), x)
         /\ \A c : c = x \/ c \notin Tracked => /\ AddsBut(Nullable("memories", {c}), x)
                                             /\ AddsBut(Defaulted("memories", {c}), x)
         /\ \A t, O : AddsBut(O, x) => AddsBut(Table(t, O), x)
         /\ \A O, P : AddsBut(O, x) /\ AddsBut(P, x) => AddsBut(O \cup P, x)
         /\ \A t, name, C : /\ AddsBut({Index(t, name, C)}, x) /\ AddsBut({Check(t, name, C)}, x)
                            /\ AddsBut({Unique(t, name, C)}, x)
         /\ \A t, c, name : AddsBut({ForeignKey(t, c, name)}, x)
         /\ \A t, c : AddsBut({NotNull(t, c)}, x)
<1>1. ASSUME NEW kind, NEW t, NEW name, NEW on,
             NEW c, Object(kind, t, name, on) = Object("column", "memories", c, {})
      PROVE  kind = "column" /\ t = "memories" /\ name = c
  BY <1>1 DEF Object
<1>2. ASSUME NEW kind, NEW t, NEW name, NEW on,
             kind # "column" \/ t # "memories" \/ name = x \/ name \notin Tracked
      PROVE  AddsBut({Object(kind, t, name, on)}, x)
  BY <1>1, <1>2 DEF AddsBut, AddsColumn
<1>3. ASSUME NEW O, NEW P, AddsBut(O, x), AddsBut(P, x) PROVE AddsBut(O \cup P, x)
  BY <1>3 DEF AddsBut, AddsColumn
<1>4. ASSUME NEW O, \A o \in O : AddsBut({o}, x) PROVE AddsBut(O, x)
  BY <1>4 DEF AddsBut, AddsColumn
<1>5. ASSUME NEW t, NEW C, t # "memories" \/ \A c \in C : c = x \/ c \notin Tracked
      PROVE  /\ AddsBut(Nullable(t, C), x) /\ AddsBut(Required(t, C), x)
             /\ AddsBut(Defaulted(t, C), x)
  <2>1. AddsBut(Nullable(t, C), x)
    <3>1. \A c \in C : AddsBut({Object("column", t, c, {})}, x)
      BY <1>2, <1>5
    <3> QED BY <1>4, <3>1 DEF Nullable
  <2>2. \A c \in C : AddsBut({NotNull(t, c)}, x)
    BY <1>2 DEF NotNull
  <2>3. AddsBut(Required(t, C), x)
    <3>1. AddsBut({NotNull(t, c) : c \in C}, x)
      BY <1>4, <2>2
    <3> QED BY <1>3, <2>1, <3>1 DEF Required
  <2>4. AddsBut(Defaulted(t, C), x)
    <3>1. \A c \in C : AddsBut({Object("default", t, c, {Column(t, c)})}, x)
      BY <1>2
    <3>2. AddsBut({Object("default", t, c, {Column(t, c)}) : c \in C}, x)
      BY <1>4, <3>1
    <3> QED BY <1>3, <2>3, <3>2 DEF Defaulted
  <2> QED BY <2>1, <2>3, <2>4
<1>6. ASSUME NEW t, NEW O, AddsBut(O, x) PROVE AddsBut(Table(t, O), x)
  <2>1. AddsBut({Object("table", t, t, {})}, x)
    BY <1>2
  <2> QED BY <1>3, <1>6, <2>1 DEF Table
<1>7. ASSUME NEW t, NEW name, NEW C
      PROVE  /\ AddsBut({Index(t, name, C)}, x) /\ AddsBut({Check(t, name, C)}, x)
             /\ AddsBut({Unique(t, name, C)}, x)
  BY <1>2 DEF Index, Check, Unique
<1>8. ASSUME NEW t, NEW c, NEW name PROVE AddsBut({ForeignKey(t, c, name)}, x)
  BY <1>2 DEF ForeignKey
<1>9. ASSUME NEW t, NEW c PROVE AddsBut({NotNull(t, c)}, x)
  BY <1>2 DEF NotNull
<1> QED BY <1>3, <1>5, <1>6, <1>7, <1>8, <1>9

LEMMA OperationsSpare ==
  ASSUME NEW x
  PROVE  /\ \A O : AddsBut(O, x) => SparesBut(Create(O), x)
         /\ \A t, name, C : /\ SparesBut(CreateIfMissing(Index(t, name, C)), x)
                            /\ SparesBut(CreateIndex(t, name, C), x)
         /\ \A t, name : /\ SparesBut(Drop("check", t, name), x) /\ SparesBut(Drop("key", t, name), x)
                         /\ SparesBut(DropIndex(t, name), x) /\ SparesBut(DropIfExists("index", t, name), x)
         /\ \A t : t # "memories" => SparesBut(DropTable(t), x)
         /\ \A t, c : t # "memories" \/ c = x \/ c \notin Tracked => SparesBut(DropColumn(t, c), x)
         /\ x = "workspace" =>
              SparesBut(Update("workspace of repo"), x) /\ SparesBut(Update("workspace of the rest"), x)
         /\ x = "type" => SparesBut(Update("type"), x)
         /\ x = "namespace" => SparesBut(Update("namespace"), x)
<1>1. \A O : AddsBut(O, x) => SparesBut(Create(O), x)
  BY DEF SparesBut, Create, Op
<1>2. \A t, name, C : /\ SparesBut(CreateIfMissing(Index(t, name, C)), x)
                     /\ SparesBut(CreateIndex(t, name, C), x)
  <2>1. \A t, name, C : AddsBut({Index(t, name, C)}, x)
    BY ColumnsAdded
  <2>2. \A o : AddsBut({o}, x) => SparesBut(CreateIfMissing(o), x)
    BY DEF SparesBut, CreateIfMissing, Op
  <2> QED BY <1>1, <2>1, <2>2 DEF CreateIndex
<1>3. \A t, name : /\ SparesBut(Drop("check", t, name), x) /\ SparesBut(Drop("key", t, name), x)
                  /\ SparesBut(DropIndex(t, name), x) /\ SparesBut(DropIfExists("index", t, name), x)
  BY DEF SparesBut, Drop, DropIndex, DropIfExists, Op
<1>4. \A t : t # "memories" => SparesBut(DropTable(t), x)
  BY DEF SparesBut, DropTable, Drop, Op
<1>5. \A t, c : t # "memories" \/ c = x \/ c \notin Tracked => SparesBut(DropColumn(t, c), x)
  BY DEF SparesBut, DropColumn, Drop, Op
<1>6. /\ x = "workspace" =>
           SparesBut(Update("workspace of repo"), x) /\ SparesBut(Update("workspace of the rest"), x)
      /\ x = "type" => SparesBut(Update("type"), x)
      /\ x = "namespace" => SparesBut(Update("namespace"), x)
  BY DEF SparesBut, Update, Op
<1> QED BY <1>1, <1>2, <1>3, <1>4, <1>5, <1>6

LEMMA OtherTablesSpare ==
  ASSUME NEW t, t # "memories", NEW x
  PROVE  /\ \A C, D, E :
              AddsBut(Table(t, Required(t, C) \cup Nullable(t, D) \cup Defaulted(t, E)), x)
         /\ \A C, D, E, F, name, G :
              AddsBut(Table(t, Required(t, C) \cup Defaulted(t, D) \cup Nullable(t, E)
                               \cup {ForeignKey(t, c, c) : c \in F} \cup {Unique(t, name, G)}), x)
<1>1. /\ \A C : AddsBut(Nullable(t, C), x) /\ AddsBut(Required(t, C), x) /\ AddsBut(Defaulted(t, C), x)
      /\ \A O : AddsBut(O, x) => AddsBut(Table(t, O), x)
      /\ \A O, P : AddsBut(O, x) /\ AddsBut(P, x) => AddsBut(O \cup P, x)
      /\ \A name, C : AddsBut({Unique(t, name, C)}, x)
      /\ \A C : AddsBut({ForeignKey(t, c, c) : c \in C}, x)
  <2>1. \A C : AddsBut(Nullable(t, C), x) /\ AddsBut(Required(t, C), x) /\ AddsBut(Defaulted(t, C), x)
    BY ColumnsAdded
  <2>2. \A O : AddsBut(O, x) => AddsBut(Table(t, O), x)
    BY ColumnsAdded
  <2>3. \A O, P : AddsBut(O, x) /\ AddsBut(P, x) => AddsBut(O \cup P, x)
    BY ColumnsAdded
  <2>4. \A name, C : AddsBut({Unique(t, name, C)}, x)
    BY ColumnsAdded
  <2>5. ASSUME NEW C PROVE AddsBut({ForeignKey(t, c, c) : c \in C}, x)
    <3>1. \A c : AddsBut({ForeignKey(t, c, c)}, x)
      BY ColumnsAdded
    <3> QED BY <3>1 DEF AddsBut, AddsColumn
  <2> QED BY <2>1, <2>2, <2>3, <2>4, <2>5
<1>2. ASSUME NEW C, NEW D, NEW E
      PROVE  AddsBut(Table(t, Required(t, C) \cup Nullable(t, D) \cup Defaulted(t, E)), x)
  BY <1>1
<1>3. ASSUME NEW C, NEW D, NEW E, NEW F, NEW name, NEW G
      PROVE  AddsBut(Table(t, Required(t, C) \cup Defaulted(t, D) \cup Nullable(t, E)
                              \cup {ForeignKey(t, c, c) : c \in F} \cup {Unique(t, name, G)}), x)
  BY <1>1
<1> QED BY <1>2, <1>3

LEMMA SparesDowngrade0001 ==
  /\ SparesBut(Downgrade0001[1], "scope")
  /\ SparesBut(Downgrade0001[2], "scope")
  /\ SparesBut(Downgrade0001[3], "scope")
  /\ SparesBut(Downgrade0001[4], "scope")
  /\ SparesBut(Downgrade0001[5], "scope")
  BY ColumnsAdded, OperationsSpare DEF Downgrade0001, Tracked

LEMMA SparesUpgrade0002 ==
  /\ SparesBut(Upgrade0002[1], "scope")
  /\ SparesBut(Upgrade0002[2], "scope")
  /\ SparesBut(Upgrade0002[3], "superseded_by")
  /\ SparesBut(Upgrade0002[4], "scope")
  /\ SparesBut(Upgrade0002[5], "scope")
  /\ SparesBut(Upgrade0002[6], "scope")
  /\ SparesBut(Upgrade0002[7], "scope")
  /\ SparesBut(Upgrade0002[8], "scope")
  /\ SparesBut(Upgrade0002[9], "scope")
  /\ SparesBut(Upgrade0002[10], "scope")
  /\ SparesBut(Upgrade0002[11], "scope")
  /\ SparesBut(Upgrade0002[12], "scope")
  /\ SparesBut(Upgrade0002[13], "scope")
<1>1. SparesBut(Upgrade0002[7], "scope")
  BY OtherTablesSpare, OperationsSpare DEF Upgrade0002
<1> QED BY <1>1, ColumnsAdded, OperationsSpare DEF Upgrade0002, Tracked

LEMMA SparesDowngrade0002 ==
  /\ SparesBut(Downgrade0002[1], "scope")
  /\ SparesBut(Downgrade0002[2], "scope")
  /\ SparesBut(Downgrade0002[3], "scope")
  /\ SparesBut(Downgrade0002[4], "scope")
  /\ SparesBut(Downgrade0002[5], "scope")
  /\ SparesBut(Downgrade0002[6], "scope")
  /\ SparesBut(Downgrade0002[7], "scope")
  /\ SparesBut(Downgrade0002[8], "scope")
  /\ SparesBut(Downgrade0002[9], "scope")
  /\ SparesBut(Downgrade0002[10], "scope")
  /\ SparesBut(Downgrade0002[11], "superseded_by")
  /\ SparesBut(Downgrade0002[12], "scope")
  /\ SparesBut(Downgrade0002[13], "scope")
  BY ColumnsAdded, OperationsSpare DEF Downgrade0002, Tracked

LEMMA SparesUpgrade0004 ==
  /\ SparesBut(Upgrade0004[1], "scope")
  /\ SparesBut(Upgrade0004[2], "scope")
  /\ SparesBut(Upgrade0004[3], "scope")
  /\ SparesBut(Upgrade0004[4], "scope")
  /\ SparesBut(Upgrade0004[5], "scope")
  /\ SparesBut(Upgrade0004[6], "scope")
<1>1. SparesBut(Upgrade0004[1], "scope")
  BY OtherTablesSpare, OperationsSpare DEF Upgrade0004
<1> QED BY <1>1, ColumnsAdded, OperationsSpare DEF Upgrade0004, TypeStatusIndex, Tracked

LEMMA SparesDowngrade0004 ==
  /\ SparesBut(Downgrade0004[1], "scope")
  /\ SparesBut(Downgrade0004[2], "scope")
  /\ SparesBut(Downgrade0004[3], "scope")
  /\ SparesBut(Downgrade0004[4], "scope")
  /\ SparesBut(Downgrade0004[5], "scope")
  BY ColumnsAdded, OperationsSpare DEF Downgrade0004, Tracked

LEMMA SparesUpgrade0005 ==
  /\ SparesBut(Upgrade0005[1], "scope")
  /\ SparesBut(Upgrade0005[2], "scope")
  /\ SparesBut(Upgrade0005[3], "scope")
  /\ SparesBut(Upgrade0005[4], "scope")
  BY ColumnsAdded, OperationsSpare DEF Upgrade0005, Tracked

LEMMA SparesDowngrade0005 ==
  /\ SparesBut(Downgrade0005[1], "scope")
  /\ SparesBut(Downgrade0005[2], "scope")
  /\ SparesBut(Downgrade0005[3], "scope")
  /\ SparesBut(Downgrade0005[4], "scope")
  BY ColumnsAdded, OperationsSpare DEF Downgrade0005, Tracked

LEMMA SparesUpgrade0006 ==
  /\ SparesBut(Upgrade0006[1], "workspace")
  /\ SparesBut(Upgrade0006[2], "workspace")
  /\ SparesBut(Upgrade0006[3], "workspace")
  /\ SparesBut(Upgrade0006[4], "type")
  /\ SparesBut(Upgrade0006[5], "scope")
  /\ SparesBut(Upgrade0006[6], "scope")
  /\ SparesBut(Upgrade0006[7], "scope")
  /\ SparesBut(Upgrade0006[8], "scope")
  /\ SparesBut(Upgrade0006[9], "scope")
  /\ SparesBut(Upgrade0006[10], "namespace")
  /\ SparesBut(Upgrade0006[11], "scope")
  /\ SparesBut(Upgrade0006[12], "scope")
  /\ SparesBut(Upgrade0006[13], "scope")
  /\ SparesBut(Upgrade0006[14], "scope")
  /\ SparesBut(Upgrade0006[15], "scope")
  /\ SparesBut(Upgrade0006[16], "scope")
  BY ColumnsAdded, OperationsSpare DEF Upgrade0006, Tracked

-----------------------------------------------------------------------------
(* What each action does to the record of its attempt.                     *)

LEMMA EndIs ==
  ASSUME Shaped, NEW a \in Attempts, NEW stage, End(a, stage)
  PROVE  /\ Shaped' /\ \A b \in Attempts \ {a} : run'[b] = run[b]
         /\ run'[a].stage = stage /\ run'[a].goal = 0 /\ run'[a].from = 0 /\ run'[a].at = 0
         /\ run'[a].step = 1 /\ run'[a].locks = {} /\ run'[a].objects = {}
         /\ run'[a].rows = NoRows
  BY DEF Shaped, End, Waiting

LEMMA PlanIs ==
  ASSUME Shaped, NEW a \in Attempts, Plan(a)
  PROVE  /\ Shaped' /\ \A b \in Attempts \ {a} : run'[b] = run[b]
         /\ run'[a].stage = "running" /\ run'[a].goal \in Goals /\ run'[a].from = version
         /\ run'[a].at = version /\ run'[a].step = 1 /\ run'[a].locks = {}
         /\ run'[a].objects = {} /\ run'[a].rows = NoRows
         /\ schema' = schema /\ rows' = rows /\ version' = version
  BY DEF Shaped, Plan, Waiting

(* The part of a schema that is in these tables.                           *)
InTables(s, T) == {o \in s : o.table \in T}

LEMMA ExecuteIs ==
  ASSUME Shaped, NEW a \in Attempts, Execute(a),
         NEW op, op = Operation(a), NEW seen, seen = SchemaSeen(a),
         NEW locks, locks = run[a].locks \cup Touched(seen, op)
  PROVE  /\ Shaped' /\ \A b \in Attempts \ {a} : run'[b] = run[b]
         /\ run'[a].stage = run[a].stage /\ run'[a].goal = run[a].goal
         /\ run'[a].from = run[a].from /\ run'[a].at = run[a].at
         /\ run'[a].step = run[a].step + 1 /\ run'[a].locks = locks
         /\ run'[a].objects = InTables(After(seen, op), locks)
         /\ run'[a].rows = IF "memories" \in locks THEN RowsAfter(RowsSeen(a), op) ELSE NoRows
         /\ schema' = schema /\ rows' = rows /\ version' = version
         /\ Operating(a) /\ Free(a, locks) /\ Succeeds(seen, RowsSeen(a), op)
<1> DEFINE objects == {o \in After(seen, op) : o.table \in locks}
           kept == IF "memories" \in locks THEN RowsAfter(RowsSeen(a), op) ELSE NoRows
<1>1. /\ run' = [run EXCEPT ![a].step = @ + 1, ![a].locks = locks,
                            ![a].objects = objects, ![a].rows = kept]
      /\ schema' = schema /\ rows' = rows /\ version' = version
      /\ Operating(a) /\ Free(a, locks) /\ Succeeds(seen, RowsSeen(a), op)
  BY DEF Execute
<1>2. DOMAIN run = Attempts /\ \A b \in Attempts : DOMAIN run[b] = DOMAIN Waiting
  BY DEF Shaped
<1>3. {"stage", "goal", "from", "at", "step", "locks", "objects", "rows"} = DOMAIN Waiting
  BY DEF Waiting
<1> HIDE DEF objects, kept
<1>4. Shaped' /\ \A b \in Attempts \ {a} : run'[b] = run[b]
  BY <1>1, <1>2 DEF Shaped, Waiting
<1>5. /\ run'[a].stage = run[a].stage /\ run'[a].goal = run[a].goal
      /\ run'[a].from = run[a].from /\ run'[a].at = run[a].at
      /\ run'[a].step = run[a].step + 1 /\ run'[a].locks = locks
      /\ run'[a].objects = objects /\ run'[a].rows = kept
  BY <1>1, <1>2, <1>3
<1> QED BY <1>1, <1>4, <1>5 DEF objects, kept, InTables

LEMMA StampIs ==
  ASSUME Shaped, NEW a \in Attempts, Stamp(a)
  PROVE  /\ Shaped' /\ \A b \in Attempts \ {a} : run'[b] = run[b]
         /\ run'[a].stage = run[a].stage /\ run'[a].goal = run[a].goal
         /\ run'[a].from = run[a].from
         /\ run'[a].at = IF Up(a) THEN run[a].at + 1 ELSE run[a].at - 1
         /\ run'[a].step = 1 /\ run'[a].locks = run[a].locks \cup {AlembicTable}
         /\ run'[a].objects = run[a].objects /\ run'[a].rows = run[a].rows
         /\ schema' = schema /\ rows' = rows /\ version' = version
         /\ Stamping(a) /\ Free(a, {AlembicTable}) /\ Expected(a)
<1>1. /\ run' = [run EXCEPT ![a].at = IF Up(a) THEN @ + 1 ELSE @ - 1, ![a].step = 1,
                            ![a].locks = @ \cup {AlembicTable}]
      /\ schema' = schema /\ rows' = rows /\ version' = version
      /\ Stamping(a) /\ Free(a, {AlembicTable}) /\ Expected(a)
  BY DEF Stamp, AlembicTable
<1>2. DOMAIN run = Attempts /\ \A b \in Attempts : DOMAIN run[b] = DOMAIN Waiting
  BY DEF Shaped
<1>3. {"stage", "goal", "from", "at", "step", "locks", "objects", "rows"} = DOMAIN Waiting
  BY DEF Waiting
<1>4. Shaped' /\ \A b \in Attempts \ {a} : run'[b] = run[b]
  BY <1>1, <1>2 DEF Shaped, Waiting
<1>5. /\ run'[a].stage = run[a].stage /\ run'[a].goal = run[a].goal
      /\ run'[a].from = run[a].from
      /\ run'[a].at = IF Up(a) THEN run[a].at + 1 ELSE run[a].at - 1
      /\ run'[a].step = 1 /\ run'[a].locks = run[a].locks \cup {AlembicTable}
      /\ run'[a].objects = run[a].objects /\ run'[a].rows = run[a].rows
  BY <1>1, <1>2, <1>3
<1> QED BY <1>1, <1>4, <1>5

-----------------------------------------------------------------------------
(* What operations do to rows and to locks.                                *)

LEMMA RowAfterIs ==
  ASSUME NEW row, DOMAIN row = Tracked, NEW op
  PROVE  /\ DOMAIN RowAfter(row, op) = Tracked
         /\ \A x : SparesBut(op, x) =>
              \A c \in Tracked \ {x} : RowAfter(row, op)[c] = row[c]
<1>1. CASE op.do = "create"
  <2>1. RowAfter(row, op) = [c \in Tracked |-> IF AddsColumn(op.what, c) THEN ValueAdded(c) ELSE row[c]]
    BY <1>1 DEF RowAfter, AddsColumn
  <2> QED BY <1>1, <2>1 DEF SparesBut, AddsBut
<1>2. CASE op.do = "drop"
  <2>1. RowAfter(row, op) =
          [c \in Tracked |-> IF <<"column", "memories", c>> \in op.what THEN Null ELSE row[c]]
    BY <1>2 DEF RowAfter
  <2> QED BY <1>2, <2>1 DEF SparesBut
<1>3. CASE op.do # "create" /\ op.do # "drop"
  <2>1. RowAfter(row, op) = Assigned(row, op.do)
    BY <1>3 DEF RowAfter
  <2>2. DOMAIN Assigned(row, op.do) = Tracked
    BY DEF Assigned
  <2>3. ASSUME NEW x, SparesBut(op, x), NEW c \in Tracked \ {x}
        PROVE  Assigned(row, op.do)[c] = row[c]
    <3>1. CASE op.do \in {"workspace of repo", "workspace of the rest"}
      <4>1. c # "workspace"
        BY <2>3, <3>1 DEF SparesBut
      <4> QED BY <3>1, <4>1 DEF Assigned
    <3>2. CASE op.do = "type"
      <4>1. c # "type"
        BY <2>3, <3>2 DEF SparesBut
      <4> QED BY <3>2, <4>1 DEF Assigned
    <3>3. CASE op.do = "namespace"
      <4>1. c # "namespace"
        BY <2>3, <3>3 DEF SparesBut
      <4> QED BY <3>3, <4>1 DEF Assigned
    <3>4. CASE op.do \notin {"workspace of repo", "workspace of the rest", "type", "namespace"}
      BY <3>4 DEF Assigned
    <3> QED BY <3>1, <3>2, <3>3, <3>4
  <2> QED BY <2>1, <2>2, <2>3
<1> QED BY <1>1, <1>2, <1>3

(* An operation never needs a lock on alembic's own table, and one on      *)
(* memories if it changes rows.                                            *)
LEMMA TouchedIs ==
  ASSUME NEW s, NEW op
  PROVE  /\ Apart(s) /\ Plain(op) => AlembicTable \notin Touched(s, op)
         /\ op.do \notin {"create", "drop"} => "memories" \in Touched(s, op)
         /\ \A c : op.do = "create" /\ AddsColumn(op.what, c) => "memories" \in Touched(s, op)
         /\ \A kind, name : op.do = "drop" /\ ~ op.lenient /\ <<kind, "memories", name>> \in op.what
              /\ Droppable(s, op) => "memories" \in Touched(s, op)
<1>1. ASSUME Apart(s), Plain(op) PROVE AlembicTable \notin Touched(s, op)
  <2>1. \A O : Apart(O) => AlembicTable \notin Tables(O)
    BY DEF Apart, Tables
  <2>2. CASE op.do = "create"
    BY <1>1, <2>1, <2>2 DEF Plain, Touched
  <2>3. CASE op.do = "drop"
    <3>1. Apart(UNION {Doomed(s, name) : name \in op.what})
      BY <1>1 DEF Doomed, Apart
    <3> QED BY <2>1, <2>3, <3>1 DEF Touched
  <2>4. CASE op.do # "create" /\ op.do # "drop"
    BY <2>4 DEF Touched, AlembicTable
  <2> QED BY <2>2, <2>3, <2>4
<1>2. op.do \notin {"create", "drop"} => "memories" \in Touched(s, op)
  BY DEF Touched
<1>3. ASSUME NEW c, op.do = "create", AddsColumn(op.what, c) PROVE "memories" \in Touched(s, op)
  BY <1>3 DEF Touched, Tables, AddsColumn, Object
<1>4. ASSUME NEW kind, NEW name, op.do = "drop", ~ op.lenient, Droppable(s, op),
             <<kind, "memories", name>> \in op.what
      PROVE  "memories" \in Touched(s, op)
  <2>1. PICK o \in s : Name(o) = <<kind, "memories", name>>
    BY <1>4 DEF Droppable, Has
  <2>2. o.table = "memories"
    BY <2>1 DEF Name
  <2>3. o \in Doomed(s, <<kind, "memories", name>>)
    BY <2>1 DEF Doomed, Within
  <2>4. o \in UNION {Doomed(s, n) : n \in op.what}
    BY <1>4, <2>3
  <2> QED BY <1>4, <2>2, <2>4 DEF Touched, Tables
<1> QED BY <1>1, <1>2, <1>3, <1>4

(* What a sees of the memories after its operation.                        *)
LEMMA RowsSeenAfter ==
  ASSUME Shaped, NEW a \in Attempts, Execute(a), NEW op, op = Operation(a),
         \A i \in DOMAIN RowsSeen(a) : DOMAIN RowsSeen(a)[i] = Tracked
  PROVE  LET new == RowsSeen(a)' IN
         /\ DOMAIN new \subseteq DOMAIN RowsSeen(a)
         /\ \A i \in DOMAIN new : DOMAIN new[i] = Tracked
         /\ op.do = "create" => DOMAIN new = DOMAIN RowsSeen(a)
         /\ \A x : SparesBut(op, x) =>
              /\ DOMAIN new = DOMAIN RowsSeen(a)
              /\ \A i \in DOMAIN new : \A c \in Tracked \ {x} : new[i][c] = RowsSeen(a)[i][c]
         /\ "memories" \in run[a].locks => "memories" \in run'[a].locks
         /\ "memories" \in Touched(SchemaSeen(a), op) =>
              /\ "memories" \in run'[a].locks
              /\ new = RowsAfter(RowsSeen(a), op)
         /\ \A i \in DOMAIN run'[a].rows : i \in DOMAIN new /\ DOMAIN run'[a].rows[i] = Tracked
<1> DEFINE new == RowsSeen(a)'
           old == RowsSeen(a)
           locks == run[a].locks \cup Touched(SchemaSeen(a), op)
<1>1. /\ run'[a].locks = locks /\ rows' = rows
      /\ run'[a].rows = IF "memories" \in locks THEN RowsAfter(old, op) ELSE NoRows
  <2> DEFINE seen == SchemaSeen(a)
  <2>1. seen = SchemaSeen(a) /\ locks = run[a].locks \cup Touched(seen, op)
    OBVIOUS
  <2> HIDE DEF locks, seen
  <2> QED BY <2>1, ExecuteIs
<1>2. new = IF "memories" \in locks THEN RowsAfter(old, op) ELSE old
  BY <1>1 DEF RowsSeen
<1>3. DOMAIN NoRows = {}
  BY DEF NoRows
<1>4. /\ DOMAIN RowsAfter(old, op) \subseteq DOMAIN old
      /\ \A i \in DOMAIN RowsAfter(old, op) : RowsAfter(old, op)[i] = RowAfter(old[i], op)
      /\ op.do = "create" => DOMAIN RowsAfter(old, op) = DOMAIN old
      /\ \A x : SparesBut(op, x) => DOMAIN RowsAfter(old, op) = DOMAIN old
  BY <1>3 DEF RowsAfter, SparesBut
<1>5. \A i \in DOMAIN RowsAfter(old, op) :
        /\ DOMAIN RowsAfter(old, op)[i] = Tracked
        /\ \A x : SparesBut(op, x) =>
             \A c \in Tracked \ {x} : RowsAfter(old, op)[i][c] = old[i][c]
  BY <1>4, RowAfterIs
<1> HIDE DEF new, old
<1>6. CASE "memories" \in locks
  BY <1>1, <1>2, <1>4, <1>5, <1>6 DEF new, old
<1>7. CASE "memories" \notin locks
  BY <1>1, <1>2, <1>3, <1>7 DEF new, old
<1> QED BY <1>6, <1>7

-----------------------------------------------------------------------------
(* The inductive invariant.                                                *)

(* What it says of the memories, and of one attempt.                       *)
RowsTyped == \A i \in DOMAIN rows : i \in Rows /\ DOMAIN rows[i] = Tracked

RunTyped(a) ==
  /\ run[a].stage \in {"new", "running"} \cup Over
  /\ run[a].goal \in Versions /\ run[a].from \in Versions /\ run[a].at \in Versions
  /\ run[a].step \in 1 .. 20
  /\ \A o \in run[a].objects : o.table \in run[a].locks

RunRowsTyped(a) ==
  /\ DOMAIN run[a].rows \subseteq Rows
  /\ \A i \in DOMAIN run[a].rows : DOMAIN run[a].rows[i] = Tracked

RunSound(a) == RunTyped(a) /\ RunRowsTyped(a) /\ Planned(a) /\ Raised(a) /\ Lowered(a)

LEMMA InvParts ==
  MigrationsInv <=> /\ version \in Versions /\ RowsTyped /\ RowsFit /\ Shaped /\ Exclusive
                    /\ Apart(schema) /\ \A a \in Attempts : RunSound(a)
  BY DEF MigrationsInv, MigrationsTypeOK, RowsTyped, RunTyped, RunRowsTyped, RunSound

LEMMA InvPartsAfter ==
  ASSUME (version \in Versions)', RowsTyped', RowsFit', Shaped', Exclusive', Apart(schema)',
         \A a \in Attempts : RunSound(a)'
  PROVE  MigrationsInv'
  BY DEF MigrationsInv, MigrationsTypeOK, RowsTyped, RunTyped, RunRowsTyped, RunSound

LEMMA RowsSeenTyped ==
  ASSUME RowsTyped, NEW a \in Attempts, RunRowsTyped(a)
  PROVE  \A i \in DOMAIN RowsSeen(a) : i \in Rows /\ DOMAIN RowsSeen(a)[i] = Tracked
  BY DEF RowsTyped, RunRowsTyped, RowsSeen

(* The script between two versions.                                        *)
LEMMA ScriptBetween ==
  ASSUME NEW v \in Versions, NEW g \in Versions, v # g
  PROVE  PlainScript(IF g > v THEN Upgrades[v + 1] ELSE Downgrades[v])
<1>1. CASE g > v
  <2>1. v + 1 \in 1 .. HeadRevision
    BY <1>1 DEF Versions, HeadRevision
  <2> QED BY <1>1, <2>1, ScriptsPlain
<1>2. CASE ~ (g > v)
  <2>1. v \in 1 .. HeadRevision
    BY <1>2 DEF Versions, HeadRevision
  <2> QED BY <1>2, <2>1, ScriptsPlain
<1> QED BY <1>1, <1>2

LEMMA ScriptIs ==
  ASSUME NEW a \in Attempts, RunTyped(a), run[a].at # run[a].goal
  PROVE  /\ PlainScript(Script(a))
         /\ Script(a) = IF run[a].goal > run[a].at THEN Upgrades[run[a].at + 1] ELSE Downgrades[run[a].at]
<1>1. Script(a) = IF run[a].goal > run[a].at THEN Upgrades[run[a].at + 1] ELSE Downgrades[run[a].at]
  BY DEF Script, Up
<1> QED BY <1>1, ScriptBetween DEF RunTyped

(* An attempt that another one's step, or the API, does not disturb: what  *)
(* it has locked is as it was.                                             *)
LEMMA Undisturbed ==
  ASSUME NEW b \in Attempts, RunSound(b), run'[b] = run[b],
         "memories" \in run[b].locks => rows' = rows,
         AlembicTable \in run[b].locks => version' = version
  PROVE  RunSound(b)'
<1>1. RunTyped(b)' /\ RunRowsTyped(b)'
  BY DEF RunSound, RunTyped, RunRowsTyped
<1>2. Planned(b)'
  BY DEF RunSound, Planned, Script, Up
<1>3. /\ Rising(b)' <=> Rising(b)
      /\ Falling(b)' <=> Falling(b)
      /\ \A v, n : PastUp(b, v, n)' <=> PastUp(b, v, n)
      /\ \A v, n : PastDown(b, v, n)' <=> PastDown(b, v, n)
  BY DEF Rising, Falling, PastUp, PastDown
<1>4. CASE "memories" \in run[b].locks
  <2>1. rows' = rows /\ RowsSeen(b)' = RowsSeen(b)
    BY <1>4 DEF RowsSeen
  <2>2. Raised(b)'
    <3>1. ASSUME Rising(b), NEW i \in DOMAIN rows, RaisedRow(b, rows[i], RowsSeen(b)[i])
          PROVE  RaisedRow(b, rows[i], RowsSeen(b)[i])'
      BY <1>3, <2>1, <3>1 DEF RaisedRow, WorkspaceOf
    <3> QED BY <1>3, <1>4, <2>1, <3>1 DEF RunSound, Raised
  <2>3. Lowered(b)'
    <3>1. ASSUME Falling(b), NEW i \in DOMAIN RowsSeen(b), LoweredRow(b, rows[i], RowsSeen(b)[i])
          PROVE  LoweredRow(b, rows[i], RowsSeen(b)[i])'
      BY <1>3, <2>1, <3>1 DEF LoweredRow
    <3> QED BY <1>3, <1>4, <2>1, <3>1 DEF RunSound, Lowered
  <2> QED BY <1>1, <1>2, <2>2, <2>3 DEF RunSound
<1>5. CASE "memories" \notin run[b].locks
  <2>1. RowsSeen(b)' = rows'
    BY <1>5 DEF RowsSeen
  <2>2. Raised(b)'
    <3>1. Rising(b) => ~ PastUp(b, 4, 1) /\ ~ PastUp(b, 4, 2) /\ ~ PastUp(b, 4, 3) /\ ~ PastUp(b, 4, 4)
      BY <1>5 DEF RunSound, Raised, PastUp, RunTyped, Versions, HeadRevision
    <3>2. ASSUME Rising(b), NEW i \in DOMAIN rows' PROVE RaisedRow(b, rows[i], rows[i])'
      BY <1>3, <3>1, <3>2 DEF RaisedRow
    <3> QED BY <1>3, <2>1, <3>1, <3>2 DEF Raised
  <2>3. Lowered(b)'
    <3>1. Falling(b) => ~ PastDown(b, 5, 8) /\ ~ PastDown(b, 2, 11) /\ ~ PastDown(b, 1, 6)
      BY <1>5 DEF RunSound, Lowered
    <3>2. ASSUME Falling(b), NEW i \in DOMAIN rows' PROVE LoweredRow(b, rows[i], rows[i])'
      BY <1>3, <3>1, <3>2 DEF LoweredRow
    <3> QED BY <1>3, <2>1, <3>1, <3>2 DEF Lowered
  <2> QED BY <1>1, <1>2, <2>2, <2>3 DEF RunSound
<1> QED BY <1>4, <1>5

(* An attempt that is over, or has not begun, has nothing to keep.         *)
LEMMA EndSound ==
  ASSUME Shaped, NEW a \in Attempts, NEW stage \in Over, End(a, stage)
  PROVE  RunSound(a)'
<1>1. /\ run'[a].stage = stage /\ run'[a].goal = 0 /\ run'[a].from = 0 /\ run'[a].at = 0
      /\ run'[a].step = 1 /\ run'[a].locks = {} /\ run'[a].objects = {}
      /\ run'[a].rows = NoRows
  BY EndIs
<1>2. RunTyped(a)'
  BY <1>1 DEF RunTyped, Versions, HeadRevision
<1>3. RunRowsTyped(a)'
  BY <1>1 DEF RunRowsTyped, NoRows
<1>4. Planned(a)'
  BY <1>1 DEF Planned, Apart, Over, AlembicTable
<1>5. ~ Rising(a)' /\ ~ Falling(a)'
  BY <1>1 DEF Rising, Falling
<1> QED BY <1>2, <1>3, <1>4, <1>5 DEF RunSound, Raised, Lowered

-----------------------------------------------------------------------------
(* The operations that touch a kept column.                                *)

LEMMA ColumnsOf0001 == \A n \in 1 .. 8 : Upgrade0001[n].do = "create"
<1>1. /\ Upgrade0001[1].do = "create" /\ Upgrade0001[2].do = "create"
      /\ Upgrade0001[3].do = "create" /\ Upgrade0001[4].do = "create"
      /\ Upgrade0001[5].do = "create" /\ Upgrade0001[6].do = "create"
      /\ Upgrade0001[7].do = "create" /\ Upgrade0001[8].do = "create"
  BY DEF Upgrade0001, Create, CreateIfMissing, CreateIndex, Op
<1> QED BY <1>1

LEMMA LinkAdded ==
  Upgrade0002[3].do = "create" /\ AddsColumn(Upgrade0002[3].what, "superseded_by")
  BY DEF Upgrade0002, Create, Op, Nullable, AddsColumn

LEMMA Filled0006 ==
  /\ Upgrade0006[1].do = "create" /\ AddsColumn(Upgrade0006[1].what, "workspace")
  /\ Upgrade0006[2].do = "workspace of repo" /\ Upgrade0006[3].do = "workspace of the rest"
  /\ Upgrade0006[4].do = "type"
  BY DEF Upgrade0006, Create, Update, Op, Nullable, AddsColumn

LEMMA Dropped ==
  /\ Downgrade0006[8] = Drop("column", "memories", "workspace")
  /\ Downgrade0002[11] = Drop("column", "memories", "superseded_by")
  /\ Downgrade0001[6] = Drop("table", "memories", "memories")
  BY DEF Downgrade0006, Downgrade0002, Downgrade0001, DropColumn, DropTable

LEMMA DroppedColumn ==
  ASSUME NEW c \in Tracked, NEW row
  PROVE  RowAfter(row, Drop("column", "memories", c))[c] = Null
  BY DEF RowAfter, Drop, Op

LEMMA AddedColumn ==
  ASSUME NEW c \in Tracked, c # "scope", NEW op, op.do = "create", AddsColumn(op.what, c), NEW row
  PROVE  RowAfter(row, op)[c] = Null
  BY DEF RowAfter, AddsColumn, ValueAdded

LEMMA NamesStripped ==
  \A n \in DOMAIN Stripped : Stripped[n] # Null
  BY DEF Stripped, Null

LEMMA UpdatesOf0006 ==
  ASSUME NEW row, DOMAIN row = Tracked, NEW op
  PROVE  /\ op.do = "workspace of repo" =>
              RowAfter(row, op).workspace = IF row.namespace \in DOMAIN Stripped
                                            THEN Stripped[row.namespace] ELSE row.workspace
         /\ op.do = "workspace of the rest" =>
              RowAfter(row, op).workspace = IF row.workspace = Null
                                            THEN row.namespace ELSE row.workspace
         /\ op.do = "type" => RowAfter(row, op).type = Retyped(row.type)
  BY DEF RowAfter, Assigned, Tracked

(* Which operations leave the kept columns alone.                          *)
RaisingOp(op, v, n) ==
  SparesBut(op, "scope") \/ (v = 2 /\ n = 3 /\ SparesBut(op, "superseded_by"))
LoweringOp(op, v, n) ==
  \/ SparesBut(op, "scope") \/ (v = 1 /\ n = 6)
  \/ v = 2 /\ n = 11 /\ SparesBut(op, "superseded_by")
Raising(script, v) == \A n \in 1 .. Len(script) : RaisingOp(script[n], v, n)
Lowering(script, v) == \A n \in 1 .. Len(script) : LoweringOp(script[n], v, n)

LEMMA UpgradesSpare == ASSUME NEW v \in 2 .. 4 PROVE Raising(Upgrades[v], v)
<1>1. Raising(Upgrade0002, 2)
  <2>1. ASSUME NEW n \in 1 .. 13 PROVE RaisingOp(Upgrade0002[n], 2, n)
    <3>1. \/ n = 1 \/ n = 2 \/ n = 3 \/ n = 4 \/ n = 5 \/ n = 6 \/ n = 7 \/ n = 8 \/ n = 9
          \/ n = 10 \/ n = 11 \/ n = 12 \/ n = 13
      OBVIOUS
    <3> QED BY <3>1, SparesUpgrade0002 DEF RaisingOp
  <2> QED BY <2>1, PlainUpgrade0002 DEF Raising
<1>2. Raising(Upgrade0004, 3)
  <2>1. ASSUME NEW n \in 1 .. 6 PROVE RaisingOp(Upgrade0004[n], 3, n)
    <3>1. n = 1 \/ n = 2 \/ n = 3 \/ n = 4 \/ n = 5 \/ n = 6
      OBVIOUS
    <3> QED BY <3>1, SparesUpgrade0004 DEF RaisingOp
  <2> QED BY <2>1, PlainUpgrade0004 DEF Raising
<1>3. Raising(Upgrade0005, 4)
  <2>1. ASSUME NEW n \in 1 .. 4 PROVE RaisingOp(Upgrade0005[n], 4, n)
    <3>1. n = 1 \/ n = 2 \/ n = 3 \/ n = 4
      OBVIOUS
    <3> QED BY <3>1, SparesUpgrade0005 DEF RaisingOp
  <2> QED BY <2>1, PlainUpgrade0005 DEF Raising
<1> QED BY <1>1, <1>2, <1>3 DEF Upgrades

LEMMA DowngradesSpare == ASSUME NEW v \in 1 .. 4 PROVE Lowering(Downgrades[v], v)
<1>1. Lowering(Downgrade0001, 1)
  <2>1. ASSUME NEW n \in 1 .. 6 PROVE LoweringOp(Downgrade0001[n], 1, n)
    <3>1. n = 1 \/ n = 2 \/ n = 3 \/ n = 4 \/ n = 5 \/ n = 6
      OBVIOUS
    <3> QED BY <3>1, SparesDowngrade0001 DEF LoweringOp
  <2> QED BY <2>1, PlainDowngrade0001 DEF Lowering
<1>2. Lowering(Downgrade0002, 2)
  <2>1. ASSUME NEW n \in 1 .. 13 PROVE LoweringOp(Downgrade0002[n], 2, n)
    <3>1. \/ n = 1 \/ n = 2 \/ n = 3 \/ n = 4 \/ n = 5 \/ n = 6 \/ n = 7 \/ n = 8 \/ n = 9
          \/ n = 10 \/ n = 11 \/ n = 12 \/ n = 13
      OBVIOUS
    <3> QED BY <3>1, SparesDowngrade0002 DEF LoweringOp
  <2> QED BY <2>1, PlainDowngrade0002 DEF Lowering
<1>3. Lowering(Downgrade0004, 3)
  <2>1. ASSUME NEW n \in 1 .. 5 PROVE LoweringOp(Downgrade0004[n], 3, n)
    <3>1. n = 1 \/ n = 2 \/ n = 3 \/ n = 4 \/ n = 5
      OBVIOUS
    <3> QED BY <3>1, SparesDowngrade0004 DEF LoweringOp
  <2> QED BY <2>1, PlainDowngrade0004 DEF Lowering
<1>4. Lowering(Downgrade0005, 4)
  <2>1. ASSUME NEW n \in 1 .. 4 PROVE LoweringOp(Downgrade0005[n], 4, n)
    <3>1. n = 1 \/ n = 2 \/ n = 3 \/ n = 4
      OBVIOUS
    <3> QED BY <3>1, SparesDowngrade0005 DEF LoweringOp
  <2> QED BY <2>1, PlainDowngrade0005 DEF Lowering
<1> QED BY <1>1, <1>2, <1>3, <1>4 DEF Downgrades

LEMMA Upgrade0006Spares ==
  ASSUME NEW n \in 1 .. 16
  PROVE  /\ n \in {1, 2, 3} => SparesBut(Upgrade0006[n], "workspace")
         /\ n = 4 => SparesBut(Upgrade0006[n], "type")
         /\ n = 10 => SparesBut(Upgrade0006[n], "namespace")
         /\ n \notin {1, 2, 3, 4, 10} => SparesBut(Upgrade0006[n], "scope")
<1>1. \/ n = 1 \/ n = 2 \/ n = 3 \/ n = 4 \/ n = 5 \/ n = 6 \/ n = 7 \/ n = 8
      \/ n = 9 \/ n = 10 \/ n = 11 \/ n = 12 \/ n = 13 \/ n = 14 \/ n = 15 \/ n = 16
  OBVIOUS
<1> QED BY <1>1, SparesUpgrade0006

(* An operation of a, and what it makes of the memories that a sees.       *)
Kept(a, x) ==
  /\ DOMAIN RowsSeen(a)' = DOMAIN RowsSeen(a)
  /\ \A i \in DOMAIN RowsSeen(a) : \A c \in Tracked \ {x} : RowsSeen(a)'[i][c] = RowsSeen(a)[i][c]

LEMMA KeptIs ==
  ASSUME Shaped, RowsTyped, NEW a \in Attempts, RunRowsTyped(a), Execute(a),
         NEW op, op = Operation(a)
  PROVE  /\ \A x : SparesBut(op, x) => Kept(a, x)
         /\ "memories" \in Touched(SchemaSeen(a), op) =>
              /\ "memories" \in run'[a].locks
              /\ RowsSeen(a)' = RowsAfter(RowsSeen(a), op)
         /\ op.do = "create" => DOMAIN RowsSeen(a)' = DOMAIN RowsSeen(a)
         /\ DOMAIN RowsSeen(a)' \subseteq DOMAIN RowsSeen(a)
         /\ "memories" \in run[a].locks => "memories" \in run'[a].locks
<1>1. \A i \in DOMAIN RowsSeen(a) : DOMAIN RowsSeen(a)[i] = Tracked
  BY RowsSeenTyped
<1> QED BY <1>1, RowsSeenAfter DEF Kept

-----------------------------------------------------------------------------
(* An operation on the way up.                                             *)

(* Before the last revision only the replacement link is added.            *)
LEMMA RaisedBefore ==
  ASSUME Shaped, RowsTyped, NEW a \in Attempts, RunSound(a), Execute(a), Rising(a),
         run[a].at < 4
  PROVE  Raised(a)'
<1> DEFINE op == Operation(a)
           old == RowsSeen(a)
           new == RowsSeen(a)'
<1>1. /\ run'[a].goal = run[a].goal /\ run'[a].from = run[a].from
      /\ run'[a].at = run[a].at /\ run'[a].step = run[a].step + 1
      /\ rows' = rows /\ Operating(a)
  BY ExecuteIs
<1>2. /\ run[a].from <= run[a].at /\ run[a].at < run[a].goal
      /\ run[a].from \in Nat /\ run[a].at \in 0 .. 3 /\ run[a].step \in 1 .. Len(Script(a))
      /\ Script(a) = Upgrades[run[a].at + 1] /\ op = Script(a)[run[a].step]
  <2>1. RunTyped(a) /\ Planned(a)
    BY DEF RunSound
  <2>2. run[a].from <= run[a].at /\ run[a].at < run[a].goal /\ run[a].at \in 0 .. 3
        /\ run[a].from \in Nat
    BY <1>1, <2>1 DEF RunTyped, Planned, Rising, Operating, Versions, HeadRevision
  <2>3. Script(a) = Upgrades[run[a].at + 1]
    BY <2>2 DEF Script, Up
  <2>4. run[a].step \in 1 .. Len(Script(a))
    <3>1. PlainScript(Script(a))
      BY <1>1, <2>1, ScriptIs DEF Operating
    <3>2. Len(Script(a)) \in 1 .. 16 /\ run[a].step \in 1 .. 20 /\ run[a].step <= Len(Script(a))
      BY <1>1, <2>1, <3>1 DEF RunTyped, Operating, PlainScript
    <3>3. \A size \in 1 .. 16, n \in 1 .. 20 : n <= size => n \in 1 .. size
      OBVIOUS
    <3> QED BY <3>2, <3>3
  <2> QED BY <2>2, <2>3, <2>4 DEF Operation
<1>3. Rising(a)' /\ \A n : ~ PastUp(a, 4, n) /\ ~ PastUp(a, 4, n)'
  BY <1>1, <1>2 DEF Rising, PastUp
<1>4. DOMAIN new = DOMAIN rows
      /\ (run[a].from > 0 => RaisingOp(op, run[a].at + 1, run[a].step))
  <2>1. DOMAIN old = DOMAIN rows
    BY DEF RunSound, Raised
  <2>2. RunRowsTyped(a)
    BY DEF RunSound
  <2>3. CASE run[a].at = 0
    <3>1. Script(a) = Upgrade0001 /\ run[a].step \in 1 .. 8
      <4>1. run[a].at + 1 = 1 /\ Upgrades[1] = Upgrade0001
        BY <2>3 DEF Upgrades
      <4>2. Script(a) = Upgrade0001
        BY <1>2, <4>1
      <4> QED BY <1>2, <4>2, PlainUpgrade0001
    <3>2. op.do = "create"
      BY <1>2, <3>1, ColumnsOf0001
    <3> QED BY <1>2, <2>1, <2>2, <2>3, <3>2, KeptIs
  <2>4. CASE run[a].at # 0
    <3>1. run[a].at + 1 \in 2 .. 4
      BY <1>2, <2>4
    <3>2. RaisingOp(op, run[a].at + 1, run[a].step)
      <4>1. Raising(Upgrades[run[a].at + 1], run[a].at + 1)
        BY <3>1, UpgradesSpare
      <4> QED BY <1>2, <4>1 DEF Raising
    <3>3. SparesBut(op, "scope") \/ SparesBut(op, "superseded_by")
      BY <3>2 DEF RaisingOp
    <3>4. DOMAIN new = DOMAIN old
      BY <2>2, <3>3, KeptIs DEF Kept
    <3> QED BY <2>1, <3>2, <3>4
  <2> QED BY <2>3, <2>4
<1>5. ASSUME run[a].from > 0, NEW i \in DOMAIN rows
      PROVE  RaisedRow(a, rows[i], RowsSeen(a)[i])'
  <2>1. RaisedRow(a, rows[i], old[i]) /\ DOMAIN old = DOMAIN rows /\ RunRowsTyped(a)
    BY <1>5 DEF RunSound, Raised
  <2>2. new[i].type = old[i].type /\ new[i].namespace = old[i].namespace
        /\ new[i].workspace = old[i].workspace
        /\ \/ new[i].superseded_by = old[i].superseded_by
           \/ run[a].from < 2 /\ new[i].superseded_by = Null
    <3>1. CASE SparesBut(op, "scope")
      <4>1. Kept(a, "scope")
        BY <2>1, <3>1, KeptIs
      <4> QED BY <1>5, <2>1, <4>1 DEF Kept, Tracked
    <3>2. CASE run[a].at = 1 /\ run[a].step = 3 /\ SparesBut(op, "superseded_by")
      <4>1. Kept(a, "superseded_by")
        BY <2>1, <3>2, KeptIs
      <4>2. op = Upgrade0002[3]
        BY <1>2, <3>2 DEF Upgrades
      <4>3. op.do = "create" /\ AddsColumn(op.what, "superseded_by")
        BY <4>2, LinkAdded
      <4>4. new = RowsAfter(old, op)
        BY <2>1, <4>3, KeptIs, TouchedIs
      <4>5. new[i] = RowAfter(old[i], op)
        BY <1>5, <2>1, <4>3, <4>4 DEF RowsAfter
      <4>6. new[i].superseded_by = Null
        BY <4>3, <4>5, AddedColumn DEF Tracked
      <4> QED BY <1>2, <1>5, <2>1, <3>2, <4>1, <4>6 DEF Kept, Tracked
    <3> QED BY <1>2, <1>4, <1>5, <3>1, <3>2 DEF RaisingOp
  <2> HIDE DEF old, new, op
  <2>3. rows'[i] = rows[i] /\ run'[a].from = run[a].from
    BY <1>1
  <2>4. RaisedRow(a, rows[i], RowsSeen(a)[i])' <=>
          /\ new[i].type = rows[i].type /\ new[i].namespace = rows[i].namespace
          /\ new[i].workspace = rows[i].workspace
          /\ \/ new[i].superseded_by = rows[i].superseded_by
             \/ run[a].from < 2 /\ new[i].superseded_by = Null
    BY <1>3, <2>3 DEF RaisedRow, new
  <2>5. /\ old[i].type = rows[i].type /\ old[i].namespace = rows[i].namespace
        /\ old[i].workspace = rows[i].workspace
        /\ \/ old[i].superseded_by = rows[i].superseded_by
           \/ run[a].from < 2 /\ old[i].superseded_by = Null
    BY <1>3, <2>1 DEF RaisedRow
  <2> QED BY <2>2, <2>4, <2>5
<1> QED BY <1>1, <1>3, <1>4, <1>5 DEF Raised

(* What operation n of 0006 finds of row in what an attempt from f sees.   *)
Carried(n, f, row, seen) ==
  /\ seen.type = IF n > 4 THEN Retyped(row.type) ELSE row.type
  /\ n <= 10 => seen.namespace = row.namespace
  /\ seen.workspace = IF n > 3 THEN WorkspaceOf(row)
                      ELSE IF n > 2 /\ row.namespace \in DOMAIN Stripped
                             THEN Stripped[row.namespace]
                           ELSE IF n > 1 THEN Null ELSE row.workspace
  /\ \/ seen.superseded_by = row.superseded_by
     \/ f < 2 /\ seen.superseded_by = Null

(* The columns of new are those of old, but for x.                         *)
Same(old, new, x) == \A c \in Tracked \ {x} : new[c] = old[c]

LEMMA CarriedOn ==
  ASSUME NEW n \in 1 .. 16, NEW f, NEW row, NEW old, NEW new, Carried(n, f, row, old),
         n \in {1, 2, 3} => Same(old, new, "workspace"),
         n = 4 => Same(old, new, "type"),
         n = 10 => Same(old, new, "namespace"),
         n \notin {1, 2, 3, 4, 10} => Same(old, new, "scope"),
         n = 1 => new.workspace = Null,
         n = 2 => new.workspace = IF old.namespace \in DOMAIN Stripped
                                  THEN Stripped[old.namespace] ELSE old.workspace,
         n = 3 => new.workspace = IF old.workspace = Null THEN old.namespace ELSE old.workspace,
         n = 4 => new.type = Retyped(old.type)
  PROVE  Carried(n + 1, f, row, new)
<1>1. CASE n = 1
  BY <1>1 DEF Carried, Same, Tracked
<1>2. CASE n = 2
  BY <1>2 DEF Carried, Same, Tracked
<1>3. CASE n = 3
  <2>1. new.workspace = WorkspaceOf(row)
    BY <1>3, NamesStripped DEF Carried, WorkspaceOf
  <2> QED BY <1>3, <2>1 DEF Carried, Same, Tracked
<1>4. CASE n = 4
  BY <1>4 DEF Carried, Same, Tracked
<1>5. CASE n = 10
  BY <1>5 DEF Carried, Same, Tracked
<1>6. CASE n \notin {1, 2, 3, 4, 10}
  <2>1. /\ new.type = old.type /\ new.namespace = old.namespace
        /\ new.workspace = old.workspace /\ new.superseded_by = old.superseded_by
    BY <1>6 DEF Same, Tracked
  <2>2. n > 4 /\ n + 1 > 4 /\ (n + 1 <= 10 => n <= 10)
    BY <1>6
  <2> QED BY <2>1, <2>2 DEF Carried
<1> QED BY <1>1, <1>2, <1>3, <1>4, <1>5, <1>6

LEMMA RaisedLast ==
  ASSUME Shaped, RowsTyped, NEW a \in Attempts, RunSound(a), Execute(a), Rising(a),
         run[a].at = 4
  PROVE  Raised(a)'
<1> DEFINE op == Operation(a)
           old == RowsSeen(a)
           new == RowsSeen(a)'
           n == run[a].step
<1>1. /\ run'[a].goal = run[a].goal /\ run'[a].from = run[a].from
      /\ run'[a].at = run[a].at /\ run'[a].step = run[a].step + 1
      /\ rows' = rows /\ Operating(a)
  BY ExecuteIs
<1>2. /\ run[a].from \in 0 .. 4 /\ n \in 1 .. 16 /\ op = Upgrade0006[n]
      /\ RunRowsTyped(a)
  <2>1. RunTyped(a) /\ Planned(a) /\ RunRowsTyped(a)
    BY DEF RunSound
  <2>2. run[a].from \in 0 .. 4 /\ run[a].goal > 4
    BY <1>1, <2>1 DEF RunTyped, Planned, Rising, Operating, Versions, HeadRevision
  <2>3. Script(a) = Upgrade0006
    BY <2>2 DEF Script, Up, Upgrades
  <2>4. n \in 1 .. 20 /\ n <= Len(Script(a))
    BY <1>1, <2>1 DEF RunTyped, Operating
  <2> QED BY <2>1, <2>2, <2>3, <2>4, PlainUpgrade0006 DEF Operation
<1>3. /\ Rising(a)' /\ \A k \in 1 .. 16 : PastUp(a, 4, k) <=> n > k
      /\ \A k \in 1 .. 16 : PastUp(a, 4, k)' <=> n + 1 > k
  BY <1>1, <1>2 DEF Rising, PastUp
<1>4. /\ \A row, seen : RaisedRow(a, row, seen) <=> Carried(n, run[a].from, row, seen)
      /\ \A i : RaisedRow(a, rows[i], RowsSeen(a)[i])' <=> Carried(n + 1, run[a].from, rows[i], new[i])
  <2>1. \A k \in {1, 2, 3, 4, 10} : k \in 1 .. 16
    OBVIOUS
  <2>2. ASSUME NEW row, NEW seen
        PROVE  RaisedRow(a, row, seen) <=> Carried(n, run[a].from, row, seen)
    BY <1>2, <1>3, <2>1 DEF RaisedRow, Carried
  <2>3. ASSUME NEW i
        PROVE  RaisedRow(a, rows[i], RowsSeen(a)[i])' <=> Carried(n + 1, run[a].from, rows[i], new[i])
    BY <1>1, <1>2, <1>3, <2>1 DEF RaisedRow, WorkspaceOf, Carried
  <2> QED BY <2>2, <2>3
<1>5. /\ n \in {1, 2, 3} => Kept(a, "workspace")
      /\ n = 4 => Kept(a, "type") 
      /\ n = 10 => Kept(a, "namespace")
      /\ n \notin {1, 2, 3, 4, 10} => Kept(a, "scope")
  <2>1. \A x : SparesBut(op, x) => Kept(a, x)
    BY <1>2, KeptIs
  <2> HIDE DEF op
  <2> QED BY <1>2, <2>1, Upgrade0006Spares
<1>6. DOMAIN new = DOMAIN rows
  <2>1. DOMAIN old = DOMAIN rows
    BY DEF RunSound, Raised
  <2> QED BY <1>5, <2>1 DEF Kept
<1>7. "memories" \in run'[a].locks
  <2>1. CASE n = 1
    BY <1>2, <2>1, Filled0006, TouchedIs, KeptIs
  <2>2. CASE n # 1
    <3>1. PastUp(a, 4, 1)
      BY <1>2, <1>3, <2>2
    <3> QED BY <1>2, <3>1, KeptIs DEF RunSound, Raised
  <2> QED BY <2>1, <2>2
<1>8. ASSUME run[a].from > 0, NEW i \in DOMAIN rows
      PROVE  RaisedRow(a, rows[i], RowsSeen(a)[i])'
  <2>1. Carried(n, run[a].from, rows[i], old[i]) /\ DOMAIN old = DOMAIN rows
    BY <1>4, <1>8 DEF RunSound, Raised
  <2>2. n \in {1, 2, 3, 4} => new[i] = RowAfter(old[i], op)
    <3>1. ASSUME n \in {1, 2, 3, 4} PROVE "memories" \in Touched(SchemaSeen(a), op)
      BY <1>2, <3>1, Filled0006, TouchedIs
    <3>2. n \in {1, 2, 3, 4} => op.do # "drop"
      BY <1>2, Filled0006
    <3> QED BY <1>2, <1>8, <2>1, <3>1, <3>2, KeptIs DEF RowsAfter
  <2>3. DOMAIN old[i] = Tracked
    BY <1>2, <1>8, <2>1, RowsSeenTyped
  <2>4. /\ n = 1 => new[i].workspace = Null
        /\ n = 2 => new[i].workspace = IF old[i].namespace \in DOMAIN Stripped
                                       THEN Stripped[old[i].namespace] ELSE old[i].workspace
        /\ n = 3 => new[i].workspace = IF old[i].workspace = Null
                                       THEN old[i].namespace ELSE old[i].workspace
        /\ n = 4 => new[i].type = Retyped(old[i].type)
    <3>1. CASE n = 1
      <4>1. op.do = "create" /\ AddsColumn(op.what, "workspace")
        BY <1>2, <3>1, Filled0006
      <4>2. new[i] = RowAfter(old[i], op)
        BY <2>2, <3>1
      <4> HIDE DEF old, new, op, n
      <4>3. RowAfter(old[i], op)["workspace"] = Null
        BY <4>1, AddedColumn DEF Tracked
      <4> QED BY <3>1, <4>2, <4>3
    <3>2. CASE n = 2
      <4>1. op.do = "workspace of repo"
        BY <1>2, <3>2, Filled0006
      <4>2. new[i] = RowAfter(old[i], op)
        BY <2>2, <3>2
      <4> HIDE DEF old, new, op, n
      <4>3. RowAfter(old[i], op).workspace = IF old[i].namespace \in DOMAIN Stripped
                                             THEN Stripped[old[i].namespace] ELSE old[i].workspace
        BY <2>3, <4>1, UpdatesOf0006
      <4> QED BY <3>2, <4>2, <4>3
    <3>3. CASE n = 3
      <4>1. op.do = "workspace of the rest"
        BY <1>2, <3>3, Filled0006
      <4>2. new[i] = RowAfter(old[i], op)
        BY <2>2, <3>3
      <4> HIDE DEF old, new, op, n
      <4>3. RowAfter(old[i], op).workspace = IF old[i].workspace = Null
                                             THEN old[i].namespace ELSE old[i].workspace
        BY <2>3, <4>1, UpdatesOf0006
      <4> QED BY <3>3, <4>2, <4>3
    <3>4. CASE n = 4
      <4>1. op.do = "type"
        BY <1>2, <3>4, Filled0006
      <4>2. new[i] = RowAfter(old[i], op)
        BY <2>2, <3>4
      <4> HIDE DEF old, new, op, n
      <4>3. RowAfter(old[i], op).type = Retyped(old[i].type)
        BY <2>3, <4>1, UpdatesOf0006
      <4> QED BY <3>4, <4>2, <4>3
    <3> QED BY <3>1, <3>2, <3>3, <3>4
  <2>5. /\ n \in {1, 2, 3} => Same(old[i], new[i], "workspace")
        /\ n = 4 => Same(old[i], new[i], "type")
        /\ n = 10 => Same(old[i], new[i], "namespace")
        /\ n \notin {1, 2, 3, 4, 10} => Same(old[i], new[i], "scope")
    BY <1>5, <1>8, <2>1 DEF Kept, Same
  <2> HIDE DEF old, new
  <2>6. Carried(n + 1, run[a].from, rows[i], new[i])
    BY <1>2, <2>1, <2>4, <2>5, CarriedOn
  <2> QED BY <1>4, <2>6
<1> QED BY <1>1, <1>3, <1>6, <1>7, <1>8 DEF Raised

-----------------------------------------------------------------------------
(* An operation on the way down.                                           *)

LEMMA LoweringIs ==
  ASSUME Shaped, RowsTyped, NEW a \in Attempts, RunSound(a), Execute(a), Falling(a)
  PROVE  /\ run'[a].goal = run[a].goal /\ run'[a].from = run[a].from
         /\ run'[a].at = run[a].at /\ run'[a].step = run[a].step + 1
         /\ rows' = rows /\ RunRowsTyped(a)
         /\ run[a].goal \in 0 .. 5 /\ run[a].from \in 0 .. 5 /\ run[a].at \in 1 .. 5
         /\ run[a].goal < run[a].at /\ run[a].at <= run[a].from
         /\ run[a].step \in 1 .. 16 /\ run[a].step <= Len(Downgrades[run[a].at])
         /\ Operation(a) = Downgrades[run[a].at][run[a].step]
         /\ Succeeds(SchemaSeen(a), RowsSeen(a), Operation(a))
<1>1. /\ run'[a].goal = run[a].goal /\ run'[a].from = run[a].from
      /\ run'[a].at = run[a].at /\ run'[a].step = run[a].step + 1
      /\ rows' = rows /\ Operating(a) /\ Succeeds(SchemaSeen(a), RowsSeen(a), Operation(a))
  BY ExecuteIs
<1>2. RunTyped(a) /\ Planned(a) /\ RunRowsTyped(a)
  BY DEF RunSound
<1>3. /\ run[a].goal \in 0 .. 5 /\ run[a].from \in 0 .. 5 /\ run[a].at \in 1 .. 5
      /\ run[a].goal < run[a].at /\ run[a].at <= run[a].from
  BY <1>1, <1>2 DEF RunTyped, Planned, Falling, Operating, Versions, HeadRevision
<1>4. Script(a) = Downgrades[run[a].at]
  BY <1>3 DEF Script, Up
<1>5. run[a].step \in 1 .. 16 /\ run[a].step <= Len(Script(a))
  <2>1. PlainScript(Script(a))
    BY <1>1, <1>2, ScriptIs DEF Operating
  <2>2. Len(Script(a)) \in 1 .. 16 /\ run[a].step \in 1 .. 20 /\ run[a].step <= Len(Script(a))
    BY <1>1, <1>2, <2>1 DEF RunTyped, Operating, PlainScript
  <2>3. ASSUME NEW m \in 1 .. 16, NEW n \in 1 .. 20, n <= m PROVE n \in 1 .. 16
    BY <2>3
  <2> QED BY <2>2, <2>3
<1> QED BY <1>1, <1>2, <1>3, <1>4, <1>5 DEF Operation

(* Dropping a column of memories, or the table, takes the lock.            *)
LEMMA DropLocks ==
  ASSUME NEW s, NEW r, NEW kind, NEW name, Succeeds(s, r, Drop(kind, "memories", name))
  PROVE  "memories" \in Touched(s, Drop(kind, "memories", name))
<1> DEFINE op == Drop(kind, "memories", name)
<1>1. op.do = "drop" /\ ~ op.lenient /\ <<kind, "memories", name>> \in op.what
  BY DEF Drop, Op
<1>2. Droppable(s, op)
  BY <1>1 DEF Succeeds
<1> HIDE DEF op
<1>3. "memories" \in Touched(s, op)
  BY <1>1, <1>2, TouchedIs
<1> QED BY <1>3 DEF op

(* A column of memories is dropped, or the whole table.                    *)
LEMMA LoweringDrops ==
  ASSUME Shaped, RowsTyped, NEW a \in Attempts, RunRowsTyped(a), Execute(a),
         Succeeds(SchemaSeen(a), RowsSeen(a), Operation(a))
  PROVE  /\ \A c \in Tracked : Operation(a) = Drop("column", "memories", c) =>
              /\ "memories" \in run'[a].locks
              /\ DOMAIN RowsSeen(a)' = DOMAIN RowsSeen(a)
              /\ \A i \in DOMAIN RowsSeen(a)' : RowsSeen(a)'[i][c] = Null
         /\ Operation(a) = Drop("table", "memories", "memories") =>
              "memories" \in run'[a].locks /\ DOMAIN RowsSeen(a)' = {}
<1> DEFINE op == Operation(a)
           old == RowsSeen(a)
           new == RowsSeen(a)'
<1>1. "memories" \in Touched(SchemaSeen(a), op) =>
        "memories" \in run'[a].locks /\ new = RowsAfter(old, op)
  BY KeptIs
<1>2. ASSUME NEW c \in Tracked, op = Drop("column", "memories", c)
      PROVE  /\ "memories" \in run'[a].locks /\ DOMAIN new = DOMAIN old
             /\ \A i \in DOMAIN new : new[i][c] = Null
  <2>1. "memories" \in run'[a].locks /\ new = RowsAfter(old, op)
    BY <1>1, <1>2, DropLocks
  <2> HIDE DEF old, new
  <2>2. new = [i \in DOMAIN old |-> RowAfter(old[i], op)]
    <3>1. <<"table", "memories", "memories">> \notin op.what
      BY <1>2 DEF Drop, Op
    <3> QED BY <2>1, <3>1 DEF RowsAfter
  <2>3. \A i \in DOMAIN old : RowAfter(old[i], op)[c] = Null
    BY <1>2, DroppedColumn
  <2> QED BY <2>1, <2>2, <2>3
<1>3. ASSUME op = Drop("table", "memories", "memories")
      PROVE  "memories" \in run'[a].locks /\ DOMAIN new = {}
  <2>1. "memories" \in run'[a].locks /\ new = RowsAfter(old, op)
    BY <1>1, <1>3, DropLocks
  <2>2. RowsAfter(old, op) = NoRows
    BY <1>3 DEF RowsAfter, Drop, Op
  <2> QED BY <2>1, <2>2 DEF NoRows
<1> QED BY <1>2, <1>3

LEMMA LoweredOn ==
  ASSUME Shaped, RowsTyped, NEW a \in Attempts, RunSound(a), Execute(a), Falling(a)
  PROVE  Lowered(a)'
<1> DEFINE op == Operation(a)
           old == RowsSeen(a)
           new == RowsSeen(a)'
           f == run[a].from
           v == run[a].at
           n == run[a].step
           PastWorkspace == f = 5 /\ (v < 5 \/ n > 8)
           PastLink == f >= 2 /\ (v < 2 \/ (v = 2 /\ n > 11))
           PastTable == v = 1 /\ n > 6
           PastWorkspaceNow == f = 5 /\ (v < 5 \/ n >= 8)
           PastLinkNow == f >= 2 /\ (v < 2 \/ (v = 2 /\ n >= 11))
           PastTableNow == v = 1 /\ n >= 6
<1>1. /\ run'[a].goal = run[a].goal /\ run'[a].from = f
      /\ run'[a].at = v /\ run'[a].step = n + 1
      /\ rows' = rows /\ RunRowsTyped(a)
      /\ run[a].goal \in 0 .. 5 /\ f \in 0 .. 5 /\ v \in 1 .. 5
      /\ run[a].goal < v /\ v <= f
      /\ n \in 1 .. 16 /\ n <= Len(Downgrades[v])
      /\ op = Downgrades[v][n]
      /\ Succeeds(SchemaSeen(a), old, op)
  BY LoweringIs
<1>2. /\ PastDown(a, 5, 8) <=> PastWorkspace
      /\ PastDown(a, 2, 11) <=> PastLink
      /\ PastDown(a, 1, 6) <=> PastTable
  BY <1>1 DEF PastDown
<1>3. /\ Falling(a)' /\ (PastDown(a, 5, 8)' <=> PastWorkspaceNow)
      /\ PastDown(a, 2, 11)' <=> PastLinkNow
      /\ PastDown(a, 1, 6)' <=> PastTableNow
  <2>1. Falling(a)'
    BY <1>1 DEF Falling
  <2>2. PastDown(a, 5, 8)' <=> PastWorkspaceNow
    BY <1>1, <2>1, SMTT(30) DEF PastDown
  <2>3. /\ PastDown(a, 2, 11)' <=> (2 <= f /\ (v < 2 \/ (v = 2 /\ n + 1 > 11)))
        /\ PastDown(a, 1, 6)' <=> (1 <= f /\ (v < 1 \/ (v = 1 /\ n + 1 > 6)))
    <3>1. run'[a].from = f /\ run'[a].at = v /\ run'[a].step = n + 1
      BY <1>1
    <3> HIDE DEF f, v, n
    <3> QED BY <2>1, <3>1 DEF PastDown
  <2>4. f \in 0 .. 5 /\ v \in 1 .. 5 /\ n \in 1 .. 16 /\ v <= f
    BY <1>1
  <2> HIDE DEF f, v, n
  <2>5. /\ (2 <= f /\ (v < 2 \/ (v = 2 /\ n + 1 > 11))) <=> PastLinkNow
        /\ (1 <= f /\ (v < 1 \/ (v = 1 /\ n + 1 > 6))) <=> PastTableNow
    BY <2>4
  <2> QED BY <2>1, <2>2, <2>3, <2>5
<1>4. /\ DOMAIN old \subseteq DOMAIN rows
      /\ PastWorkspace \/ PastLink \/ PastTable => "memories" \in run[a].locks
      /\ \A i \in DOMAIN old : LoweredRow(a, rows[i], old[i])
  BY <1>2 DEF RunSound, Lowered
<1>5. DOMAIN new \subseteq DOMAIN old
      /\ ("memories" \in run[a].locks => "memories" \in run'[a].locks)
      /\ \A x : SparesBut(op, x) => Kept(a, x)
  BY <1>1, KeptIs
<1>6. /\ v = 5 /\ n = 8 => op = Drop("column", "memories", "workspace")
      /\ v = 2 /\ n = 11 => op = Drop("column", "memories", "superseded_by")
      /\ v = 1 /\ n = 6 => op = Drop("table", "memories", "memories")
  <2>1. Downgrades[5] = Downgrade0006 /\ Downgrades[2] = Downgrade0002 /\ Downgrades[1] = Downgrade0001
    BY DEF Downgrades
  <2> QED BY <1>1, <2>1, Dropped
<1>7. /\ v = 5 /\ n = 8 => /\ "memories" \in run'[a].locks
                           /\ \A i \in DOMAIN new : new[i].workspace = Null
      /\ v = 2 /\ n = 11 => /\ "memories" \in run'[a].locks
                            /\ \A i \in DOMAIN new : new[i].superseded_by = Null
      /\ v = 1 /\ n = 6 => "memories" \in run'[a].locks /\ DOMAIN new = {}
  <2>1. "workspace" \in Tracked /\ "superseded_by" \in Tracked
    BY DEF Tracked
  <2> HIDE DEF new
  <2> QED BY <1>1, <1>6, <2>1, LoweringDrops DEF new
<1>8. \/ v = 5 \/ Kept(a, "scope") \/ (v = 1 /\ n = 6)
      \/ v = 2 /\ n = 11 /\ Kept(a, "superseded_by")
  <2>1. v # 5 => v \in 1 .. 4
    BY <1>1
  <2>2. v # 5 => LoweringOp(op, v, n)
    <3>1. n \in 1 .. Len(Downgrades[v])
      <4>1. v \in 1 .. HeadRevision
        BY <1>1 DEF HeadRevision
      <4>2. Len(Downgrades[v]) \in 1 .. 16
        BY <4>1, ScriptsPlain DEF PlainScript
      <4> QED BY <1>1, <4>2
    <3>2. v # 5 => Lowering(Downgrades[v], v)
      BY <2>1, DowngradesSpare
    <3> QED BY <1>1, <3>1, <3>2 DEF Lowering
  <2> QED BY <1>5, <2>2 DEF LoweringOp
<1>9. "memories" \in run'[a].locks \/ ~ (PastWorkspaceNow \/ PastLinkNow \/ PastTableNow)
  <2>1. CASE PastWorkspace \/ PastLink \/ PastTable
    BY <1>4, <1>5, <2>1
  <2>2. CASE ~ (PastWorkspace \/ PastLink \/ PastTable)
    BY <1>1, <1>7, <2>2, SMTT(30)
  <2> QED BY <2>1, <2>2
<1>10. PastTableNow => DOMAIN new = {}
  <2>1. v = 1 => Len(Downgrades[v]) = 6
    BY PlainDowngrade0001 DEF Downgrades
  <2> QED BY <1>1, <1>7, <2>1, SMTT(30)
<1>11. ASSUME NEW i \in DOMAIN new
       PROVE  LoweredRow(a, rows[i], RowsSeen(a)[i])'
  <2>1. LoweredRow(a, rows[i], old[i]) /\ i \in DOMAIN old /\ ~ (v = 1 /\ n = 6)
    BY <1>4, <1>5, <1>7, <1>11
  <2>2. IF f < 5 THEN old[i].workspace = rows[i].workspace
        ELSE PastWorkspace => old[i].workspace = Null
    BY <1>2, <2>1 DEF LoweredRow, HeadRevision
  <2>3. IF f < 2 THEN old[i].superseded_by = rows[i].superseded_by
        ELSE PastLink => old[i].superseded_by = Null
    BY <1>2, <2>1 DEF LoweredRow
  <2>4. v # 5 => new[i].workspace = old[i].workspace
    BY <1>8, <2>1 DEF Kept, Tracked
  <2>5. v # 5 /\ ~ (v = 2 /\ n = 11) => new[i].superseded_by = old[i].superseded_by
    BY <1>8, <2>1 DEF Kept, Tracked
  <2> HIDE DEF old, new
  <2>6. IF f < 5 THEN new[i].workspace = rows[i].workspace
        ELSE PastWorkspaceNow => new[i].workspace = Null
    <3>1. v = 5 /\ n = 8 => new[i].workspace = Null
      BY <1>7, <1>11
    <3>2. ~ (v = 5 /\ n > 8)
      <4>1. Len(Downgrades[5]) = 8
        BY PlainDowngrade0006 DEF Downgrades
      <4>2. v = 5 => n <= 8
        BY <1>1, <4>1
      <4> QED BY <1>1, <4>2, SMTT(30)
    <3> QED BY <1>1, <2>2, <2>4, <3>1, <3>2, SMTT(30)
  <2>7. IF f < 2 THEN new[i].superseded_by = rows[i].superseded_by
        ELSE PastLinkNow => new[i].superseded_by = Null
    <3>1. v = 2 /\ n = 11 => new[i].superseded_by = Null
      BY <1>7, <1>11
    <3> QED BY <1>1, <2>3, <2>5, <3>1, SMTT(30)
  <2> QED BY <1>1, <1>3, <2>6, <2>7 DEF LoweredRow, HeadRevision, new
<1> QED BY <1>1, <1>3, <1>4, <1>5, <1>9, <1>10, <1>11 DEF Lowered

-----------------------------------------------------------------------------
(* Each action keeps the attempt that takes it sound.                      *)

LEMMA PlanSound ==
  ASSUME Shaped, version \in Versions, NEW a \in Attempts, Plan(a)
  PROVE  RunSound(a)'
<1>1. /\ run'[a].stage = "running" /\ run'[a].goal \in Goals /\ run'[a].from = version
      /\ run'[a].at = version /\ run'[a].step = 1 /\ run'[a].locks = {}
      /\ run'[a].objects = {} /\ run'[a].rows = NoRows
      /\ schema' = schema /\ rows' = rows /\ version' = version
  BY PlanIs
<1>2. run'[a].goal \in Versions
  BY <1>1, MigrationsBounds
<1>3. RunTyped(a)'
  BY <1>1, <1>2 DEF RunTyped
<1>4. RunRowsTyped(a)'
  BY <1>1 DEF RunRowsTyped, NoRows
<1>5. Planned(a)'
  <2>1. version # run'[a].goal => 1 <= Len(Script(a)') + 1
    <3>1. ASSUME version # run'[a].goal PROVE PlainScript(Script(a)')
      <4>1. Script(a)' = IF run'[a].goal > version THEN Upgrades[version + 1] ELSE Downgrades[version]
        BY <1>1 DEF Script, Up
      <4> QED BY <1>2, <3>1, <4>1, ScriptBetween
    <3> QED BY <3>1 DEF PlainScript
  <2>2. version <= run'[a].goal \/ run'[a].goal <= version
    BY <1>2 DEF Versions, HeadRevision
  <2>3. version <= version
    BY DEF Versions, HeadRevision
  <2>4. Apart({})
    BY DEF Apart
  <2> QED BY <1>1, <2>1, <2>2, <2>3, <2>4 DEF Planned, AlembicTable
<1>6. RowsSeen(a)' = rows'
  BY <1>1 DEF RowsSeen
<1>7. Raised(a)'
  <2>1. \A n \in 1 .. 10 : Rising(a)' => ~ PastUp(a, 4, n)'
    BY <1>1, <1>2 DEF Rising, PastUp, Versions, HeadRevision
  <2>2. Rising(a)' => ~ PastUp(a, 4, 1)' /\ ~ PastUp(a, 4, 2)' /\ ~ PastUp(a, 4, 3)' /\ ~ PastUp(a, 4, 4)'
    BY <2>1
  <2> QED BY <1>6, <2>2 DEF Raised, RaisedRow
<1>8. Lowered(a)'
  <2>1. /\ ~ PastDown(a, 5, 8)' /\ ~ PastDown(a, 2, 11)' /\ ~ PastDown(a, 1, 6)'
    BY <1>1 DEF PastDown, Versions, HeadRevision
  <2> QED BY <1>6, <2>1 DEF Lowered, LoweredRow
<1> QED BY <1>3, <1>4, <1>5, <1>7, <1>8 DEF RunSound

LEMMA StepFits ==
  ASSUME NEW m \in 1 .. 16, NEW n \in 1 .. 20, n <= m
  PROVE  n \in 1 .. m /\ n + 1 \in 1 .. 20 /\ n + 1 <= m + 1
  OBVIOUS

LEMMA ExecuteSound ==
  ASSUME Shaped, RowsTyped, Apart(schema), NEW a \in Attempts, RunSound(a), Execute(a),
         NEW op, op = Operation(a), NEW seen, seen = SchemaSeen(a),
         NEW locks, locks = run[a].locks \cup Touched(seen, op)
  PROVE  RunSound(a)' /\ Free(a, run'[a].locks)
<1>1. /\ run'[a].stage = run[a].stage /\ run'[a].goal = run[a].goal
      /\ run'[a].from = run[a].from /\ run'[a].at = run[a].at
      /\ run'[a].step = run[a].step + 1 /\ run'[a].locks = locks
      /\ run'[a].objects = InTables(After(seen, op), locks)
      /\ schema' = schema /\ rows' = rows /\ version' = version
      /\ Operating(a) /\ Free(a, locks)
  BY ExecuteIs
<1>2. RunTyped(a) /\ RunRowsTyped(a) /\ Planned(a)
  BY DEF RunSound
<1>3. /\ PlainScript(Script(a)) /\ run[a].step \in 1 .. Len(Script(a))
      /\ run[a].step + 1 \in 1 .. 20 /\ run[a].step + 1 <= Len(Script(a)) + 1
  <2>1. PlainScript(Script(a))
    BY <1>1, <1>2, ScriptIs DEF Operating
  <2>2. Len(Script(a)) \in 1 .. 16 /\ run[a].step \in 1 .. 20 /\ run[a].step <= Len(Script(a))
    BY <1>1, <1>2, <2>1 DEF RunTyped, Operating, PlainScript
  <2> QED BY <2>1, <2>2, StepFits
<1>4. Apart(seen) /\ Plain(op)
  <2>1. Apart(seen)
    BY <1>2 DEF Planned, Apart, SchemaSeen
  <2> QED BY <1>3, <2>1 DEF PlainScript, Operation
<1>5. (AlembicTable \in locks) <=> (AlembicTable \in run[a].locks)
  BY <1>4, TouchedIs
<1>6. RunTyped(a)'
  <2>1. \A o \in run'[a].objects : o.table \in run'[a].locks
    BY <1>1 DEF InTables
  <2> QED BY <1>1, <1>2, <1>3, <2>1 DEF RunTyped
<1>7. RunRowsTyped(a)'
  <2>1. \A i \in DOMAIN RowsSeen(a) : i \in Rows /\ DOMAIN RowsSeen(a)[i] = Tracked
    BY <1>2, RowsSeenTyped
  <2>2. \A i \in DOMAIN run'[a].rows : i \in DOMAIN RowsSeen(a)' /\ DOMAIN run'[a].rows[i] = Tracked
    BY <2>1, RowsSeenAfter
  <2>3. DOMAIN RowsSeen(a)' \subseteq DOMAIN RowsSeen(a)
    BY <1>2, KeptIs
  <2> QED BY <2>1, <2>2, <2>3 DEF RunRowsTyped, Rows
<1>8. Planned(a)'
  <2>1. Apart(run'[a].objects)
    <3>1. Apart(After(seen, op))
      BY <1>4, AfterApart
    <3> QED BY <1>1, <3>1 DEF Apart, InTables
  <2>2. Script(a)' = Script(a)
    BY <1>1 DEF Script, Up
  <2>3. run[a].step + 1 <= Len(Script(a)) + 1
    BY <1>3
  <2>4. run[a].from # run[a].goal /\ run[a].at # run[a].goal /\ run[a].stage = "running"
    BY <1>1, <1>2 DEF Planned, Operating, Running, RunTyped, Versions, HeadRevision
  <2> QED BY <1>1, <1>2, <1>5, <2>1, <2>2, <2>3, <2>4 DEF Planned
<1>9. Raised(a)'
  <2>1. Rising(a)' <=> Rising(a)
    BY <1>1 DEF Rising
  <2>2. Rising(a) => run[a].at < 4 \/ run[a].at = 4
    BY <1>1, <1>2 DEF Rising, Operating, Planned, RunTyped, Versions, HeadRevision
  <2> QED BY <2>1, <2>2, RaisedBefore, RaisedLast DEF Raised
<1>10. Lowered(a)'
  <2>1. Falling(a)' <=> Falling(a)
    BY <1>1 DEF Falling
  <2> QED BY <2>1, LoweredOn DEF Lowered
<1> QED BY <1>1, <1>6, <1>7, <1>8, <1>9, <1>10 DEF RunSound

LEMMA StampSound ==
  ASSUME Shaped, NEW a \in Attempts, RunSound(a), Stamp(a)
  PROVE  RunSound(a)'
<1> DEFINE v == run[a].at
           g == run[a].goal
           f == run[a].from
           w == IF g > v THEN v + 1 ELSE v - 1
<1>1. /\ run'[a].stage = run[a].stage /\ run'[a].goal = g /\ run'[a].from = f
      /\ run'[a].at = w
      /\ run'[a].step = 1 /\ run'[a].locks = run[a].locks \cup {AlembicTable}
      /\ run'[a].objects = run[a].objects /\ run'[a].rows = run[a].rows
      /\ schema' = schema /\ rows' = rows /\ version' = version
      /\ Stamping(a) /\ Expected(a)
  BY StampIs DEF Up
<1>2. RunTyped(a) /\ RunRowsTyped(a) /\ Planned(a)
  BY DEF RunSound
<1>3. /\ v \in 0 .. 5 /\ g \in 0 .. 5 /\ f \in 0 .. 5 /\ v # g
      /\ (f <= v /\ v <= g) \/ (g <= v /\ v <= f)
      /\ run[a].stage = "running"
  BY <1>1, <1>2 DEF RunTyped, Planned, Stamping, Running, Versions, HeadRevision
<1>4. /\ w \in 0 .. 5 /\ f # g
      /\ (f <= w /\ w <= g) \/ (g <= w /\ w <= f)
      /\ f < g => g > v /\ w = v + 1
      /\ g < f => ~ (g > v) /\ w = v - 1
  <2> HIDE DEF v, g, f
  <2> QED BY <1>3
<1>5. RunTyped(a)'
  BY <1>1, <1>2, <1>4 DEF RunTyped, Versions, HeadRevision
<1>6. RunRowsTyped(a)'
  BY <1>1, <1>2 DEF RunRowsTyped
<1>7. Planned(a)'
  <2>1. w # g => 1 <= Len(Script(a)') + 1
    <3>1. ASSUME w # g PROVE PlainScript(Script(a)')
      <4>1. Script(a)' = IF g > w THEN Upgrades[w + 1] ELSE Downgrades[w]
        BY <1>1 DEF Script, Up
      <4>2. w \in Versions /\ g \in Versions
        BY <1>3, <1>4 DEF Versions, HeadRevision
      <4> HIDE DEF w, g
      <4> QED BY <3>1, <4>1, <4>2, ScriptBetween
    <3> QED BY <3>1 DEF PlainScript
  <2>2. version = f
    BY <1>1, <1>2 DEF Planned, Expected, AlembicTable
  <2> HIDE DEF w, g, f, v
  <2>3. run'[a].stage = "running"
    BY <1>1, <1>3
  <2>4. run'[a].at # run'[a].goal => run'[a].step <= Len(Script(a)') + 1
    BY <1>1, <2>1
  <2> QED BY <1>1, <1>2, <1>4, <2>2, <2>3, <2>4 DEF Planned
<1>8. RowsSeen(a)' = RowsSeen(a)
  BY <1>1 DEF RowsSeen, AlembicTable
<1>9. "memories" \in run[a].locks => "memories" \in run'[a].locks
  BY <1>1
<1>10. PlainScript(Script(a)) /\ run[a].step > Len(Script(a)) /\ run[a].step \in 1 .. 20
  BY <1>1, <1>2, ScriptIs DEF Stamping, RunTyped
<1>11. \A n \in 1 .. 16 : n <= Len(Script(a)) => run[a].step > n
  <2>1. Len(Script(a)) \in 1 .. 16
    BY <1>10 DEF PlainScript
  <2>2. ASSUME NEW m \in 1 .. 16, NEW s \in 1 .. 20, s > m, NEW n \in 1 .. 16, n <= m PROVE s > n
    BY <2>2
  <2> QED BY <1>10, <2>1, <2>2
<1>12. Raised(a)'
  <2>1. Rising(a)' <=> Rising(a)
    BY <1>1 DEF Rising
  <2>2. ASSUME Rising(a), NEW n \in 1 .. 16 PROVE PastUp(a, 4, n)' <=> PastUp(a, 4, n)
    <3>1. f < g
      BY <2>2 DEF Rising
    <3>2. ASSUME v = 4 PROVE run[a].step > n
      <4>1. Script(a) = Upgrade0006
        BY <1>4, <3>1, <3>2 DEF Script, Up, Upgrades
      <4>2. Len(Script(a)) = 16
        BY <4>1, PlainUpgrade0006
      <4>3. n <= 16
        OBVIOUS
      <4> QED BY <1>11, <4>2, <4>3
    <3>3. PastUp(a, 4, n)' <=> (f <= 4 /\ (v + 1 > 4 \/ (v + 1 = 4 /\ 1 > n)))
      BY <1>1, <1>4, <2>1, <2>2, <3>1 DEF PastUp
    <3>4. PastUp(a, 4, n) <=> (f <= 4 /\ (v > 4 \/ (v = 4 /\ run[a].step > n)))
      BY <2>2 DEF PastUp
    <3> HIDE DEF v, f, g
    <3> QED BY <1>3, <3>1, <3>2, <3>3, <3>4
  <2>3. Rising(a) => /\ PastUp(a, 4, 1)' <=> PastUp(a, 4, 1)
                     /\ PastUp(a, 4, 2)' <=> PastUp(a, 4, 2)
                     /\ PastUp(a, 4, 3)' <=> PastUp(a, 4, 3)
                     /\ PastUp(a, 4, 4)' <=> PastUp(a, 4, 4)
                     /\ PastUp(a, 4, 10)' <=> PastUp(a, 4, 10)
    BY <2>2
  <2>4. ASSUME Rising(a), NEW i, RaisedRow(a, rows[i], RowsSeen(a)[i])
        PROVE  RaisedRow(a, rows[i], RowsSeen(a)[i])'
    BY <1>1, <1>8, <2>3, <2>4 DEF RaisedRow, WorkspaceOf
  <2> QED BY <1>1, <1>8, <1>9, <2>1, <2>3, <2>4 DEF Raised, RunSound
<1>13. Lowered(a)'
  <2>1. Falling(a)' <=> Falling(a)
    BY <1>1 DEF Falling
  <2>2. ASSUME Falling(a), NEW u \in 1 .. 5, NEW n \in 1 .. 16, n <= Len(Downgrades[u])
        PROVE  PastDown(a, u, n)' <=> PastDown(a, u, n)
    <3>1. g < f
      BY <2>2 DEF Falling
    <3>2. v = u => run[a].step > n
      <4>1. v = u => Script(a) = Downgrades[u]
        BY <1>4, <3>1 DEF Script, Up
      <4>2. v = u => n <= Len(Script(a))
        BY <2>2, <4>1
      <4> QED BY <1>11, <4>2
    <3>3. PastDown(a, u, n)' <=> (u <= f /\ (v - 1 < u \/ (v - 1 = u /\ 1 > n)))
      BY <1>1, <1>4, <2>1, <2>2, <3>1 DEF PastDown
    <3>4. PastDown(a, u, n) <=> (u <= f /\ (v < u \/ (v = u /\ run[a].step > n)))
      BY <2>2 DEF PastDown
    <3> HIDE DEF v, f, g
    <3> QED BY <1>3, <3>1, <3>2, <3>3, <3>4
  <2>3. /\ 8 <= Len(Downgrades[5]) /\ 11 <= Len(Downgrades[2]) /\ 6 <= Len(Downgrades[1])
    <3>1. Downgrades[5] = Downgrade0006 /\ Downgrades[2] = Downgrade0002 /\ Downgrades[1] = Downgrade0001
      BY DEF Downgrades
    <3>2. Len(Downgrade0006) = 8 /\ Len(Downgrade0002) = 13 /\ Len(Downgrade0001) = 6
      BY PlainDowngrade0006, PlainDowngrade0002, PlainDowngrade0001
    <3> QED BY <3>1, <3>2
  <2>4. Falling(a) => /\ PastDown(a, 5, 8)' <=> PastDown(a, 5, 8)
                      /\ PastDown(a, 2, 11)' <=> PastDown(a, 2, 11)
                      /\ PastDown(a, 1, 6)' <=> PastDown(a, 1, 6)
    BY <2>2, <2>3
  <2>5. ASSUME Falling(a), NEW i, LoweredRow(a, rows[i], RowsSeen(a)[i])
        PROVE  LoweredRow(a, rows[i], RowsSeen(a)[i])'
    BY <1>1, <1>8, <2>4, <2>5 DEF LoweredRow
  <2> QED BY <1>1, <1>8, <1>9, <2>1, <2>4, <2>5 DEF Lowered, RunSound
<1> QED BY <1>5, <1>6, <1>7, <1>12, <1>13 DEF RunSound

(* What a commit leaves: the memories fit the version they then have, and  *)
(* the version has moved only from where the attempt found it.             *)
LEMMA CommitIs ==
  ASSUME version \in Versions, RowsTyped, RowsFit, Apart(schema), Shaped,
         NEW a \in Attempts, RunSound(a), Commit(a)
  PROVE  /\ version' \in Versions /\ RowsTyped' /\ RowsFit' /\ Apart(schema)'
         /\ run[a].stage = "running" /\ End(a, "done") /\ rows' = RowsSeen(a)
         /\ AlembicTable \notin run[a].locks => version' = version
         /\ version' # version =>
              /\ AlembicTable \in run[a].locks /\ run[a].from = version
              /\ run[a].at = version' /\ run[a].goal = version'
<1>1. /\ run[a].stage = "running" /\ run[a].at = run[a].goal
      /\ schema' = SchemaSeen(a) /\ rows' = RowsSeen(a) /\ End(a, "done")
      /\ version' = IF AlembicTable \in run[a].locks THEN run[a].at ELSE version
  BY DEF Commit, Running, AlembicTable
<1>2. RunTyped(a) /\ RunRowsTyped(a) /\ Planned(a) /\ Raised(a) /\ Lowered(a)
  BY DEF RunSound
<1>3. version' \in Versions
  BY <1>1, <1>2 DEF RunTyped
<1>4. RowsTyped'
  BY <1>1, <1>2, RowsSeenTyped DEF RowsTyped
<1>5. Apart(schema)'
  BY <1>1, <1>2 DEF Planned, Apart, SchemaSeen
<1>6. AlembicTable \notin run[a].locks => version' = version
  BY <1>1
<1>7. AlembicTable \in run[a].locks =>
        /\ version' = run[a].goal /\ run[a].from = version /\ run[a].at = version'
        /\ run[a].from # run[a].goal
  BY <1>1, <1>2 DEF Planned
<1>8. run[a].from \in 0 .. 5 /\ run[a].goal \in 0 .. 5 /\ run[a].step = 1
  BY <1>1, <1>2 DEF RunTyped, Planned, Versions, HeadRevision
<1>9. RowsFit'
  <2>1. CASE AlembicTable \notin run[a].locks
    <3>1. run[a].locks = {}
      BY <1>1, <1>2, <2>1 DEF Planned
    <3>2. rows' = rows
      BY <1>1, <3>1 DEF RowsSeen
    <3> QED BY <1>6, <2>1, <3>2 DEF RowsFit, Fits
  <2>2. CASE AlembicTable \in run[a].locks /\ Rising(a)
    <3>1. /\ run[a].from < run[a].goal /\ version' = run[a].goal /\ version = run[a].from
          /\ run[a].at = run[a].goal
      BY <1>1, <1>7, <2>2 DEF Rising
    <3>2. DOMAIN rows' = DOMAIN rows
      BY <1>1, <1>2, <2>2 DEF Raised
    <3>3. version' # 0
      BY <1>8, <3>1
    <3>4. ASSUME NEW i \in DOMAIN rows' PROVE Fits(rows'[i], version')
      <4>1. run[a].from > 0
        <5>1. version # 0
          BY <3>2, <3>4 DEF RowsFit
        <5> QED BY <1>8, <3>1, <5>1
      <4>2. RaisedRow(a, rows[i], rows'[i]) /\ Fits(rows[i], version)
        BY <1>1, <1>2, <2>2, <3>2, <3>4, <4>1 DEF Raised, RowsFit
      <4>3. version' < 5 => rows'[i].workspace = Null
        <5>1. ASSUME version' < 5 PROVE ~ PastUp(a, 4, 1) /\ ~ PastUp(a, 4, 2) /\ ~ PastUp(a, 4, 3)
          BY <1>8, <3>1, <5>1 DEF PastUp
        <5>2. version' < 5 => version < HeadRevision
          BY <1>8, <3>1 DEF HeadRevision
        <5> QED BY <4>2, <5>1, <5>2 DEF RaisedRow, Fits
      <4>4. version' < 2 => rows'[i].superseded_by = Null
        <5>1. version' < 2 => version < 2
          BY <1>8, <3>1
        <5> QED BY <4>2, <5>1 DEF RaisedRow, Fits
      <4> QED BY <4>3, <4>4 DEF Fits, HeadRevision
    <3> QED BY <3>3, <3>4 DEF RowsFit, Fits
  <2>3. CASE AlembicTable \in run[a].locks /\ ~ Rising(a)
    <3>1. /\ run[a].goal < run[a].from /\ version' = run[a].goal /\ version = run[a].from
          /\ run[a].at = run[a].goal /\ Falling(a)
      <4>1. ~ (run[a].from < run[a].goal) /\ run[a].from # run[a].goal
        BY <1>7, <2>3 DEF Rising
      <4>2. run[a].goal < run[a].from
        BY <1>8, <4>1
      <4> QED BY <1>1, <1>7, <2>3, <4>2 DEF Falling
    <3>2. version' = 0 => DOMAIN rows' = {}
      <4>1. version' = 0 => PastDown(a, 1, 6)
        BY <1>8, <3>1 DEF PastDown
      <4> QED BY <1>1, <1>2, <3>1, <4>1 DEF Lowered
    <3>3. ASSUME NEW i \in DOMAIN rows' PROVE Fits(rows'[i], version')
      <4>1. LoweredRow(a, rows[i], rows'[i]) /\ i \in DOMAIN rows
        BY <1>1, <1>2, <3>1, <3>3 DEF Lowered
      <4>2. Fits(rows[i], version)
        BY <4>1 DEF RowsFit
      <4>3. version' < 5 => rows'[i].workspace = Null
        <5>1. CASE run[a].from < 5
          BY <3>1, <4>1, <4>2, <5>1 DEF LoweredRow, Fits, HeadRevision
        <5>2. CASE ~ (run[a].from < 5)
          <6>1. run[a].from = 5
            BY <1>8, <5>2
          <6>2. PastDown(a, 5, 8)
            BY <3>1, <6>1 DEF PastDown
          <6> QED BY <4>1, <6>1, <6>2 DEF LoweredRow, HeadRevision
        <5> QED BY <5>1, <5>2
      <4>4. version' < 2 => rows'[i].superseded_by = Null
        <5>1. CASE run[a].from < 2
          BY <3>1, <4>1, <4>2, <5>1 DEF LoweredRow, Fits
        <5>2. CASE ~ (run[a].from < 2)
          <6>1. version' < 2 => PastDown(a, 2, 11)
            BY <1>8, <3>1, <5>2 DEF PastDown
          <6> QED BY <4>1, <5>2, <6>1 DEF LoweredRow
        <5> QED BY <5>1, <5>2
      <4> QED BY <4>3, <4>4 DEF Fits, HeadRevision
    <3> QED BY <3>2, <3>3 DEF RowsFit, Fits
  <2> QED BY <2>1, <2>2, <2>3
<1> QED BY <1>1, <1>3, <1>4, <1>5, <1>6, <1>7, <1>9

-----------------------------------------------------------------------------
(* The invariant of the specification.                                     *)

LEMMA InvInit == Init => MigrationsInv
<1> SUFFICES ASSUME Init PROVE MigrationsInv
  OBVIOUS
<1>1. /\ version \in 0 .. 4 /\ version \in Versions
      /\ schema = Ladder[version]
      /\ rows = IF version = 0 THEN NoRows ELSE [i \in LegacyRows |-> LegacyRow(i, version)]
      /\ run = [a \in Attempts |-> Waiting]
  BY MigrationsBounds DEF Init, Versions, HeadRevision
<1>2. Apart(schema)
  BY <1>1, LadderApart
<1>3. DOMAIN NoRows = {}
  BY DEF NoRows
<1>4. ASSUME NEW i \in DOMAIN rows
      PROVE  version # 0 /\ i \in LegacyRows /\ rows[i] = LegacyRow(i, version)
  BY <1>1, <1>3, <1>4
<1>5. RowsTyped
  BY <1>4 DEF RowsTyped, Rows, LegacyRow
<1>6. RowsFit
  <2>1. version = 0 => DOMAIN rows = {}
    BY <1>4
  <2>2. ASSUME NEW i \in DOMAIN rows PROVE Fits(rows[i], version)
    <3>1. LegacyRow(i, version).workspace = Null
      BY DEF LegacyRow, Tracked
    <3>2. version < 2 => LegacyRow(i, version).superseded_by = Null
      BY <1>1 DEF LegacyRow, Tracked
    <3> QED BY <1>4, <3>1, <3>2 DEF Fits
  <2> QED BY <2>1, <2>2 DEF RowsFit
<1>7. Shaped /\ Exclusive
  BY <1>1 DEF Shaped, Exclusive, Waiting
<1>8. ASSUME NEW a \in Attempts PROVE RunSound(a)
  <2>1. /\ run[a].stage = "new" /\ run[a].goal = 0 /\ run[a].from = 0 /\ run[a].at = 0
        /\ run[a].step = 1 /\ run[a].locks = {} /\ run[a].objects = {} /\ run[a].rows = NoRows
    BY <1>1 DEF Waiting
  <2>2. RunTyped(a)
    BY <2>1 DEF RunTyped, Versions, HeadRevision
  <2>3. RunRowsTyped(a)
    BY <1>3, <2>1 DEF RunRowsTyped
  <2>4. Planned(a)
    BY <2>1 DEF Planned, Apart, AlembicTable
  <2>5. ~ Rising(a) /\ ~ Falling(a)
    BY <2>1 DEF Rising, Falling
  <2> QED BY <2>2, <2>3, <2>4, <2>5 DEF RunSound, Raised, Lowered
<1> QED BY <1>1, <1>2, <1>5, <1>6, <1>7, <1>8, InvParts

(* A step that only its attempt's record sees.                             *)
LEMMA OthersSound ==
  ASSUME MigrationsInv, NEW a \in Attempts, rows' = rows, version' = version,
         \A b \in Attempts \ {a} : run'[b] = run[b]
  PROVE  \A b \in Attempts \ {a} : RunSound(b)'
  BY InvParts, Undisturbed

(* An attempt that gives its locks up, or takes only free ones.            *)
LEMMA StillExclusive ==
  ASSUME Exclusive, NEW a \in Attempts, Free(a, run'[a].locks),
         \A b \in Attempts \ {a} : run'[b] = run[b]
  PROVE  Exclusive'
<1>1. ASSUME NEW b \in Attempts, NEW c \in Attempts, b # c
      PROVE  run'[b].locks \cap run'[c].locks = {}
  BY <1>1 DEF Exclusive, Free
<1> QED BY <1>1 DEF Exclusive

LEMMA EndInv ==
  ASSUME MigrationsInv, NEW a \in Attempts, NEW stage \in Over, End(a, stage),
         schema' = schema, rows' = rows, version' = version
  PROVE  MigrationsInv'
<1>1. version \in Versions /\ RowsTyped /\ RowsFit /\ Shaped /\ Exclusive /\ Apart(schema)
  BY InvParts
<1>2. Shaped' /\ run'[a].locks = {} /\ \A b \in Attempts \ {a} : run'[b] = run[b]
  BY <1>1, EndIs
<1>3. RunSound(a)'
  BY <1>1, EndSound
<1>4. \A b \in Attempts \ {a} : RunSound(b)'
  BY <1>2, OthersSound
<1>5. Exclusive'
  BY <1>1, <1>2, StillExclusive DEF Free
<1>6. (version \in Versions)' /\ RowsTyped' /\ RowsFit' /\ Apart(schema)'
  BY <1>1 DEF RowsTyped, RowsFit
<1> QED BY <1>2, <1>3, <1>4, <1>5, <1>6, InvPartsAfter

LEMMA PlanInv ==
  ASSUME MigrationsInv, NEW a \in Attempts, Plan(a)
  PROVE  MigrationsInv'
<1>1. version \in Versions /\ RowsTyped /\ RowsFit /\ Shaped /\ Exclusive /\ Apart(schema)
  BY InvParts
<1>2. /\ Shaped' /\ run'[a].locks = {} /\ \A b \in Attempts \ {a} : run'[b] = run[b]
      /\ schema' = schema /\ rows' = rows /\ version' = version
  BY <1>1, PlanIs
<1>3. RunSound(a)'
  BY <1>1, PlanSound
<1>4. \A b \in Attempts \ {a} : RunSound(b)'
  BY <1>2, OthersSound
<1>5. Exclusive'
  BY <1>1, <1>2, StillExclusive DEF Free
<1>6. (version \in Versions)' /\ RowsTyped' /\ RowsFit' /\ Apart(schema)'
  BY <1>1, <1>2 DEF RowsTyped, RowsFit
<1> QED BY <1>2, <1>3, <1>4, <1>5, <1>6, InvPartsAfter

LEMMA ExecuteInv ==
  ASSUME MigrationsInv, NEW a \in Attempts, Execute(a)
  PROVE  MigrationsInv'
<1>1. /\ version \in Versions /\ RowsTyped /\ RowsFit /\ Shaped /\ Exclusive /\ Apart(schema)
      /\ RunSound(a)
  BY InvParts
<1>2. /\ Shaped' /\ \A b \in Attempts \ {a} : run'[b] = run[b]
      /\ schema' = schema /\ rows' = rows /\ version' = version
  BY <1>1, ExecuteIs
<1>3. RunSound(a)' /\ Free(a, run'[a].locks)
  BY <1>1, ExecuteSound
<1>4. \A b \in Attempts \ {a} : RunSound(b)'
  BY <1>2, OthersSound
<1>5. Exclusive'
  BY <1>1, <1>2, <1>3, StillExclusive
<1>6. (version \in Versions)' /\ RowsTyped' /\ RowsFit' /\ Apart(schema)'
  BY <1>1, <1>2 DEF RowsTyped, RowsFit
<1> QED BY <1>2, <1>3, <1>4, <1>5, <1>6, InvPartsAfter

LEMMA StampInv ==
  ASSUME MigrationsInv, NEW a \in Attempts, Stamp(a)
  PROVE  MigrationsInv'
<1>1. /\ version \in Versions /\ RowsTyped /\ RowsFit /\ Shaped /\ Exclusive /\ Apart(schema)
      /\ RunSound(a)
  BY InvParts
<1>2. /\ Shaped' /\ \A b \in Attempts \ {a} : run'[b] = run[b]
      /\ schema' = schema /\ rows' = rows /\ version' = version
      /\ run'[a].locks = run[a].locks \cup {AlembicTable} /\ Free(a, {AlembicTable})
  BY <1>1, StampIs
<1>3. RunSound(a)'
  BY <1>1, StampSound
<1>4. \A b \in Attempts \ {a} : RunSound(b)'
  BY <1>2, OthersSound
<1>5. Exclusive'
  <2>1. Free(a, run'[a].locks)
    BY <1>1, <1>2 DEF Free, Exclusive
  <2> QED BY <1>1, <1>2, <2>1, StillExclusive
<1>6. (version \in Versions)' /\ RowsTyped' /\ RowsFit' /\ Apart(schema)'
  BY <1>1, <1>2 DEF RowsTyped, RowsFit
<1> QED BY <1>2, <1>3, <1>4, <1>5, <1>6, InvPartsAfter

LEMMA CommitInv ==
  ASSUME MigrationsInv, NEW a \in Attempts, Commit(a)
  PROVE  MigrationsInv'
<1>1. /\ version \in Versions /\ RowsTyped /\ RowsFit /\ Shaped /\ Exclusive /\ Apart(schema)
      /\ \A b \in Attempts : RunSound(b)
  BY InvParts
<1>2. /\ version' \in Versions /\ RowsTyped' /\ RowsFit' /\ Apart(schema)'
      /\ End(a, "done") /\ rows' = RowsSeen(a)
      /\ AlembicTable \notin run[a].locks => version' = version
  BY <1>1, CommitIs
<1>3. Shaped' /\ run'[a].locks = {} /\ \A b \in Attempts \ {a} : run'[b] = run[b]
  BY <1>1, <1>2, EndIs
<1>4. RunSound(a)'
  BY <1>1, <1>2, EndSound DEF Over
<1>5. ASSUME NEW b \in Attempts \ {a} PROVE RunSound(b)'
  <2>1. "memories" \in run[b].locks => rows' = rows
    <3>1. "memories" \in run[b].locks => "memories" \notin run[a].locks
      BY <1>1 DEF Exclusive
    <3> QED BY <1>2, <3>1 DEF RowsSeen
  <2>2. AlembicTable \in run[b].locks => version' = version
    BY <1>1, <1>2 DEF Exclusive
  <2> QED BY <1>1, <1>3, <2>1, <2>2, Undisturbed
<1>6. Exclusive'
  BY <1>1, <1>3, StillExclusive DEF Free
<1> QED BY <1>2, <1>3, <1>4, <1>5, <1>6, InvPartsAfter

LEMMA RememberInv ==
  ASSUME MigrationsInv, Remember
  PROVE  MigrationsInv'
<1>1. /\ version \in Versions /\ RowsTyped /\ RowsFit /\ Shaped /\ Exclusive /\ Apart(schema)
      /\ \A b \in Attempts : RunSound(b)
  BY InvParts
<1>2. /\ version = HeadRevision /\ schema' = schema /\ version' = version /\ run' = run
      /\ \A a \in Attempts : "memories" \notin run[a].locks
      /\ rows' = [i \in DOMAIN rows \cup {Remembered} |->
                    IF i = Remembered THEN LegacyRow(Remembered, version) ELSE rows[i]]
  BY DEF Remember
<1>3. RowsTyped'
  BY <1>1, <1>2 DEF RowsTyped, LegacyRow, Rows
<1>4. RowsFit'
  BY <1>2 DEF RowsFit, Fits, HeadRevision
<1>5. \A b \in Attempts : RunSound(b)'
  BY <1>1, <1>2, Undisturbed
<1>6. (version \in Versions)' /\ Shaped' /\ Exclusive' /\ Apart(schema)'
  BY <1>1, <1>2 DEF Shaped, Exclusive
<1> QED BY <1>3, <1>4, <1>5, <1>6, InvPartsAfter

LEMMA InvNext == MigrationsInv /\ [Next]_vars => MigrationsInv'
<1> SUFFICES ASSUME MigrationsInv, [Next]_vars PROVE MigrationsInv'
  OBVIOUS
<1>1. ASSUME NEW a \in Attempts, Plan(a) PROVE MigrationsInv'
  BY <1>1, PlanInv
<1>2. ASSUME NEW a \in Attempts, Execute(a) PROVE MigrationsInv'
  BY <1>2, ExecuteInv
<1>3. ASSUME NEW a \in Attempts, Stamp(a) PROVE MigrationsInv'
  BY <1>3, StampInv
<1>4. ASSUME NEW a \in Attempts, Commit(a) PROVE MigrationsInv'
  BY <1>4, CommitInv
<1>5. ASSUME NEW a \in Attempts, OperationFails(a) \/ StampFails(a) \/ DeadlockVictim(a) \/ Dies(a)
      PROVE  MigrationsInv'
  <2>1. /\ schema' = schema /\ rows' = rows /\ version' = version
        /\ End(a, "failed") \/ End(a, "aborted") \/ End(a, "dead")
    BY <1>5 DEF OperationFails, StampFails, DeadlockVictim, Dies
  <2>2. {"failed", "aborted", "dead"} \subseteq Over
    BY DEF Over
  <2> QED BY <2>1, <2>2, EndInv
<1>6. CASE Remember
  BY <1>6, RememberInv
<1>7. CASE UNCHANGED vars
  <2>1. /\ version \in Versions /\ RowsTyped /\ RowsFit /\ Shaped /\ Exclusive /\ Apart(schema)
        /\ \A b \in Attempts : RunSound(b)
    BY InvParts
  <2>2. schema' = schema /\ rows' = rows /\ version' = version /\ run' = run
    BY <1>7 DEF vars
  <2>3. \A b \in Attempts : RunSound(b)'
    BY <2>1, <2>2, Undisturbed
  <2>4. /\ (version \in Versions)' /\ RowsTyped' /\ RowsFit' /\ Shaped' /\ Exclusive' /\ Apart(schema)'
    BY <2>1, <2>2 DEF RowsTyped, RowsFit, Shaped, Exclusive
  <2> QED BY <2>3, <2>4, InvPartsAfter
<1> QED BY <1>1, <1>2, <1>3, <1>4, <1>5, <1>6, <1>7 DEF Next, Step, Ended

(* However attempts race, fail and die, each is between the versions it    *)
(* planned from and to, holds what it has locked alone, and sees the       *)
(* memories as the operations it is past have made them.  (env.py, and the *)
(* statements of every revision)                                           *)
THEOREM MigrationsInvariantHolds == Spec => []MigrationsInv
  BY InvInit, InvNext, PTL DEF Spec

(* Versions, steps and the objects an attempt has changed are of their     *)
(* kinds: the objects are always in tables it has locked.                  *)
THEOREM MigrationsTypeCorrect == Spec => []MigrationsTypeOK
<1>1. MigrationsInv => MigrationsTypeOK
  BY DEF MigrationsInv
<1> QED BY <1>1, MigrationsInvariantHolds, PTL

-----------------------------------------------------------------------------
(* What a commit may do.                                                   *)

(* Only a commit moves the version.                                        *)
LEMMA OnlyCommitsMove ==
  ASSUME MigrationsInv, [Next]_vars, version' # version
  PROVE  \E a \in Attempts :
           /\ Commit(a) /\ RunSound(a) /\ run'[a].stage = "done" /\ run[a].stage = "running"
           /\ AlembicTable \in run[a].locks /\ run[a].from = version
           /\ run[a].at = version' /\ run[a].goal = version' /\ rows' = RowsSeen(a)
<1>1. PICK a \in Attempts : Commit(a)
  <2>1. \A a \in Attempts : /\ ~ Plan(a) /\ ~ Execute(a) /\ ~ OperationFails(a) /\ ~ Stamp(a)
                           /\ ~ StampFails(a) /\ ~ DeadlockVictim(a) /\ ~ Dies(a)
    BY DEF Plan, Execute, OperationFails, Stamp, StampFails, DeadlockVictim, Dies
  <2>2. ~ Remember /\ ~ Ended /\ ~ UNCHANGED vars
    BY DEF Remember, Ended, vars
  <2> QED BY <2>1, <2>2 DEF Next, Step
<1>2. /\ version \in Versions /\ RowsTyped /\ RowsFit /\ Shaped /\ Apart(schema) /\ RunSound(a)
  BY InvParts
<1>3. /\ run[a].stage = "running" /\ End(a, "done") /\ rows' = RowsSeen(a)
      /\ AlembicTable \in run[a].locks /\ run[a].from = version
      /\ run[a].at = version' /\ run[a].goal = version'
  BY <1>1, <1>2, CommitIs
<1>4. run'[a].stage = "done"
  BY <1>2, <1>3, EndIs
<1> QED BY <1>1, <1>2, <1>3, <1>4

(* Whoever moves the version planned from the one it moves, and moves it   *)
(* all the way: of attempts that race, one wins.  (env.py, the version row *)
(* updated in the transaction)                                             *)
THEOREM NoStaleMoveEver == Spec => NoStaleMove
<1>1. ASSUME MigrationsInv, [Next]_vars
      PROVE  [version' # version =>
                \E a \in Attempts : /\ run[a].from = version
                                    /\ run[a].goal = version'
                                    /\ run[a].stage = "running" /\ run'[a].stage = "done"]_vars
  BY <1>1, OnlyCommitsMove
<1> QED BY <1>1, MigrationsInvariantHolds, PTL DEF Spec, NoStaleMove

LEMMA RetypedIs ==
  \A t : Retyped(t) = IF t \in DOMAIN LegacyTypeMap THEN LegacyTypeMap[t] ELSE t
  BY DEF Retyped, LegacyTypeMap

(* An upgrade to the head, from any version and beside any other attempts, *)
(* keeps every memory: its type as the map says, its workspace out of its  *)
(* namespace, and its replacement link.  (the UPDATEs of 0006)             *)
THEOREM UpgradeAlwaysKeepsMemories == Spec => UpgradeKeepsMemories
<1> DEFINE Kind(i) == IF rows[i].type \in DOMAIN LegacyTypeMap
                      THEN LegacyTypeMap[rows[i].type] ELSE rows[i].type
           Place(i) == IF rows[i].namespace \in DOMAIN Stripped
                       THEN Stripped[rows[i].namespace] ELSE rows[i].namespace
           Keeps(i) == /\ i \in DOMAIN rows' /\ rows'[i].type = Kind(i)
                       /\ rows'[i].workspace = Place(i)
                       /\ rows'[i].superseded_by = rows[i].superseded_by
<1>1. ASSUME MigrationsInv, [Next]_vars, version' = HeadRevision, version # HeadRevision,
             NEW i \in DOMAIN rows
      PROVE  Keeps(i)
  <2>1. PICK a \in Attempts :
          /\ RunSound(a) /\ run[a].from = version /\ run[a].at = version'
          /\ run[a].goal = version' /\ rows' = RowsSeen(a)
    BY <1>1, OnlyCommitsMove
  <2>2. version \in Versions /\ RowsFit
    BY <1>1, InvParts
  <2>3. /\ Rising(a) /\ PastUp(a, 4, 3) /\ PastUp(a, 4, 4)
    BY <1>1, <2>1, <2>2 DEF Rising, PastUp, Versions, HeadRevision
  <2>4. run[a].from > 0
    <3>1. version # 0
      BY <1>1, <2>2 DEF RowsFit
    <3> QED BY <2>1, <2>2, <3>1 DEF Versions, HeadRevision
  <2>5. RaisedRow(a, rows[i], rows'[i]) /\ i \in DOMAIN rows'
    BY <1>1, <2>1, <2>3, <2>4 DEF RunSound, Raised
  <2>6. rows'[i].type = Kind(i) /\ rows'[i].workspace = Place(i)
    BY <2>3, <2>5, RetypedIs DEF RaisedRow, WorkspaceOf
  <2>7. rows'[i].superseded_by = rows[i].superseded_by
    <3>1. version < 2 => rows[i].superseded_by = Null
      BY <1>1, <2>2 DEF RowsFit, Fits
    <3> QED BY <2>1, <2>5, <3>1 DEF RaisedRow
  <2> QED BY <2>5, <2>6, <2>7
<1>2. ASSUME MigrationsInv, [Next]_vars
      PROVE  [version' = HeadRevision /\ version # HeadRevision =>
                \A i \in DOMAIN rows :
                  /\ i \in DOMAIN rows'
                  /\ rows'[i].type = IF rows[i].type \in DOMAIN LegacyTypeMap
                                     THEN LegacyTypeMap[rows[i].type] ELSE rows[i].type
                  /\ rows'[i].workspace = IF rows[i].namespace \in DOMAIN Stripped
                                          THEN Stripped[rows[i].namespace] ELSE rows[i].namespace
                  /\ rows'[i].superseded_by = rows[i].superseded_by]_vars
  BY <1>1, <1>2
<1> QED BY <1>2, MigrationsInvariantHolds, PTL DEF Spec, UpgradeKeepsMemories

-----------------------------------------------------------------------------
(* The schemas that attempts see.                                          *)

(* What SchemaInv says of an attempt.                                      *)
RunFollows(a) ==
  Placed(run[a].objects) /\ Follows(a) /\ Indexed(a) /\ Barred(a) /\ Emptied(a) /\ Refilled(a)

LEMMA SchemaInvParts ==
  SchemaInv <=> MigrationsInv /\ Schematic /\ \A a \in Attempts : RunFollows(a)
  BY DEF SchemaInv, RunFollows

LEMMA SchemaInvPartsAfter ==
  ASSUME MigrationsInv', Schematic', \A a \in Attempts : RunFollows(a)'
  PROVE  SchemaInv'
  BY DEF SchemaInv, RunFollows

LEMMA LooseIs ==
  ASSUME NEW a
  PROVE  /\ Loose(a) \subseteq LooseNames /\ TypeStatusName \in Loose(a)
         /\ ~ (Falling(a) /\ run[a].from = 1) => Loose(a) = {TypeStatusName}
         /\ Falling(a) /\ run[a].from = 1 => Loose(a) = LooseNames
         /\ \A z \in Loose(a) : z[1] = "index" /\ z[2] = "memories"
<1>1. \A z \in LooseNames : z[1] = "index" /\ z[2] = "memories"
  BY SpecialNames DEF LooseNames
<1>2. CASE Falling(a) /\ run[a].from = 1
  <2>1. Loose(a) = LooseNames
    BY <1>2 DEF Loose, LooseNames
  <2> QED BY <1>1, <1>2, <2>1 DEF LooseNames
<1>3. CASE ~ (Falling(a) /\ run[a].from = 1)
  <2>1. Loose(a) = {TypeStatusName}
    BY <1>3 DEF Loose
  <2> QED BY <1>1, <1>3, <2>1 DEF LooseNames
<1> QED BY <1>2, <1>3

LEMMA CoreSeen ==
  ASSUME NEW a, \A o \in run[a].objects : o.table \in run[a].locks, NEW t, NEW Z
  PROVE  /\ t \in run[a].locks => Core(SchemaSeen(a), t, Z) = Core(run[a].objects, t, Z)
         /\ t \notin run[a].locks => Core(SchemaSeen(a), t, Z) = Core(schema, t, Z)
  BY DEF Core, SchemaSeen

LEMMA HasSeen ==
  ASSUME NEW a, \A o \in run[a].objects : o.table \in run[a].locks, NEW n
  PROVE  /\ n[2] \in run[a].locks => (Has(SchemaSeen(a), n) <=> Has(run[a].objects, n))
         /\ n[2] \notin run[a].locks => (Has(SchemaSeen(a), n) <=> Has(schema, n))
<1>1. \A o : Name(o) = n => o.table = n[2]
  BY NameParts
<1> QED BY <1>1 DEF Has, SchemaSeen

LEMMA SpecialTables ==
  /\ TypeStatusName[1] = "index" /\ TypeStatusName[2] = "memories"
  /\ NamespaceScopeName[1] = "index" /\ NamespaceScopeName[2] = "memories"
  /\ NamespaceScopeName # TypeStatusName /\ NamespaceScopeName \notin LooseNames
  /\ "memories" \in OwnTables
  BY SpecialNames DEF NamespaceScopeName, LooseNames, OwnTables

(* An attempt that has locked nothing yet.                                 *)
LEMMA FreshFollows ==
  ASSUME NEW a, run[a].locks = {}, run[a].objects = {}, run[a].step = 1,
         run[a].from \in Versions, run[a].at = run[a].from
  PROVE  RunFollows(a)
<1>1. SchemaSeen(a) = schema
  BY DEF SchemaSeen
<1>2. Course(a) = Ladder[run[a].from]
  BY DEF Course, Base
<1>3. Follows(a)
  BY <1>2 DEF Follows
<1>4. ~ PastUp(a, 2, 6) /\ ~ PastDown(a, 1, 6)
  BY DEF PastUp, PastDown, Versions, HeadRevision
<1>5. Indexed(a)
  BY <1>1, <1>4 DEF Indexed, Versions, HeadRevision
<1>6. Barred(a)
  BY <1>1 DEF Barred, Versions, HeadRevision
<1>7. Placed(run[a].objects) /\ Emptied(a) /\ Refilled(a)
  BY <1>4 DEF Placed, Emptied, Refilled
<1> QED BY <1>3, <1>5, <1>6, <1>7 DEF RunFollows

LEMMA FreshFollowsAfter ==
  ASSUME NEW a, run'[a].locks = {}, run'[a].objects = {}, run'[a].step = 1,
         run'[a].from \in Versions, run'[a].at = run'[a].from
  PROVE  RunFollows(a)'
<1>1. SchemaSeen(a)' = schema'
  BY DEF SchemaSeen
<1>2. Course(a)' = Ladder[run'[a].from]
  BY DEF Course, Base
<1>3. Follows(a)'
  BY <1>2 DEF Follows
<1>4. ~ PastUp(a, 2, 6)' /\ ~ PastDown(a, 1, 6)'
  BY DEF PastUp, PastDown, Versions, HeadRevision
<1>5. Indexed(a)'
  BY <1>1, <1>4 DEF Indexed, Versions, HeadRevision
<1>6. Barred(a)'
  BY <1>1 DEF Barred, Versions, HeadRevision
<1>7. Placed(run[a].objects)' /\ Emptied(a)' /\ Refilled(a)'
  BY <1>4 DEF Placed, Emptied, Refilled
<1> QED BY <1>3, <1>5, <1>6, <1>7 DEF RunFollows

(* The tables of T have the same objects before and after.                 *)
Unmoved(T) == InTables(schema', T) = InTables(schema, T)

(* An attempt in whose tables another one's commit changes nothing.        *)
LEMMA FollowsStill ==
  ASSUME NEW b \in Attempts, RunTyped(b), Planned(b), RunFollows(b), run'[b] = run[b],
         Unmoved(run[b].locks)
  PROVE  RunFollows(b)'
<1>1. /\ \A v, n : PastUp(b, v, n)' <=> PastUp(b, v, n)
      /\ \A v, n : PastDown(b, v, n)' <=> PastDown(b, v, n)
      /\ Falling(b)' <=> Falling(b)
      /\ Loose(b)' = Loose(b) /\ Course(b)' = Course(b)
  BY DEF PastUp, PastDown, Rising, Falling, Loose, Course, Base, Script, Up
<1>2. ASSUME NEW t \in run[b].locks, NEW Z PROVE Core(schema', t, Z) = Core(schema, t, Z)
  BY DEF Unmoved, InTables, Core
<1>3. ASSUME NEW n, n[2] \in run[b].locks PROVE Has(schema', n) <=> Has(schema, n)
  <2>1. \A o : Name(o) = n => o.table = n[2]
    BY NameParts
  <2> QED BY <1>3, <2>1 DEF Unmoved, InTables, Has
<1>4. ASSUME NEW n
      PROVE  /\ n[2] \in run[b].locks => (Has(SchemaSeen(b)', n) <=> Has(SchemaSeen(b), n))
             /\ n[2] \notin run[b].locks => (Has(SchemaSeen(b)', n) <=> Has(schema', n))
  <2>1. \A o \in run[b].objects : o.table \in run[b].locks
    BY DEF RunTyped
  <2>2. \A o : Name(o) = n => o.table = n[2]
    BY NameParts
  <2>3. SchemaSeen(b)' = {o \in schema' : o.table \notin run[b].locks} \cup run[b].objects
    BY DEF SchemaSeen
  <2> QED BY <2>1, <2>2, <2>3, HasSeen DEF Has
<1>5. Placed(run[b].objects)'
  BY DEF RunFollows
<1>6. Follows(b)'
  BY <1>1, <1>2 DEF RunFollows, Follows
<1>7. Indexed(b)'
  <2>1. PastUp(b, 2, 6) => "memories" \in run[b].locks
    BY DEF RunFollows, Indexed
  <2>2. CASE "memories" \in run[b].locks
    BY <1>1, <1>3, <1>4, <2>1, <2>2, SpecialTables DEF RunFollows, Indexed
  <2>3. CASE "memories" \notin run[b].locks
    <3>1. run[b].from < 3 /\ run[b].at >= 3 => PastUp(b, 2, 6)
      BY DEF Planned, RunTyped, PastUp, Rising, Versions, HeadRevision
    <3> QED BY <1>1, <1>4, <2>1, <2>3, <3>1, SpecialTables DEF Indexed
  <2> QED BY <2>2, <2>3
<1>8. Barred(b)'
  <2>1. CASE "memories" \in run[b].locks
    BY <1>1, <1>3, <1>4, <2>1, SpecialTables DEF RunFollows, Barred
  <2>2. CASE "memories" \notin run[b].locks
    BY <1>1, <1>4, <2>2, SpecialTables DEF RunFollows, Barred
  <2> QED BY <2>1, <2>2
<1>9. Emptied(b)'
  BY <1>1 DEF RunFollows, Emptied
<1>10. Refilled(b)'
  BY DEF RunFollows, Refilled, RowsSeen
<1> QED BY <1>5, <1>6, <1>7, <1>8, <1>9, <1>10 DEF RunFollows

(* Away from the end of its way an attempt runs a script on the schema it  *)
(* is for, unless it comes down from the head.                             *)
LEMMA CourseIs ==
  ASSUME NEW a \in Attempts, RunTyped(a), Planned(a), run[a].at # run[a].goal
  PROVE  /\ Course(a) = Stages(Base(a), Script(a))[run[a].step - 1]
         /\ ~ (run[a].from = 5 /\ run[a].at = 4) => Base(a) = Ladder[run[a].at] /\ Runs(Base(a), Script(a))
         /\ Script(a) = IF run[a].goal > run[a].at THEN Upgrades[run[a].at + 1] ELSE Downgrades[run[a].at]
         /\ Len(Script(a)) \in 1 .. 16
<1>1. /\ Script(a) = IF run[a].goal > run[a].at THEN Upgrades[run[a].at + 1] ELSE Downgrades[run[a].at]
      /\ Len(Script(a)) \in 1 .. 16
  BY ScriptIs DEF PlainScript
<1>2. Stages(Base(a), Script(a))[0] = Base(a)
  <2>1. Len(Script(a)) \in 0 .. 16
    BY <1>1
  <2> QED BY <2>1, StagesAre
<1>3. Course(a) = Stages(Base(a), Script(a))[run[a].step - 1]
  BY <1>2 DEF Course, RunTyped
<1>4. ASSUME ~ (run[a].from = 5 /\ run[a].at = 4)
      PROVE  Base(a) = Ladder[run[a].at] /\ Runs(Base(a), Script(a))
  <2>1. Base(a) = Ladder[run[a].at]
    BY <1>4 DEF Base
  <2>2. CASE run[a].goal > run[a].at
    <3>1. run[a].at + 1 \in 1 .. HeadRevision /\ (run[a].at + 1) - 1 = run[a].at
      BY <2>2 DEF RunTyped, Versions, HeadRevision
    <3>2. Runs(Ladder[(run[a].at + 1) - 1], Upgrades[run[a].at + 1])
      BY <3>1, LadderNames
    <3> QED BY <1>1, <2>1, <2>2, <3>1, <3>2
  <2>3. CASE ~ (run[a].goal > run[a].at)
    <3>1. run[a].at \in 1 .. HeadRevision
      BY <2>3 DEF RunTyped, Versions, HeadRevision
    <3>2. Runs(Ladder[run[a].at], Downgrades[run[a].at])
      BY <3>1, LadderNames
    <3> QED BY <1>1, <2>1, <2>3, <3>2
  <2> QED BY <2>2, <2>3
<1> QED BY <1>1, <1>3, <1>4

LEMMA WiderAlike ==
  ASSUME NEW s, NEW u, Alike(s, u, {TypeStatusName}), NEW Z, TypeStatusName \in Z
  PROVE  Alike(s, u, Z)
<1>1. ASSUME NEW t \in OwnTables PROVE Core(s, t, Z) = Core(u, t, Z)
  <2>1. Core(s, t, {TypeStatusName}) = Core(u, t, {TypeStatusName})
    BY DEF Alike
  <2> QED BY <2>1 DEF Core
<1> QED BY <1>1 DEF Alike

(* The two shapes of a committed schema.                                   *)
Upright == Alike(schema, Ladder[version], {TypeStatusName})
Bent == version = 4 /\ Alike(schema, Degraded, {TypeStatusName})

LEMMA BentLacks == Bent => ~ Has(schema, NamespaceScopeName)
<1> SUFFICES ASSUME Bent, Has(schema, NamespaceScopeName) PROVE FALSE
  OBVIOUS
<1>1. Core(schema, "memories", {TypeStatusName}) = Core(Degraded, "memories", {TypeStatusName})
  BY SpecialTables DEF Bent, Alike
<1>2. Has(Degraded, NamespaceScopeName)
  BY <1>1, SpecialTables, CoreHas
<1> QED BY <1>2, LadderHas

(* An attempt that has moved started from a schema of the ladder, and what *)
(* it sees is on its course.                                               *)
LEMMA SeesCourse ==
  ASSUME NEW a \in Attempts, RunTyped(a), RunFollows(a),
         Alike(schema, Ladder[run[a].from], {TypeStatusName})
  PROVE  Alike(SchemaSeen(a), Course(a), Loose(a))
<1>1. Alike(schema, Ladder[run[a].from], Loose(a))
  BY WiderAlike, LooseIs
<1>2. ASSUME NEW t \in OwnTables PROVE Core(SchemaSeen(a), t, Loose(a)) = Core(Course(a), t, Loose(a))
  <2>1. Core(schema, t, Loose(a)) = Core(Ladder[run[a].from], t, Loose(a))
    BY <1>1 DEF Alike
  <2>2. CASE t \in run[a].locks
    BY <2>1, <2>2, CoreSeen DEF RunFollows, Follows, RunTyped
  <2>3. CASE t \notin run[a].locks
    BY <2>1, <2>3, CoreSeen DEF RunFollows, Follows, RunTyped
  <2> QED BY <2>2, <2>3
<1> QED BY <1>2 DEF Alike

LEMMA PlacedSeen ==
  ASSUME Placed(schema), NEW a \in Attempts, Placed(run[a].objects)
  PROVE  Placed(SchemaSeen(a))
  BY DEF Placed, SchemaSeen

(* A commit of an attempt that has moved.                                  *)
LEMMA MoveSchematic ==
  ASSUME Schematic, NEW a \in Attempts, RunSound(a), RunFollows(a),
         AlembicTable \in run[a].locks, run[a].at = run[a].goal,
         schema' = SchemaSeen(a), version' = run[a].at
  PROVE  Schematic'
<1>1. /\ version = run[a].from /\ run[a].from # run[a].at /\ run[a].step = 1 /\ RunTyped(a)
      /\ run[a].from \in Versions /\ run[a].at \in Versions
  BY DEF RunSound, Planned, RunTyped, AlembicTable
<1>2. Alike(schema, Ladder[run[a].from], {TypeStatusName})
  <2>1. CASE Bent
    BY <1>1, <2>1, BentLacks DEF Bent, RunFollows, Barred
  <2> QED BY <1>1, <2>1 DEF Schematic, Bent
<1>3. version >= 3 => Has(schema, TypeStatusName)
  BY DEF Schematic
<1>4. Alike(schema', Course(a), Loose(a)) /\ Course(a) = Base(a)
  BY <1>1, <1>2, SeesCourse DEF Course
<1>5. Placed(schema')
  BY PlacedSeen DEF Schematic, RunFollows
<1>6. run[a].at >= 3 => Has(schema', TypeStatusName)
  <2>1. ~ PastDown(a, 3, 1) \/ run[a].at < 3
    BY <1>1 DEF PastDown, Versions, HeadRevision
  <2> QED BY <1>1, <1>3, <2>1 DEF RunFollows, Indexed, Versions, HeadRevision
<1>7. run[a].at = 0 => \A o \in schema' : o.table # "memories"
  <2>1. SUFFICES ASSUME run[a].at = 0 PROVE \A o \in SchemaSeen(a) : o.table # "memories"
    OBVIOUS
  <2>2. PastDown(a, 1, 6) /\ Falling(a)
    BY <1>1, <2>1 DEF PastDown, Falling, Versions, HeadRevision
  <2>3. "memories" \in run[a].locks
    BY <2>2 DEF RunSound, Lowered
  <2>4. \A o \in run[a].objects : o.table # "memories"
    BY <2>2 DEF RunFollows, Emptied
  <2> QED BY <2>3, <2>4 DEF SchemaSeen
<1>8. Alike(schema', Base(a), {TypeStatusName})
  <2>1. CASE ~ (Falling(a) /\ run[a].from = 1)
    BY <1>4, <2>1, LooseIs
  <2>2. CASE Falling(a) /\ run[a].from = 1
    <3>1. run[a].at = 0 /\ Base(a) = {}
      <4>1. run[a].at = 0
        BY <1>1, <2>2 DEF Falling, Versions, HeadRevision
      <4>2. Base(a) = Ladder[0]
        BY <2>2, <4>1 DEF Base
      <4> QED BY <4>1, <4>2, LadderIs
    <3>2. ASSUME NEW t \in OwnTables PROVE Core(schema', t, {TypeStatusName}) = Core({}, t, {TypeStatusName})
      <4>1. Core(schema', t, Loose(a)) = {}
        BY <1>4, <3>1 DEF Alike, Core
      <4>2. \A o \in schema' : o.table = t => Name(o) \notin Loose(a)
        <5>1. \A z \in Loose(a) : z[2] = "memories"
          BY LooseIs
        <5> QED BY <1>7, <3>1, <5>1, NameParts
      <4> QED BY <4>1, <4>2 DEF Core
    <3> QED BY <3>1, <3>2 DEF Alike
  <2> QED BY <2>1, <2>2
<1>9. CASE run[a].from = 5 /\ run[a].at = 4
  BY <1>5, <1>6, <1>8, <1>9 DEF Schematic, Base
<1>10. CASE ~ (run[a].from = 5 /\ run[a].at = 4)
  BY <1>5, <1>6, <1>7, <1>8, <1>10 DEF Schematic, Base
<1> QED BY <1>9, <1>10

LEMMA CommitFollows ==
  ASSUME SchemaInv, NEW a \in Attempts, Commit(a)
  PROVE  SchemaInv'
<1>1. /\ MigrationsInv /\ Schematic /\ \A b \in Attempts : RunFollows(b)
      /\ Shaped /\ Exclusive /\ \A b \in Attempts : RunSound(b)
  BY SchemaInvParts, InvParts
<1>2. /\ run[a].at = run[a].goal /\ schema' = SchemaSeen(a) /\ End(a, "done")
      /\ version' = IF AlembicTable \in run[a].locks THEN run[a].at ELSE version
  BY DEF Commit, AlembicTable
<1>3. MigrationsInv'
  BY <1>1, CommitInv
<1>4. Schematic'
  <2>1. CASE AlembicTable \in run[a].locks
    BY <1>1, <1>2, <2>1, MoveSchematic
  <2>2. CASE AlembicTable \notin run[a].locks
    <3>1. run[a].locks = {} /\ run[a].objects = {}
      BY <1>1, <1>2, <2>2 DEF RunSound, Planned, RunTyped, AlembicTable
    <3>2. schema' = schema /\ version' = version
      BY <1>2, <2>2, <3>1 DEF SchemaSeen
    <3> QED BY <1>1, <3>2 DEF Schematic
  <2> QED BY <2>1, <2>2
<1>5. RunFollows(a)' /\ \A b \in Attempts \ {a} : run'[b] = run[b]
  <2>1. /\ run'[a].locks = {} /\ run'[a].objects = {} /\ run'[a].step = 1
        /\ run'[a].from = 0 /\ run'[a].at = 0 /\ \A b \in Attempts \ {a} : run'[b] = run[b]
    BY <1>1, <1>2, EndIs
  <2>2. 0 \in Versions
    BY DEF Versions, HeadRevision
  <2>3. RunFollows(a)'
    BY <2>1, <2>2, FreshFollowsAfter
  <2> QED BY <2>1, <2>3
<1>6. ASSUME NEW b \in Attempts \ {a} PROVE RunFollows(b)'
  <2>1. Unmoved(run[b].locks)
    <3>1. run[b].locks \cap run[a].locks = {} /\ \A o \in run[a].objects : o.table \in run[a].locks
      BY <1>1 DEF Exclusive, RunSound, RunTyped
    <3> QED BY <1>2, <3>1 DEF Unmoved, InTables, SchemaSeen
  <2> QED BY <1>1, <1>5, <2>1, FollowsStill DEF RunSound
<1> QED BY <1>3, <1>4, <1>5, <1>6, SchemaInvPartsAfter

-----------------------------------------------------------------------------
(* The operation in hand.                                                  *)

LEMMA UpgradeOperations ==
  ASSUME NEW v \in 0 .. 4, NEW n \in 1 .. Len(Upgrades[v + 1])
  PROVE  LET op == Upgrades[v + 1][n] IN
         Keeping(op) /\ Strict(op) /\ (SelfFilled(op) \/ (v = 0 /\ n = 3))
<1>1. CASE v = 0
  <2>0. v + 1 = 1 /\ Upgrades[1] = Upgrade0001
    BY <1>1 DEF Upgrades
  <2>1. Upgrades[v + 1] = Upgrade0001 /\ n \in 1 .. 8
    BY <2>0, ScriptLengths
  <2>2. n # 3 => Ordinary(Upgrade0001[n])
    BY <2>1, Ordinary0001
  <2>3. Upgrade0001[n].do = "create"
    BY <2>1, ColumnsOf0001
  <2> QED BY <1>1, <2>1, <2>2, <2>3 DEF Ordinary, Keeping, Strict
<1>2. ASSUME NEW script, script = Upgrades[v + 1], \A k \in 1 .. Len(script) : Ordinary(script[k])
      PROVE  LET op == Upgrades[v + 1][n] IN Keeping(op) /\ Strict(op) /\ SelfFilled(op)
  BY <1>2 DEF Ordinary
<1>3. CASE v = 1
  <2>1. Upgrades[v + 1] = Upgrade0002 /\ \A k \in 1 .. Len(Upgrade0002) : Ordinary(Upgrade0002[k])
    BY <1>3, ScriptLengths, Ordinary0002 DEF Upgrades
  <2> QED BY <1>2, <2>1
<1>4. CASE v = 2
  <2>1. Upgrades[v + 1] = Upgrade0004 /\ \A k \in 1 .. Len(Upgrade0004) : Ordinary(Upgrade0004[k])
    BY <1>4, ScriptLengths, Ordinary0004 DEF Upgrades
  <2> QED BY <1>2, <2>1
<1>5. CASE v = 3
  <2>1. Upgrades[v + 1] = Upgrade0005 /\ \A k \in 1 .. Len(Upgrade0005) : Ordinary(Upgrade0005[k])
    BY <1>5, ScriptLengths, Ordinary0005 DEF Upgrades
  <2> QED BY <1>2, <2>1
<1>6. CASE v = 4
  <2>1. Upgrades[v + 1] = Upgrade0006 /\ \A k \in 1 .. Len(Upgrade0006) : Ordinary(Upgrade0006[k])
    BY <1>6, ScriptLengths, Ordinary0006 DEF Upgrades
  <2> QED BY <1>2, <2>1
<1> QED BY <1>1, <1>3, <1>4, <1>5, <1>6

LEMMA DowngradeOperations ==
  ASSUME NEW v \in 1 .. 5, NEW n \in 1 .. Len(Downgrades[v])
  PROVE  LET op == Downgrades[v][n] IN
         /\ Keeping(op) \/ (v = 1 /\ n = 6) \/ (v = 3 /\ n = 1)
         /\ Strict(op) \/ v = 1
         /\ SelfFilled(op) \/ (v = 5 /\ n = 3)
<1>1. CASE v = 1
  <2>1. Downgrades[v] = Downgrade0001 /\ n \in 1 .. 6
    BY <1>1, ScriptLengths DEF Downgrades
  <2>2. n \in 3 .. 5 => Ordinary(Downgrade0001[n])
    BY Ordinary0001
  <2>3. ASSUME n = 1 \/ n = 2 PROVE Keeping(Downgrade0001[n]) /\ SelfFilled(Downgrade0001[n])
    <3>1. /\ <<"index", "memories", "ix_memories_embedding_hnsw">> \notin Holding
          /\ <<"index", "memories", "ix_memories_raw_content_trgm">> \notin Holding
      BY SpecialNames DEF Holding
    <3>2. ASSUME NEW z, z \notin Holding PROVE Keeping(Op("drop", {z}, TRUE)) /\ SelfFilled(Op("drop", {z}, TRUE))
      BY <3>2 DEF Keeping, SelfFilled, Filling, Op
    <3>3. /\ Downgrade0001[1] = DropIfExists("index", "memories", "ix_memories_embedding_hnsw")
          /\ Downgrade0001[2] = DropIfExists("index", "memories", "ix_memories_raw_content_trgm")
      BY DEF Downgrade0001
    <3>4. Keeping(Downgrade0001[1]) /\ SelfFilled(Downgrade0001[1])
      BY <3>1, <3>2, <3>3 DEF DropIfExists
    <3>5. Keeping(Downgrade0001[2]) /\ SelfFilled(Downgrade0001[2])
      BY <3>1, <3>2, <3>3 DEF DropIfExists
    <3> QED BY <2>3, <3>4, <3>5
  <2>4. SelfFilled(Downgrade0001[6])
    BY DEF Downgrade0001, SelfFilled, Filling, DropTable, Drop, Op
  <2> QED BY <1>1, <2>1, <2>2, <2>3, <2>4 DEF Ordinary
<1>2. ASSUME NEW script, script = Downgrades[v], n \in 1 .. Len(script) => Ordinary(script[n])
      PROVE  LET op == Downgrades[v][n] IN Keeping(op) /\ Strict(op) /\ SelfFilled(op)
  BY <1>2 DEF Ordinary
<1>3. CASE v = 2
  <2>1. Downgrades[v] = Downgrade0002 /\ \A k \in 1 .. Len(Downgrade0002) : Ordinary(Downgrade0002[k])
    BY <1>3, ScriptLengths, Ordinary0002 DEF Downgrades
  <2> QED BY <1>2, <2>1
<1>4. CASE v = 3
  <2>1. Downgrades[v] = Downgrade0004 /\ n \in 1 .. 5
    BY <1>4, ScriptLengths DEF Downgrades
  <2>2. n # 1 => Ordinary(Downgrade0004[n])
    BY <2>1, Ordinary0004
  <2>3. Strict(Downgrade0004[1]) /\ SelfFilled(Downgrade0004[1])
    BY SpecialNames DEF Downgrade0004, DropIfExists, Op, Strict, SelfFilled, Filling
  <2> QED BY <1>4, <2>1, <2>2, <2>3 DEF Ordinary
<1>5. CASE v = 4
  <2>1. Downgrades[v] = Downgrade0005 /\ \A k \in 1 .. Len(Downgrade0005) : Ordinary(Downgrade0005[k])
    BY <1>5, ScriptLengths, Ordinary0005 DEF Downgrades
  <2> QED BY <1>2, <2>1
<1>6. CASE v = 5
  <2>1. Downgrades[v] = Downgrade0006 /\ n \in 1 .. 8
    BY <1>6, ScriptLengths DEF Downgrades
  <2>2. n # 3 => Ordinary(Downgrade0006[n])
    BY <2>1, Ordinary0006, SMTT(30)
  <2>3. Downgrade0006[3].do = "create"
    BY DEF Downgrade0006, Create, Op
  <2> QED BY <1>6, <2>1, <2>2, <2>3 DEF Ordinary, Keeping, Strict
<1> QED BY <1>1, <1>3, <1>4, <1>5, <1>6

LEMMA SpecialOperations ==
  /\ Upgrade0004[6] = CreateIfMissing(TypeStatusIndex)
  /\ Upgrade0006[1] = Create(Nullable("memories", {"workspace"}))
  /\ Upgrade0006[2] = Update("workspace of repo") /\ Upgrade0006[3] = Update("workspace of the rest")
  /\ Upgrade0006[4] = Update("type")
  /\ Upgrade0006[5] = Op("drop", {NamespaceScopeName}, FALSE)
  /\ Downgrade0005[1] = Op("drop", {NamespaceScopeName}, FALSE)
  /\ Downgrade0001[6] = Op("drop", {<<"table", "memories", "memories">>}, FALSE)
  /\ Downgrade0006[2] = Update("namespace")
<1>1. Upgrade0004[6] = CreateIfMissing(TypeStatusIndex) /\ Downgrade0006[2] = Update("namespace")
  BY DEF Upgrade0004, Downgrade0006
<1>2. /\ Upgrade0006[1] = Create(Nullable("memories", {"workspace"}))
      /\ Upgrade0006[2] = Update("workspace of repo") /\ Upgrade0006[3] = Update("workspace of the rest")
      /\ Upgrade0006[4] = Update("type")
      /\ Upgrade0006[5] = Op("drop", {NamespaceScopeName}, FALSE)
  BY DEF Upgrade0006, DropIndex, Drop, NamespaceScopeName
<1>3. /\ Downgrade0005[1] = Op("drop", {NamespaceScopeName}, FALSE)
      /\ Downgrade0001[6] = Op("drop", {<<"table", "memories", "memories">>}, FALSE)
  BY DEF Downgrade0005, Downgrade0001, DropIndex, DropTable, Drop, NamespaceScopeName
<1> QED BY <1>1, <1>2, <1>3

(* The operation that a is about to make.                                  *)
LEMMA OperationIs ==
  ASSUME NEW a \in Attempts, RunTyped(a), Planned(a), Operating(a)
  PROVE  /\ run[a].step \in 1 .. Len(Script(a)) /\ Operation(a) = Script(a)[run[a].step]
         /\ Rising(a) \/ Falling(a)
         /\ Rising(a) => /\ run[a].at \in 0 .. 4 /\ run[a].from <= run[a].at
                         /\ Script(a) = Upgrades[run[a].at + 1] /\ ~ Falling(a)
         /\ Falling(a) => /\ run[a].at \in 1 .. 5 /\ run[a].at <= run[a].from
                          /\ Script(a) = Downgrades[run[a].at]
<1>1. run[a].at # run[a].goal /\ run[a].step <= Len(Script(a))
  BY DEF Operating
<1>2. /\ Script(a) = IF run[a].goal > run[a].at THEN Upgrades[run[a].at + 1] ELSE Downgrades[run[a].at]
      /\ Len(Script(a)) \in 1 .. 16
  BY <1>1, ScriptIs DEF PlainScript
<1>3. run[a].step \in 1 .. Len(Script(a))
  BY <1>1, <1>2, SMTT(30) DEF RunTyped
<1>4. /\ run[a].from \in 0 .. 5 /\ run[a].at \in 0 .. 5 /\ run[a].goal \in 0 .. 5
      /\ \/ run[a].from <= run[a].at /\ run[a].at <= run[a].goal
         \/ run[a].goal <= run[a].at /\ run[a].at <= run[a].from
  BY DEF RunTyped, Planned, Versions, HeadRevision
<1>5. CASE run[a].goal > run[a].at
  <2>1. Rising(a) /\ run[a].at \in 0 .. 4 /\ run[a].from <= run[a].at /\ ~ Falling(a)
    BY <1>4, <1>5 DEF Rising, Falling
  <2> QED BY <1>2, <1>3, <1>5, <2>1 DEF Operation
<1>6. CASE ~ (run[a].goal > run[a].at)
  <2>1. Falling(a) /\ run[a].at \in 1 .. 5 /\ run[a].at <= run[a].from /\ ~ Rising(a)
    BY <1>1, <1>4, <1>6 DEF Falling, Rising
  <2> QED BY <1>2, <1>3, <1>6, <2>1 DEF Operation
<1> QED BY <1>5, <1>6

(* What remains of a schema after an operation is what it sees then.       *)
LEMMA SeenAfter ==
  ASSUME Shaped, NEW a \in Attempts, RunTyped(a), Execute(a),
         NEW op, op = Operation(a), Proper(op)
  PROVE  SchemaSeen(a)' = After(SchemaSeen(a), op)
<1> DEFINE seen == SchemaSeen(a)
           locks == run[a].locks \cup Touched(seen, op)
<1>1. run'[a].locks = locks /\ run'[a].objects = InTables(After(seen, op), locks) /\ schema' = schema
  BY ExecuteIs
<1>2. \A o : o.table \notin locks => (o \in After(seen, op) <=> o \in seen)
  <2>1. CASE op.do = "create"
    BY <2>1 DEF After, Touched, Tables
  <2>2. CASE op.do = "drop"
    BY <2>2 DEF After, Touched, Tables
  <2>3. CASE op.do \notin {"create", "drop"}
    BY <2>3 DEF After
  <2> QED BY <2>1, <2>2, <2>3
<1>3. \A o : o.table \notin locks => (o \in seen <=> o \in schema)
  BY DEF SchemaSeen, RunTyped
<1>4. SchemaSeen(a)' = {o \in schema : o.table \notin locks} \cup InTables(After(seen, op), locks)
  BY <1>1 DEF SchemaSeen
<1> HIDE DEF locks, seen
<1>5. ASSUME NEW o PROVE o \in SchemaSeen(a)' <=> o \in After(seen, op)
  BY <1>2, <1>3, <1>4 DEF InTables
<1> QED BY <1>5 DEF seen

(* From what the downgrade of 0006 leaves no operation succeeds.           *)
LEMMA NoWayOn ==
  ASSUME SchemaInv, NEW a \in Attempts, Operating(a), run[a].from = 5, run[a].at = 4,
         NEW rows_, Succeeds(SchemaSeen(a), rows_, Operation(a))
  PROVE  FALSE
<1>1. Schematic /\ RunFollows(a) /\ RunSound(a)
  BY SchemaInvParts, InvParts
<1>2. /\ RunTyped(a) /\ Planned(a) /\ Falling(a) /\ run[a].step = 1
      /\ AlembicTable \in run[a].locks /\ version = 5
  BY <1>1 DEF RunSound, Planned, RunTyped, Operating, Falling, RunFollows, Barred, Versions, HeadRevision,
     AlembicTable
<1>3. Alike(schema, Ladder[run[a].from], {TypeStatusName})
  BY <1>1, <1>2 DEF Schematic
<1>4. Operation(a) = Op("drop", {NamespaceScopeName}, FALSE)
  <2>1. Script(a) = Downgrades[4] /\ Operation(a) = Script(a)[1]
    BY <1>2, OperationIs
  <2> QED BY <2>1, SpecialOperations DEF Downgrades
<1>5. Has(SchemaSeen(a), NamespaceScopeName)
  BY <1>4 DEF Succeeds, Droppable, Op
<1>6. Course(a) = Degraded
  BY <1>2 DEF Course, Base
<1>7. Core(SchemaSeen(a), "memories", Loose(a)) = Core(Degraded, "memories", Loose(a))
  BY <1>1, <1>2, <1>3, <1>6, SeesCourse, SpecialTables DEF Alike
<1>8. NamespaceScopeName \notin Loose(a)
  BY LooseIs, SpecialTables
<1>9. Has(Degraded, NamespaceScopeName)
  BY <1>5, <1>7, <1>8, CoreHas, SpecialTables
<1> QED BY <1>9, LadderHas

(* An operation that begins at 4 finds the index on namespace and scope    *)
(* and drops it, or is one of the four of 0006 before that.                *)
LEMMA FirstFromFour ==
  ASSUME NEW a \in Attempts, RunTyped(a), Planned(a), Operating(a), run[a].from = 4, run[a].at = 4,
         NEW rows_, Succeeds(SchemaSeen(a), rows_, Operation(a)), Proper(Operation(a))
  PROVE  /\ run[a].step = 1 => "memories" \in Touched(SchemaSeen(a), Operation(a))
         /\ ~ Has(SchemaSeen(a), NamespaceScopeName) =>
              /\ ~ (Falling(a) /\ run[a].step = 1) /\ ~ (~ Falling(a) /\ run[a].step = 5)
              /\ ~ Falling(a) /\ run[a].step < 5 => ~ Has(After(SchemaSeen(a), Operation(a)), NamespaceScopeName)
<1> DEFINE op == Operation(a)
           seen == SchemaSeen(a)
           n == run[a].step
<1>1. n \in 1 .. Len(Script(a)) /\ op = Script(a)[n]
  BY OperationIs
<1>2. ASSUME op = Op("drop", {NamespaceScopeName}, FALSE)
      PROVE  Has(seen, NamespaceScopeName) /\ "memories" \in Touched(seen, op)
  <2>1. op.do = "drop" /\ op.what = {NamespaceScopeName} /\ ~ op.lenient
    BY <1>2 DEF Op
  <2>2. Has(seen, NamespaceScopeName)
    BY <2>1 DEF Succeeds, Droppable
  <2>3. PICK o \in seen : Name(o) = NamespaceScopeName
    BY <2>2 DEF Has
  <2>4. o \in Doomed(seen, NamespaceScopeName) /\ o.table = "memories"
    BY <2>3, NameParts, SpecialTables DEF Doomed, Within
  <2>5. Touched(seen, op) = Tables(Doomed(seen, NamespaceScopeName))
    BY <2>1 DEF Touched
  <2> QED BY <2>2, <2>4, <2>5 DEF Tables
<1>3. CASE Falling(a)
  <2>1. Script(a) = Downgrade0005
    BY <1>3, OperationIs DEF Downgrades
  <2>2. n = 1 => op = Op("drop", {NamespaceScopeName}, FALSE)
    BY <1>1, <2>1, SpecialOperations
  <2> QED BY <1>2, <1>3, <2>2
<1>4. CASE ~ Falling(a)
  <2>1. Script(a) = Upgrade0006
    <3>1. Script(a) = Upgrades[run[a].at + 1] /\ run[a].at + 1 = 5
      BY <1>4, OperationIs
    <3> QED BY <3>1 DEF Upgrades
  <2>2. n = 5 => op = Op("drop", {NamespaceScopeName}, FALSE)
    BY <1>1, <2>1, SpecialOperations
  <2>3. n = 1 => op.do = "create" /\ op.what = Nullable("memories", {"workspace"})
    <3>1. n = 1 => op = Create(Nullable("memories", {"workspace"}))
      BY <1>1, <2>1, SpecialOperations
    <3>2. \A O : Create(O).do = "create" /\ Create(O).what = O
      BY DEF Create, Op
    <3> QED BY <3>1, <3>2
  <2>4. \A o \in Nullable("memories", {"workspace"}) : o.kind = "column" /\ o.table = "memories"
    BY DEF Nullable, Object
  <2>5. Nullable("memories", {"workspace"}) # {}
    BY DEF Nullable
  <2>6. n = 1 => "memories" \in Touched(seen, op)
    BY <2>3, <2>4, <2>5 DEF Touched, Tables
  <2>7. n \in {2, 3, 4} => op.do \notin {"create", "drop"}
    <3>1. /\ n = 2 => op = Update("workspace of repo")
          /\ n = 3 => op = Update("workspace of the rest")
          /\ n = 4 => op = Update("type")
      BY <1>1, <2>1, SpecialOperations
    <3>2. /\ Update("workspace of repo").do \notin {"create", "drop"}
          /\ Update("workspace of the rest").do \notin {"create", "drop"}
          /\ Update("type").do \notin {"create", "drop"}
      BY DEF Update, Op
    <3> QED BY <3>1, <3>2
  <2>8. n < 5 => n \in {1, 2, 3, 4}
    BY <1>1
  <2>9. ASSUME ~ Has(seen, NamespaceScopeName), n < 5 PROVE ~ Has(After(seen, op), NamespaceScopeName)
    <3>1. CASE n = 1
      <4>1. After(seen, op) \subseteq seen \cup Nullable("memories", {"workspace"})
        BY <2>3, <3>1 DEF After
      <4>2. \A o \in Nullable("memories", {"workspace"}) : Name(o) # NamespaceScopeName
        BY <2>4, NameParts, SpecialTables
      <4> QED BY <2>9, <4>1, <4>2 DEF Has
    <3>2. CASE n \in {2, 3, 4}
      BY <2>7, <2>9, <3>2 DEF After
    <3> QED BY <2>8, <2>9, <3>1, <3>2
  <2> QED BY <1>2, <1>4, <2>2, <2>6, <2>9
<1> QED BY <1>3, <1>4

LEMMA ExecuteFacts ==
  ASSUME SchemaInv, NEW a \in Attempts, Execute(a), NEW op, op = Operation(a),
         NEW seen, seen = SchemaSeen(a)
  PROVE  /\ Shaped /\ Schematic /\ RunSound(a) /\ RunTyped(a) /\ Planned(a) /\ RunFollows(a)
         /\ Operating(a) /\ Succeeds(seen, RowsSeen(a), op)
         /\ ~ (run[a].from = 5 /\ run[a].at = 4) /\ Proper(op)
         /\ run'[a].goal = run[a].goal /\ run'[a].from = run[a].from /\ run'[a].at = run[a].at
         /\ run'[a].step = run[a].step + 1
         /\ run'[a].locks = run[a].locks \cup Touched(seen, op)
         /\ run'[a].objects = InTables(After(seen, op), run'[a].locks)
         /\ schema' = schema /\ rows' = rows /\ version' = version
         /\ SchemaSeen(a)' = After(seen, op) /\ Placed(seen)
         /\ \A b \in Attempts \ {a} : run'[b] = run[b]
<1>1. Shaped /\ Schematic /\ RunSound(a) /\ RunFollows(a)
  BY SchemaInvParts, InvParts
<1>2. RunTyped(a) /\ Planned(a)
  BY <1>1 DEF RunSound
<1>3. /\ run'[a].goal = run[a].goal /\ run'[a].from = run[a].from /\ run'[a].at = run[a].at
      /\ run'[a].step = run[a].step + 1
      /\ run'[a].locks = run[a].locks \cup Touched(seen, op)
      /\ run'[a].objects = InTables(After(seen, op), run'[a].locks)
      /\ schema' = schema /\ rows' = rows /\ version' = version
      /\ Operating(a) /\ Succeeds(seen, RowsSeen(a), op)
      /\ \A b \in Attempts \ {a} : run'[b] = run[b]
  <2> DEFINE locks == run[a].locks \cup Touched(seen, op)
  <2>1. /\ run'[a].goal = run[a].goal /\ run'[a].from = run[a].from /\ run'[a].at = run[a].at
        /\ run'[a].step = run[a].step + 1 /\ run'[a].locks = locks
        /\ run'[a].objects = InTables(After(seen, op), locks)
        /\ schema' = schema /\ rows' = rows /\ version' = version
        /\ Operating(a) /\ Succeeds(seen, RowsSeen(a), op)
        /\ \A b \in Attempts \ {a} : run'[b] = run[b]
    BY <1>1, ExecuteIs
  <2> QED BY <2>1
<1>4. ~ (run[a].from = 5 /\ run[a].at = 4)
  BY <1>3, NoWayOn
<1>5. Proper(op)
  <2>1. Runs(Base(a), Script(a))
    BY <1>2, <1>3, <1>4, CourseIs DEF Operating
  <2> QED BY <1>2, <1>3, <2>1, OperationIs DEF Runs
<1>6. SchemaSeen(a)' = After(seen, op)
  BY <1>1, <1>2, <1>5, SeenAfter
<1>7. Placed(seen)
  BY <1>1, PlacedSeen DEF Schematic, RunFollows
<1> QED BY <1>1, <1>2, <1>3, <1>4, <1>5, <1>6, <1>7

LEMMA FollowsOn ==
  ASSUME SchemaInv, NEW a \in Attempts, Execute(a)
  PROVE  Follows(a)'
<1> DEFINE op == Operation(a)
           seen == SchemaSeen(a)
           locks == run[a].locks \cup Touched(seen, op)
           Z == Loose(a)
<1>1. /\ RunSound(a) /\ RunTyped(a) /\ Planned(a) /\ RunFollows(a)
      /\ Operating(a) /\ Succeeds(seen, RowsSeen(a), op)
      /\ ~ (run[a].from = 5 /\ run[a].at = 4) /\ Proper(op)
      /\ run'[a].goal = run[a].goal /\ run'[a].from = run[a].from /\ run'[a].at = run[a].at
      /\ run'[a].step = run[a].step + 1 /\ run'[a].locks = locks
      /\ run'[a].objects = InTables(After(seen, op), locks) /\ schema' = schema
  BY ExecuteFacts, ZenonT(30)
<1>2. run[a].step \in 1 .. Len(Script(a)) /\ op = Script(a)[run[a].step]
  BY <1>1, OperationIs
<1>3. Course(a)' = After(Course(a), op)
  <2> DEFINE stages == Stages(Base(a), Script(a))
  <2>1. Course(a) = stages[run[a].step - 1] /\ Len(Script(a)) \in 1 .. 16
    BY <1>1, CourseIs DEF Operating
  <2>2. stages[run[a].step] = After(stages[run[a].step - 1], op)
    <3>1. Len(Script(a)) \in 0 .. 16
      BY <2>1
    <3> QED BY <1>2, <3>1, StagesAre
  <2>3. Base(a)' = Base(a) /\ Script(a)' = Script(a)
    BY <1>1 DEF Base, Script, Up
  <2>4. run'[a].step # 1 /\ run'[a].step - 1 = run[a].step
    BY <1>1, <1>2
  <2>5. Course(a)' = stages[run[a].step]
    BY <2>3, <2>4 DEF Course
  <2> QED BY <2>1, <2>2, <2>5
<1>4. Loose(a)' = Z
  BY <1>1 DEF Loose, Falling
<1>5. Z \subseteq LooseNames /\ TypeStatusName \in Z
  BY LooseIs
<1>6. op.do = "drop" /\ op.lenient => op.what \subseteq Z \/ "memories" \in run[a].locks
  <2>1. SUFFICES ASSUME op.do = "drop", op.lenient, ~ Strict(op)
                 PROVE  op.what \subseteq Z \/ "memories" \in run[a].locks
    BY <1>5 DEF Strict
  <2>2. Falling(a)
    <3>1. Rising(a) => Strict(op)
      <4>1. ASSUME Rising(a) PROVE Strict(op)
        <5>1. run[a].at \in 0 .. 4 /\ Script(a) = Upgrades[run[a].at + 1]
          BY <1>1, <4>1, OperationIs
        <5> QED BY <1>2, <5>1, UpgradeOperations
      <4> QED BY <4>1
    <3> QED BY <1>1, <2>1, <3>1, OperationIs
  <2>3. run[a].at = 1
    <3>1. run[a].at \in 1 .. 5 /\ Script(a) = Downgrades[run[a].at]
      BY <1>1, <2>2, OperationIs
    <3> QED BY <1>2, <2>1, <3>1, DowngradeOperations
  <2>4. CASE run[a].from = 1
    <3>1. Z = LooseNames
      BY <2>2, <2>4, LooseIs
    <3>2. PICK n : op.what = {n} /\ Dropping(n, op.lenient)
      BY <1>1, <2>1 DEF Proper
    <3> QED BY <2>1, <3>1, <3>2 DEF Dropping
  <2>5. CASE run[a].from # 1
    <3>1. run[a].from \in 0 .. 5 /\ run[a].at <= run[a].from
      BY <1>1, <2>2, OperationIs DEF RunTyped, Versions, HeadRevision
    <3>2. PastDown(a, 2, 11)
      BY <2>2, <2>3, <2>5, <3>1 DEF PastDown
    <3> QED BY <1>1, <2>2, <3>2 DEF RunSound, Lowered
  <2> QED BY <2>4, <2>5
<1>7. ASSUME NEW t \in OwnTables, t \in run[a].locks,
             Core(schema, t, Z) = Core(Ladder[run[a].from], t, Z)
      PROVE  Core(seen, t, Z) = Core(Course(a), t, Z)
  BY <1>1, <1>7, CoreSeen DEF RunFollows, Follows, RunTyped
<1>8. ASSUME NEW t \in OwnTables, t \notin run[a].locks
      PROVE  /\ Core(Course(a), t, Z) = Core(Ladder[run[a].from], t, Z)
             /\ Core(seen, t, Z) = Core(schema, t, Z)
  BY <1>1, <1>8, CoreSeen DEF RunFollows, Follows, RunTyped
<1>9. ASSUME NEW t \in OwnTables, t \in locks,
             Core(schema, t, Z) = Core(Ladder[run[a].from], t, Z)
      PROVE  Core(run'[a].objects, t, Z) = Core(Course(a)', t, Z)
  <2>1. Core(seen, t, Z) = Core(Course(a), t, Z)
    BY <1>7, <1>8, <1>9
  <2>2. Core(After(seen, op), t, Z) = Core(After(Course(a), op), t, Z)
    BY <1>1, <1>5, <2>1, CoreAfter
  <2>3. Core(run'[a].objects, t, Z) = Core(After(seen, op), t, Z)
    BY <1>1, <1>9 DEF InTables, Core
  <2> QED BY <1>3, <2>2, <2>3
<1>10. ASSUME NEW t \in OwnTables, t \notin locks
       PROVE  Core(Course(a)', t, Z) = Core(Ladder[run[a].from], t, Z)
  <2>1. t \notin Touched(seen, op) /\ t \notin run[a].locks
    BY <1>10
  <2>2. op.do = "drop" /\ op.lenient => op.what \subseteq Z \/ t # "memories"
    BY <1>6, <2>1
  <2>3. Core(After(Course(a), op), t, Z) = Core(Course(a), t, Z)
    BY <1>1, <1>5, <2>1, <2>2, CoreUntouched
  <2> QED BY <1>3, <1>8, <2>1, <2>3
<1> HIDE DEF locks, Z
<1>11. /\ run'[a].locks = locks /\ run'[a].from = run[a].from /\ schema' = schema
  BY <1>1
<1> QED BY <1>4, <1>9, <1>10, <1>11 DEF Follows

LEMMA IndexedOn ==
  ASSUME SchemaInv, NEW a \in Attempts, Execute(a)
  PROVE  Indexed(a)'
<1> DEFINE op == Operation(a)
           seen == SchemaSeen(a)
           n == run[a].step
<1>1. /\ RunSound(a) /\ RunTyped(a) /\ Planned(a) /\ RunFollows(a)
      /\ Operating(a) /\ Proper(op) /\ Placed(seen)
      /\ run'[a].goal = run[a].goal /\ run'[a].from = run[a].from /\ run'[a].at = run[a].at
      /\ run'[a].step = n + 1 /\ run'[a].locks = run[a].locks \cup Touched(seen, op)
      /\ schema' = schema /\ SchemaSeen(a)' = After(seen, op)
  BY ExecuteFacts
<1>2. /\ n \in 1 .. Len(Script(a)) /\ op = Script(a)[n]
      /\ run[a].from \in 0 .. 5 /\ run[a].at \in 0 .. 5 /\ n \in 1 .. 20
  BY <1>1, OperationIs DEF RunTyped, Versions, HeadRevision
<1>3. PastUp(a, 2, 6)' => PastUp(a, 2, 6) \/ (Rising(a) /\ run[a].at = 2 /\ n = 6)
  BY <1>1, <1>2 DEF PastUp, Rising
<1>4. ASSUME Rising(a), run[a].at = 2, n = 6
      PROVE  "memories" \in Touched(seen, op) /\ Has(After(seen, op), TypeStatusName)
  <2>1. op = CreateIfMissing(TypeStatusIndex)
    <3>1. Script(a) = Upgrades[run[a].at + 1] /\ run[a].at + 1 = 3
      BY <1>1, <1>4, OperationIs
    <3>2. Script(a) = Upgrade0004
      BY <3>1 DEF Upgrades
    <3> QED BY <1>2, <1>4, <3>2, SpecialOperations
  <2>2. op.do = "create" /\ op.what = {TypeStatusIndex}
    BY <2>1 DEF CreateIfMissing, Op
  <2>3. TypeStatusIndex.table = "memories" /\ Name(TypeStatusIndex) = TypeStatusName
    BY DEF TypeStatusIndex, Index, Object, TypeStatusName
  <2>4. "memories" \in Touched(seen, op)
    BY <2>2, <2>3 DEF Touched, Tables
  <2>5. Has(After(seen, op), TypeStatusName)
    BY <2>2, <2>3 DEF After, Has
  <2> QED BY <2>4, <2>5
<1>5. PastUp(a, 2, 6)' => "memories" \in run'[a].locks
  BY <1>1, <1>3, <1>4 DEF RunFollows, Indexed
<1>6. ASSUME run[a].from < 3 \/ Has(schema, TypeStatusName),
             run[a].at >= 3 \/ PastUp(a, 2, 6), ~ PastDown(a, 3, 1)'
      PROVE  Has(After(seen, op), TypeStatusName)
  <2>1. ~ PastDown(a, 3, 1)
    BY <1>1, <1>2, <1>6 DEF PastDown, Falling
  <2>2. Has(seen, TypeStatusName)
    BY <1>1, <1>6, <2>1 DEF RunFollows, Indexed
  <2>3. Keeping(op)
    <3>1. CASE Rising(a)
      <4>1. run[a].at \in 0 .. 4 /\ Script(a) = Upgrades[run[a].at + 1]
        BY <1>1, <3>1, OperationIs
      <4> QED BY <1>2, <4>1, UpgradeOperations
    <3>2. CASE Falling(a)
      <4>1. run[a].at \in 1 .. 5 /\ Script(a) = Downgrades[run[a].at] /\ run[a].at <= run[a].from
        BY <1>1, <3>2, OperationIs
      <4>2. Keeping(op) \/ (run[a].at = 1 /\ n = 6) \/ (run[a].at = 3 /\ n = 1)
        BY <1>2, <4>1, DowngradeOperations
      <4>3. run[a].at # 1
        BY <1>6, <1>2 DEF PastUp
      <4>4. ~ (run[a].at = 3 /\ n = 1)
        BY <1>1, <1>2, <1>6, <3>2, <4>1 DEF PastDown, Falling
      <4> QED BY <4>2, <4>3, <4>4
    <3> QED BY <1>1, <3>1, <3>2, OperationIs
  <2> QED BY <1>1, <2>2, <2>3, IndexStays
<1>7. /\ run'[a].from < 3 \/ Has(schema', TypeStatusName)
      /\ run'[a].at >= 3 \/ PastUp(a, 2, 6)'
      /\ ~ PastDown(a, 3, 1)'
      => Has(SchemaSeen(a)', TypeStatusName)
  <2> HIDE DEF op, seen, n
  <2> QED BY <1>1, <1>3, <1>4, <1>6
<1> QED BY <1>5, <1>7 DEF Indexed

LEMMA BarredOn ==
  ASSUME SchemaInv, NEW a \in Attempts, Execute(a)
  PROVE  Barred(a)'
<1> DEFINE op == Operation(a)
           seen == SchemaSeen(a)
           n == run[a].step
<1>1. /\ RunTyped(a) /\ Planned(a) /\ RunFollows(a)
      /\ Operating(a) /\ Succeeds(seen, RowsSeen(a), op) /\ Proper(op)
      /\ ~ (run[a].from = 5 /\ run[a].at = 4)
      /\ run'[a].goal = run[a].goal /\ run'[a].from = run[a].from /\ run'[a].at = run[a].at
      /\ run'[a].step = n + 1 /\ run'[a].locks = run[a].locks \cup Touched(seen, op)
      /\ schema' = schema /\ SchemaSeen(a)' = After(seen, op)
  BY ExecuteFacts
<1>2. Falling(a)' <=> Falling(a)
  BY <1>1 DEF Falling
<1>3. n \in 1 .. 20
  BY <1>1 DEF RunTyped
<1>4. Barred(a)
  BY <1>1 DEF RunFollows
<1>5. run[a].from = 4 => "memories" \in run'[a].locks
  <2>1. run[a].from = 4 /\ run[a].at = 4 /\ n = 1 => "memories" \in Touched(seen, op)
    BY <1>1, FirstFromFour
  <2> QED BY <1>1, <1>4, <2>1 DEF Barred
<1>6. ASSUME run[a].from = 4, ~ Has(schema, NamespaceScopeName)
      PROVE  /\ run[a].at = 4 /\ n + 1 <= (IF Falling(a) THEN 1 ELSE 5)
             /\ ~ Has(After(seen, op), NamespaceScopeName)
  <2>1. run[a].at = 4 /\ n <= (IF Falling(a) THEN 1 ELSE 5) /\ ~ Has(seen, NamespaceScopeName)
    BY <1>4, <1>6 DEF Barred
  <2>2. /\ ~ (Falling(a) /\ n = 1) /\ ~ (~ Falling(a) /\ n = 5)
        /\ ~ Falling(a) /\ n < 5 => ~ Has(After(seen, op), NamespaceScopeName)
    BY <1>1, <1>6, <2>1, FirstFromFour
  <2> HIDE DEF op, seen
  <2> QED BY <1>3, <2>1, <2>2
<1>7. run[a].from = 5 => ~ (run[a].at < 5)
  BY <1>1, <1>4 DEF Barred
<1> HIDE DEF op, seen
<1> QED BY <1>1, <1>2, <1>5, <1>6, <1>7 DEF Barred

LEMMA EmptiedOn ==
  ASSUME SchemaInv, NEW a \in Attempts, Execute(a)
  PROVE  Emptied(a)'
<1> DEFINE op == Operation(a)
           seen == SchemaSeen(a)
           n == run[a].step
           all == <<"table", "memories", "memories">>
<1>1. /\ RunTyped(a) /\ Planned(a) /\ Operating(a)
      /\ run'[a].goal = run[a].goal /\ run'[a].from = run[a].from /\ run'[a].at = run[a].at
      /\ run'[a].step = n + 1
      /\ run'[a].objects = InTables(After(seen, op), run'[a].locks)
  BY ExecuteFacts
<1>2. SUFFICES ASSUME PastDown(a, 1, 6)' PROVE \A o \in After(seen, op) : o.table # "memories"
  BY <1>1 DEF Emptied, InTables
<1>3. Falling(a) /\ (run[a].at < 1 \/ (run[a].at = 1 /\ n + 1 > 6))
  BY <1>1, <1>2 DEF PastDown, Falling
<1>4. n \in 1 .. Len(Script(a)) /\ op = Script(a)[n] /\ run[a].at = 1 /\ Script(a) = Downgrades[run[a].at]
  BY <1>1, <1>3, OperationIs
<1>5. Script(a) = Downgrade0001
  BY <1>4 DEF Downgrades
<1>6. op = Op("drop", {all}, FALSE)
  <2>1. n = 6
    BY <1>3, <1>4, <1>5, ScriptLengths
  <2> QED BY <1>4, <1>5, <2>1, SpecialOperations
<1>7. After(seen, op) = seen \ Doomed(seen, all)
  <2>1. op.do = "drop" /\ op.what = {all}
    BY <1>6 DEF Op
  <2> QED BY <2>1 DEF After
<1>8. \A o \in seen : o.table = "memories" => o \in Doomed(seen, all)
  BY DEF Doomed, Within
<1> QED BY <1>7, <1>8

LEMMA RefilledOn ==
  ASSUME SchemaInv, NEW a \in Attempts, Execute(a)
  PROVE  Refilled(a)'
<1> DEFINE op == Operation(a)
           seen == SchemaSeen(a)
           n == run[a].step
<1>1. /\ RunTyped(a) /\ Planned(a) /\ Operating(a) /\ RunSound(a) /\ Shaped
      /\ run'[a].goal = run[a].goal /\ run'[a].from = run[a].from /\ run'[a].at = run[a].at
      /\ run'[a].step = n + 1
  BY ExecuteFacts
<1>2. SUFFICES ASSUME run[a].from = 5, run[a].at = 5, n + 1 = 3
               PROVE  /\ "memories" \in run'[a].locks
                      /\ \A i \in DOMAIN RowsSeen(a)' : RowsSeen(a)'[i].namespace # Null
  BY <1>1 DEF Refilled
<1>3. n = 2 /\ op = Script(a)[n]
  BY <1>1, <1>2, OperationIs DEF RunTyped
<1>4. Script(a) = Downgrade0006
  <2>1. Falling(a)
    BY <1>1, <1>2, OperationIs
  <2> QED BY <1>1, <1>2, <2>1, OperationIs DEF Downgrades
<1>5. op = Update("namespace")
  BY <1>3, <1>4, SpecialOperations
<1>6. op.do = "namespace"
  BY <1>5 DEF Update, Op
<1>7. "memories" \in Touched(seen, op)
  BY <1>6 DEF Touched
<1>8. \A i \in DOMAIN RowsSeen(a) : DOMAIN RowsSeen(a)[i] = Tracked
  <2>1. RowsTyped /\ RunRowsTyped(a)
    BY <1>1, SchemaInvParts, InvParts DEF RunSound
  <2> QED BY <2>1, RowsSeenTyped
<1>9. "memories" \in run'[a].locks /\ RowsSeen(a)' = RowsAfter(RowsSeen(a), op)
  BY <1>1, <1>7, <1>8, RowsSeenAfter
<1>10. RowsAfter(RowsSeen(a), op) = [i \in DOMAIN RowsSeen(a) |-> RowAfter(RowsSeen(a)[i], op)]
  BY <1>6 DEF RowsAfter
<1>11. ASSUME NEW row, DOMAIN row = Tracked PROVE RowAfter(row, op).namespace # Null
  <2>1. RowAfter(row, op) = [row EXCEPT !.namespace = IF row.workspace = Null THEN "default" ELSE row.workspace]
    BY <1>6 DEF RowAfter, Assigned
  <2>2. "namespace" \in DOMAIN row
    BY <1>11 DEF Tracked
  <2> QED BY <2>1, <2>2 DEF Null
<1> QED BY <1>8, <1>9, <1>10, <1>11

LEMMA ExecuteFollows ==
  ASSUME SchemaInv, NEW a \in Attempts, Execute(a)
  PROVE  SchemaInv'
<1>1. /\ MigrationsInv /\ \A b \in Attempts : RunSound(b) /\ RunFollows(b)
  BY SchemaInvParts, InvParts
<1>2. MigrationsInv'
  BY <1>1, ExecuteInv
<1>3. /\ Schematic /\ schema' = schema /\ version' = version
      /\ Proper(Operation(a)) /\ Placed(SchemaSeen(a))
      /\ run'[a].objects = InTables(After(SchemaSeen(a), Operation(a)), run'[a].locks)
      /\ \A b \in Attempts \ {a} : run'[b] = run[b]
  BY ExecuteFacts
<1>4. Schematic'
  BY <1>3 DEF Schematic
<1>5. RunFollows(a)'
  <2>1. Placed(After(SchemaSeen(a), Operation(a)))
    BY <1>3, AfterPlaced
  <2>2. Placed(run'[a].objects)
    BY <1>3, <2>1 DEF Placed, InTables
  <2>3. Follows(a)' /\ Indexed(a)' /\ Barred(a)' /\ Emptied(a)' /\ Refilled(a)'
    BY FollowsOn, IndexedOn, BarredOn, EmptiedOn, RefilledOn
  <2> QED BY <2>2, <2>3 DEF RunFollows
<1>6. ASSUME NEW b \in Attempts \ {a} PROVE RunFollows(b)'
  <2>1. Unmoved(run[b].locks)
    BY <1>3 DEF Unmoved
  <2> QED BY <1>1, <1>3, <2>1, FollowsStill DEF RunSound
<1> QED BY <1>2, <1>4, <1>5, <1>6, SchemaInvPartsAfter

(* A revision is through: its script has led to the schema of the next.    *)
LEMMA ScriptsLead ==
  ASSUME NEW v \in Versions, NEW up \in BOOLEAN, up => v < 5, ~ up => v > 0, NEW t, NEW Z
  PROVE  /\ up => Core(Built(Ladder[v], Upgrades[v + 1]), t, Z) = Core(Ladder[v + 1], t, Z)
         /\ ~ up /\ v < 5 => Core(Built(Ladder[v], Downgrades[v]), t, Z) = Core(Ladder[v - 1], t, Z)
         /\ ~ up /\ v = 5 => Built(Ladder[v], Downgrades[v]) = Degraded
<1>1. up => Built(Ladder[v], Upgrades[v + 1]) = Ladder[v + 1]
  <2>1. up => v + 1 \in 1 .. HeadRevision /\ (v + 1) - 1 = v
    BY DEF Versions, HeadRevision
  <2>2. up => Ladder[v + 1] = Built(Ladder[(v + 1) - 1], Upgrades[v + 1])
    BY <2>1, LadderIs
  <2> QED BY <2>1, <2>2
<1>2. ~ up /\ v \in 2 .. 4 => Built(Ladder[v], Downgrades[v]) = Ladder[v - 1]
  BY LadderNames
<1>3. ASSUME v = 1 PROVE Core(Built(Ladder[v], Downgrades[v]), t, Z) = Core(Ladder[v - 1], t, Z)
  <2>1. Built(Ladder[1], Downgrades[1]) = Schema(Extensions) /\ Ladder[0] = {}
    <3>1. Names0 \cup Extensions = Extensions
      BY DEF Names0
    <3> QED BY <3>1, LadderNames, LadderIs
  <2>2. \A o \in Schema(Extensions) : o.kind = "extension"
    BY DEF Schema, Extensions, ExtensionName, ObjectOf, Object
  <2>3. Core(Schema(Extensions), t, Z) = Core({}, t, Z)
    BY <2>2 DEF Core
  <2>4. v - 1 = 0
    BY <1>3
  <2> QED BY <1>3, <2>1, <2>3, <2>4
<1>4. v = 5 => Built(Ladder[v], Downgrades[v]) = Degraded
  BY DEF Degraded, HeadRevision, Downgrades
<1>5. ~ up /\ v < 5 => v = 1 \/ v \in 2 .. 4
  BY DEF Versions, HeadRevision
<1> QED BY <1>1, <1>2, <1>3, <1>4, <1>5

LEMMA ScriptOver ==
  ASSUME NEW m \in 1 .. 16, NEW n \in 1 .. 20, n > m, n <= m + 1
  PROVE  n # 1 /\ ~ (n <= 1) /\ n - 1 = m /\ (m = 6 => n = 7) /\ (m = 16 => n = 17)
  OBVIOUS

LEMMA StampFollows ==
  ASSUME SchemaInv, NEW a \in Attempts, Stamp(a)
  PROVE  SchemaInv'
<1> DEFINE v == run[a].at
           w == IF run[a].goal > v THEN v + 1 ELSE v - 1
           Z == Loose(a)
<1>1. /\ MigrationsInv /\ Schematic /\ Shaped /\ Apart(schema)
      /\ \A b \in Attempts : RunSound(b) /\ RunFollows(b)
  BY SchemaInvParts, InvParts
<1>2. RunTyped(a) /\ Planned(a) /\ RunFollows(a)
  BY <1>1 DEF RunSound
<1>3. /\ run'[a].goal = run[a].goal /\ run'[a].from = run[a].from
      /\ run'[a].at = w /\ run'[a].step = 1
      /\ run'[a].locks = run[a].locks \cup {AlembicTable}
      /\ run'[a].objects = run[a].objects /\ schema' = schema /\ version' = version
      /\ Stamping(a) /\ \A b \in Attempts \ {a} : run'[b] = run[b]
  BY <1>1, StampIs DEF Up
<1>4. /\ v # run[a].goal /\ run[a].step # 1 /\ ~ (run[a].step <= 1) /\ run[a].step - 1 = Len(Script(a))
      /\ Len(Script(a)) = 6 => run[a].step = 7
      /\ Len(Script(a)) = 16 => run[a].step = 17
      /\ run[a].from \in 0 .. 5 /\ v \in 0 .. 5 /\ run[a].goal \in 0 .. 5
  <2>1. v # run[a].goal /\ run[a].step > Len(Script(a))
    BY <1>3 DEF Stamping
  <2>2. Len(Script(a)) \in 1 .. 16
    BY <1>2, <2>1, CourseIs
  <2>3. run[a].step <= Len(Script(a)) + 1 /\ run[a].step \in 1 .. 20
    BY <1>2, <2>1 DEF Planned, RunTyped
  <2>4. /\ run[a].step # 1 /\ ~ (run[a].step <= 1) /\ run[a].step - 1 = Len(Script(a))
        /\ Len(Script(a)) = 6 => run[a].step = 7
        /\ Len(Script(a)) = 16 => run[a].step = 17
    BY <2>1, <2>2, <2>3, ScriptOver
  <2>5. run[a].from \in 0 .. 5 /\ v \in 0 .. 5 /\ run[a].goal \in 0 .. 5
    BY <1>2 DEF RunTyped, Versions, HeadRevision
  <2> QED BY <2>1, <2>2, <2>4, <2>5
<1>5. ~ (run[a].from = 5 /\ v = 4)
  BY <1>2, <1>4 DEF RunFollows, Barred
<1>6. \/ /\ run[a].goal > v /\ run[a].from <= v /\ v \in 0 .. 4 /\ w = v + 1 /\ Rising(a) /\ ~ Falling(a)
         /\ Script(a) = Upgrades[v + 1]
      \/ /\ ~ (run[a].goal > v) /\ v <= run[a].from /\ v \in 1 .. 5 /\ w = v - 1 /\ Falling(a) /\ ~ Rising(a)
         /\ Script(a) = Downgrades[v]
  <2>1. \/ run[a].from <= v /\ v <= run[a].goal
        \/ run[a].goal <= v /\ v <= run[a].from
    BY <1>2 DEF Planned
  <2>2. Script(a) = IF run[a].goal > v THEN Upgrades[v + 1] ELSE Downgrades[v]
    BY <1>2, <1>4, CourseIs
  <2> QED BY <1>4, <2>1, <2>2 DEF Rising, Falling
<1>7. /\ Base(a) = Ladder[v]
      /\ Course(a) = Built(Ladder[v], Script(a))
  <2>1. Base(a) = Ladder[v] /\ Course(a) = Stages(Base(a), Script(a))[run[a].step - 1]
    BY <1>2, <1>4, <1>5, CourseIs
  <2> QED BY <1>4, <2>1 DEF Built
<1>8. Course(a)' = IF run[a].from = 5 /\ w = 4 THEN Degraded ELSE Ladder[w]
  BY <1>3 DEF Course, Base
<1>9. Loose(a)' = Z
  BY <1>3 DEF Loose, Falling
<1>10. ASSUME NEW t PROVE Core(Course(a), t, Z) = Core(Course(a)', t, Z)
  <2>0. v \in Versions
    BY <1>4 DEF Versions, HeadRevision
  <2>1. CASE run[a].goal > v
    <3>1. v < 5 /\ w = v + 1 /\ Script(a) = Upgrades[v + 1] /\ ~ (run[a].from = 5 /\ w = 4)
      BY <1>4, <1>6, <2>1
    <3>2. Core(Built(Ladder[v], Upgrades[v + 1]), t, Z) = Core(Ladder[v + 1], t, Z)
      <4>1. TRUE \in BOOLEAN
        OBVIOUS
      <4> QED BY <2>0, <3>1, <4>1, ScriptsLead
    <3> QED BY <1>7, <1>8, <3>1, <3>2
  <2>2. CASE ~ (run[a].goal > v)
    <3>1. v > 0 /\ w = v - 1 /\ Script(a) = Downgrades[v] /\ v <= run[a].from
      BY <1>4, <1>6, <2>2
    <3>2. /\ v < 5 => Core(Built(Ladder[v], Downgrades[v]), t, Z) = Core(Ladder[v - 1], t, Z)
          /\ v = 5 => Built(Ladder[v], Downgrades[v]) = Degraded
      <4>1. FALSE \in BOOLEAN
        OBVIOUS
      <4> QED BY <2>0, <3>1, <4>1, ScriptsLead
    <3>3. CASE v = 5
      <4>1. run[a].from = 5 /\ w = 4
        BY <1>4, <3>1, <3>3
      <4> QED BY <1>7, <1>8, <3>1, <3>2, <3>3, <4>1
    <3>4. CASE v # 5
      <4>1. v < 5 /\ ~ (run[a].from = 5 /\ w = 4)
        BY <1>4, <1>5, <2>0, <3>1, <3>4 DEF Versions, HeadRevision, RunFollows, Barred
      <4> QED BY <1>7, <1>8, <3>1, <3>2, <4>1
    <3> QED BY <3>3, <3>4
  <2> QED BY <2>1, <2>2
<1>11. Follows(a)'
  <2>1. \A t \in OwnTables : t \in run'[a].locks <=> t \in run[a].locks
    BY <1>3 DEF OwnTables, AlembicTable
  <2>2. Follows(a)
    BY <1>2 DEF RunFollows
  <2> HIDE DEF v, w, Z
  <2>3. ASSUME NEW t \in OwnTables, t \in run[a].locks, Core(schema, t, Z) = Core(Ladder[run[a].from], t, Z)
        PROVE  Core(run[a].objects, t, Z) = Core(Course(a)', t, Z)
    BY <1>10, <2>2, <2>3 DEF Follows, Z
  <2>4. ASSUME NEW t \in OwnTables, t \notin run[a].locks
        PROVE  Core(Course(a)', t, Z) = Core(Ladder[run[a].from], t, Z)
    BY <1>10, <2>2, <2>4 DEF Follows, Z
  <2> QED BY <1>3, <1>9, <2>1, <2>3, <2>4 DEF Follows
<1>12. SchemaSeen(a)' = SchemaSeen(a)
  BY <1>1, <1>3 DEF SchemaSeen, Apart
<1>13. Indexed(a)'
  <2>1. Indexed(a)
    BY <1>2 DEF RunFollows
  <2>2. PastUp(a, 2, 6)' => PastUp(a, 2, 6)
    <3>1. CASE Rising(a)
      <4>1. w = v + 1 /\ v \in 0 .. 4
        BY <1>6, <3>1
      <4>2. v = 2 => run[a].step = 7
        <5>1. v = 2 => Script(a) = Upgrade0004
          <6>1. v = 2 => v + 1 = 3
            OBVIOUS
          <6> QED BY <1>6, <3>1, <6>1 DEF Upgrades
        <5>2. v = 2 => Len(Script(a)) = 6
          BY <5>1, ScriptLengths
        <5> QED BY <1>4, <5>2
      <4> QED BY <1>3, <1>4, <4>1, <4>2 DEF PastUp, Rising
    <3>2. CASE ~ Rising(a)
      BY <1>3, <3>2 DEF PastUp, Rising
    <3> QED BY <3>1, <3>2
  <2>3. ASSUME w >= 3 \/ PastUp(a, 2, 6)', run[a].from < 3 \/ Has(schema, TypeStatusName)
        PROVE  /\ v >= 3 \/ PastUp(a, 2, 6)
               /\ ~ PastDown(a, 3, 1)
    <3>1. CASE Rising(a)
      <4>1. ~ Falling(a) /\ w = v + 1 /\ run[a].from <= v
        BY <1>6, <3>1
      <4>2. v = 2 => run[a].step = 7
        <5>1. v = 2 => Script(a) = Upgrade0004
          <6>1. v = 2 => v + 1 = 3
            OBVIOUS
          <6> QED BY <1>6, <3>1, <6>1 DEF Upgrades
        <5>2. v = 2 => Len(Script(a)) = 6
          BY <5>1, ScriptLengths
        <5> QED BY <1>4, <5>2
      <4> QED BY <1>4, <2>2, <2>3, <3>1, <4>1, <4>2 DEF PastUp, PastDown
    <3>2. CASE ~ Rising(a)
      <4>1. w = v - 1 /\ ~ PastUp(a, 2, 6)
        BY <1>6, <3>2 DEF PastUp
      <4> QED BY <1>4, <2>2, <2>3, <4>1 DEF PastDown
    <3> QED BY <3>1, <3>2
  <2> HIDE DEF v, w
  <2>4. PastUp(a, 2, 6)' => "memories" \in run'[a].locks
    BY <1>3, <2>1, <2>2 DEF Indexed
  <2>5. v = run[a].at
    BY DEF v
  <2> QED BY <1>3, <1>12, <2>1, <2>3, <2>4, <2>5 DEF Indexed
<1>14. Barred(a)'
  <2>1. Barred(a)
    BY <1>2 DEF RunFollows
  <2>2. run[a].from = 4 => "memories" \in run[a].locks
    BY <1>4, <2>1 DEF Barred
  <2>3. run[a].from = 4 => Has(schema, NamespaceScopeName)
    <3>1. SUFFICES ASSUME run[a].from = 4, v = 4, run[a].step <= (IF Falling(a) THEN 1 ELSE 5) PROVE FALSE
      BY <2>1 DEF Barred
    <3>2. CASE Falling(a)
      <4>1. run[a].step <= 1
        BY <3>1, <3>2
      <4> QED BY <1>4, <4>1
    <3>3. CASE ~ Falling(a)
      <4>1. v + 1 = 5 /\ Script(a) = Upgrades[v + 1]
        BY <1>6, <3>1, <3>3
      <4>2. Script(a) = Upgrade0006
        BY <4>1 DEF Upgrades
      <4>3. run[a].step = 17
        BY <1>4, <4>2, ScriptLengths
      <4> QED BY <3>1, <3>3, <4>3
    <3> QED BY <3>2, <3>3
  <2>4. run[a].from = 5 /\ w < 5 => w = 4
    <3>1. run[a].from = 5 => ~ (v < 5)
      BY <1>4, <2>1 DEF Barred
    <3> QED BY <1>4, <3>1
  <2> HIDE DEF w
  <2> QED BY <1>3, <2>2, <2>3, <2>4 DEF Barred
<1>15. Emptied(a)'
  <2>1. PastDown(a, 1, 6)' => PastDown(a, 1, 6)
    <3>1. SUFFICES ASSUME Falling(a), w < 1 PROVE PastDown(a, 1, 6)
      BY <1>3 DEF PastDown, Falling
    <3>2. v = 1 /\ Script(a) = Downgrades[v] /\ v <= run[a].from
      BY <1>4, <1>6, <3>1
    <3>3. run[a].step = 7
      <4>1. Script(a) = Downgrade0001
        BY <3>2 DEF Downgrades
      <4>2. Len(Script(a)) = 6
        BY <4>1, ScriptLengths
      <4> QED BY <1>4, <4>2
    <3> QED BY <3>1, <3>2, <3>3 DEF PastDown
  <2> QED BY <1>2, <1>3, <2>1 DEF RunFollows, Emptied
<1>16. Refilled(a)'
  BY <1>3 DEF Refilled
<1>17. RunFollows(a)'
  BY <1>2, <1>3, <1>11, <1>13, <1>14, <1>15, <1>16 DEF RunFollows
<1>18. ASSUME NEW b \in Attempts \ {a} PROVE RunFollows(b)'
  <2>1. Unmoved(run[b].locks)
    BY <1>3 DEF Unmoved
  <2> QED BY <1>1, <1>3, <2>1, FollowsStill DEF RunSound
<1>19. MigrationsInv' /\ Schematic'
  BY <1>1, <1>3, StampInv DEF Schematic
<1> QED BY <1>17, <1>18, <1>19, SchemaInvPartsAfter

-----------------------------------------------------------------------------
(* The schema, whatever attempts do.                                       *)

LEMMA SchemaInvInit == Init => SchemaInv
<1> SUFFICES ASSUME Init PROVE SchemaInv
  OBVIOUS
<1>1. /\ version \in 0 .. 4 /\ version \in Versions /\ schema = Ladder[version]
      /\ run = [a \in Attempts |-> Waiting]
  BY MigrationsBounds DEF Init, Versions, HeadRevision
<1>2. Schematic
  <2>1. Placed(schema) /\ Alike(schema, Ladder[version], {TypeStatusName})
    BY <1>1, LadderNames DEF Alike
  <2>2. version >= 3 => Has(schema, TypeStatusName)
    BY <1>1, LadderHas DEF Has, TypeStatusName, HeadRevision
  <2>3. version = 0 => \A o \in schema : o.table # "memories"
    BY <1>1, LadderIs
  <2> QED BY <2>1, <2>2, <2>3 DEF Schematic
<1>3. ASSUME NEW a \in Attempts PROVE RunFollows(a)
  <2>1. /\ run[a].locks = {} /\ run[a].objects = {} /\ run[a].step = 1 /\ run[a].from = 0 /\ run[a].at = 0
    BY <1>1 DEF Waiting
  <2>2. 0 \in Versions
    BY DEF Versions, HeadRevision
  <2> QED BY <2>1, <2>2, FreshFollows
<1> QED BY <1>2, <1>3, InvInit, SchemaInvParts

(* A step that only the records of attempts, or the memories, see.         *)
LEMMA RecordFollows ==
  ASSUME SchemaInv, MigrationsInv', schema' = schema, version' = version, NEW a \in Attempts,
         RunFollows(a)', \A b \in Attempts \ {a} : run'[b] = run[b]
  PROVE  SchemaInv'
<1>1. Schematic' /\ \A b \in Attempts : Unmoved(run[b].locks)
  BY SchemaInvParts DEF Schematic, Unmoved
<1>2. \A b \in Attempts : RunTyped(b) /\ Planned(b) /\ RunFollows(b)
  BY SchemaInvParts, InvParts DEF RunSound
<1>3. \A b \in Attempts \ {a} : RunFollows(b)'
  BY <1>1, <1>2, FollowsStill
<1> QED BY <1>1, <1>3, SchemaInvPartsAfter

LEMMA StillFollows ==
  ASSUME SchemaInv, MigrationsInv', schema' = schema, version' = version, run' = run
  PROVE  SchemaInv'
<1>1. Schematic' /\ \A b \in Attempts : Unmoved(run[b].locks)
  BY SchemaInvParts DEF Schematic, Unmoved
<1>2. \A b \in Attempts : RunTyped(b) /\ Planned(b) /\ RunFollows(b)
  BY SchemaInvParts, InvParts DEF RunSound
<1>3. \A b \in Attempts : RunFollows(b)'
  BY <1>1, <1>2, FollowsStill
<1> QED BY <1>1, <1>3, SchemaInvPartsAfter

LEMMA SchemaInvNext == SchemaInv /\ [Next]_vars => SchemaInv'
<1> SUFFICES ASSUME SchemaInv, [Next]_vars PROVE SchemaInv'
  OBVIOUS
<1>0. MigrationsInv /\ MigrationsInv' /\ Shaped /\ version \in Versions
  BY SchemaInvParts, InvParts, InvNext
<1>1. ASSUME NEW a \in Attempts, Plan(a) PROVE SchemaInv'
  <2>1. /\ run'[a].locks = {} /\ run'[a].objects = {} /\ run'[a].step = 1 /\ run'[a].from = version
        /\ run'[a].at = version /\ schema' = schema /\ version' = version
        /\ \A b \in Attempts \ {a} : run'[b] = run[b]
    BY <1>0, <1>1, PlanIs
  <2>2. RunFollows(a)'
    BY <1>0, <2>1, FreshFollowsAfter
  <2> QED BY <1>0, <2>1, <2>2, RecordFollows
<1>2. ASSUME NEW a \in Attempts, Execute(a) PROVE SchemaInv'
  BY <1>2, ExecuteFollows
<1>3. ASSUME NEW a \in Attempts, Stamp(a) PROVE SchemaInv'
  BY <1>3, StampFollows
<1>4. ASSUME NEW a \in Attempts, Commit(a) PROVE SchemaInv'
  BY <1>4, CommitFollows
<1>5. ASSUME NEW a \in Attempts, OperationFails(a) \/ StampFails(a) \/ DeadlockVictim(a) \/ Dies(a)
      PROVE  SchemaInv'
  <2>1. /\ schema' = schema /\ version' = version
        /\ End(a, "failed") \/ End(a, "aborted") \/ End(a, "dead")
    BY <1>5 DEF OperationFails, StampFails, DeadlockVictim, Dies
  <2>2. /\ run'[a].locks = {} /\ run'[a].objects = {} /\ run'[a].step = 1 /\ run'[a].from = 0
        /\ run'[a].at = 0 /\ \A b \in Attempts \ {a} : run'[b] = run[b]
    BY <1>0, <2>1, EndIs
  <2>3. 0 \in Versions
    BY DEF Versions, HeadRevision
  <2>4. RunFollows(a)'
    BY <2>2, <2>3, FreshFollowsAfter
  <2> QED BY <1>0, <2>1, <2>2, <2>4, RecordFollows
<1>6. CASE Remember
  BY <1>0, <1>6, StillFollows DEF Remember
<1>7. CASE UNCHANGED vars
  BY <1>0, <1>7, StillFollows DEF vars
<1> QED BY <1>1, <1>2, <1>3, <1>4, <1>5, <1>6, <1>7 DEF Next, Step, Ended

(* However attempts race, fail and die, what each has made of a table it   *)
(* has locked is what its scripts make of the schema of the version it     *)
(* started from, if that is what it found.  (env.py, and every revision)   *)
THEOREM SchemaInvariantHolds == Spec => []SchemaInv
  BY SchemaInvInit, SchemaInvNext, PTL DEF Spec

LEMMA OwnAlike ==
  ASSUME NEW s, Placed(s), NEW u, Placed(u), Alike(s, u, {TypeStatusName})
  PROVE  Own(s) \ {TypeStatusIndex} = Own(u) \ {TypeStatusIndex}
<1>1. ASSUME NEW x, NEW y, Placed(x), Alike(x, y, {TypeStatusName}),
             NEW o \in Own(x) \ {TypeStatusIndex}
      PROVE  o \in Own(y) \ {TypeStatusIndex}
  <2>1. o \in x /\ o.kind # "extension" /\ o.table \in OwnTables /\ Name(o) # TypeStatusName
    BY <1>1 DEF Own, Placed
  <2>2. o \in Core(x, o.table, {TypeStatusName})
    BY <2>1 DEF Core
  <2>3. Core(x, o.table, {TypeStatusName}) = Core(y, o.table, {TypeStatusName})
    BY <1>1, <2>1 DEF Alike
  <2> QED BY <1>1, <2>1, <2>2, <2>3 DEF Core, Own
<1>2. Alike(u, s, {TypeStatusName})
  BY DEF Alike
<1>3. \A o \in Own(s) \ {TypeStatusIndex} : o \in Own(u) \ {TypeStatusIndex}
  BY <1>1
<1>4. \A o \in Own(u) \ {TypeStatusIndex} : o \in Own(s) \ {TypeStatusIndex}
  BY <1>1, <1>2
<1> QED BY <1>3, <1>4

LEMMA OwnIndex ==
  ASSUME NEW s, Placed(s)
  PROVE  Has(s, TypeStatusName) <=> TypeStatusIndex \in Own(s)
<1>1. TypeStatusIndex.kind # "extension" /\ Name(TypeStatusIndex) = TypeStatusName
  BY DEF TypeStatusIndex, Index, Object, TypeStatusName
<1> QED BY <1>1 DEF Has, Own, Placed

LEMMA SchemaFollowsVersion == SchemaInv => SchemaOfVersion
<1> SUFFICES ASSUME SchemaInv PROVE SchemaOfVersion
  OBVIOUS
<1>1. Schematic /\ version \in 0 .. 5 /\ Placed(schema)
  BY SchemaInvParts, InvParts DEF Versions, HeadRevision, Schematic
<1>2. Placed(Ladder[version]) /\ Placed(Degraded)
  BY <1>1, LadderNames DEF Versions, HeadRevision
<1>3. CASE Upright
  <2>1. Own(schema) \ {TypeStatusIndex} = Own(Ladder[version]) \ {TypeStatusIndex}
    BY <1>1, <1>2, <1>3, OwnAlike DEF Upright
  <2>2. CASE version >= 3
    <3>1. TypeStatusIndex \in Own(Ladder[version])
      <4>1. TypeStatusIndex \in Ladder[version]
        BY <1>1, <2>2, LadderHas DEF HeadRevision
      <4> QED BY <4>1 DEF Own, TypeStatusIndex, Index, Object
    <3>2. TypeStatusIndex \in Own(schema)
      BY <1>1, <2>2, OwnIndex DEF Schematic
    <3> QED BY <2>1, <3>1, <3>2 DEF SchemaOfVersion
  <2>3. CASE ~ (version >= 3)
    <3>1. TypeStatusIndex \notin Own(Ladder[version])
      BY <1>1, <1>2, <2>3, LadderHas, OwnIndex
    <3>2. CASE TypeStatusIndex \notin Own(schema)
      BY <2>1, <3>1, <3>2 DEF SchemaOfVersion
    <3>3. CASE TypeStatusIndex \in Own(schema)
      <4>1. TypeStatusIndex \in schema /\ TypeStatusIndex.table = "memories"
        BY <3>3 DEF Own, TypeStatusIndex, Index, Object
      <4>2. version # 0
        BY <1>1, <4>1 DEF Schematic
      <4>3. version \in {1, 2}
        BY <1>1, <2>3, <4>2
      <4>4. Own(schema) = Own(Ladder[version]) \cup {TypeStatusIndex}
        BY <2>1, <3>1, <3>3
      <4> QED BY <4>3, <4>4 DEF SchemaOfVersion
    <3> QED BY <3>2, <3>3
  <2> QED BY <2>2, <2>3
<1>4. CASE Bent /\ Has(schema, TypeStatusName)
  <2>1. Own(schema) \ {TypeStatusIndex} = Own(Degraded) \ {TypeStatusIndex}
    BY <1>1, <1>2, <1>4, OwnAlike DEF Bent
  <2>2. TypeStatusIndex \in Own(schema) /\ TypeStatusIndex \in Own(Degraded)
    <3>1. TypeStatusIndex \in Degraded
      BY LadderHas
    <3> QED BY <1>1, <1>4, <3>1, OwnIndex DEF Own, TypeStatusIndex, Index, Object
  <2>3. Own(schema) = Own(Degraded) /\ version = HeadRevision - 1
    BY <1>4, <2>1, <2>2 DEF Bent, HeadRevision
  <2> QED BY <2>3 DEF SchemaOfVersion
<1> QED BY <1>1, <1>3, <1>4 DEF Schematic, Upright, Bent

(* Whatever attempts race, fail or die, in any number and from any version *)
(* to any: the committed schema is the one of its version, but for the one *)
(* index that may stay and for what the downgrade of 0006 leaves.          *)
THEOREM SchemaAlwaysOfVersion == Spec => []SchemaOfVersion
  BY SchemaInvariantHolds, SchemaFollowsVersion, PTL

(* At the head the schema is one that the ORM classes can write to, on     *)
(* every way there.  (models.py beside migrate/versions)                   *)
THEOREM HeadAlwaysFitsModels == Spec => []HeadFitsModels
<1>1. ASSUME SchemaInv, version = HeadRevision PROVE OrmFits(schema)
  <2>1. Own(schema) = Own(Ladder[HeadRevision])
    BY <1>1, SchemaFollowsVersion DEF SchemaOfVersion, HeadRevision
  <2>2. ASSUME NEW o, o.kind # "extension" PROVE o \in schema <=> o \in Ladder[HeadRevision]
    BY <2>1, <2>2 DEF Own
  <2>3. ColumnsOf(schema) = ColumnsOf(Ladder[HeadRevision])
    BY <2>2 DEF ColumnsOf
  <2> QED BY <2>2, <2>3, HeadFits DEF OrmFits
<1>2. SchemaInv => HeadFitsModels
  BY <1>1 DEF HeadFitsModels
<1> QED BY <1>2, SchemaInvariantHolds, PTL

(* The memories that an attempt sees fill the columns it marks NOT NULL.   *)
LEMMA SeesFilled ==
  ASSUME SchemaInv, NEW a \in Attempts, Operating(a), version = run[a].from, NEW s
  PROVE  Filling(s, RowsSeen(a), Operation(a))
<1> DEFINE op == Operation(a)
           n == run[a].step
<1>1. /\ RunSound(a) /\ RunTyped(a) /\ Planned(a) /\ RunFollows(a) /\ RowsFit
  BY SchemaInvParts, InvParts DEF RunSound
<1>2. n \in 1 .. Len(Script(a)) /\ op = Script(a)[n]
  BY <1>1, OperationIs
<1>3. SUFFICES ASSUME ~ SelfFilled(op) PROVE Filling(s, RowsSeen(a), op)
  BY DEF SelfFilled
<1>4. CASE Rising(a)
  <2>1. run[a].at \in 0 .. 4 /\ run[a].from <= run[a].at /\ Script(a) = Upgrades[run[a].at + 1]
    BY <1>1, <1>4, OperationIs
  <2>2. run[a].at = 0
    BY <1>2, <1>3, <2>1, UpgradeOperations
  <2>3. version = 0
    BY <1>1, <2>1, <2>2 DEF RunTyped, Versions, HeadRevision
  <2>4. DOMAIN RowsSeen(a) = {}
    BY <1>1, <1>4, <2>3 DEF RunSound, Raised, RowsFit
  <2> QED BY <2>4 DEF Filling, Filled
<1>5. CASE Falling(a)
  <2>1. run[a].at \in 1 .. 5 /\ run[a].at <= run[a].from /\ Script(a) = Downgrades[run[a].at]
    BY <1>1, <1>5, OperationIs
  <2>2. run[a].at = 5 /\ n = 3
    BY <1>2, <1>3, <2>1, DowngradeOperations
  <2>3. run[a].from = 5
    BY <1>1, <2>1, <2>2 DEF RunTyped, Versions, HeadRevision
  <2>4. \A i \in DOMAIN RowsSeen(a) : RowsSeen(a)[i].namespace # Null
    BY <1>1, <2>2, <2>3 DEF RunFollows, Refilled
  <2>5. op = Create({NotNull("memories", "namespace")})
    BY <1>2, <2>1, <2>2 DEF Downgrades, Downgrade0006
  <2>6. op.what = {NotNull("memories", "namespace")}
    BY <2>5 DEF Create, Op
  <2>7. NotNull("memories", "namespace").name = "namespace"
    BY DEF NotNull, Object
  <2> QED BY <2>4, <2>6, <2>7 DEF Filling, Filled, Tracked
<1> QED BY <1>1, <1>4, <1>5, OperationIs

LEMMA DropsOf0001 == \A n \in 1 .. 6 : Downgrade0001[n].do = "drop"
<1>1. /\ Downgrade0001[1].do = "drop" /\ Downgrade0001[2].do = "drop" /\ Downgrade0001[3].do = "drop"
      /\ Downgrade0001[4].do = "drop" /\ Downgrade0001[5].do = "drop" /\ Downgrade0001[6].do = "drop"
  BY DEF Downgrade0001, DropIfExists, DropIndex, DropTable, Drop, Op
<1> QED BY <1>1

(* On a schema of the ladder no operation fails.                           *)
LEMMA OperationSucceeds ==
  ASSUME SchemaInv, NEW a \in Attempts, Operating(a), version = run[a].from, Upright,
         ~ (run[a].from = 5 /\ run[a].at = 4)
  PROVE  Succeeds(SchemaSeen(a), RowsSeen(a), Operation(a))
<1> DEFINE op == Operation(a)
<1>1. /\ RunTyped(a) /\ Planned(a) /\ RunFollows(a) /\ Schematic
  BY SchemaInvParts, InvParts DEF RunSound
<1>2. run[a].step \in 1 .. Len(Script(a)) /\ op = Script(a)[run[a].step]
  BY <1>1, OperationIs
<1>3. Course(a) = Stages(Base(a), Script(a))[run[a].step - 1] /\ Runs(Base(a), Script(a))
  BY <1>1, CourseIs DEF Operating
<1>4. Proper(op) /\ Fitting(Course(a), op) /\ Placed(Course(a))
  <2>1. Proper(op) /\ Fitting(Course(a), op)
    BY <1>2, <1>3 DEF Runs
  <2>2. run[a].step - 1 \in 0 .. Len(Script(a))
    BY <1>2, <1>3 DEF Runs
  <2> QED BY <1>3, <2>1, <2>2 DEF Runs
<1>5. Succeeds(Course(a), RowsSeen(a), op)
  BY <1>4, SeesFilled DEF Fitting
<1>6. Alike(SchemaSeen(a), Course(a), Loose(a))
  BY <1>1, SeesCourse DEF Upright
<1>7. Placed(SchemaSeen(a))
  BY <1>1, PlacedSeen DEF Schematic, RunFollows
<1>8. op.do = "create" => Loose(a) = {TypeStatusName}
  <2>1. SUFFICES ASSUME Falling(a), run[a].from = 1 PROVE op.do # "create"
    BY LooseIs
  <2>2. run[a].at \in 1 .. 5 /\ run[a].at <= 1 /\ Script(a) = Downgrades[run[a].at]
    BY <1>1, <2>1, OperationIs
  <2>3. Script(a) = Downgrade0001
    BY <2>2 DEF Downgrades
  <2> QED BY <1>2, <2>3, ScriptLengths, DropsOf0001
<1> QED BY <1>4, <1>5, <1>6, <1>7, <1>8, LooseIs, SucceedsAlike

LEMMA FailureIs ==
  ASSUME Shaped, [Next]_vars, NEW a \in Attempts, Fails(a)
  PROVE  OperationFails(a) \/ StampFails(a)
<1>1. run[a].stage = "running" /\ run'[a].stage = "failed"
  BY DEF Fails
<1>2. ASSUME NEW b \in Attempts, Plan(b) \/ Execute(b) \/ Stamp(b) PROVE FALSE
  <2>1. b # a => run'[a] = run[a]
    BY <1>2, PlanIs, ExecuteIs, StampIs
  <2>2. Plan(a) => run'[a].stage = "running"
    BY PlanIs
  <2>3. Execute(a) => run'[a].stage = "running"
    BY <1>1, ExecuteIs
  <2>4. Stamp(a) => run'[a].stage = "running"
    BY <1>1, StampIs
  <2> QED BY <1>1, <1>2, <2>1, <2>2, <2>3, <2>4
<1>3. ASSUME NEW b \in Attempts, NEW stage, End(b, stage) PROVE b = a /\ stage = "failed"
  <2>1. run'[b].stage = stage /\ (b # a => run'[a] = run[a])
    BY <1>3, EndIs
  <2> QED BY <1>1, <2>1
<1>4. ASSUME NEW b \in Attempts PROVE ~ Commit(b) /\ ~ DeadlockVictim(b) /\ ~ Dies(b)
  BY <1>3 DEF Commit, DeadlockVictim, Dies
<1>5. ASSUME NEW b \in Attempts, OperationFails(b) \/ StampFails(b) PROVE b = a
  BY <1>3, <1>5 DEF OperationFails, StampFails
<1>6. run' # run
  BY <1>1
<1>7. ~ Remember /\ ~ UNCHANGED vars
  BY <1>6 DEF Remember, vars
<1> QED BY <1>2, <1>4, <1>5, <1>7 DEF Next, Step, Ended

(* An attempt fails only if another one moved the version before it, or if *)
(* it starts from, or comes to, what the downgrade of 0006 leaves: each    *)
(* operation of each script, at any interleaving, finds what it needs.     *)
THEOREM FailsOnlyForAReason == Spec => FailsForAReason
<1>1. ASSUME SchemaInv, [Next]_vars, NEW a \in Attempts, Fails(a)
      PROVE  \/ version # run[a].from
             \/ Own(schema) = Own(Degraded)
             \/ run[a].from = HeadRevision /\ run[a].at = HeadRevision - 1
  <2>1. /\ Shaped /\ RunTyped(a) /\ Planned(a) /\ Schematic
    BY <1>1, SchemaInvParts, InvParts DEF RunSound
  <2>2. OperationFails(a) \/ StampFails(a)
    BY <1>1, <2>1, FailureIs
  <2>3. SUFFICES ASSUME version = run[a].from, ~ (run[a].from = 5 /\ run[a].at = 4)
                 PROVE  Own(schema) = Own(Degraded)
    BY DEF HeadRevision
  <2>4. ~ StampFails(a)
    BY <2>1, <2>3 DEF StampFails, Expected, Planned, AlembicTable
  <2>5. Operating(a) /\ ~ Succeeds(SchemaSeen(a), RowsSeen(a), Operation(a))
    BY <2>2, <2>4 DEF OperationFails
  <2>6. ~ Upright
    BY <1>1, <2>3, <2>5, OperationSucceeds
  <2>7. Bent /\ Has(schema, TypeStatusName)
    BY <2>1, <2>6 DEF Schematic, Upright, Bent
  <2>8. Own(schema) \ {TypeStatusIndex} = Own(Degraded) \ {TypeStatusIndex}
    BY <2>1, <2>7, LadderNames, OwnAlike DEF Schematic, Bent
  <2>9. TypeStatusIndex \in Own(schema) /\ TypeStatusIndex \in Own(Degraded)
    BY <2>1, <2>7, LadderHas, OwnIndex DEF Schematic, Own, TypeStatusIndex, Index, Object
  <2> QED BY <2>8, <2>9
<1>2. ASSUME SchemaInv, [Next]_vars
      PROVE  [\A a \in Attempts : Fails(a) =>
                \/ version # run[a].from
                \/ Own(schema) = Own(Degraded)
                \/ run[a].from = HeadRevision /\ run[a].at = HeadRevision - 1]_vars
  BY <1>1, <1>2
<1> QED BY <1>2, SchemaInvariantHolds, PTL DEF Spec, FailsForAReason
=============================================================================
