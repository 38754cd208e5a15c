---------------------------- MODULE ServingProofs ----------------------------
(***************************************************************************)
(* What Serving promises, for any number of clients, memories, connections,*)
(* retries and outages: one lemma for each part of the invariant.          *)
(***************************************************************************)
EXTENDS ServingInvariant, FiniteSetTheorems, TLAPS

-----------------------------------------------------------------------------
(* Sets of memories are finite.                                            *)

(* A set of memories has at most MaxRows members.                          *)
LEMMA IdsFinite ==
  ASSUME NEW S \in SUBSET Ids
  PROVE  IsFiniteSet(S) /\ Cardinality(S) \in 0 .. MaxRows
<1>1. IsFiniteSet(Ids) /\ Cardinality(Ids) = MaxRows
  BY FS_Interval, ServingBounds DEF Ids
<1>2. IsFiniteSet(S) /\ Cardinality(S) <= MaxRows
  BY <1>1, FS_Subset
<1> QED BY <1>2, FS_CardinalityType, ServingBounds

(* Known, Active and Gone are such sets; the last two part the first.      *)
LEMMA CorpusSets ==
  /\ Known \in SUBSET Ids /\ Active \in SUBSET Ids /\ Gone \in SUBSET Ids
  /\ Active \subseteq Known /\ Gone = Known \ Active
BY DEF Known, Active, Gone

(* The ids that are active and those that are gone are those known.        *)
LEMMA CountsAdd == Cardinality(Active) + Cardinality(Gone) = Cardinality(Known)
<1>1. IsFiniteSet(Known) /\ IsFiniteSet(Active)
  BY CorpusSets, IdsFinite
<1>2. Known \cap Active = Active
  BY CorpusSets
<1>3. Cardinality(Known \ Active) = Cardinality(Known) - Cardinality(Known \cap Active)
  BY <1>1, FS_Difference
<1>4. Cardinality(Known) \in Int /\ Cardinality(Active) \in Int
  BY CorpusSets, IdsFinite, ServingBounds
<1>5. Gone = Known \ Active
  BY CorpusSets
<1>6. Cardinality(Gone) = Cardinality(Known) - Cardinality(Active)
  BY <1>2, <1>3, <1>5, Zenon
<1> QED BY <1>4, <1>6

(* A larger set of memories counts no less.                                *)
LEMMA CountsGrow ==
  ASSUME NEW T \in SUBSET Ids, NEW S \in SUBSET T
  PROVE  Cardinality(S) <= Cardinality(T)
BY IdsFinite, FS_Subset

-----------------------------------------------------------------------------
(* Commits.                                                                *)

(* What one commit does to the memories: none, one stored, one retired, or *)
(* both, the stored one new and the client's own.                          *)
LEMMA EffectShape ==
  ASSUME ServingTypeOK, NEW c \in Clients, Effect(c)
  PROVE  /\ Corpus!TypeOK' /\ author' \in [Ids -> Clients \cup {NoClient}]
         /\ \A i \in Ids : life[i] # "unknown" => life'[i] # "unknown"
         /\ \A i \in Ids : life[i] \in Corpus!Gone => life'[i] \in Corpus!Gone
         /\ \A i \in Ids : author'[i] # author[i] => author'[i] = c /\ life[i] = "unknown"
         /\ \A i \in Ids : life'[i] = "active" =>
              life[i] = "active" \/ (author'[i] = c /\ life[i] = "unknown")
<1>1. /\ life \in [Ids -> {"unknown", "active", "retired", "consolidated"}]
      /\ heir \in [Ids -> Ids \cup {NoId}]
      /\ author \in [Ids -> Clients \cup {NoClient}]
      /\ aim[c] \in Ids \cup {NoId}
  BY DEF ServingTypeOK, Corpus!TypeOK, Corpus!Gone, Corpus!Ids, Ids, Corpus!NoId, NoId
<1>2. NoId \notin Ids
  BY DEF NoId, Ids
<1> DEFINE n == Cardinality(Known) + 1
<1> HIDE DEF n
<1> USE DEF Corpus!TypeOK, Corpus!Gone, Corpus!Ids, Ids, Corpus!NoId, NoId
<1>3. CASE UNCHANGED corpusVars
  BY <1>1, <1>3 DEF corpusVars
<1>4. CASE n \in Ids /\ author' = [author EXCEPT ![n] = c] /\ Corpus!Store(n)
  BY <1>1, <1>4 DEF Corpus!Store
<1>5. CASE /\ n \in Ids /\ author' = [author EXCEPT ![n] = c]
           /\ aim[c] # NoId /\ Corpus!Replace(aim[c], n)
  BY <1>1, <1>5 DEF Corpus!Replace
<1>6. CASE aim[c] # NoId /\ Corpus!Forget(aim[c]) /\ UNCHANGED author
  BY <1>1, <1>6 DEF Corpus!Forget
<1> QED BY <1>3, <1>4, <1>5, <1>6 DEF Effect, n

-----------------------------------------------------------------------------
(* Type correctness.                                                       *)

(* The counters of the pool are numbers.                                   *)
LEMMA IdleType ==
  ASSUME ServingTypeOK
  PROVE  idle.live \in 0 .. PoolSize /\ idle.dead \in 0 .. PoolSize
BY DEF ServingTypeOK

(* A session that ends returns its connection, if the pool has room.       *)
LEMMA EndsShape ==
  ASSUME ServingTypeOK, Pooled, NEW c \in Clients, NEW next \in {"done", "failed"},
         Ends(c, next)
  PROVE  /\ stage' \in [Clients -> Working \cup {"new", "done", "failed"}]
         /\ held' \in [Clients -> {"none", "live", "dead"}]
         /\ locked' \in [Clients -> Ids \cup {NoId}]
         /\ idle' \in [live : 0 .. PoolSize, dead : 0 .. PoolSize]
         /\ since' = since
         /\ Free' <= PoolSize
         /\ Free' <= Free + IF held[c] = "none" THEN 0 ELSE 1
         /\ stage'[c] = next /\ held'[c] = "none" /\ locked'[c] = NoId
         /\ \A d \in Clients \ {c} :
              stage'[d] = stage[d] /\ held'[d] = held[d] /\ locked'[d] = locked[d]
<1> USE ServingBounds
<1>1. /\ stage' \in [Clients -> Working \cup {"new", "done", "failed"}]
      /\ held' \in [Clients -> {"none", "live", "dead"}]
      /\ locked' \in [Clients -> Ids \cup {NoId}]
      /\ since' = since
      /\ stage'[c] = next /\ held'[c] = "none" /\ locked'[c] = NoId
      /\ \A d \in Clients \ {c} :
           stage'[d] = stage[d] /\ held'[d] = held[d] /\ locked'[d] = locked[d]
  BY DEF Ends, Goto, ServingTypeOK
<1>2. CASE held[c] = "live" /\ Free < PoolSize
  <2>1. idle' = [idle EXCEPT !.live = @ + 1]
    BY <1>2 DEF Ends
  <2>2. idle' = [live |-> idle.live + 1, dead |-> idle.dead]
    BY <2>1 DEF ServingTypeOK
  <2> QED BY <1>1, <1>2, <2>2, IdleType DEF Free
<1>3. CASE ~ (held[c] = "live" /\ Free < PoolSize)
  <2>1. idle' = idle
    BY <1>3 DEF Ends
  <2> QED BY <1>1, <2>1, IdleType DEF Free, Pooled, ServingTypeOK
<1> QED BY <1>2, <1>3

(* A session that begins a transaction draws a connection that lives.      *)
LEMMA CheckoutShape ==
  ASSUME ServingTypeOK, Pooled, NEW c \in Clients, Checkout(c)
  PROVE  /\ held[c] = "none" /\ stage[c] \in SqlStages
         /\ held' = [held EXCEPT ![c] = "live"] /\ since' = [since EXCEPT ![c] = outages]
         /\ idle' \in [live : 0 .. PoolSize, dead : 0 .. PoolSize]
         /\ Free' <= PoolSize
         /\ \/ Free' = Free - 1
            \/ Free' = Free /\ Free = 0 /\ Open < PoolSize + MaxOverflow
<1>1. /\ held[c] = "none" /\ stage[c] \in SqlStages
      /\ held' = [held EXCEPT ![c] = "live"] /\ since' = [since EXCEPT ![c] = outages]
  BY DEF Checkout, Waiting, Take
<1>2. CASE idle.live > 0 /\ idle' = [idle EXCEPT !.live = @ - 1]
  <2>1. idle' = [live |-> idle.live - 1, dead |-> idle.dead]
    BY <1>2 DEF ServingTypeOK
  <2>2. idle' \in [live : 0 .. PoolSize, dead : 0 .. PoolSize]
    <3>1. idle.live - 1 \in 0 .. PoolSize
      BY <1>2, IdleType, ServingBounds
    <3> QED BY <2>1, <3>1, IdleType
  <2>3. Free' = Free - 1 /\ Free <= PoolSize /\ Free \in Int
    BY <2>1, IdleType, ServingBounds DEF Free, Pooled
  <2> QED BY <1>1, <2>2, <2>3, ServingBounds
<1>3. CASE idle.dead > 0 /\ idle' = [idle EXCEPT !.dead = @ - 1]
  <2>1. idle' = [live |-> idle.live, dead |-> idle.dead - 1]
    BY <1>3 DEF ServingTypeOK
  <2>2. idle' \in [live : 0 .. PoolSize, dead : 0 .. PoolSize]
    <3>1. idle.dead - 1 \in 0 .. PoolSize
      BY <1>3, IdleType, ServingBounds
    <3> QED BY <2>1, <3>1, IdleType
  <2>3. Free' = Free - 1 /\ Free <= PoolSize /\ Free \in Int
    BY <2>1, IdleType, ServingBounds DEF Free, Pooled
  <2> QED BY <1>1, <2>2, <2>3, ServingBounds
<1>4. CASE MayOpen /\ UNCHANGED idle
  BY <1>1, <1>4, IdleType, ServingBounds DEF Free, Pooled, MayOpen, ServingTypeOK
<1> QED BY <1>2, <1>3, <1>4 DEF Checkout

(* A refused session either fails as any other or finds that an idle       *)
(* connection is dead, which the pool discards.                            *)
LEMMA RefusedShape ==
  ASSUME ServingTypeOK, Pooled, NEW c \in Clients, Refused(c)
  PROVE  \/ Fails(c)
         \/ /\ held[c] = "none" /\ stage' = [stage EXCEPT ![c] = "failed"]
            /\ idle' = [live |-> idle.live, dead |-> idle.dead - 1] /\ idle.dead > 0
            /\ idle' \in [live : 0 .. PoolSize, dead : 0 .. PoolSize]
            /\ UNCHANGED <<corpusVars, call, aim, locked, held, since, databaseVars,
                           historyVars, counts>>
BY IdleType, ServingBounds DEF Refused, Waiting, Goto, ServingTypeOK

(* A call that begins, and its place.                                      *)
LEMMA BeginShape ==
  ASSUME ServingTypeOK, NEW c \in Clients, NEW k \in [op : AllOps, target : Ids \cup {NoId}],
         Begin(c, k)
  PROVE  /\ call' = [call EXCEPT ![c] = k] /\ stage' = [stage EXCEPT ![c] = FirstStage(k.op)]
         /\ aim' = [aim EXCEPT ![c] = NoId]
         /\ before' = [before EXCEPT ![c] = IF k.op = "stats" THEN [known |-> Known, gone |-> Gone]
                                                              ELSE @]
         /\ UNCHANGED <<corpusVars, locked, poolVars, databaseVars, counts>>
         /\ FirstStage(k.op) \in Working
         /\ FirstStage(k.op) \in Route(k.op) /\ FirstStage(k.op) \in Undrawn(k.op)
BY DEF Begin, Goto, FirstStage, AllOps, Route, Undrawn, Working, SqlStages, ProviderStages

(* Every call that is made names an operation, and a memory or none.       *)
LEMMA CallsType ==
  ASSUME NEW c \in Clients
  PROVE  Calls(Ops[c]) \subseteq [op : AllOps, target : Ids \cup {NoId}]
BY ServingBounds DEF Calls, Known

(* The type invariant is preserved by every step.                          *)
LEMMA TypeStep ==
  ASSUME ServingTypeOK, Pooled, Called, [ServingNext]_servingVars
  PROVE  ServingTypeOK'
<1> USE ServingBounds
<1> USE DEF poolVars, databaseVars, historyVars
<1>0. UNCHANGED corpusVars => Corpus!TypeOK' /\ author' \in [Ids -> Clients \cup {NoClient}]
  BY DEF corpusVars, ServingTypeOK, Corpus!TypeOK
<1>1. ASSUME NEW c \in Clients, NEW k \in [op : AllOps, target : Ids \cup {NoId}],
             Begin(c, k), retries' \in 0 .. MaxRetries
      PROVE  ServingTypeOK'
  <2>1. [known |-> Known, gone |-> Gone] \in [known : SUBSET Ids, gone : SUBSET Ids]
    BY CorpusSets
  <2>2. call' \in [Clients -> [op : AllOps \cup {"none"}, target : Ids \cup {NoId}]]
    <3>1. k \in [op : AllOps \cup {"none"}, target : Ids \cup {NoId}]
      OBVIOUS
    <3>2. call' = [call EXCEPT ![c] = k]
      BY <1>1 DEF Begin
    <3>3. call \in [Clients -> [op : AllOps \cup {"none"}, target : Ids \cup {NoId}]]
      BY DEF ServingTypeOK
    <3> QED BY <3>1, <3>2, <3>3
  <2>4. stage' \in [Clients -> Working \cup {"new", "done", "failed"}]
    BY <1>1, BeginShape, ZenonT(30) DEF ServingTypeOK
  <2>5. aim' \in [Clients -> Ids \cup {NoId}]
    BY <1>1, BeginShape DEF ServingTypeOK
  <2>6. before' \in [Clients -> [known : SUBSET Ids, gone : SUBSET Ids]]
    <3>1. before \in [Clients -> [known : SUBSET Ids, gone : SUBSET Ids]]
      BY DEF ServingTypeOK
    <3> QED BY <1>1, <2>1, <3>1, BeginShape
  <2>3. UNCHANGED <<corpusVars, locked, poolVars, databaseVars, counts>>
    BY <1>1, BeginShape
  <2> QED BY <1>0, <1>1, <2>2, <2>3, <2>4, <2>5, <2>6 DEF ServingTypeOK
<1>2. ASSUME NEW c \in Clients, Arrive(c) PROVE ServingTypeOK'
  <2>1. PICK k \in Calls(Ops[c]) : Begin(c, k) /\ UNCHANGED retries
    BY <1>0, <1>2 DEF Arrive
  <2> QED BY <1>0, <1>1, <2>1, CallsType DEF ServingTypeOK
<1>3. ASSUME NEW c \in Clients, Retry(c) PROVE ServingTypeOK'
  <2>1. call[c] \in [op : AllOps \cup {"none"}, target : Ids \cup {NoId}] /\ call[c].op # "none"
    BY <1>3 DEF Retry, Called, ServingTypeOK
  <2>2. call[c] \in [op : AllOps, target : Ids \cup {NoId}]
    BY <2>1
  <2>3. retries' \in 0 .. MaxRetries
    BY <1>3 DEF Retry, ServingTypeOK
  <2> QED BY <1>1, <1>3, <2>2, <2>3 DEF Retry
<1>4. ASSUME NEW c \in Clients, Fails(c) PROVE ServingTypeOK'
  <2>1. Ends(c, "failed")
    BY <1>0, <1>4 DEF Fails
  <2> QED BY <1>0, <1>4, <2>1, EndsShape
          DEF Fails, ServingTypeOK
<1>5. ASSUME NEW c \in Clients, Checkout(c) PROVE ServingTypeOK'
  <2>1. held' \in [Clients -> {"none", "live", "dead"}]
    BY <1>5 DEF Checkout, Take, ServingTypeOK
  <2>2. since' \in [Clients -> 0 .. MaxOutages]
    BY <1>5 DEF Checkout, Take, ServingTypeOK
  <2>3. idle' \in [live : 0 .. PoolSize, dead : 0 .. PoolSize]
    BY <1>5, CheckoutShape
  <2> QED BY <1>0, <1>5, <2>1, <2>2, <2>3 DEF Checkout, ServingTypeOK
<1>6. ASSUME NEW c \in Clients, Refused(c) PROVE ServingTypeOK'
  <2>1. CASE Fails(c)
    BY <1>4, <2>1
  <2>2. CASE /\ stage' = [stage EXCEPT ![c] = "failed"]
             /\ idle' \in [live : 0 .. PoolSize, dead : 0 .. PoolSize]
             /\ UNCHANGED <<corpusVars, call, aim, locked, held, since, databaseVars,
                            historyVars, counts>>
    BY <1>0, <2>2 DEF ServingTypeOK
  <2> QED BY <1>6, <2>1, <2>2, RefusedShape
<1>7. ASSUME NEW c \in Clients, Embedded(c) \/ Reranked(c) \/ Select(c) \/ Search(c)
      PROVE  ServingTypeOK'
  <2>1. OnlyMoves(c)
    BY <1>7 DEF Embedded, Reranked, Select, Search
  <2>2. stage' \in [Clients -> Working \cup {"new", "done", "failed"}]
    BY <1>7 DEF Embedded, Reranked, Select, Search, Goto, ServingTypeOK,
                Working, SqlStages, ProviderStages
  <2>3. aim' \in [Clients -> Ids \cup {NoId}]
    <3>1. aim \in [Clients -> Ids \cup {NoId}]
      BY DEF ServingTypeOK
    <3>2. aim' = aim \/ \E d \in Ids \cup {NoId} : aim' = [aim EXCEPT ![c] = d]
      BY <1>7 DEF Embedded, Reranked, Select, Search, Own, Authored, Active
    <3> QED BY <3>1, <3>2
  <2> QED BY <1>0, <2>1, <2>2, <2>3 DEF OnlyMoves, ServingTypeOK
<1>8. ASSUME NEW c \in Clients, Write(c) PROVE ServingTypeOK'
  BY <1>0, <1>8 DEF Write, Goto, ServingTypeOK, Working, SqlStages
<1>9. ASSUME NEW c \in Clients, CountTotal(c) \/ CountTypes(c) \/ CountStatuses(c)
      PROVE  ServingTypeOK'
  <2>1. /\ Cardinality(Known) \in 0 .. MaxRows /\ Cardinality(Active) \in 0 .. MaxRows
        /\ Cardinality(Gone) \in 0 .. MaxRows
    BY CorpusSets, IdsFinite
  <2> HIDE DEF Known, Active, Gone
  <2>2. counts \in [Clients -> [Tally -> 0 .. MaxRows]] /\ {"total", "types", "active", "gone"} = Tally
    BY DEF ServingTypeOK, Tally
  <2>3. counts' \in [Clients -> [Tally -> 0 .. MaxRows]]
    <3>1. CASE CountTotal(c)
      BY <2>1, <2>2, <3>1 DEF CountTotal
    <3>2. CASE CountTypes(c)
      BY <2>1, <2>2, <3>2 DEF CountTypes
    <3>3. CASE CountStatuses(c)
      BY <2>1, <2>2, <3>3 DEF CountStatuses
    <3> QED BY <1>9, <3>1, <3>2, <3>3
  <2> QED BY <1>0, <1>9, <2>3 DEF CountTotal, CountTypes, CountStatuses, Goto, ServingTypeOK,
                            Working, SqlStages
<1>10. ASSUME NEW c \in Clients, Commit(c) PROVE ServingTypeOK'
  BY <1>0, <1>10, EffectShape, EndsShape DEF Commit, ServingTypeOK
<1>11. CASE GoesDown
  <2>1. Corpus!TypeOK' /\ author' \in [Ids -> Clients \cup {NoClient}]
    BY <1>0, <1>11, EffectShape
    DEF GoesDown, ServingTypeOK
  <2>2. idle' \in [live : 0 .. PoolSize, dead : 0 .. PoolSize]
    BY <1>0, <1>11, IdleType DEF GoesDown, Pooled, Free
  <2>3. held' \in [Clients -> {"none", "live", "dead"}]
    BY <1>11 DEF GoesDown, ServingTypeOK
  <2>5. locked' \in [Clients -> Ids \cup {NoId}]
    BY <1>11 DEF GoesDown
  <2>4. outages' \in 0 .. MaxOutages
    BY <1>11 DEF GoesDown, ServingTypeOK
  <2> QED BY <1>0, <1>11, <2>1, <2>2, <2>3, <2>4, <2>5 DEF GoesDown, ServingTypeOK
<1>12. CASE ComesBack
  BY <1>0, <1>12 DEF ComesBack, ServingTypeOK
<1>13. CASE UNCHANGED servingVars
  BY <1>0, <1>13 DEF servingVars, ServingTypeOK
<1> QED BY <1>2, <1>3, <1>4, <1>5, <1>6, <1>7, <1>8, <1>9, <1>10, <1>11, <1>12, <1>13
        DEF ServingNext, Advance, Rest, PoolTimeout, ConnectionLost, EmbeddingFails

-----------------------------------------------------------------------------
(* The pool.                                                               *)

(* The sessions with a connection are finitely many.                       *)
LEMMA HoldingFinite == IsFiniteSet(Holding) /\ Cardinality(Holding) \in Nat
<1>1. Holding \in SUBSET Clients
  BY DEF Holding
<1> QED BY <1>1, FS_Subset, FS_CardinalityType, ServingBounds

(* One more of them when a connection is drawn, one less when a session    *)
(* that had one ends.                                                      *)
LEMMA HoldingDrawn ==
  ASSUME ServingTypeOK, NEW c \in Clients, held[c] = "none",
         held' = [held EXCEPT ![c] = "live"]
  PROVE  Holding' = Holding \cup {c} /\ Cardinality(Holding') = Cardinality(Holding) + 1
<1>1. Holding' = Holding \cup {c} /\ c \notin Holding
  BY DEF Holding, ServingTypeOK
<1> QED BY <1>1, HoldingFinite, FS_AddElement

LEMMA HoldingReturned ==
  ASSUME NEW c \in Clients, held'[c] = "none", \A d \in Clients \ {c} : held'[d] = held[d]
  PROVE  /\ Holding' = Holding \ {c}
         /\ Cardinality(Holding') = Cardinality(Holding) - IF held[c] = "none" THEN 0 ELSE 1
<1>1. Holding' = Holding \ {c} /\ (c \in Holding <=> held[c] # "none")
  BY DEF Holding
<1>2. Cardinality(Holding \ {c}) = IF c \in Holding THEN Cardinality(Holding) - 1
                                                    ELSE Cardinality(Holding)
  BY HoldingFinite, FS_RemoveElement
<1>3. CASE held[c] = "none"
  BY <1>1, <1>2, <1>3, HoldingFinite
<1>4. CASE held[c] # "none"
  BY <1>1, <1>2, <1>4, HoldingFinite
<1> QED BY <1>3, <1>4

(* The steps of a request between its first statement and its flush, and   *)
(* the one before: only its place changes, as far as the pool can see.     *)
MovesOn(c) ==
  /\ stage[c] # "commit" /\ stage'[c] \in Working
  /\ stage' = [stage EXCEPT ![c] = stage'[c]]
  /\ UNCHANGED <<locked, poolVars, databaseVars>>

LEMMA MovesShape ==
  ASSUME ServingTypeOK, Called, NEW c \in Clients,
         \/ Arrive(c) \/ Retry(c) \/ Embedded(c) \/ Reranked(c) \/ Select(c) \/ Search(c)
         \/ CountTotal(c) \/ CountTypes(c) \/ CountStatuses(c)
  PROVE  MovesOn(c)
<1> USE DEF Working, SqlStages, ProviderStages
<1>1. stage \in [Clients -> Working \cup {"new", "done", "failed"}]
  BY DEF ServingTypeOK
<1>2. ASSUME NEW k \in [op : AllOps, target : Ids \cup {NoId}], Begin(c, k),
             stage[c] \in {"new", "failed"}
      PROVE  MovesOn(c)
  BY <1>1, <1>2, BeginShape DEF MovesOn
<1>3. CASE Arrive(c)
  BY <1>2, <1>3, CallsType DEF Arrive
<1>4. CASE Retry(c)
  <2>1. call[c] \in [op : AllOps \cup {"none"}, target : Ids \cup {NoId}] /\ call[c].op # "none"
    BY <1>4 DEF Retry, Called, ServingTypeOK
  <2>2. call[c] \in [op : AllOps, target : Ids \cup {NoId}]
    BY <2>1
  <2> QED BY <1>2, <1>4, <2>2 DEF Retry
<1>5. CASE Embedded(c) \/ Reranked(c) \/ Select(c) \/ Search(c)
  BY <1>1, <1>5 DEF MovesOn, Embedded, Reranked, Select, Search, Runs, Goto, OnlyMoves
<1>6. CASE CountTotal(c) \/ CountTypes(c) \/ CountStatuses(c)
  BY <1>1, <1>6 DEF MovesOn, CountTotal, CountTypes, CountStatuses, Runs, Goto
<1> QED BY <1>3, <1>4, <1>5, <1>6

(* The pool's limits, the owners of its connections and the holders of row *)
(* locks are as they should after every step.                              *)
LEMMA AccountedStep ==
  ASSUME ServingTypeOK, Called, Pooled, ConnectionsAccounted, [ServingNext]_servingVars
  PROVE  Pooled' /\ ConnectionsAccounted'
<1> USE DEF poolVars, databaseVars
<1>0. /\ PoolSize \in Nat /\ MaxOverflow \in Nat /\ Free \in Int /\ Cardinality(Holding) \in Nat
      /\ outages \in Nat
  BY ServingBounds, IdleType, HoldingFinite DEF Free, ServingTypeOK
<1>1. ASSUME NEW c \in Clients, MovesOn(c) PROVE Pooled' /\ ConnectionsAccounted'
  BY <1>1 DEF MovesOn, Pooled, ConnectionsAccounted, Free, Open, Holding, ServingTypeOK
<1>2. ASSUME NEW c \in Clients, NEW next \in {"done", "failed"}, Ends(c, next), UNCHANGED outages
      PROVE  Pooled' /\ ConnectionsAccounted'
  <2>1. Pooled'
    BY <1>2, EndsShape DEF Pooled
  <2>2. Open' <= PoolSize + MaxOverflow
    <3>1. Cardinality(Holding') = Cardinality(Holding) - IF held[c] = "none" THEN 0 ELSE 1
      BY <1>2, EndsShape, HoldingReturned
    <3>2. Free' <= Free + (IF held[c] = "none" THEN 0 ELSE 1) /\ Free' \in Int
      BY <1>2, EndsShape, ServingBounds DEF Free
    <3> QED BY <1>0, <3>1, <3>2 DEF Open, ConnectionsAccounted
  <2>3. \A d \in Holding' : stage'[d] \in Working
    BY <1>2, EndsShape DEF Holding, ConnectionsAccounted
  <2>4. \A d \in Clients : locked'[d] # NoId => held'[d] = "live" /\ stage'[d] = "commit"
    BY <1>2, EndsShape DEF ConnectionsAccounted
  <2> QED BY <2>1, <2>2, <2>3, <2>4 DEF ConnectionsAccounted
<1>3. ASSUME NEW c \in Clients, Checkout(c) PROVE Pooled' /\ ConnectionsAccounted'
  <2>1. Pooled'
    <3>1. Free' <= PoolSize /\ since' = [since EXCEPT ![c] = outages] /\ UNCHANGED outages
      BY <1>3, CheckoutShape DEF Checkout
    <3>2. since \in [Clients -> 0 .. MaxOutages]
      BY DEF ServingTypeOK
    <3> QED BY <1>0, <3>1, <3>2 DEF Pooled
  <2>2. Open' <= PoolSize + MaxOverflow
    <3>1. Cardinality(Holding') = Cardinality(Holding) + 1
      BY <1>3, CheckoutShape, HoldingDrawn
    <3> QED BY <1>0, <1>3, <3>1, CheckoutShape DEF Open, ConnectionsAccounted
  <2>3. \A d \in Holding' : stage'[d] \in Working
    BY <1>3, CheckoutShape, HoldingDrawn DEF Checkout, ConnectionsAccounted, Working
  <2>4. \A d \in Clients : locked'[d] # NoId => held'[d] = "live" /\ stage'[d] = "commit"
    BY <1>3, CheckoutShape DEF Checkout, ConnectionsAccounted, ServingTypeOK
  <2> QED BY <2>1, <2>2, <2>3, <2>4 DEF ConnectionsAccounted
<1>4. ASSUME NEW c \in Clients, Refused(c) PROVE Pooled' /\ ConnectionsAccounted'
  <2>1. CASE Fails(c)
    BY <1>2, <2>1 DEF Fails
  <2>2. CASE /\ held[c] = "none" /\ stage' = [stage EXCEPT ![c] = "failed"]
             /\ idle' = [live |-> idle.live, dead |-> idle.dead - 1] /\ idle.dead > 0
             /\ UNCHANGED <<locked, held, since, outages>>
    <3>1. Free' = Free - 1
      BY <2>2, IdleType, ServingBounds DEF Free
    <3>2. Holding' = Holding
      BY <2>2 DEF Holding
    <3>3. Pooled' /\ Open' <= PoolSize + MaxOverflow
      BY <1>0, <2>2, <3>1, <3>2 DEF Pooled, Open, ConnectionsAccounted
    <3>4. /\ \A d \in Holding' : stage'[d] \in Working
          /\ \A d \in Clients : locked'[d] # NoId => held'[d] = "live" /\ stage'[d] = "commit"
      BY <2>2, <3>2 DEF Holding, ConnectionsAccounted, ServingTypeOK
    <3> QED BY <3>3, <3>4 DEF ConnectionsAccounted
  <2> QED BY <1>4, <2>1, <2>2, RefusedShape
<1>5. ASSUME NEW c \in Clients, Write(c) PROVE Pooled' /\ ConnectionsAccounted'
  <2>1. Pooled' /\ Holding' = Holding /\ Free' = Free
    BY <1>5 DEF Write, Pooled, Holding, Free
  <2>2. \A d \in Holding' : stage'[d] \in Working
    BY <1>5, <2>1 DEF Write, Goto, Working, SqlStages, ConnectionsAccounted, ServingTypeOK
  <2>3. \A d \in Clients : locked'[d] # NoId => held'[d] = "live" /\ stage'[d] = "commit"
    BY <1>5 DEF Write, Runs, Goto, ConnectionsAccounted, ServingTypeOK
  <2> QED BY <2>1, <2>2, <2>3 DEF Open, ConnectionsAccounted
<1>6. CASE GoesDown
  <2>1. Holding' = Holding
    BY <1>6 DEF GoesDown, Holding
  <2>2. Free' = Free
    BY <1>0, <1>6 DEF GoesDown, Free
  <2>3. Pooled'
    BY <1>0, <1>6, <2>2 DEF GoesDown, Pooled, ServingTypeOK
  <2> QED BY <1>6, <2>1, <2>2, <2>3 DEF GoesDown, Open, ConnectionsAccounted
<1>7. CASE ComesBack \/ UNCHANGED servingVars
  BY <1>7 DEF ComesBack, servingVars, Pooled, Free, Open, Holding, ConnectionsAccounted
<1> QED BY <1>1, <1>2, <1>3, <1>4, <1>5, <1>6, <1>7, MovesShape
        DEF ServingNext, Advance, Rest, PoolTimeout, ConnectionLost, EmbeddingFails, Fails, Commit

(* A connection that died was drawn before the outage that killed it.      *)
LEMMA OutageStep ==
  ASSUME ServingTypeOK, Called, Pooled, OutageOverForLater, [ServingNext]_servingVars
  PROVE  OutageOverForLater'
<1> USE DEF poolVars, databaseVars
<1>1. ASSUME NEW c \in Clients, MovesOn(c) PROVE OutageOverForLater'
  BY <1>1 DEF MovesOn, OutageOverForLater
<1>2. ASSUME NEW c \in Clients, NEW next \in {"done", "failed"}, Ends(c, next), UNCHANGED outages
      PROVE  OutageOverForLater'
  BY <1>2, EndsShape DEF OutageOverForLater
<1>3. ASSUME NEW c \in Clients, Checkout(c) PROVE OutageOverForLater'
  <2>1. /\ held' = [held EXCEPT ![c] = "live"] /\ since' = [since EXCEPT ![c] = outages]
        /\ outages' = outages
    BY <1>3, CheckoutShape DEF Checkout
  <2>2. held \in [Clients -> {"none", "live", "dead"}] /\ since \in [Clients -> Nat]
    BY DEF ServingTypeOK
  <2>3. ASSUME NEW e \in Clients, held'[e] = "dead" PROVE since'[e] < outages'
    <3>1. e # c
      BY <2>1, <2>2, <2>3
    <3>2. held[e] = "dead" /\ since'[e] = since[e]
      BY <2>1, <2>2, <2>3, <3>1
    <3> QED BY <2>1, <3>2 DEF OutageOverForLater
  <2> QED BY <2>3 DEF OutageOverForLater
<1>4. ASSUME NEW c \in Clients, Refused(c) PROVE OutageOverForLater'
  BY <1>2, <1>4, RefusedShape DEF Fails, OutageOverForLater
<1>5. ASSUME NEW c \in Clients, Write(c) PROVE OutageOverForLater'
  BY <1>5 DEF Write, OutageOverForLater
<1>6. CASE GoesDown
  <2>1. \A c \in Clients : since[c] \in Nat /\ outages \in Nat /\ since[c] <= outages
    BY ServingBounds DEF ServingTypeOK, Pooled
  <2> QED BY <1>6, <2>1 DEF GoesDown, OutageOverForLater
<1>7. CASE ComesBack \/ UNCHANGED servingVars
  BY <1>7 DEF ComesBack, servingVars, OutageOverForLater
<1> QED BY <1>1, <1>2, <1>3, <1>4, <1>5, <1>6, <1>7, MovesShape
        DEF ServingNext, Advance, Rest, PoolTimeout, ConnectionLost, EmbeddingFails, Fails, Commit

-----------------------------------------------------------------------------
(* Where requests stand.                                                   *)

(* A request that goes on keeps its call.                                  *)
LEMMA CallsKept ==
  ASSUME ServingTypeOK, Called, [ServingNext]_servingVars, NEW c \in Clients
  PROVE  \/ call'[c] = call[c] /\ (stage'[c] = "new" <=> stage[c] = "new")
         \/ /\ stage[c] \in {"new", "failed"}
            /\ stage[c] = "failed" => call'[c] = call[c]
            /\ call'[c] \in [op : AllOps, target : Ids \cup {NoId}]
            /\ Begin(c, call'[c])
<1>1. /\ stage \in [Clients -> Working \cup {"new", "done", "failed"}]
      /\ call \in [Clients -> [op : AllOps \cup {"none"}, target : Ids \cup {NoId}]]
  BY DEF ServingTypeOK
<1>2. Working \cap {"new", "done", "failed"} = {}
  BY DEF Working, SqlStages, ProviderStages
<1> DEFINE P == call'[c] = call[c] /\ (stage'[c] = "new" <=> stage[c] = "new")
<1>3. ASSUME NEW d \in Clients, Begin(d, call'[d]), stage[d] \in {"new", "failed"}, d # c PROVE P
  BY <1>1, <1>3 DEF Begin, Goto
<1>4. ASSUME NEW d \in Clients, Arrive(d) PROVE
        \/ d # c /\ P
        \/ /\ d = c /\ stage[c] = "new" /\ Begin(c, call'[c])
           /\ call'[c] \in [op : AllOps, target : Ids \cup {NoId}]
  <2>1. PICK k \in [op : AllOps, target : Ids \cup {NoId}] : Begin(d, k)
    BY <1>4, CallsType DEF Arrive
  <2>2. call'[d] = k
    BY <1>1, <2>1 DEF Begin
  <2> QED BY <1>3, <1>4, <2>1, <2>2 DEF Arrive
<1>5. ASSUME NEW d \in Clients, Retry(d) PROVE
        \/ d # c /\ P
        \/ /\ d = c /\ stage[c] = "failed" /\ call'[c] = call[c] /\ Begin(c, call'[c])
           /\ call'[c] \in [op : AllOps, target : Ids \cup {NoId}]
  <2>1. call'[d] = call[d]
    BY <1>1, <1>5 DEF Retry, Begin
  <2>2. call[d] \in [op : AllOps \cup {"none"}, target : Ids \cup {NoId}] /\ call[d].op # "none"
    BY <1>1, <1>5 DEF Retry, Called
  <2>3. call[d] \in [op : AllOps, target : Ids \cup {NoId}]
    BY <2>2
  <2> QED BY <1>3, <1>5, <2>1, <2>3 DEF Retry
<1>6. ASSUME NEW d \in Clients, NEW next, next # "new", stage' = [stage EXCEPT ![d] = next],
             stage[d] \in Working, UNCHANGED call
      PROVE  P
  BY <1>1, <1>2, <1>6
<1>7. ASSUME NEW d \in Clients, \/ PoolTimeout(d) \/ Refused(d) \/ ConnectionLost(d) \/ Embedded(d)
                               \/ EmbeddingFails(d) \/ Reranked(d) \/ Select(d) \/ Search(d)
                               \/ Write(d) \/ Commit(d) \/ CountTotal(d) \/ CountTypes(d)
                               \/ CountStatuses(d)
      PROVE  P
  <2>1. UNCHANGED call
    BY <1>7 DEF PoolTimeout, Refused, ConnectionLost, Embedded, EmbeddingFails, Reranked, Select,
                Search, Write, Commit, CountTotal, CountTypes, CountStatuses, Fails, OnlyMoves
  <2>2. stage[d] \in Working
    BY <1>7 DEF PoolTimeout, Refused, ConnectionLost, Embedded, EmbeddingFails, Reranked, Select,
                Search, Write, Commit, CountTotal, CountTypes, CountStatuses, Runs, Waiting,
                Working, SqlStages, ProviderStages
  <2>3. \E next \in Working \cup {"done", "failed"} : stage' = [stage EXCEPT ![d] = next]
    BY <1>7 DEF PoolTimeout, Refused, ConnectionLost, Embedded, EmbeddingFails, Reranked, Select,
                Search, Write, Commit, CountTotal, CountTypes, CountStatuses, Fails, Ends, Goto,
                Working, SqlStages, ProviderStages
  <2> QED BY <1>2, <1>6, <2>1, <2>2, <2>3
<1>8. CASE (\E d \in Clients : Checkout(d)) \/ GoesDown \/ ComesBack \/ UNCHANGED servingVars
  BY <1>8 DEF Checkout, GoesDown, ComesBack, servingVars
<1> QED BY <1>4, <1>5, <1>7, <1>8 DEF ServingNext, Advance, Rest

(* Who has called has a call.                                              *)
LEMMA CalledStep ==
  ASSUME ServingTypeOK, Called, [ServingNext]_servingVars
  PROVE  Called'
BY CallsKept DEF Called, AllOps

(* Requests keep to their routes, and to their connection once drawn.      *)
LEMMA RoutedStep ==
  ASSUME ServingTypeOK, Called, Pooled, Routed, [ServingNext]_servingVars
  PROVE  Routed'
<1> USE DEF poolVars
<1>1. /\ stage \in [Clients -> Working \cup {"new", "done", "failed"}]
      /\ call \in [Clients -> [op : AllOps \cup {"none"}, target : Ids \cup {NoId}]]
      /\ held \in [Clients -> {"none", "live", "dead"}]
  BY DEF ServingTypeOK
<1>2. Working \cap {"new", "done", "failed"} = {}
  BY DEF Working, SqlStages, ProviderStages
<1>3. ASSUME NEW c \in Clients, \A d \in Clients \ {c} : stage'[d] = stage[d] /\ held'[d] = held[d],
             \A d \in Clients \ {c} : call'[d] = call[d],
             stage'[c] \in Working =>
               /\ stage'[c] \in Route(call'[c].op)
               /\ stage'[c] \notin Undrawn(call'[c].op) => held'[c] # "none"
      PROVE  Routed'
  BY <1>3 DEF Routed
<1>4. ASSUME NEW c \in Clients, NEW k \in [op : AllOps, target : Ids \cup {NoId}], Begin(c, k)
      PROVE  Routed'
  BY <1>1, <1>3, <1>4, BeginShape
<1>5. ASSUME NEW c \in Clients, Arrive(c) \/ Retry(c) PROVE Routed'
  <2>1. ASSUME Arrive(c) PROVE Routed'
    BY <1>4, <2>1, CallsType DEF Arrive
  <2>2. ASSUME Retry(c) PROVE Routed'
    <3>1. call[c] \in [op : AllOps \cup {"none"}, target : Ids \cup {NoId}] /\ call[c].op # "none"
      BY <1>1, <2>2 DEF Retry, Called
    <3>2. call[c] \in [op : AllOps, target : Ids \cup {NoId}]
      BY <3>1
    <3> QED BY <1>4, <2>2, <3>2 DEF Retry
  <2> QED BY <1>5, <2>1, <2>2
<1>6. ASSUME NEW c \in Clients, NEW next \in {"done", "failed"}, Ends(c, next), UNCHANGED call
      PROVE  Routed'
  BY <1>2, <1>3, <1>6, EndsShape
<1>7. ASSUME NEW c \in Clients, Checkout(c) PROVE Routed'
  BY <1>1, <1>7, CheckoutShape DEF Checkout, Routed
<1>8. ASSUME NEW c \in Clients, Refused(c) PROVE Routed'
  <2>1. CASE Fails(c)
    BY <1>6, <2>1 DEF Fails
  <2>2. CASE stage' = [stage EXCEPT ![c] = "failed"] /\ UNCHANGED <<call, held>>
    BY <1>1, <1>2, <1>3, <2>2
  <2> QED BY <1>8, <2>1, <2>2, RefusedShape
<1>9. ASSUME NEW c \in Clients, \/ Embedded(c) \/ Reranked(c) \/ Select(c) \/ Search(c)
                               \/ Write(c) \/ CountTotal(c) \/ CountTypes(c) \/ CountStatuses(c)
      PROVE  Routed'
  <2>1. UNCHANGED <<call, held>>
    BY <1>9 DEF Embedded, Reranked, Select, Search, Write, CountTotal, CountTypes, CountStatuses,
                OnlyMoves
  <2>2. /\ call[c].op \in AllOps \cup {"none"}
        /\ stage[c] \in Route(call[c].op)
        /\ stage[c] \notin Undrawn(call[c].op) => held[c] # "none"
    BY <1>1, <1>9 DEF Embedded, Reranked, Select, Search, Write, CountTotal, CountTypes,
                      CountStatuses, Runs, Routed, Working, SqlStages, ProviderStages
  <2>3. /\ stage'[c] \in Route(call[c].op)
        /\ stage'[c] \notin Undrawn(call[c].op) => held[c] # "none"
    <3>1. CASE Embedded(c)
      BY <1>1, <2>2, <3>1 DEF Embedded, Goto, Route, Undrawn, AllOps
    <3>2. CASE Reranked(c) \/ Search(c)
      BY <1>1, <2>2, <3>2 DEF Reranked, Search, Runs, Goto, Route, Undrawn, AllOps
    <3>3. CASE Select(c)
      BY <1>1, <2>2, <3>3 DEF Select, Runs, Goto, Route, Undrawn, AllOps
    <3>4. CASE Write(c)
      BY <1>1, <2>2, <3>4 DEF Write, Runs, Goto, Route, Undrawn, AllOps
    <3>5. CASE CountTotal(c) \/ CountTypes(c) \/ CountStatuses(c)
      BY <1>1, <2>2, <3>5 DEF CountTotal, CountTypes, CountStatuses, Runs, Goto, Route, Undrawn,
                              AllOps
    <3> QED BY <1>9, <3>1, <3>2, <3>3, <3>4, <3>5
  <2>4. \A d \in Clients \ {c} : stage'[d] = stage[d]
    BY <1>1, <1>9 DEF Embedded, Reranked, Select, Search, Write, CountTotal, CountTypes,
                      CountStatuses, Goto
  <2> QED BY <1>3, <2>1, <2>3, <2>4
<1>10. CASE GoesDown \/ ComesBack \/ UNCHANGED servingVars
  BY <1>10 DEF GoesDown, ComesBack, servingVars, Routed
<1> QED BY <1>5, <1>6, <1>7, <1>8, <1>9, <1>10
        DEF ServingNext, Advance, Rest, PoolTimeout, ConnectionLost, EmbeddingFails, Fails, Commit

-----------------------------------------------------------------------------
(* Who changes what.                                                       *)

(* A step that is not of client d leaves it where it stands; an outage may *)
(* take its connection.                                                    *)
Stands(d) ==
  /\ stage'[d] = stage[d] /\ aim'[d] = aim[d] /\ call'[d] = call[d]
  /\ counts'[d] = counts[d] /\ before'[d] = before[d]
  /\ held'[d] = held[d] \/ held'[d] = "dead"

LEMMA OthersStand ==
  ASSUME ServingTypeOK, Pooled, [ServingNext]_servingVars, NEW d \in Clients
  PROVE  Arrive(d) \/ Retry(d) \/ Advance(d) \/ PoolTimeout(d) \/ Stands(d)
<1> USE DEF poolVars, historyVars
<1>1. /\ DOMAIN stage = Clients /\ DOMAIN aim = Clients /\ DOMAIN call = Clients
      /\ DOMAIN counts = Clients /\ DOMAIN before = Clients /\ DOMAIN held = Clients
  BY DEF ServingTypeOK
<1>2. ASSUME NEW e \in Clients \ {d}, NEW k, Begin(e, k) PROVE Stands(d)
  BY <1>2 DEF Begin, Goto, Stands
<1>3. ASSUME NEW e \in Clients \ {d}, NEW next, Ends(e, next),
             UNCHANGED <<call, aim, historyVars, counts>>
      PROVE  Stands(d)
  BY <1>3 DEF Ends, Goto, Stands
<1>4. ASSUME NEW e \in Clients \ {d}, Arrive(e) \/ Retry(e) PROVE Stands(d)
  BY <1>2, <1>4 DEF Arrive, Retry
<1>5. ASSUME NEW e \in Clients \ {d}, Checkout(e) PROVE Stands(d)
  BY <1>5 DEF Checkout, Take, Stands
<1>6. ASSUME NEW e \in Clients \ {d}, Refused(e) PROVE Stands(d)
  <2>1. CASE Fails(e)
    BY <1>3, <2>1 DEF Fails
  <2>2. CASE stage' = [stage EXCEPT ![e] = "failed"] /\ UNCHANGED <<call, aim, held, before, counts>>
    BY <1>1, <2>2 DEF Stands
  <2> QED BY <1>6, <2>1, <2>2, RefusedShape
<1>7. ASSUME NEW e \in Clients \ {d}, Embedded(e) \/ Reranked(e) \/ Select(e) \/ Search(e)
      PROVE  Stands(d)
  <2>1. UNCHANGED <<call, held, before, counts>> /\ stage'[d] = stage[d]
    BY <1>1, <1>7 DEF Embedded, Reranked, Select, Search, Goto, OnlyMoves
  <2>2. aim'[d] = aim[d]
    BY <1>1, <1>7 DEF Embedded, Reranked, Select, Search
  <2> QED BY <2>1, <2>2 DEF Stands
<1>8. ASSUME NEW e \in Clients \ {d}, Write(e) PROVE Stands(d)
  BY <1>8 DEF Write, Goto, Stands
<1>9. ASSUME NEW e \in Clients \ {d}, CountTotal(e) \/ CountTypes(e) \/ CountStatuses(e)
      PROVE  Stands(d)
  <2>1. UNCHANGED <<call, aim, held, before>> /\ stage'[d] = stage[d]
    BY <1>1, <1>9 DEF CountTotal, CountTypes, CountStatuses, Goto
  <2>2. counts'[d] = counts[d]
    BY <1>1, <1>9 DEF CountTotal, CountTypes, CountStatuses
  <2> QED BY <2>1, <2>2 DEF Stands
<1>10. ASSUME NEW e \in Clients \ {d},
              \/ PoolTimeout(e) \/ ConnectionLost(e) \/ EmbeddingFails(e) \/ Commit(e)
       PROVE  Stands(d)
  BY <1>3, <1>10 DEF PoolTimeout, ConnectionLost, EmbeddingFails, Fails, Commit
<1>11. CASE GoesDown \/ ComesBack \/ UNCHANGED servingVars
  BY <1>11 DEF GoesDown, ComesBack, servingVars, Stands
<1> QED BY <1>4, <1>5, <1>6, <1>7, <1>8, <1>9, <1>10, <1>11 DEF ServingNext, Advance, Rest

(* The memories change by the commit of one client, whose request is then  *)
(* over or cut off.                                                        *)
LEMMA OneCommits ==
  ASSUME ServingTypeOK, Pooled, [ServingNext]_servingVars
  PROVE  \/ UNCHANGED corpusVars
         \/ \E c \in Clients : /\ Runs(c, "commit") /\ Effect(c) /\ UNCHANGED <<call, aim>>
                             /\ \/ stage'[c] = "done" /\ outages' = outages
                                \/ /\ stage'[c] = "commit" /\ held'[c] = "dead"
                                   /\ outages' = outages + 1
<1>1. ASSUME NEW c \in Clients, Commit(c)
      PROVE  /\ Runs(c, "commit") /\ Effect(c) /\ UNCHANGED <<call, aim, outages>>
             /\ stage'[c] = "done"
  BY <1>1, EndsShape DEF Commit, databaseVars
<1>2. ASSUME NEW c \in Clients, GoesDown, Runs(c, "commit"), Effect(c)
      PROVE  /\ UNCHANGED <<call, aim>> /\ stage'[c] = "commit" /\ held'[c] = "dead"
             /\ outages' = outages + 1
  BY <1>2 DEF GoesDown, Runs
<1>3. CASE \E c \in Clients : Commit(c)
  BY <1>1, <1>3
<1>4. CASE GoesDown
  BY <1>2, <1>4 DEF GoesDown
<1>5. CASE ~ GoesDown /\ \A c \in Clients : ~ Commit(c)
  BY <1>5 DEF ServingNext, Advance, Rest, servingVars, ComesBack, Arrive, Retry, Begin, PoolTimeout,
              Checkout, Refused, ConnectionLost, EmbeddingFails, Fails, Embedded, Reranked, Select,
              Search, Write, CountTotal, CountTypes, CountStatuses, OnlyMoves
<1> QED BY <1>3, <1>4, <1>5

(* Memories stay known, and gone ones gone.                                *)
LEMMA CorpusGrows ==
  ASSUME ServingTypeOK, Pooled, [ServingNext]_servingVars
  PROVE  /\ Known \subseteq Known' /\ Gone \subseteq Gone'
         /\ \A i \in Ids : life[i] \in Corpus!Gone => life'[i] \in Corpus!Gone
<1>1. Gone = {i \in Ids : life[i] \in Corpus!Gone}
  BY DEF Gone, Known, Active, ServingTypeOK, Corpus!TypeOK, Corpus!Gone, Corpus!Ids, Ids
<1>2. /\ \A i \in Ids : life[i] # "unknown" => life'[i] # "unknown"
      /\ \A i \in Ids : life[i] \in Corpus!Gone => life'[i] \in Corpus!Gone
  BY OneCommits, EffectShape DEF corpusVars
<1>3. \A i \in Ids : life[i] \in Corpus!Gone => life'[i] # "active" /\ life'[i] # "unknown"
  BY <1>2 DEF Corpus!Gone
<1> QED BY <1>1, <1>2, <1>3 DEF Known, Gone, Active

(* So their number does not fall.                                          *)
LEMMA KnownCounts ==
  ASSUME ServingTypeOK, Pooled, [ServingNext]_servingVars
  PROVE  /\ Cardinality(Known) \in Nat /\ Cardinality(Known') \in Nat
         /\ Cardinality(Known) <= Cardinality(Known')
         /\ \A n \in Known' \ Known : Cardinality(Known) < Cardinality(Known')
<1>1. Known \in SUBSET Known' /\ Known \in SUBSET Ids /\ Known' \in SUBSET Ids
  BY CorpusGrows DEF Known
<1>2. /\ IsFiniteSet(Known) /\ IsFiniteSet(Known')
      /\ Cardinality(Known) \in Nat /\ Cardinality(Known') \in Nat
  BY <1>1, IdsFinite
<1>3. ASSUME NEW n \in Known' \ Known PROVE Cardinality(Known) < Cardinality(Known')
  <2>1. Cardinality(Known \cup {n}) = Cardinality(Known) + 1
    BY <1>2, <1>3, FS_AddElement
  <2>2. Known \cup {n} \in SUBSET Known'
    BY <1>1
  <2>3. Cardinality(Known \cup {n}) <= Cardinality(Known')
    BY <1>1, <2>2, CountsGrow
  <2> QED BY <1>2, <2>1, <2>3
<1> QED BY <1>1, <1>2, <1>3, CountsGrow

(* What a commit adds to the memories its client stored: one, when it had  *)
(* not found a memory of its own, or had found its target.                 *)
LEMMA StoresOne ==
  ASSUME ServingTypeOK, NEW c \in Clients, Effect(c)
  PROVE  \/ UNCHANGED corpusVars
         \/ call[c].op = "forget" /\ Authored(c)' = Authored(c) /\ Own(c)' \subseteq Own(c)
         \/ \E n \in Ids :
              /\ Authored(c)' \subseteq Authored(c) \cup {n} /\ Own(c)' \subseteq Own(c) \cup {n}
              /\ n \notin Known /\ n \in Known'
              /\ call[c].op = "remember" => aim[c] = NoId
              /\ call[c].op = "replace" => aim[c] \in Ids /\ life'[aim[c]] \in Corpus!Gone
<1>1. /\ life \in [Ids -> {"unknown", "active", "retired", "consolidated"}]
      /\ author \in [Ids -> Clients \cup {NoClient}]
      /\ aim[c] \in Ids \cup {NoId}
  BY DEF ServingTypeOK, Corpus!TypeOK, Corpus!Gone, Corpus!Ids, Ids, Corpus!NoId, NoId
<1> DEFINE n == Cardinality(Known) + 1
<1>2. CASE UNCHANGED corpusVars
  BY <1>2
<1>3. CASE /\ call[c].op \in {"ingest", "remember"} /\ aim[c] = NoId
           /\ n \in Ids /\ author' = [author EXCEPT ![n] = c] /\ Corpus!Store(n)
  <2> HIDE DEF n
  <2> QED BY <1>1, <1>3 DEF Corpus!Store, Authored, Own, Active, Known
<1>4. CASE /\ call[c].op = "replace" /\ aim[c] # NoId
           /\ n \in Ids /\ author' = [author EXCEPT ![n] = c] /\ Corpus!Replace(aim[c], n)
  <2> HIDE DEF n
  <2>1. aim[c] \in Ids /\ aim[c] # n
    BY <1>1, <1>4 DEF Corpus!Replace, Ids
  <2>2. life'[aim[c]] = "retired"
    BY <1>1, <1>4, <2>1 DEF Corpus!Replace
  <2> QED BY <1>1, <1>4, <2>1, <2>2 DEF Corpus!Replace, Corpus!Gone, Authored, Own, Active, Known
<1>5. CASE call[c].op = "forget" /\ aim[c] # NoId /\ Corpus!Forget(aim[c]) /\ UNCHANGED author
  BY <1>1, <1>5 DEF Corpus!Forget, Authored, Own, Active
<1> QED BY <1>2, <1>3, <1>4, <1>5 DEF Effect

(* No other client's commit adds to them.                                  *)
LEMMA OthersStore ==
  ASSUME ServingTypeOK, NEW c \in Clients, NEW d \in Clients, c # d, Effect(c)
  PROVE  Authored(d)' \subseteq Authored(d) /\ Own(d)' \subseteq Own(d)
BY EffectShape DEF Authored, Own, Active

(* What a client stored changes by its own commit only.                    *)
Commits(d) ==
  /\ Runs(d, "commit") /\ Effect(d) /\ UNCHANGED <<call, aim>>
  /\ \/ stage'[d] = "done" /\ outages' = outages
     \/ stage'[d] = "commit" /\ held'[d] = "dead" /\ outages' = outages + 1

LEMMA StoredKept ==
  ASSUME ServingTypeOK, Pooled, [ServingNext]_servingVars, NEW d \in Clients
  PROVE  Commits(d) \/ (Authored(d)' \subseteq Authored(d) /\ Own(d)' \subseteq Own(d))
<1>1. CASE UNCHANGED corpusVars
  BY <1>1 DEF corpusVars, Authored, Own, Active
<1>2. CASE \E c \in Clients : Commits(c)
  BY <1>2, OthersStore DEF Commits
<1> QED BY <1>1, <1>2, OneCommits DEF Commits

-----------------------------------------------------------------------------
(* Calling again is harmless.                                              *)

(* Where a request stands tells that its client stored nothing yet.        *)
LEMMA UnstoredStep ==
  ASSUME ServingTypeOK, Called, Routed, Pooled, Unstored, Settled, [ServingNext]_servingVars
  PROVE  Unstored'
<1> SUFFICES ASSUME NEW d \in Clients
             PROVE  /\ stage'[d] = "new" => Authored(d)' = {}
                    /\ call'[d].op = "remember" /\ stage'[d] \in {"rerank", "write", "commit"}
                       /\ held'[d] = "live" /\ aim'[d] = NoId
                       /\ Cardinality(Known') <= DedupTopK => Own(d)' = {}
                    /\ call'[d].op = "replace" /\ stage'[d] = "select" => aim'[d] = NoId
                    /\ call'[d].op = "replace" /\ stage'[d] \in Working /\ held'[d] = "live"
                       /\ aim'[d] # NoId => aim'[d] = call'[d].target /\ Authored(d)' = {}
  BY DEF Unstored
<1> DEFINE Goal ==
      /\ stage'[d] = "new" => Authored(d)' = {}
      /\ call'[d].op = "remember" /\ stage'[d] \in {"rerank", "write", "commit"}
         /\ held'[d] = "live" /\ aim'[d] = NoId
         /\ Cardinality(Known') <= DedupTopK => Own(d)' = {}
      /\ call'[d].op = "replace" /\ stage'[d] = "select" => aim'[d] = NoId
      /\ call'[d].op = "replace" /\ stage'[d] \in Working /\ held'[d] = "live"
         /\ aim'[d] # NoId => aim'[d] = call'[d].target /\ Authored(d)' = {}
<1>1. /\ stage \in [Clients -> Working \cup {"new", "done", "failed"}]
      /\ call \in [Clients -> [op : AllOps \cup {"none"}, target : Ids \cup {NoId}]]
      /\ held \in [Clients -> {"none", "live", "dead"}]
      /\ aim \in [Clients -> Ids \cup {NoId}]
  BY DEF ServingTypeOK
<1>2. NoId \notin Ids
  BY DEF NoId, Ids
<1>3. Working \cap {"new", "done", "failed"} = {} /\ {"select", "rerank", "write", "commit"} \subseteq Working
  BY DEF Working, SqlStages, ProviderStages
<1>6. Cardinality(Known') <= DedupTopK => Cardinality(Known) <= DedupTopK
  BY KnownCounts, ServingBounds
<1>4. CASE Commits(d)
  <2>1. stage[d] = "commit"
    BY <1>4 DEF Commits, Runs
  <2> QED BY <1>3, <1>4, <2>1 DEF Commits
<1>5. ASSUME Authored(d)' \subseteq Authored(d), Own(d)' \subseteq Own(d) PROVE Goal
  <2>1. CASE Stands(d)
    BY <1>5, <1>6, <2>1 DEF Stands, Unstored
  <2>2. CASE Begin(d, call'[d]) /\ call'[d] \in [op : AllOps, target : Ids \cup {NoId}]
    <3>1. /\ aim'[d] = NoId /\ stage'[d] = FirstStage(call'[d].op) /\ FirstStage(call'[d].op) \in Working
      BY <1>1, <2>2, BeginShape
    <3>2. call'[d].op = "remember" => FirstStage(call'[d].op) = "embed"
      BY DEF FirstStage
    <3> QED BY <1>3, <3>1, <3>2
  <2>3. CASE PoolTimeout(d) \/ Refused(d) \/ ConnectionLost(d) \/ EmbeddingFails(d) \/ Commit(d)
    <3>1. stage'[d] \in {"done", "failed"}
      BY <1>1, <2>3, EndsShape, RefusedShape DEF PoolTimeout, ConnectionLost, EmbeddingFails, Fails, Commit
    <3> QED BY <1>3, <3>1
  <2>4. CASE Checkout(d)
    <3>1. held[d] = "none" /\ UNCHANGED <<call, stage, aim>> /\ stage[d] \in Working
      BY <2>4, CheckoutShape DEF Checkout, Working
    <3>2. stage[d] \in Undrawn(call[d].op)
      BY <3>1 DEF Routed
    <3>3. call[d].op = "remember" => stage[d] \notin {"rerank", "write", "commit"}
      BY <3>2 DEF Undrawn
    <3>4. call[d].op = "replace" => stage[d] = "select"
      BY <3>2 DEF Undrawn
    <3> QED BY <1>5, <3>1, <3>3, <3>4 DEF Unstored
  <2>5. CASE Embedded(d)
    <3>1. UNCHANGED <<call, held, aim>> /\ stage[d] = "embed" /\ stage[d] \in Working
      BY <2>5 DEF Embedded, OnlyMoves, poolVars, Working, ProviderStages
    <3>2. stage'[d] = IF call[d].op = "remember" THEN "search" ELSE "write"
      BY <1>1, <2>5 DEF Embedded, Goto
    <3> QED BY <1>5, <1>6, <3>1, <3>2 DEF Unstored
  <2>6. CASE Reranked(d) \/ Write(d)
    <3>1. UNCHANGED <<call, held, aim>> /\ stage[d] \in {"rerank", "write"} /\ stage[d] \in Working
      BY <2>6 DEF Reranked, Write, Runs, OnlyMoves, poolVars, Working, ProviderStages, SqlStages
    <3>2. stage'[d] \in {"write", "commit"}
      BY <1>1, <2>6 DEF Reranked, Write, Goto
    <3> QED BY <1>5, <1>6, <3>1, <3>2 DEF Unstored
  <2>7. CASE Select(d)
    <3>1. UNCHANGED <<call, held>> /\ stage[d] = "select" /\ stage[d] \in Working
      BY <2>7 DEF Select, Runs, OnlyMoves, poolVars, Working, SqlStages
    <3>2. call[d].op # "remember"
      BY <3>1 DEF Routed, Route
    <3>3. stage'[d] \in {"embed", "write", "commit"}
      BY <1>1, <2>7 DEF Select, Goto
    <3>4. CASE UNCHANGED aim
      BY <1>5, <3>1, <3>2, <3>3, <3>4 DEF Unstored
    <3>5. CASE call[d].target \in Active /\ aim'[d] = call[d].target
      <4>1. call[d].op = "replace" => Authored(d) = {}
        BY <3>5 DEF Settled, Active, Corpus!Gone
      <4> QED BY <1>5, <3>1, <3>2, <3>3, <3>5, <4>1
    <3> QED BY <1>1, <2>7, <3>4, <3>5 DEF Select
  <2>8. CASE Search(d)
    <3>1. UNCHANGED <<call, held>> /\ stage[d] = "search" /\ stage[d] \in Working
      BY <2>8 DEF Search, Runs, OnlyMoves, poolVars, Working, SqlStages
    <3>2. call[d].op # "replace"
      BY <3>1 DEF Routed, Route
    <3>3. stage'[d] = "rerank"
      BY <1>1, <2>8 DEF Search, Goto
    <3>4. ASSUME aim'[d] = NoId, Cardinality(Known) <= DedupTopK PROVE Own(d) = {}
      <4>1. PICK T \in SUBSET Active :
              /\ Cardinality(Active) <= DedupTopK => Own(d) \subseteq T
              /\ \E e \in IF Own(d) \cap T # {} THEN Own(d) \cap T ELSE T \cup {NoId} :
                   aim' = [aim EXCEPT ![d] = e]
        BY <2>8 DEF Search
      <4>2. Cardinality(Active) <= DedupTopK
        <5>1. Cardinality(Active) <= Cardinality(Known)
          BY CorpusSets, CountsGrow
        <5> QED BY <3>4, <5>1, CorpusSets, IdsFinite, ServingBounds
      <4>3. Own(d) \cap T = {}
        BY <1>1, <1>2, <3>4, <4>1 DEF Active
      <4> QED BY <4>1, <4>2, <4>3
    <3> QED BY <1>5, <1>6, <3>1, <3>2, <3>3, <3>4
  <2>9. CASE CountTotal(d) \/ CountTypes(d) \/ CountStatuses(d)
    <3>1. UNCHANGED <<call, held, aim>> /\ stage[d] \in {"total", "types", "statuses"} /\ stage[d] \in Working
      BY <2>9 DEF CountTotal, CountTypes, CountStatuses, Runs, poolVars, Working, SqlStages
    <3>2. call[d].op \notin {"remember", "replace"}
      BY <3>1 DEF Routed, Route
    <3>3. stage'[d] \in {"types", "statuses", "commit"}
      BY <1>1, <2>9 DEF CountTotal, CountTypes, CountStatuses, Goto
    <3> QED BY <3>1, <3>2, <3>3
  <2>10. ~ (Arrive(d) \/ Retry(d)) \/ (/\ Begin(d, call'[d])
                                      /\ call'[d] \in [op : AllOps, target : Ids \cup {NoId}])
    <3>1. ASSUME Arrive(d) \/ Retry(d) PROVE stage[d] \in {"new", "failed"} /\ stage'[d] \in Working
      BY <3>1, MovesShape DEF Arrive, Retry, MovesOn
    <3>2. ASSUME Retry(d) PROVE call'[d] = call[d] /\ Begin(d, call'[d])
      BY <1>1, <3>2 DEF Retry, Begin
    <3>3. ASSUME Arrive(d) PROVE stage[d] = "new"
      BY <3>3 DEF Arrive
    <3> QED BY <1>1, <1>3, <3>1, <3>2, <3>3, CallsKept DEF Called
  <2> QED BY <2>1, <2>2, <2>3, <2>4, <2>5, <2>6, <2>7, <2>8, <2>9, <2>10, OthersStand DEF Advance
<1> QED BY <1>4, <1>5, StoredKept

(* A replaced target stays retired, whatever its client calls again.       *)
LEMMA SettledStep ==
  ASSUME ServingTypeOK, Called, Routed, Pooled, Unstored, Settled, [ServingNext]_servingVars
  PROVE  Settled'
<1> SUFFICES ASSUME NEW d \in Clients, call'[d].op = "replace", Authored(d)' # {}
             PROVE  call'[d].target \in Ids /\ life'[call'[d].target] \in Corpus!Gone
  BY DEF Settled
<1>1. CASE Commits(d)
  <2>1. /\ stage[d] = "commit" /\ held[d] = "live" /\ call'[d] = call[d]
        /\ stage[d] \in Working
    BY <1>1 DEF Commits, Runs, Working, SqlStages
  <2>2. CASE UNCHANGED corpusVars
    BY <2>1, <2>2, CorpusGrows DEF corpusVars, Settled, Authored
  <2>3. CASE aim[d] \in Ids /\ life'[aim[d]] \in Corpus!Gone
    <3>1. aim[d] # NoId
      BY <2>3 DEF Ids, NoId
    <3> QED BY <2>1, <2>3, <3>1 DEF Unstored
  <2> QED BY <1>1, <2>1, <2>2, <2>3, StoresOne DEF Commits
<1>2. CASE Authored(d)' \subseteq Authored(d)
  <2>1. call'[d] = call[d]
    BY <1>2, CallsKept DEF Unstored
  <2> QED BY <1>2, <2>1, CorpusGrows DEF Settled
<1> QED BY <1>1, <1>2, StoredKept

(* At most one memory is added to none.                                    *)
LEMMA AddedOne ==
  ASSUME NEW S \in SUBSET Ids, NEW n \in Ids, S \subseteq {n}
  PROVE  Cardinality(S) <= 1
<1>1. S = {} \/ S = {n}
  OBVIOUS
<1>2. Cardinality({}) = 0 /\ Cardinality({n}) = 1
  BY FS_EmptySet, FS_Singleton
<1>3. CASE S = {}
  BY <1>2, <1>3
<1>4. CASE S = {n}
  <2>1. Cardinality(S) = 1
    BY <1>2, <1>4, Zenon
  <2> QED BY <2>1
<1> QED BY <1>1, <1>3, <1>4

(* A call made again stores no second memory, where its search sees all.   *)
LEMMA OnceStep ==
  ASSUME ServingTypeOK, Called, Routed, Pooled, Unstored, Settled, RetriesStoreOnce,
         [ServingNext]_servingVars
  PROVE  RetriesStoreOnce'
<1> SUFFICES ASSUME NEW d \in Clients
             PROVE  /\ call'[d].op = "remember" /\ Cardinality(Known') <= DedupTopK + 1 =>
                         Cardinality(Own(d)') <= 1
                    /\ call'[d].op = "replace" => Cardinality(Authored(d)') <= 1
  BY DEF RetriesStoreOnce, Authored
<1>1. /\ Own(d) \in SUBSET Ids /\ Authored(d) \in SUBSET Ids
      /\ Own(d)' \in SUBSET Ids /\ Authored(d)' \in SUBSET Ids
      /\ Own(d) \subseteq Authored(d) /\ Own(d)' \subseteq Authored(d)'
  BY DEF Own, Authored, Active
<1>2. CASE Commits(d)
  <2>1. /\ stage[d] = "commit" /\ held[d] = "live" /\ call'[d] = call[d]
        /\ stage[d] \in Working
    BY <1>2 DEF Commits, Runs, Working, SqlStages
  <2>2. CASE UNCHANGED corpusVars
    <3>1. Own(d)' = Own(d) /\ Authored(d)' = Authored(d)
      BY <2>2 DEF corpusVars, Own, Authored, Active
    <3>2. Known' = Known
      BY <2>2 DEF corpusVars, Known
    <3> QED BY <2>1, <3>1, <3>2 DEF RetriesStoreOnce
  <2>3. ASSUME NEW n \in Ids, Authored(d)' \subseteq Authored(d) \cup {n},
               Own(d)' \subseteq Own(d) \cup {n},
               n \notin Known, n \in Known',
               call[d].op = "remember" => aim[d] = NoId,
               call[d].op = "replace" => aim[d] \in Ids
        PROVE  /\ call'[d].op = "remember" /\ Cardinality(Known') <= DedupTopK + 1 =>
                    Cardinality(Own(d)') <= 1
               /\ call'[d].op = "replace" => Cardinality(Authored(d)') <= 1
    <3>1. call[d].op = "remember" /\ Cardinality(Known') <= DedupTopK + 1 => Own(d)' \subseteq {n}
      <4>1. Cardinality(Known') <= DedupTopK + 1 => Cardinality(Known) <= DedupTopK
        BY <2>3, KnownCounts, ServingBounds
      <4> QED BY <2>1, <2>3, <4>1 DEF Unstored
    <3>2. call[d].op = "replace" => Authored(d)' \subseteq {n}
      BY <2>1, <2>3 DEF Unstored, Ids, NoId
    <3> QED BY <1>1, <2>1, <3>1, <3>2, AddedOne
  <2> QED BY <1>2, <2>2, <2>3, StoresOne DEF Commits
<1>3. CASE Authored(d)' \subseteq Authored(d) /\ Own(d)' \subseteq Own(d)
  <2>1. CASE stage[d] = "new"
    <3>1. Authored(d)' = {} /\ Own(d)' = {}
      BY <1>1, <1>3, <2>1 DEF Unstored
    <3> QED BY <3>1, FS_EmptySet
  <2>2. CASE stage[d] # "new"
    <3>1. call'[d] = call[d]
      BY <2>2, CallsKept
    <3>2. Cardinality(Own(d)') <= Cardinality(Own(d)) /\ Cardinality(Authored(d)') <= Cardinality(Authored(d))
      BY <1>1, <1>3, CountsGrow
    <3>3. /\ Cardinality(Own(d)) \in Int /\ Cardinality(Authored(d)) \in Int
          /\ Cardinality(Own(d)') \in Int /\ Cardinality(Authored(d)') \in Int
      BY <1>1, IdsFinite
    <3>4. /\ call[d].op = "remember" /\ Cardinality(Known') <= DedupTopK + 1 => Cardinality(Own(d)) <= 1
          /\ call[d].op = "replace" => Cardinality(Authored(d)) <= 1
      BY KnownCounts, ServingBounds DEF RetriesStoreOnce
    <3> QED BY <3>1, <3>2, <3>3, <3>4
  <2> QED BY <2>1, <2>2
<1> QED BY <1>2, <1>3, StoredKept

-----------------------------------------------------------------------------
(* What an outage costs.                                                   *)

(* Outages are only ever counted up, and a call that is answered is over.  *)
LEMMA AnsweredStays ==
  ASSUME ServingTypeOK, Pooled, [ServingNext]_servingVars, NEW d \in Clients
  PROVE  /\ outages \in Nat /\ outages' \in Nat /\ outages <= outages'
         /\ stage[d] = "done" => stage'[d] = "done"
<1>1. outages \in Nat /\ (outages' = outages \/ outages' = outages + 1)
  <2>1. outages \in Nat
    BY ServingBounds DEF ServingTypeOK
  <2>2. CASE GoesDown
    BY <2>1, <2>2 DEF GoesDown
  <2>3. CASE ~ GoesDown
    BY <2>1, <2>3, RefusedShape DEF ServingNext, Advance, Rest, servingVars, databaseVars, ComesBack,
       Arrive, Retry, Begin, PoolTimeout, Checkout, ConnectionLost, EmbeddingFails, Fails, Embedded,
       Reranked, Select, Search, Write, CountTotal, CountTypes, CountStatuses, OnlyMoves, Commit
  <2> QED BY <2>2, <2>3
<1>2. ASSUME stage[d] = "done" PROVE stage'[d] = "done"
  <2>1. stage[d] \notin Working \cup {"new", "failed"}
    BY <1>2 DEF Working, SqlStages, ProviderStages
  <2>2. ~ (Arrive(d) \/ Retry(d) \/ Advance(d) \/ PoolTimeout(d))
    BY <2>1 DEF Arrive, Retry, Advance, PoolTimeout, Checkout, Refused, ConnectionLost, Embedded,
       EmbeddingFails, Reranked, Select, Search, Write, CountTotal, CountTypes, CountStatuses, Commit,
       Runs, Waiting, Working, SqlStages, ProviderStages
  <2> QED BY <1>2, <2>2, OthersStand DEF Stands
<1> QED BY <1>1, <1>2

(* A commit stores one memory, and is answered or cut off by an outage.    *)
LEMMA PerOutageStep ==
  ASSUME ServingTypeOK, Pooled, StoredPerOutage, [ServingNext]_servingVars
  PROVE  StoredPerOutage'
<1> SUFFICES ASSUME NEW d \in Clients
             PROVE  Cardinality(Authored(d)') <= outages' + (IF stage'[d] = "done" THEN 1 ELSE 0)
  BY DEF StoredPerOutage
<1>1. /\ Authored(d) \in SUBSET Ids /\ Authored(d)' \in SUBSET Ids
      /\ IsFiniteSet(Authored(d))
      /\ Cardinality(Authored(d)) \in Int /\ Cardinality(Authored(d)') \in Int
  BY IdsFinite DEF Authored
<1>2. Cardinality(Authored(d)) <= outages + (IF stage[d] = "done" THEN 1 ELSE 0)
  BY DEF StoredPerOutage
<1>3. CASE Authored(d)' \subseteq Authored(d)
  <2>1. Cardinality(Authored(d)') <= Cardinality(Authored(d))
    BY <1>1, <1>3, CountsGrow
  <2> QED BY <1>1, <1>2, <2>1, AnsweredStays
<1>4. ASSUME Commits(d), NEW n \in Ids, Authored(d)' \subseteq Authored(d) \cup {n}
      PROVE  Cardinality(Authored(d)') <= outages' + (IF stage'[d] = "done" THEN 1 ELSE 0)
  <2>1. Cardinality(Authored(d)) <= outages
    BY <1>2, <1>4, AnsweredStays DEF Commits, Runs
  <2>2. Cardinality(Authored(d) \cup {n}) <= Cardinality(Authored(d)) + 1
    <3>1. CASE n \in Authored(d)
      <4>1. Authored(d) \cup {n} = Authored(d)
        BY <3>1
      <4>2. Cardinality(Authored(d) \cup {n}) = Cardinality(Authored(d))
        BY <4>1, Zenon
      <4> QED BY <1>1, <4>2
    <3>2. CASE n \notin Authored(d)
      <4>1. Cardinality(Authored(d) \cup {n}) = Cardinality(Authored(d)) + 1
        BY <1>1, <3>2, FS_AddElement, Zenon
      <4> QED BY <1>1, <4>1
    <3> QED BY <3>1, <3>2
  <2>3. Cardinality(Authored(d)') <= Cardinality(Authored(d) \cup {n})
    BY <1>1, <1>4, CountsGrow
  <2>4. outages' + (IF stage'[d] = "done" THEN 1 ELSE 0) >= outages + 1
    BY <1>4, AnsweredStays DEF Commits
  <2>5. Cardinality(Authored(d) \cup {n}) \in Int
    BY <1>1, IdsFinite
  <2> QED BY <1>1, <2>1, <2>2, <2>3, <2>4, <2>5, AnsweredStays
<1>5. UNCHANGED corpusVars => Authored(d)' = Authored(d)
  BY DEF corpusVars, Authored
<1> QED BY <1>3, <1>4, <1>5, StoredKept, StoresOne DEF Commits

-----------------------------------------------------------------------------
(* Statistics.                                                             *)

(* The counts taken so far stay between the corpus of then and of now.     *)
LEMMA CountedStep ==
  ASSUME ServingTypeOK, Called, Routed, Pooled, Counted, [ServingNext]_servingVars
  PROVE  Counted'
<1> DEFINE Bounds(d, stg, n, b, K, G) ==
      /\ b.known \subseteq K /\ b.gone \subseteq G
      /\ stg \in {"types", "statuses", "commit"} =>
           Cardinality(b.known) <= n.total /\ n.total <= Cardinality(K)
      /\ stg \in {"statuses", "commit"} => n.total <= n.types /\ n.types <= Cardinality(K)
      /\ stg \in {"commit"} =>
           /\ n.types <= n.active + n.gone /\ n.active + n.gone <= Cardinality(K)
           /\ Cardinality(b.gone) <= n.gone /\ n.gone <= Cardinality(G)
<1> SUFFICES ASSUME NEW d \in Clients, call'[d].op = "stats", stage'[d] \in Working
             PROVE  Bounds(d, stage'[d], counts'[d], before'[d], Known', Gone')
  BY DEF Counted
<1>1. /\ stage \in [Clients -> Working \cup {"new", "done", "failed"}]
      /\ call \in [Clients -> [op : AllOps \cup {"none"}, target : Ids \cup {NoId}]]
      /\ counts \in [Clients -> [Tally -> 0 .. MaxRows]]
      /\ before \in [Clients -> [known : SUBSET Ids, gone : SUBSET Ids]]
  BY DEF ServingTypeOK
<1>2. Working \cap {"new", "done", "failed"} = {}
  BY DEF Working, SqlStages, ProviderStages
<1>3. /\ Known \in SUBSET Known' /\ Gone \in SUBSET Gone'
      /\ Known' \in SUBSET Ids /\ Gone' \in SUBSET Ids
  BY CorpusGrows DEF Known, Gone, Active
<1>4. /\ Cardinality(Known) <= Cardinality(Known') /\ Cardinality(Gone) <= Cardinality(Gone')
      /\ Cardinality(Known) \in Int /\ Cardinality(Known') \in Int
      /\ Cardinality(Gone) \in Int /\ Cardinality(Gone') \in Int
      /\ Cardinality(Active) \in Int /\ Cardinality(Active) + Cardinality(Gone) = Cardinality(Known)
  BY <1>3, CountsGrow, IdsFinite, CorpusSets, CountsAdd
<1>5. /\ counts[d].total \in Int /\ counts[d].types \in Int
      /\ counts[d].active \in Int /\ counts[d].gone \in Int
  BY <1>1 DEF Tally
<1>6. ASSUME call[d].op = "stats", stage[d] \in Working
      PROVE  Bounds(d, stage[d], counts[d], before[d], Known, Gone)
  BY <1>6 DEF Counted
<1>7. CASE Stands(d)
  <2>1. Bounds(d, stage[d], counts[d], before[d], Known, Gone)
    BY <1>6, <1>7 DEF Stands
  <2> QED BY <1>3, <1>4, <1>5, <1>7, <2>1 DEF Stands
<1>8. CASE Arrive(d) \/ Retry(d)
  <2>1. Begin(d, call'[d]) /\ call'[d] \in [op : AllOps, target : Ids \cup {NoId}]
    <3>1. stage[d] \in {"new", "failed"}
      BY <1>8 DEF Arrive, Retry
    <3>2. ASSUME Retry(d) PROVE call'[d] = call[d] /\ Begin(d, call'[d]) /\ stage[d] = "failed"
      BY <1>1, <3>2 DEF Retry, Begin
    <3>3. ASSUME Arrive(d) PROVE stage[d] = "new"
      BY <3>3 DEF Arrive
    <3> QED BY <1>1, <1>2, <1>8, <3>1, <3>2, <3>3, CallsKept DEF Called
  <2>2. before'[d] = [known |-> Known, gone |-> Gone] /\ stage'[d] = "total"
    BY <1>1, <2>1, BeginShape DEF FirstStage
  <2> QED BY <1>3, <2>2
<1>9. CASE PoolTimeout(d) \/ Refused(d) \/ ConnectionLost(d) \/ EmbeddingFails(d) \/ Commit(d)
  <2>1. stage'[d] \in {"done", "failed"}
    BY <1>1, <1>9, EndsShape, RefusedShape DEF PoolTimeout, ConnectionLost, EmbeddingFails, Fails, Commit
  <2> QED BY <1>2, <2>1
<1>10. CASE Checkout(d)
  <2>1. UNCHANGED <<stage, call, counts, before>>
    BY <1>10 DEF Checkout, historyVars
  <2>2. Bounds(d, stage[d], counts[d], before[d], Known, Gone)
    BY <1>6, <2>1
  <2> QED BY <1>3, <1>4, <1>5, <2>1, <2>2
<1>11. CASE Embedded(d) \/ Reranked(d) \/ Select(d) \/ Search(d) \/ Write(d)
  <2>1. UNCHANGED call /\ stage[d] \in {"embed", "rerank", "select", "search", "write"}
        /\ stage[d] \in Working
    BY <1>11 DEF Embedded, Reranked, Select, Search, Write, Runs, OnlyMoves, Working, SqlStages,
                 ProviderStages
  <2>2. call[d].op # "stats"
    BY <2>1 DEF Routed, Route
  <2> QED BY <2>1, <2>2
<1>12. CASE CountTotal(d) \/ CountTypes(d) \/ CountStatuses(d)
  <2>1. /\ UNCHANGED <<call, before, life>> /\ stage[d] \in {"total", "types", "statuses"}
        /\ stage[d] \in Working
    BY <1>12 DEF CountTotal, CountTypes, CountStatuses, Runs, corpusVars, historyVars, Working,
                 SqlStages
  <2>2. Known' = Known /\ Gone' = Gone
    BY <2>1 DEF Known, Gone, Active
  <2>3. Bounds(d, stage[d], counts[d], before[d], Known, Gone)
    BY <1>6, <2>1
  <2>4. /\ Cardinality(before[d].known) <= Cardinality(Known)
        /\ Cardinality(before[d].gone) <= Cardinality(Gone)
    BY <2>3, CountsGrow, CorpusSets
  <2>5. {"total", "types", "active", "gone"} = Tally
    BY DEF Tally
  <2>6. CASE CountTotal(d)
    <3>1. stage'[d] = "types" /\ counts'[d].total = Cardinality(Known)
      BY <1>1, <2>5, <2>6 DEF CountTotal, Goto
    <3> QED BY <1>4, <2>1, <2>2, <2>3, <2>4, <3>1
  <2>7. CASE CountTypes(d)
    <3>1. /\ stage'[d] = "statuses" /\ counts'[d].types = Cardinality(Known)
          /\ counts'[d].total = counts[d].total /\ stage[d] = "types"
      BY <1>1, <2>5, <2>7 DEF CountTypes, Goto, Runs
    <3> QED BY <1>4, <1>5, <2>1, <2>2, <2>3, <3>1
  <2>8. CASE CountStatuses(d)
    <3>1. /\ stage'[d] = "commit" /\ stage[d] = "statuses"
          /\ counts'[d].active = Cardinality(Active) /\ counts'[d].gone = Cardinality(Gone)
          /\ counts'[d].total = counts[d].total /\ counts'[d].types = counts[d].types
      BY <1>1, <2>5, <2>8 DEF CountStatuses, Goto, Runs
    <3> QED BY <1>4, <1>5, <2>1, <2>2, <2>3, <2>4, <3>1
  <2> QED BY <1>12, <2>6, <2>7, <2>8
<1> QED BY <1>7, <1>8, <1>9, <1>10, <1>11, <1>12, OthersStand DEF Advance

-----------------------------------------------------------------------------
(* The theorems.                                                           *)

(* The invariant holds before the first call.                              *)
LEMMA InitInvariant == ServingInit => ServingIInv
<1> SUFFICES ASSUME ServingInit PROVE ServingIInv
  OBVIOUS
<1> USE ServingBounds DEF ServingInit
<1>1. Working \cap {"new", "done", "failed"} = {} /\ "new" \notin Working
  BY DEF Working, SqlStages, ProviderStages
<1>2. ServingTypeOK
  <2>1. Corpus!TypeOK
    BY DEF Corpus!Init, Corpus!TypeOK, Corpus!Gone, Corpus!Ids, Corpus!NoId
  <2>2. \A c \in Clients : call[c] \in [op : AllOps \cup {"none"}, target : Ids \cup {NoId}]
    BY DEF NoCall
  <2>3. counts \in [Clients -> [Tally -> 0 .. MaxRows]]
    OBVIOUS
  <2>4. before \in [Clients -> [known : SUBSET Ids, gone : SUBSET Ids]]
    OBVIOUS
  <2>5. idle \in [live : 0 .. PoolSize, dead : 0 .. PoolSize]
    OBVIOUS
  <2> QED BY <2>1, <2>2, <2>3, <2>4, <2>5 DEF ServingTypeOK
<1>3. Holding = {} /\ Cardinality(Holding) = 0 /\ Free = 0
  <2>1. Holding = {}
    BY DEF Holding
  <2>2. Cardinality(Holding) = 0
    BY <2>1, FS_EmptySet, Zenon
  <2> QED BY <2>1, <2>2 DEF Free
<1>4. ConnectionsAccounted /\ OutageOverForLater /\ Pooled
  BY <1>3 DEF ConnectionsAccounted, Open, OutageOverForLater, Pooled
<1>5. \A c \in Clients : Authored(c) = {}
  BY DEF Authored
<1>6. RetriesStoreOnce
  BY DEF RetriesStoreOnce, NoCall
<1>8. StoredPerOutage
  <2>1. \A c \in Clients : Cardinality(Authored(c)) = 0
    BY <1>5, FS_EmptySet
  <2>2. outages = 0 /\ \A c \in Clients : stage[c] # "done"
    OBVIOUS
  <2> QED BY <2>1, <2>2 DEF StoredPerOutage
<1>7. Called /\ Routed /\ Unstored /\ Settled /\ Counted
  BY <1>1, <1>5 DEF Called, Routed, Unstored, Settled, Counted, NoCall
<1> QED BY <1>2, <1>4, <1>6, <1>7, <1>8 DEF ServingIInv

(* The invariant of the proofs is preserved by every step.                 *)
THEOREM ServingInvariantHolds == ServingSpec => []ServingIInv
<1>1. ServingIInv /\ [ServingNext]_servingVars => ServingIInv'
  BY TypeStep, AccountedStep, OutageStep, CalledStep, RoutedStep, UnstoredStep, SettledStep,
     OnceStep, PerOutageStep, CountedStep DEF ServingIInv
<1> QED BY <1>1, InitInvariant, PTL DEF ServingSpec

(* Every request, connection and counter keeps its type.                   *)
THEOREM ServingTypeCorrect == ServingSpec => []ServingTypeOK
BY ServingInvariantHolds, PTL DEF ServingIInv

(* Whatever fails, no connection leaks and the pool is never overdrawn.    *)
THEOREM ConnectionsAlwaysAccounted == ServingSpec => []ConnectionsAccounted
BY ServingInvariantHolds, PTL DEF ServingIInv

(* An outage costs no request that draws its connection later.             *)
THEOREM OutageAlwaysOver == ServingSpec => []OutageOverForLater
BY ServingInvariantHolds, PTL DEF ServingIInv

(* Calling again what failed never stores a second replacement, nor, while *)
(* the duplicate search compares with all there is, a second memory.       *)
THEOREM RetriesAlwaysStoreOnce == ServingSpec => []RetriesStoreOnce
BY ServingInvariantHolds, PTL DEF ServingIInv

(* Every memory stored in excess of the answers is the price of an outage. *)
THEOREM AlwaysStoredPerOutage == ServingSpec => []StoredPerOutage
BY ServingInvariantHolds, PTL DEF ServingIInv

(* Statistics are off by no more than what changed while they were taken.  *)
THEOREM StatsAlwaysBracketed == ServingSpec => []StatsBracketed
<1>1. ServingIInv => StatsBracketed
  BY DEF ServingIInv, Counted, StatsBracketed, Runs, Working, SqlStages
<1> QED BY <1>1, ServingInvariantHolds, PTL
=============================================================================
